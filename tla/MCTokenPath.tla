---------------------------- MODULE MCTokenPath -----------------------------
(* Small instances of the path to a token.                                   *)
EXTENDS TokenPath

CONSTANTS d1, d2

Body(via, d, p) == [via |-> via, dev |-> d, proof |-> p, otp |-> "none", wrong |-> "none"]
Wrong(b, why)   == [b EXCEPT !.wrong = why]
Code(b, c)      == [b EXCEPT !.otp = c]

Calm(bodies, n) ==
    [bodies |-> bodies, reqs |-> n, faults |-> 0, restarts |-> 0, flaps |-> 0,
     drops |-> {}, revokes |-> {}]

PathScenarios ==
    { (* 1: one proof at both doors, with calls that fail and a restart        *)
      [Calm({Body("http", d1, 1), Body("grant", d1, 1)}, 2) EXCEPT !.faults = 1, !.restarts = 1],
      [Calm({Body("grant", d1, 1)}, 3) EXCEPT !.faults = 1],
      (* 3: a device revoked while it asks, and codes                          *)
      [Calm({Body("http", d1, 0), Body("grant", d2, 0)}, 2)
         EXCEPT !.revokes = {d1, d2}, !.faults = 1],
      Calm({Code(Body("http", d1, 0), "right"), Code(Body("grant", d1, 0), "wrong"),
            Wrong(Body("http", d1, 0), "method"), Wrong(Body("http", d1, 0), "authority"),
            Wrong(Body("http", d1, 0), "bare"), Wrong(Body("grant", d1, 0), "bare")}, 2),
      (* 5: one more than the slots and the replay window take                 *)
      Calm({Body("http", d1, 0)}, 5),
      Calm({Body("grant", d1, 0)}, 5),
      (* 7: links that go down and stay down                                   *)
      [Calm({Body("http", d1, 0)}, 3) EXCEPT !.drops = {"mint", "admit"}, !.flaps = 1],
      [Calm({Body("grant", d1, 0)}, 3) EXCEPT !.drops = {"grant"}, !.flaps = 1],
      (* 9: one link that comes back                                           *)
      [Calm({Body("grant", d1, 0)}, 1) EXCEPT !.drops = {"grant"}, !.flaps = 2] }

(* More requests at once than the replay window remembers.                   *)
FullScenarios == {Calm({Body("grant", d1, 0)}, 3)}

(* The mint's link goes down and comes back.                                 *)
FlapScenarios ==
    {[Calm({Body("http", d1, 0)}, 1) EXCEPT !.drops = {"mint"}, !.flaps = 2]}
=============================================================================
