----------------------------- MODULE MCAuthCode -----------------------------
(* Small instances of the authorization-code flow.                           *)
EXTENDS AuthCode

CONSTANTS d1, c1, c2, p1, p2, v1, v2

Home(c) == <<"home", c>>

Authorize(p, c, r) ==
    [op |-> "authorize", dev |-> d1, proof |-> p, client |-> c, ruri |-> r,
     challenge |-> S256(v1), nonce |-> p, wrong |-> "none"]
Exchange(c, r, v) ==
    [op |-> "exchange", client |-> c, ruri |-> r, verifier |-> v, wrong |-> "none"]
Wrong(b, why) == [b EXCEPT !.wrong = why]

Good     == Exchange(c1, Home(c1), v1)
Seed(n)  == [code |-> n, rec |-> CodeRec(Authorize(p1, c1, Home(c1)), ClientRec(c1))]

(* A scenario in which nothing fails.                                        *)
Calm(bodies, n, codes) ==
    [bodies |-> bodies, reqs |-> n, codes |-> codes, drops |-> {}, lapse |-> FALSE,
     faults |-> 0, outages |-> 0, restarts |-> 0]

Faulty(s, f)    == [s EXCEPT !.faults = f]
Down(s)         == [s EXCEPT !.outages = 1]
Dropping(s)     == [s EXCEPT !.drops = {d1}]
Lapsing(s)      == [s EXCEPT !.lapse = TRUE]
Restarting(s)   == [s EXCEPT !.restarts = 1]

FlowScenarios ==
    { (* from a proof to tokens, with a call that fails                        *)
      Faulty(Calm({Authorize(p1, c1, Home(c1)), Good}, 3, {}), 1),
      (* one proof twice, a full window, a restart                             *)
      Faulty(Calm({Authorize(p1, c1, Home(c1)), Authorize(p2, c1, Home(c1))}, 3, {}), 1),
      Restarting(Faulty(Calm({Authorize(p1, c1, Home(c1))}, 3, {}), 1)),
      (* one code, three exchanges                                             *)
      Calm({Good}, 3, {Seed(11)}),
      Faulty(Lapsing(Calm({Good}, 2, {Seed(11)})), 2),
      Restarting(Faulty(Calm({Good}, 3, {Seed(11)}), 1)),
      (* a client, a redirect, a verifier that are not the code's              *)
      Calm({Good, Exchange(c2, Home(c1), v1), Exchange(c1, Home(c2), v1),
            Exchange(c1, Home(c1), v2), Wrong(Good, "malformed")}, 2, {Seed(11)}),
      Calm({Authorize(p1, c1, Home(c2)), Wrong(Authorize(p1, c1, Home(c1)), "no_pkce"),
            Wrong(Authorize(p1, c1, Home(c1)), "not_bound")}, 2, {}),
      (* the device is dropped; the mint's link fails                          *)
      Dropping(Faulty(Calm({Good}, 3, {Seed(11)}), 1)),
      Down(Calm({Good}, 3, {Seed(11), Seed(12)})) }

(* Three exchanges of three codes.                                           *)
CrowdScenarios == {Calm({Good}, 3, {Seed(11), Seed(12), Seed(13)})}
=============================================================================
