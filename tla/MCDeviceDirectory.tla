------------------------- MODULE MCDeviceDirectory --------------------------
(* Small instances of enrolment and revocation.                              *)
EXTENDS DeviceDirectory

CONSTANTS d1, d2, u1, p1, p2

Body(op, d, p) == [op |-> op, dev |-> d, who |-> u1, proof |-> p, wrong |-> "none"]
Begin(d)       == Body("start", d, 0)
Finish(d)      == Body("redeem", d, 0)
AdoptBy(d)     == Body("adopt", d, 0)
Operator       == Body("auth", d1, 0)
Wrong(b, why)  == [b EXCEPT !.wrong = why]

Calm(past, bodies, n) ==
    [past |-> past, bodies |-> bodies, reqs |-> n, faults |-> 0, restarts |-> 0,
     rotations |-> 0, ticks |-> 0, revokes |-> 0]

EnrolScenarios ==
    { (* 1: from nothing to a certificate, with calls that fail                *)
      [Calm({}, {Begin(d1), Finish(d1)}, 2) EXCEPT !.faults = 1],
      (* 2: one mailed code, presented three times                             *)
      [Calm({Begin(d1)}, {Finish(d1)}, 3) EXCEPT !.faults = 1],
      [Calm({Begin(d1)}, {Finish(d1)}, 2) EXCEPT !.restarts = 1, !.faults = 1],
      [Calm({Begin(d1)}, {Finish(d1)}, 2) EXCEPT !.ticks = 2],
      (* 5: a key rotated under a ceremony                                     *)
      [Calm({Begin(d1)}, {Begin(d1), Finish(d1)}, 2) EXCEPT !.rotations = 1, !.faults = 1],
      (* another device's token, and malformed requests                        *)
      Calm({Begin(d1)}, {Finish(d1), Finish(d2), Wrong(Finish(d1), "malformed")}, 2),
      (* 7: an operator's code, adopted by two devices                         *)
      Calm({Operator}, {AdoptBy(d1), AdoptBy(d2), Finish(d1), Finish(d2)}, 4),
      [Calm({Begin(d1)}, {Operator, AdoptBy(d2)}, 2) EXCEPT !.faults = 1],
      (* 9: an authenticator attached and confirmed, and a revocation          *)
      [Calm({Begin(d1), Finish(d1)}, {Body("register", d1, p1), Body("register", d1, p2)}, 2)
         EXCEPT !.revokes = 1, !.faults = 1],
      [Calm({Begin(d1), Finish(d1)}, {Body("register", d1, p1), Body("confirm", d1, p2)}, 3)
         EXCEPT !.revokes = 1],
      (* more revocations than slots, while the device enrols                  *)
      [Calm({Begin(d1)}, {Finish(d1)}, 1) EXCEPT !.revokes = 2, !.faults = 1, !.restarts = 1],
      (* three starts at once: mail and slots are full                         *)
      Calm({}, {Begin(d1)}, 3) }

(* The operator's code, guessed wrong and used after its time.               *)
LateScenarios == {[Calm({Operator}, {AdoptBy(d1), Finish(d1)}, 4) EXCEPT !.ticks = 2]}
=============================================================================
