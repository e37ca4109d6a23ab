--------------------------- MODULE MCKeyRotation ----------------------------
(* Small instances of a key's life.                                          *)
EXTENDS KeyRotation

CONSTANTS i1, ka, kb, kc, kd

Key(c)   == [iss |-> i1, kid |-> c]
KeyNames == {Key(ka), Key(kb), Key(kc), Key(kd)}

Calm(added) ==
    [keys |-> added, after |-> 0, rollback |-> {}, ticks |-> 1, tokens |-> 1, restarts |-> 0,
     putoffs |-> 0]

Two   == Key(ka) :> "active" @@ Key(kb) :> "added"
Four  == Two @@ Key(kc) :> "added" @@ Key(kd) :> "added"

RotationScenarios ==
    { (* 1: one rotation, to the removal of the outgoing key                   *)
      [Calm(Two) EXCEPT !.ticks = 4, !.tokens = 2, !.putoffs = 1],
      (* 2: taken back before the outgoing key is retired                      *)
      [Calm(Two) EXCEPT !.rollback = {"outgoing"}, !.ticks = 2],
      (* 3: a mint that restarts during it, and keys that do not open again    *)
      [Calm(Two) EXCEPT !.restarts = 1, !.ticks = 2, !.putoffs = 1],
      (* 4: the incoming key is dated                                          *)
      [Calm(Two) EXCEPT !.after = 2, !.ticks = 2, !.rollback = {"outgoing"}, !.putoffs = 1],
      (* 5: four keys, more than the mint holds or the set publishes          *)
      [Calm(Four) EXCEPT !.tokens = 0, !.ticks = 0] }

LateScenarios == {[Calm(Two) EXCEPT !.rollback = {"outgoing", "retired"}, !.ticks = 4]}
=============================================================================
