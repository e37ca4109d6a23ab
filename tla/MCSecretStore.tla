--------------------------- MODULE MCSecretStore ----------------------------
(* Small instances of the secret store.                                      *)
EXTENDS SecretStore

Put(i, ver, size) == [op |-> "put", id |-> i, ver |-> ver, size |-> size]
Ask(op, i)        == [op |-> op, id |-> i]

Calm(bodies, n) ==
    [bodies |-> bodies, reqs |-> n, keks |-> 1, faults |-> 0, restarts |-> 0, clock |-> TRUE,
     pace |-> 1, absent |-> FALSE]

SecretScenarios ==
    { (* 1: rewrites torn by restarts, records that grow and shrink            *)
      [Calm({Put("a", 0, 1), Put("a", 0, 2), Put("b", 0, 1), Ask("get", "a")}, 4)
         EXCEPT !.restarts = 2],
      (* 2: a provider that fails                                              *)
      [Calm({Put("a", 0, 1), Put("b", 0, 2), Ask("get", "a")}, 3)
         EXCEPT !.faults = 2, !.restarts = 1],
      (* 3: rotations, and another key                                         *)
      [Calm({Put("a", 3, 1), Ask("rotate", "a"), Ask("derive", "a")}, 4)
         EXCEPT !.keks = 2, !.restarts = 1],
      (* 4: no provider, a full table, requests that are refused               *)
      [Calm({Put("a", 0, 1), Put("b", 0, 1), Put("c", 0, 1), Put("bad", 0, 1), Ask("get", "bad"),
             Ask("rotate", "b"), Ask("list", "bad"), Ask("list", "a")}, 4)
         EXCEPT !.absent = TRUE, !.restarts = 1] }

(* Starts before the wall clock is set, and seals that come faster than it   *)
(* moves.                                                                    *)
ClockScenarios ==
    { [Calm({Put("a", 0, 1)}, 3) EXCEPT !.restarts = 2, !.clock = FALSE],
      [Calm({Put("a", 0, 1), Ask("rotate", "a")}, 3) EXCEPT !.restarts = 2, !.pace = 0] }

AllScenarios == SecretScenarios \cup ClockScenarios
=============================================================================
