---------------------------- MODULE RatchetState ----------------------------
(***************************************************************************)
(* The ratchet-state endpoint's table (e2ee_state_endpoint/mod.rs): for    *)
(* each endpoint of a device, the position last committed and how many     *)
(* commits there were.  A commit names the revision it was made from and   *)
(* must move the position forward; one that moves it back from the current *)
(* revision stops the endpoint.                                            *)
(*                                                                         *)
(* A key is the sequence of its device's id and a group; a payload is      *)
(* named for the exchange that committed it.                               *)
(***************************************************************************)
EXTENDS Naturals, Sequences, FiniteSets, SequencesExt, Functions

CONSTANT MaxEndpoints       \* MAX_ENDPOINTS

VARIABLE states             \* states[k]: of the endpoints that were committed to

(* advances_on.                                                            *)
AdvancesOn(m, old) == m.epoch > old.epoch \/ (m.epoch = old.epoch /\ m.gen > old.gen)

(* owns: an endpoint belongs to the device whose id it starts with.        *)
Owns(dev, key) == IsPrefix(<<dev>>, key)

(* find, or what a miss is evaluated as.                                   *)
Found(k) == IF k \in DOMAIN states THEN states[k]
            ELSE [revision |-> 0, marker |-> [epoch |-> 0, gen |-> 0], of |-> 0, poisoned |-> FALSE]

Malformed(b) == b.wrong = "malformed"

(* load.                                                                   *)
LoadState(b) ==
    LET f == Found(b.key)
    IN [states |-> states,
        says   |-> CASE Malformed(b)                            -> [status |-> "malformed"]
                     [] ~Malformed(b) /\ ~Owns(b.dev, b.key)    -> [status |-> "forbidden"]
                     [] ~Malformed(b) /\ Owns(b.dev, b.key) /\ f.poisoned -> [status |-> "poisoned"]
                     [] OTHER -> [status |-> "loaded", revision |-> f.revision,
                                  marker |-> f.marker, of |-> f.of]]

Says(status) == [says |-> [status |-> status], states |-> states]

(* Mutant: a commit that lost a race is taken if it moves forward.         *)
MutSuperseded(b, f) == FALSE

(* The condition, before what the commit says of advancing.                *)
Superseded(b, f) == b.expected # f.revision

(* commit: nothing is allocated until the commit has been found good.      *)
CommitState(x, b) ==
    LET f == Found(b.key)
    IN CASE Malformed(b)        -> Says("malformed")
         [] ~Malformed(b) /\ ~Owns(b.dev, b.key) -> Says("forbidden")
         [] OTHER ->
              IF f.poisoned THEN Says("poisoned")
              ELSE IF Superseded(b, f) THEN Says("superseded")
              ELSE IF f.revision > 0 /\ b.marker = f.marker THEN Says("not_advancing")
              ELSE IF f.revision > 0 /\ ~AdvancesOn(b.marker, f.marker)
                THEN [says   |-> [status |-> "rolled_back"],
                      states |-> [states EXCEPT ![b.key] = [f EXCEPT !.poisoned = TRUE]]]
              ELSE IF b.key \notin DOMAIN states /\ Cardinality(DOMAIN states) = MaxEndpoints
                THEN Says("unavailable")
              ELSE [says   |-> [status |-> "committed", revision |-> f.revision + 1],
                    states |-> [k \in DOMAIN states \cup {b.key} |->
                                  IF k # b.key THEN states[k]
                                  ELSE [revision |-> f.revision + 1, marker |-> b.marker,
                                        of |-> x, poisoned |-> FALSE]]]
=============================================================================
