---------------------------- MODULE LedgerClient ----------------------------
(***************************************************************************)
(* The ledger as the services that use it see it: what LedgerService says  *)
(* one call may do, as one step.  A ledger is a function from keys to      *)
(* records; a request names the record it expects at its key, and the      *)
(* ledger decides it at some instant, or fails it, having applied it or    *)
(* not.                                                                    *)
(*                                                                         *)
(* An etag is the record it was read with.  Every record these services    *)
(* write differs from the ones before it under the same key (a generation, *)
(* a fresh id, a flag that is set once), so the two say the same.          *)
(***************************************************************************)
EXTENDS Naturals

Nothing == [kind |-> "none"]

Get(k)                 == [op |-> "get", key |-> k, old |-> Nothing, new |-> Nothing]
PutIfAbsent(k, v)      == [op |-> "put", key |-> k, old |-> Nothing, new |-> v]
CompareAndSwap(k, r, v) == [op |-> "cas", key |-> k, old |-> r, new |-> v]
Delete(k, r)           == [op |-> "delete", key |-> k, old |-> r, new |-> Nothing]

Applied(led, q) == [led EXCEPT ![q.key] = q.new]

Outcome(status, val, led) == [status |-> status, val |-> val, led |-> led]

(* What a ledger that is well may answer.  The lattice lane drops a        *)
(* delete's guard, so a delete of a present record may go through although *)
(* the record is not the one its caller read.                              *)
Decided(led, q) ==
    LET cur == led[q.key] IN
    CASE q.op = "get" /\ cur # Nothing   -> {Outcome("ok", cur, led)}
      [] q.op = "get" /\ cur = Nothing   -> {Outcome("not_found", Nothing, led)}
      [] q.op # "get" /\ cur = q.old /\ q.old # q.new ->
            {Outcome("ok", Nothing, Applied(led, q))}
      [] q.op = "delete" /\ cur = Nothing -> {Outcome("not_found", Nothing, led)}
      [] q.op = "delete" /\ cur \notin {q.old, Nothing} ->
            {Outcome("conflict", Nothing, led), Outcome("ok", Nothing, Applied(led, q))}
      [] OTHER                            -> {Outcome("conflict", Nothing, led)}

(* What a ledger in trouble may answer: a store's hold on a record that is *)
(* there, or nothing certain.                                              *)
Failed(led, q) ==
    LET cur == led[q.key] IN
    {Outcome("unavailable", Nothing, led)}
    \cup (IF q.op # "get" /\ cur = q.old
            THEN {Outcome("unavailable", Nothing, Applied(led, q))} ELSE {})
    \cup (IF q.op \in {"cas", "delete"} /\ cur # Nothing
            THEN {Outcome("retained", Nothing, led)} ELSE {})
=============================================================================
