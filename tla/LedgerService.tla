---------------------------- MODULE LedgerService ----------------------------
(***************************************************************************)
(* What the durable identity ledger promises its callers, whatever the     *)
(* backend: a set of single-key conditional registers.  Every request      *)
(* takes effect at most once, at one instant between the call and its one  *)
(* reply, and only while its precondition holds; the reply's status says   *)
(* what happened at that instant.                                          *)
(*                                                                         *)
(*   ok           the write took effect, or the read saw the record        *)
(*   conflict     at some instant of the call the precondition was false,  *)
(*                and the write did not and will not take effect           *)
(*   not_found    at some instant of the call the key was absent           *)
(*   retained,                                                             *)
(*   malformed    the write did not and will not take effect               *)
(*   unavailable  nothing is promised of the past, but the request will    *)
(*                not take effect any more                                 *)
(*                                                                         *)
(* A restart or a failover may take a register back to an older revision   *)
(* and may silence the calls in progress, but never takes back a write of  *)
(* a durable key that was acknowledged.                                    *)
(***************************************************************************)
EXTENDS Naturals

CONSTANTS Ids, Keys, Values, NoVal, DurableKeys

VARIABLES
    reg,      \* key -> [rev, val, present]: the register and its revision
    call,     \* id  -> [phase, req, at]: where each request stands, and the
              \*        revision it wrote while that is not answered yet
    kept      \* key -> the highest revision acknowledged as durable

svars == <<reg, call, kept>>

NoReq  == [op |-> "none"]
NoCall == [phase |-> "idle", req |-> NoReq, at |-> 0]
Absent == [rev |-> 0, val |-> NoVal, present |-> FALSE]

Final == {"ok", "not_found", "malformed", "full", "conflict", "unavailable",
          "retained"}

(* The precondition a write names: absent, or unchanged since revision etag. *)
Pre(r, rec) ==
    IF r.op = "put_abs" THEN ~rec.present
                        ELSE rec.present /\ rec.rev = r.etag

IsWrite(r) == r.op \in {"put_abs", "cas", "delete"}

After(r, n) == IF r.op = "delete"
                 THEN [rev |-> n, val |-> NoVal, present |-> FALSE]
                 ELSE [rev |-> n, val |-> r.val, present |-> TRUE]

SInit == /\ reg  = [k \in Keys |-> Absent]
         /\ call = [i \in Ids |-> NoCall]
         /\ kept = [k \in Keys |-> 0]

Invoke(i) ==
    /\ call[i].phase = "idle"
    /\ call'[i].phase = "open" /\ call'[i].at = 0
    /\ call' = [call EXCEPT ![i] = call'[i]]
    /\ UNCHANGED <<reg, kept>>

(* The write takes effect: once, and only under its precondition.          *)
TakeEffect(i) ==
    LET r == call[i].req
        n == reg'[r.key].rev
    IN
    /\ call[i].phase = "open" /\ IsWrite(r)
    /\ Pre(r, reg[r.key])
    /\ n > reg[r.key].rev
    /\ reg' = [reg EXCEPT ![r.key] = After(r, n)]
    /\ call' = [call EXCEPT ![i].phase = "applied", ![i].at = n]
    /\ UNCHANGED kept

(* An instant decides the call without a change of its own: the write is   *)
(* refused because its precondition is false, a read or a delete finds the *)
(* key absent, a read sees the record.                                     *)
Decided(r, rec) ==
    {phase \in {"refused", "absent", "observed", "not_found"} :
        \/ phase = "refused"  /\ IsWrite(r) /\ ~Pre(r, rec)
        \/ phase = "absent"   /\ r.op \in {"delete", "get"} /\ ~rec.present
        \/ phase = "observed" /\ r.op = "get" /\ rec.present
        \/ phase = "not_found" /\ r.op = "get" /\ ~rec.present}

Decide(i) ==
    /\ call[i].phase = "open"
    /\ call'[i].phase \in Decided(call[i].req, reg[call[i].req.key])
    /\ call' = [call EXCEPT ![i].phase = call'[i].phase]
    /\ UNCHANGED <<reg, kept>>

(* The one reply.  Which statuses a phase allows is the promise.           *)
May(phase) ==
    CASE phase = "open"     -> {"unavailable", "malformed", "retained"}
      [] phase = "applied"  -> {"ok", "unavailable"}
      [] phase = "observed" -> {"ok", "unavailable"}
      [] phase = "refused"  -> {"conflict", "unavailable"}
      [] phase = "absent"   -> {"not_found", "unavailable"}
      [] OTHER              -> {}

Answer(i, status) ==
    LET r == call[i].req IN
    /\ status \in May(call[i].phase)
    /\ call' = [call EXCEPT ![i].phase = status, ![i].at = 0]
    /\ kept' = IF status = "ok" /\ r.op \in {"put_abs", "cas"}
                     /\ r.key \in DurableKeys /\ call[i].at > kept[r.key]
                  THEN [kept EXCEPT ![r.key] = call[i].at] ELSE kept
    /\ UNCHANGED reg

(* Another holder of the store changes a register.                         *)
Elsewhere(k) ==
    /\ reg'[k].rev > reg[k].rev
    /\ reg' = [reg EXCEPT ![k] = reg'[k]]
    /\ UNCHANGED <<call, kept>>

(* A restart or a failover.                                                *)
Lose ==
    /\ \A k \in Keys : kept[k] <= reg'[k].rev /\ reg'[k].rev <= reg[k].rev
    /\ \/ UNCHANGED call
       \/ call' = [i \in Ids |-> IF call[i].phase \in Final THEN call[i] ELSE NoCall]
    /\ UNCHANGED kept

SNext ==
    \/ \E i \in Ids : \/ Invoke(i) \/ TakeEffect(i) \/ Decide(i)
                      \/ \E status \in Final : Answer(i, status)
    \/ \E k \in Keys : Elsewhere(k)
    \/ Lose

SSpec == SInit /\ [][SNext]_svars
=============================================================================
