---------------------------- MODULE LatticeLedger ----------------------------
(***************************************************************************)
(* security_state on its `lattice' backend: a request is parked in one of  *)
(* a few slots under a fresh correlation id while its frame travels to the *)
(* replicated store and back.  Frames are decided and answered in any      *)
(* order, an answer may be lost or come twice, and other nodes write the    *)
(* same store.                                                             *)
(*                                                                         *)
(* A record's expiry travels inside its value and is judged by the reader  *)
(* against the clock it can see.                                           *)
(***************************************************************************)
EXTENDS StateWire, Sequences, FiniteSets, FiniteSetsExt

CONSTANTS
    Clients, Keys, Values,
    NsOf,          \* key -> namespace
    NoVal,
    Authority,     \* what the graph declared
    LaneWired,     \* are both ends of the kv lane connected
    Ops,           \* operations the clients use
    Expiries,      \* expiry instants the clients use; 0 is none
    Durabilities,  \* durability classes the lane may report of a write
    ClockMayFail,  \* can the platform be without a wall clock
    MaxPending,    \* slots in kv_pending
    MaxReqs,       \* bound: requests per client
    MaxOther,      \* bound: writes by other nodes
    MaxTime,       \* bound: the wall clock
    MaxFaults,     \* bound: answers lost or delivered twice
    MaxFail,       \* bound: failovers of the store
    ReplyCap       \* frames the replies channel holds

ASSUME LatticeKeys == NsOf \in [Keys -> Namespaces \cup {"unknown"}]
ASSUME LatticeOps  == Ops \subseteq {"get", "put_abs", "cas", "delete", "junk"}
                      /\ NoVal \notin Values /\ Expiries \subseteq Nat
ASSUME LatticeBounds == /\ MaxPending \in Nat \ {0} /\ ReplyCap \in Nat \ {0}
                        /\ MaxReqs \in Nat /\ Durabilities \subseteq DurabilityClasses

VARIABLES
    probed, unavailable,  \* decided once, on the first step
    requests,             \* the requests channel
    kvPending,            \* parked requests: [corr, req]
    nextCorr,             \* next_kv_corr
    lane,                 \* frames sent to the store and not decided
    answers,              \* the store's answers not drained yet
    store, durable,       \* records, and what survives a failover
    rev,                  \* the store's revision counter
    now,                  \* the wall clock
    replies, seen,        \* replies written to the channel; those taken from it
    taken,                \* requests the module decoded
    sent, view,           \* clients: requests sent; etag last learned per key
    others, faults, fails \* bounded counters

lmodule == <<probed, unavailable, requests, kvPending, nextCorr>>
lstore  == <<store, durable, rev>>
lclient == <<seen, sent, view>>
count   == <<others, faults, fails>>
vars    == <<lmodule, lane, answers, lstore, now, replies, taken, lclient, count>>

Ids   == Clients \X (1 .. MaxReqs)
Results == {"OK", "NOT_FOUND", "EXISTS", "CAS_FAILED", "ERROR"}
NoRec == [rev |-> 0, val |-> NoVal, exp |-> 0, present |-> FALSE]

Removed(n) == [rev |-> n, val |-> NoVal, exp |-> 0, present |-> FALSE]

CanWrite == Cardinality(replies \ seen) < ReplyCap

(***************************************************************************)
(* Clients.                                                                *)
(***************************************************************************)
Send(c, op, k, v, x) ==
    /\ op \in Ops /\ sent[c] < MaxReqs
    /\ sent' = [sent EXCEPT ![c] = @ + 1]
    /\ requests' = Append(requests,
          [id |-> <<c, sent[c] + 1>>, op |-> op, key |-> k, val |-> v, exp |-> x,
           etag |-> IF op \in {"cas", "delete"} THEN view[c][k] ELSE 0])
    /\ UNCHANGED <<probed, unavailable, kvPending, nextCorr, lane, answers,
                   lstore, now, replies, taken, seen, view, count>>

Receive(m) ==
    /\ m \in replies \ seen
    /\ seen' = seen \cup {m}
    /\ view' = IF m.status = "ok" /\ m.etag # 0
                 THEN [view EXCEPT ![m.req.id[1]][m.req.key] = m.etag] ELSE view
    /\ UNCHANGED <<lmodule, lane, answers, lstore, now, replies, taken, sent, count>>

(***************************************************************************)
(* The module.                                                             *)
(***************************************************************************)
Msg(r, status) == [req |-> r, status |-> status, etag |-> 0, val |-> NoVal]

(* write_out: a channel that will not take the frame drops it.             *)
Reply(m) == replies' = IF CanWrite THEN replies \cup {m} ELSE replies

Probe ==
    /\ ~probed
    /\ probed' = TRUE
    /\ unavailable' = (Authority = "undeclared" \/ ~LaneWired)
    /\ UNCHANGED <<requests, kvPending, nextCorr, lane, answers, lstore, now,
                   replies, taken, lclient, count>>

Draining == probed /\ requests # <<>> /\ CanWrite

(* The guard of a compare-and-swap is the revision its etag encodes; a     *)
(* create is the witness 0.  An etag that encodes nothing is malformed.    *)
Witness(r) == IF r.op = "put_abs" THEN 0 ELSE r.etag

Malformed(r) == ~NamespacePrefix(NsOf[r.key]) \/ (r.op = "cas" /\ r.etag = 0)

NoSlot == Cardinality(kvPending) >= MaxPending

(* A payload that does not decode has no correlation id to answer.         *)
DropMalformed ==
    /\ Draining /\ Head(requests).op = "junk"
    /\ requests' = Tail(requests)
    /\ UNCHANGED <<probed, unavailable, kvPending, nextCorr, lane, answers,
                   lstore, now, replies, taken, lclient, count>>

(* Answered without a frame: no ledger, no such namespace, every slot      *)
(* taken, a guard that encodes no revision, or a lane that will not take   *)
(* the frame.                                                              *)
RefuseRequest ==
    LET r == Head(requests) IN
    /\ Draining /\ r.op # "junk"
    /\ \E status \in {"unavailable", "malformed"} :
          /\ IF unavailable THEN status = "unavailable"
             ELSE IF ~NamespacePrefix(NsOf[r.key]) THEN status = "malformed"
             ELSE IF NoSlot THEN status = "unavailable"
             ELSE Malformed(r) => status = "malformed"
          /\ status = "malformed" => Malformed(r)
          /\ Reply(Msg(r, status))
    /\ requests' = Tail(requests)
    /\ taken' = taken \cup {r}
    /\ UNCHANGED <<probed, unavailable, kvPending, nextCorr, lane, answers,
                   lstore, now, lclient, count>>

(* encode_request.  A DELETE frame carries the key alone.                  *)
Frame(corr, r) ==
    [corr |-> corr, op |-> r.op, key |-> r.key, val |-> r.val, exp |-> r.exp,
     witness |-> IF r.op \in {"put_abs", "cas"} THEN Witness(r) ELSE 0]

(* Mutant: the correlation id is not advanced.                             *)
MutKvRequest ==
    LET r == Head(requests) IN
    /\ Draining /\ r.op # "junk"
    /\ ~unavailable /\ ~NoSlot /\ ~Malformed(r)
    /\ requests' = Tail(requests)
    /\ taken' = taken \cup {r}
    /\ kvPending' = kvPending \cup {[corr |-> nextCorr, req |-> r]}
    /\ lane' = lane \cup {Frame(nextCorr, r)}
    /\ UNCHANGED <<probed, unavailable, nextCorr, answers, lstore, now, replies,
                   lclient, count>>

(* kv_request: the frame is sent under a fresh correlation id and the      *)
(* caller parked.                                                          *)
KvRequest ==
    LET r == Head(requests) IN
    /\ Draining /\ r.op # "junk"
    /\ ~unavailable /\ ~NoSlot /\ ~Malformed(r)
    /\ requests' = Tail(requests)
    /\ taken' = taken \cup {r}
    /\ kvPending' = kvPending \cup {[corr |-> nextCorr, req |-> r]}
    /\ lane' = lane \cup {Frame(nextCorr, r)}
    /\ nextCorr' = nextCorr + 1
    /\ UNCHANGED <<probed, unavailable, answers, lstore, now, replies, lclient, count>>

(* The reading now_for(ReplayRecordExpiry) gives: the decision needs only  *)
(* a monotonic duration, so a platform with no wall clock still answers,   *)
(* with unix_seconds 0.                                                    *)
NowForReplayRecord == {now} \cup (IF ClockMayFail THEN {0} ELSE {})

(* Record::decode.                                                         *)
Expired(exp, t) == exp # 0 /\ t >= exp

(* Mutant: a weak commit is acknowledged.                                  *)
MutWriteStatus(a, r) == ToStatus(a.result)

(* A write is acknowledged only at the durability its namespace needs.     *)
WriteStatus(a, r) ==
    IF ToStatus(a.result) = "ok"
       /\ ~FenceSatisfies(NsOf[r.key], ToFence(a.durability), Authority = "replicated")
    THEN "unavailable" ELSE ToStatus(a.result)

(* What a drained answer tells its caller.                                 *)
Answered(a, r, t) ==
    CASE r.op # "get" /\ WriteStatus(a, r) = "ok" ->
            [Msg(r, "ok") EXCEPT !.etag = a.rev]
      [] r.op # "get" -> Msg(r, WriteStatus(a, r))
      [] r.op = "get" /\ ToStatus(a.result) # "ok" -> Msg(r, ToStatus(a.result))
      [] r.op = "get" /\ ToStatus(a.result) = "ok" /\ Expired(a.exp, t) ->
            Msg(r, "not_found")
      [] OTHER -> [Msg(r, "ok") EXCEPT !.etag = a.rev, !.val = a.val]

(* Mutant: an answer with an unknown result is skipped.                    *)
MutDrainKvSkips(a) ==
    /\ probed /\ a \in answers
    /\ answers' = answers \ {a}
    /\ \/ \E p \in kvPending : /\ p.corr = a.corr /\ a.result # "ERROR"
                               /\ kvPending' = kvPending \ {p}
                               /\ Reply(Answered(a, p.req, now))
       \/ a.result = "ERROR" /\ UNCHANGED <<kvPending, replies>>
    /\ UNCHANGED <<probed, unavailable, requests, nextCorr, lane, lstore, now,
                   taken, lclient, count>>

(* Mutant: the slot is not zeroed, so a second answer is given to it, too. *)
MutDrainKvKeeps(a) ==
    /\ probed /\ a \in answers
    /\ answers' = answers \ {a}
    /\ \E p \in kvPending : p.corr = a.corr /\ Reply(Answered(a, p.req, now))
    /\ UNCHANGED <<lmodule, lane, lstore, now, taken, lclient, count>>

(* drain_kv: an answer goes to the slot that holds its correlation id, and *)
(* frees it; one no slot is waiting for is ignored.                        *)
DrainKv(a) ==
    /\ probed /\ a \in answers
    /\ answers' = answers \ {a}
    /\ \/ \E p \in kvPending, t \in NowForReplayRecord :
             /\ p.corr = a.corr
             /\ kvPending' = kvPending \ {p}
             /\ Reply(Answered(a, p.req, t))
       \/ /\ \A p \in kvPending : p.corr # a.corr
          /\ UNCHANGED <<kvPending, replies>>
    /\ UNCHANGED <<probed, unavailable, requests, nextCorr, lane, lstore, now,
                   taken, lclient, count>>

(***************************************************************************)
(* The store: single-key compare-and-swap, revisions from 1, every read    *)
(* linearizable.  It may fail a frame without deciding it.                 *)
(***************************************************************************)
Install(k, rec, isDurable) ==
    /\ rev' = rec.rev
    /\ store' = [store EXCEPT ![k] = rec]
    /\ durable' = IF isDurable THEN [durable EXCEPT ![k] = rec] ELSE durable

Answer(f, result, d, rec) ==
    /\ lane' = lane \ {f}
    /\ answers' = answers \cup {[corr |-> f.corr, result |-> result,
                                 durability |-> d, rev |-> rec.rev,
                                 val |-> rec.val, exp |-> rec.exp,
                                 frame |-> f, copy |-> FALSE]}
    /\ UNCHANGED <<lmodule, now, replies, taken, lclient, count>>

StoreGet(f) ==
    /\ f \in lane /\ f.op = "get"
    /\ Answer(f, IF store[f.key].present THEN "OK" ELSE "NOT_FOUND", "NONE", store[f.key])
    /\ UNCHANGED lstore

StoreCas(f, d) ==
    LET rec == [rev |-> rev + 1, val |-> f.val, exp |-> f.exp, present |-> TRUE] IN
    /\ f \in lane /\ f.op \in {"put_abs", "cas"}
    /\ f.witness = IF store[f.key].present THEN store[f.key].rev ELSE 0
    /\ Install(f.key, rec, d = "REPLICATED_DURABLE")
    /\ Answer(f, "OK", d, rec)

StoreCasFailed(f) ==
    /\ f \in lane /\ f.op \in {"put_abs", "cas"}
    /\ f.witness # IF store[f.key].present THEN store[f.key].rev ELSE 0
    /\ Answer(f, IF f.op = "put_abs" THEN "EXISTS" ELSE "CAS_FAILED", "NONE", NoRec)
    /\ UNCHANGED lstore

StoreDelete(f, d) ==
    LET rec == Removed(rev + 1) IN
    /\ f \in lane /\ f.op = "delete"
    /\ IF store[f.key].present
         THEN /\ Install(f.key, rec, d = "REPLICATED_DURABLE")
              /\ Answer(f, "OK", d, rec)
         ELSE Answer(f, "NOT_FOUND", "NONE", NoRec) /\ UNCHANGED lstore

StoreFails(f) ==
    /\ f \in lane
    /\ Answer(f, "ERROR", "NONE", NoRec)
    /\ UNCHANGED lstore

(* An answer is lost on the way back, or delivered twice.                  *)
LaneFault(a) ==
    /\ faults < MaxFaults /\ a \in answers
    /\ faults' = faults + 1
    /\ \/ answers' = answers \ {a}
       \/ answers' = answers \cup {[a EXCEPT !.copy = TRUE]}
    /\ UNCHANGED <<lmodule, lane, lstore, now, replies, taken, lclient, others, fails>>

(* Another node writes a record of its own or removes one.                 *)
OtherWrite(k) ==
    /\ others < MaxOther
    /\ others' = others + 1
    /\ \/ \E v \in Values, x \in Expiries :
             Install(k, [rev |-> rev + 1, val |-> v, exp |-> x, present |-> TRUE], TRUE)
       \/ store[k].present /\ Install(k, Removed(rev + 1), TRUE)
    /\ UNCHANGED <<lmodule, lane, answers, now, replies, taken, lclient, faults, fails>>

(* The store fails over: what only one replica held in memory is gone.     *)
Failover ==
    /\ fails < MaxFail
    /\ fails' = fails + 1
    /\ store' = durable
    /\ UNCHANGED <<lmodule, lane, answers, durable, rev, now, replies, taken,
                   lclient, others, faults>>

Tick ==
    /\ now < MaxTime
    /\ now' = now + 1
    /\ UNCHANGED <<lmodule, lane, answers, lstore, replies, taken, lclient, count>>

-----------------------------------------------------------------------------
Init ==
    /\ probed = FALSE /\ unavailable = FALSE
    /\ requests = <<>> /\ kvPending = {} /\ nextCorr = 1
    /\ lane = {} /\ answers = {}
    /\ store = [k \in Keys |-> NoRec] /\ durable = store /\ rev = 0
    /\ now = 1
    /\ replies = {} /\ seen = {} /\ taken = {}
    /\ sent = [c \in Clients |-> 0]
    /\ view = [c \in Clients |-> [k \in Keys |-> 0]]
    /\ others = 0 /\ faults = 0 /\ fails = 0

ModuleStep == \/ Probe \/ DropMalformed \/ RefuseRequest \/ KvRequest
              \/ \E a \in answers : DrainKv(a)

StoreDecides ==
    \E f \in lane :
       \/ StoreGet(f) \/ StoreCasFailed(f) \/ StoreFails(f)
       \/ \E d \in Durabilities : StoreCas(f, d) \/ StoreDelete(f, d)

ReceiveStep == \E m \in replies : Receive(m)

SendStep ==
    \E c \in Clients, k \in Keys :
       \/ \E op \in {"get", "delete", "junk"} : Send(c, op, k, NoVal, 0)
       \/ \E op \in {"put_abs", "cas"}, v \in Values, x \in Expiries :
             Send(c, op, k, v, x)

Next ==
    \/ ModuleStep \/ StoreDecides \/ ReceiveStep \/ SendStep
    \/ \E a \in answers : LaneFault(a)
    \/ \E k \in Keys : OtherWrite(k)
    \/ Failover
    \/ Tick

Spec == Init /\ [][Next]_vars

(* The graph steps every module forever, the store decides every frame,    *)
(* the clients take their replies, and every drained answer's turn comes.  *)
FairSpec == /\ Spec
            /\ WF_vars(Probe) /\ WF_vars(DropMalformed \/ RefuseRequest \/ KvRequest)
            /\ WF_vars(\E a \in answers : DrainKv(a))
            /\ WF_vars(StoreDecides) /\ WF_vars(ReceiveStep)
-----------------------------------------------------------------------------
(***************************************************************************)
(* Properties.                                                             *)
(***************************************************************************)
Record  == [rev : Nat, val : Values \cup {NoVal}, exp : Nat, present : BOOLEAN]
Request == [id : Ids, op : Ops, key : Keys, val : Values \cup {NoVal}, exp : Nat,
            etag : Nat]
KvFrame == [corr : Nat, op : Ops, key : Keys, val : Values \cup {NoVal}, exp : Nat,
            witness : Nat]
KvAnswer == [corr : Nat, result : Results, durability : DurabilityClasses, rev : Nat,
             val : Values \cup {NoVal}, exp : Nat, frame : KvFrame, copy : BOOLEAN]
LedgerReply == [req : Request, status : Statuses, etag : Nat,
                val : Values \cup {NoVal}]

(* The type of every variable.                                             *)
TypeOK ==
    /\ probed \in BOOLEAN /\ unavailable \in BOOLEAN
    /\ requests \in Seq(Request)
    /\ kvPending \subseteq [corr : Nat, req : Request]
    /\ nextCorr \in Nat
    /\ lane \subseteq KvFrame
    /\ answers \subseteq KvAnswer
    /\ store \in [Keys -> Record] /\ durable \in [Keys -> Record]
    /\ rev \in Nat /\ now \in Nat
    /\ replies \subseteq LedgerReply /\ seen \subseteq replies
    /\ taken \subseteq Request
    /\ sent \in [Clients -> 0 .. MaxReqs]
    /\ view \in [Clients -> [Keys -> Nat]]
    /\ others \in Nat /\ faults \in Nat /\ fails \in Nat

Parked == {p.req : p \in kvPending}

(* The slots are a bound, and whatever order the answers come back in,     *)
(* lost or repeated, the answer a slot is given is the answer to its own   *)
(* frame: no correlation id in use names two requests (kv_request,         *)
(* drain_kv), and an answered request holds no slot.                       *)
SlotsAreExact ==
    /\ Cardinality(kvPending) <= MaxPending
    /\ \A p, q \in kvPending : p.corr = q.corr => p = q
    /\ \A f \in lane \cup {a.frame : a \in answers}, p \in kvPending :
          f.corr = p.corr => f = Frame(p.corr, p.req)
    /\ \A f \in lane : \E p \in kvPending : p.corr = f.corr
    /\ \A m \in replies : m.req \notin Parked

(* "Absent a trustworthy clock, a record that carries an expiry cannot be  *)
(* served" (drain_kv): no record is served at or past its expiry.  The     *)
(* code does not have this where the platform may be without a wall clock: *)
(* the reading is then 0, and every record is live.                        *)
ExpiredIsNotServed ==
    [][\A m \in replies' \ replies :
          m.status = "ok" /\ m.req.op = "get" =>
             \E a \in answers \ answers' :
                a.rev = m.etag /\ ~(a.exp # 0 /\ now >= a.exp)]_vars

(* "Remove a record only if the etag still matches" (state_wire.rs): no    *)
(* delete removes a revision its caller did not name.                      *)
DeleteIsGuarded ==
    [][\A p \in kvPending :
          p.req.op = "delete" /\ (\E a \in answers' \ answers :
                                     a.corr = p.corr /\ a.result = "OK")
          => store[p.req.key].rev = p.req.etag]_vars

Replied(r) == \E m \in replies : m.req = r

(* Requests the module decoded that hold no slot and were not replied to:  *)
(* their answer was drained into a full replies channel.                   *)
Lost == {r \in taken : r \notin Parked /\ ~Replied(r)}

(* "Every request produces exactly one reply" (module_step): a request the *)
(* module decoded is parked or has been replied to.  The code does not     *)
(* have this: drain_kv frees the slot before it knows whether the reply    *)
(* fits.                                                                   *)
EveryTakenAnswered == Lost = {}

(* What the code has instead, as long as the lane loses nothing (drain_kv, *)
(* write_out): every parked request leaves its slot, so the ledger cannot  *)
(* end with all of them taken, and it leaves it replied to, unless the     *)
(* replies channel is full at that moment.                                 *)
SlotsAreFreed ==
    /\ \A i \in Ids : (\E r \in Parked : r.id = i) ~> (\A r \in Parked : r.id # i)
    /\ [][\A r \in Parked : r \in Parked' \/ Replied(r)' \/ ~CanWrite]_vars

(***************************************************************************)
(* The lane implements the abstract ledger for reads, creates and          *)
(* compare-and-swaps of records that carry no expiry.                      *)
(***************************************************************************)
Known == {r \in {requests[i] : i \in DOMAIN requests} \cup taken : r.op # "junk"}

Mine(r) == {a \in answers : \E p \in kvPending : p.req = r /\ p.corr = a.corr}

PhaseOf(r) ==
    LET has(rs) == \E a \in Mine(r) : a.result \in rs
    IN CASE \E m \in replies : m.req = r ->
                (CHOOSE m \in replies : m.req = r).status
         [] r \in Lost                     -> "unavailable"
         [] has({"OK"}) /\ r.op = "get"    -> "observed"
         [] has({"OK"}) /\ r.op # "get"    -> "applied"
         [] has({"NOT_FOUND"})             -> "absent"
         [] has({"EXISTS", "CAS_FAILED"})  -> "refused"
         [] OTHER                          -> "open"

WroteAt(r) == IF PhaseOf(r) = "applied" THEN (CHOOSE a \in Mine(r) : TRUE).rev ELSE 0

Calls ==
    [i \in Ids |->
        IF \E r \in Known : r.id = i
          THEN LET r == CHOOSE q \in Known : q.id = i
               IN  [phase |-> PhaseOf(r), req |-> r, at |-> WroteAt(r)]
          ELSE [phase |-> "idle", req |-> [op |-> "none"], at |-> 0]]

Registers == [k \in Keys |-> [rev |-> store[k].rev, val |-> store[k].val,
                              present |-> store[k].present]]

DurableKeys == {k \in Keys : NsOf[k] \in DurableNamespaces}

Kept ==
    [k \in Keys |->
        Max({0} \cup {m.etag : m \in {n \in replies :
                n.status = "ok" /\ n.req.op \in {"put_abs", "cas"}
                /\ n.req.key = k /\ k \in DurableKeys}})]

Abstract == INSTANCE LedgerService WITH reg <- Registers, call <- Calls, kept <- Kept

(* Every behaviour of the lane is one of the abstract ledger: each request *)
(* has at most one effect, under its precondition, its status says         *)
(* truthfully what happened in whatever order the answers come back, and   *)
(* no acknowledged write of a durable namespace is lost to a failover.  A  *)
(* caller whose reply was dropped knows as much as one told `unavailable'. *)
ImplementsLedger == Abstract!SSpec
=============================================================================
