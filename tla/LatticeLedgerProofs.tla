------------------------- MODULE LatticeLedgerProofs -------------------------
(***************************************************************************)
(* For every number of clients, keys, slots and lane faults: the lattice   *)
(* lane keeps its types, and every answer a slot is given is the answer to *)
(* that slot's own frame.                                                  *)
(***************************************************************************)
EXTENDS LatticeLedger, FiniteSetTheorems, TLAPS

(***************************************************************************)
(* Type correctness.                                                       *)
(***************************************************************************)
LEMMA StatusType ==
    ASSUME NEW result PROVE ToStatus(result) \in Statuses
  BY DEF ToStatus, Statuses

LEMMA AnsweredType ==
    ASSUME NEW a \in KvAnswer, NEW r \in Request, NEW t
    PROVE  Answered(a, r, t) \in LedgerReply
  <1>1. WriteStatus(a, r) \in Statuses
    BY StatusType DEF WriteStatus, Statuses
  <1>2. \A status \in Statuses : Msg(r, status) \in LedgerReply
    BY DEF Msg, LedgerReply
  <1>3. /\ "ok" \in Statuses /\ "not_found" \in Statuses
        /\ ToStatus(a.result) \in Statuses
    BY StatusType DEF Statuses
  <1>4. /\ [Msg(r, "ok") EXCEPT !.etag = a.rev] \in LedgerReply
        /\ [Msg(r, "ok") EXCEPT !.etag = a.rev, !.val = a.val] \in LedgerReply
    BY <1>3 DEF Msg, LedgerReply, KvAnswer
  <1> QED BY <1>1, <1>2, <1>3, <1>4 DEF Answered

LEMMA FrameType ==
    ASSUME NEW corr \in Nat, NEW r \in Request PROVE Frame(corr, r) \in KvFrame
  BY DEF Frame, Witness, Request, KvFrame

LEMMA NoRecType == NoRec \in Record
  BY DEF NoRec, Record

LEMMA RemovedType == \A n \in Nat : Removed(n) \in Record
  BY DEF Removed, Record

LEMMA InitType == Init => TypeOK
  <1> SUFFICES ASSUME Init PROVE TypeOK
    OBVIOUS
  <1>1. store \in [Keys -> Record] /\ durable \in [Keys -> Record]
    BY NoRecType DEF Init
  <1>2. /\ sent \in [Clients -> 0 .. MaxReqs]
        /\ view \in [Clients -> [Keys -> Nat]]
    BY LatticeBounds DEF Init
  <1>3. requests \in Seq(Request)
    BY DEF Init
  <1> QED BY <1>1, <1>2, <1>3 DEF Init, TypeOK

LEMMA NextType == TypeOK /\ [Next]_vars => TypeOK'
  <1> SUFFICES ASSUME TypeOK, [Next]_vars PROVE TypeOK'
    OBVIOUS
  <1> USE DEF TypeOK
  <1>h. ASSUME requests # <<>>
        PROVE  Head(requests) \in Request /\ Tail(requests) \in Seq(Request)
    BY <1>h
  <1>1. CASE Probe
    BY <1>1 DEF Probe, lstore, lclient, count
  <1>2. CASE DropMalformed
    BY <1>2, <1>h DEF DropMalformed, Draining, lstore, lclient, count
  <1>3. CASE RefuseRequest
    <2>1. PICK status \in {"unavailable", "malformed"} :
             Reply(Msg(Head(requests), status))
      BY <1>3 DEF RefuseRequest
    <2>2. Msg(Head(requests), status) \in LedgerReply
      BY <1>3, <1>h DEF RefuseRequest, Draining, Msg, LedgerReply, Statuses
    <2>3. replies' \subseteq LedgerReply /\ seen \subseteq replies'
      BY <2>1, <2>2 DEF Reply
    <2> QED BY <1>3, <1>h, <2>3 DEF RefuseRequest, Draining, lstore, lclient, count
  <1>4. CASE KvRequest
    <2>1. Frame(nextCorr, Head(requests)) \in KvFrame
      BY <1>4, <1>h, FrameType DEF KvRequest, Draining
    <2> QED BY <1>4, <1>h, <2>1 DEF KvRequest, Draining, lstore, lclient, count
  <1>5. ASSUME NEW a \in answers, DrainKv(a) PROVE TypeOK'
    <2>1. CASE \E p \in kvPending, t \in NowForReplayRecord :
                  /\ p.corr = a.corr
                  /\ kvPending' = kvPending \ {p}
                  /\ Reply(Answered(a, p.req, t))
      <3>1. PICK p \in kvPending, t \in NowForReplayRecord :
                  /\ kvPending' = kvPending \ {p}
                  /\ Reply(Answered(a, p.req, t))
        BY <2>1
      <3>2. Answered(a, p.req, t) \in LedgerReply
        BY <1>5, AnsweredType
      <3> QED BY <1>5, <3>1, <3>2 DEF DrainKv, Reply, lstore, lclient, count
    <2>2. CASE UNCHANGED <<kvPending, replies>>
      BY <1>5, <2>2 DEF DrainKv, lstore, lclient, count
    <2> QED BY <1>5, <2>1, <2>2 DEF DrainKv
  <1>6. ASSUME NEW f \in lane, NEW result \in Results, NEW d \in DurabilityClasses,
               NEW rec \in Record, Answer(f, result, d, rec),
               \/ UNCHANGED lstore
               \/ \E k \in Keys, b \in BOOLEAN : Install(k, rec, b)
        PROVE  TypeOK'
    <2>1. store' \in [Keys -> Record] /\ durable' \in [Keys -> Record] /\ rev' \in Nat
      BY <1>6 DEF Install, lstore, Record
    <2>2. [corr |-> f.corr, result |-> result, durability |-> d, rev |-> rec.rev,
           val |-> rec.val, exp |-> rec.exp, frame |-> f, copy |-> FALSE] \in KvAnswer
      BY DEF KvAnswer, KvFrame, Record
    <2>3. answers' \subseteq KvAnswer /\ lane' \subseteq KvFrame
      BY <1>6, <2>2 DEF Answer
    <2> QED BY <1>6, <2>1, <2>3 DEF Answer, lmodule, lclient, count
  <1>7. CASE StoreDecides
    <2> PICK f \in lane :
           \/ StoreGet(f) \/ StoreCasFailed(f) \/ StoreFails(f)
           \/ \E d \in Durabilities : StoreCas(f, d) \/ StoreDelete(f, d)
      BY <1>7 DEF StoreDecides
    <2> f \in KvFrame
      OBVIOUS
    <2>1. CASE StoreGet(f)
      <3>1. store[f.key] \in Record
        BY DEF KvFrame
      <3> DEFINE res == IF store[f.key].present THEN "OK" ELSE "NOT_FOUND"
      <3>2. res \in Results /\ "NONE" \in DurabilityClasses
        BY DEF Results, DurabilityClasses
      <3>3. Answer(f, res, "NONE", store[f.key]) /\ UNCHANGED lstore
        BY <2>1 DEF StoreGet
      <3> HIDE DEF res
      <3> QED BY <3>1, <3>2, <3>3, <1>6
    <2>2. CASE StoreCasFailed(f)
      <3> DEFINE res == IF f.op = "put_abs" THEN "EXISTS" ELSE "CAS_FAILED"
      <3>1. res \in Results /\ "NONE" \in DurabilityClasses
        BY DEF Results, DurabilityClasses
      <3>2. Answer(f, res, "NONE", NoRec) /\ UNCHANGED lstore
        BY <2>2 DEF StoreCasFailed
      <3> HIDE DEF res
      <3> QED BY <3>1, <3>2, NoRecType, <1>6
    <2>3. CASE StoreFails(f)
      <3>1. "ERROR" \in Results /\ "NONE" \in DurabilityClasses
        BY DEF Results, DurabilityClasses
      <3> QED BY <2>3, <3>1, NoRecType, <1>6 DEF StoreFails
    <2>4. ASSUME NEW d \in Durabilities, StoreCas(f, d) PROVE TypeOK'
      <3> DEFINE rec == [rev |-> rev + 1, val |-> f.val, exp |-> f.exp, present |-> TRUE]
      <3>1. rec \in Record /\ f.key \in Keys /\ d \in DurabilityClasses
        BY LatticeBounds DEF Record, KvFrame
      <3>2. Install(f.key, rec, d = "REPLICATED_DURABLE") /\ Answer(f, "OK", d, rec)
        BY <2>4 DEF StoreCas
      <3> HIDE DEF rec
      <3>3. "OK" \in Results /\ (d = "REPLICATED_DURABLE") \in BOOLEAN
        BY DEF Results
      <3> QED BY <3>1, <3>2, <3>3, <1>6
    <2>5. ASSUME NEW d \in Durabilities, StoreDelete(f, d) PROVE TypeOK'
      <3> DEFINE rec == Removed(rev + 1)
      <3>1. /\ rec \in Record /\ f.key \in Keys /\ d \in DurabilityClasses /\ "NONE" \in DurabilityClasses
        BY LatticeBounds, RemovedType DEF KvFrame, DurabilityClasses
      <3>2. \/ Install(f.key, rec, d = "REPLICATED_DURABLE") /\ Answer(f, "OK", d, rec)
            \/ Answer(f, "NOT_FOUND", "NONE", NoRec) /\ UNCHANGED lstore
        BY <2>5 DEF StoreDelete
      <3> HIDE DEF rec
      <3>3. /\ "OK" \in Results /\ "NOT_FOUND" \in Results
            /\ (d = "REPLICATED_DURABLE") \in BOOLEAN
        BY DEF Results
      <3> QED BY <3>1, <3>2, <3>3, NoRecType, <1>6
    <2> QED BY <2>1, <2>2, <2>3, <2>4, <2>5
  <1>8. ASSUME NEW m \in replies, Receive(m) PROVE TypeOK'
    <2>1. m.req.id[1] \in Clients /\ m.req.key \in Keys /\ m.etag \in Nat
      BY DEF LedgerReply, Request, Ids
    <2>2. view' \in [Clients -> [Keys -> Nat]]
      BY <1>8, <2>1 DEF Receive
    <2> QED BY <1>8, <2>2 DEF Receive, lmodule, lstore, count
  <1>9. CASE SendStep
    <2>1. PICK c \in Clients, k \in Keys, op \in Ops,
               v \in Values \cup {NoVal}, x \in Nat : Send(c, op, k, v, x)
      <3>1. PICK c \in Clients, k \in Keys :
                 \/ \E op \in {"get", "delete", "junk"} : Send(c, op, k, NoVal, 0)
                 \/ \E op \in {"put_abs", "cas"}, v \in Values, x \in Expiries :
                       Send(c, op, k, v, x)
        BY <1>9 DEF SendStep
      <3>2. \A op, v, x : Send(c, op, k, v, x) => op \in Ops
        BY DEF Send
      <3> QED BY <3>1, <3>2, LatticeOps
    <2> DEFINE r == [id |-> <<c, sent[c] + 1>>, op |-> op, key |-> k, val |-> v, exp |-> x,
                     etag |-> IF op \in {"cas", "delete"} THEN view[c][k] ELSE 0]
    <2>2. sent[c] + 1 \in 1 .. MaxReqs
      BY <2>1, LatticeBounds DEF Send
    <2>3. r \in Request
      BY <2>2 DEF Request, Ids
    <2>4. requests' = Append(requests, r) /\ sent' = [sent EXCEPT ![c] = @ + 1]
      BY <2>1 DEF Send
    <2>5. requests' \in Seq(Request)
      BY <2>3, <2>4
    <2>6. sent' \in [Clients -> 0 .. MaxReqs]
      BY <2>2, <2>4, LatticeBounds
    <2> QED BY <2>1, <2>5, <2>6 DEF Send, lstore, count
  <1>10. ASSUME NEW a \in answers, LaneFault(a) PROVE TypeOK'
    <2>1. [a EXCEPT !.copy = TRUE] \in KvAnswer
      BY DEF KvAnswer
    <2> DEFINE twice == [a EXCEPT !.copy = TRUE]
    <2>2. answers' = answers \ {a} \/ answers' = answers \cup {twice}
      BY <1>10 DEF LaneFault
    <2> HIDE DEF twice
    <2>3. answers' \subseteq KvAnswer
      BY <2>1, <2>2 DEF twice
    <2>4. faults' \in Nat
      BY <1>10 DEF LaneFault
    <2>5. UNCHANGED <<lmodule, lane, lstore, now, replies, taken, lclient, others, fails>>
      BY <1>10 DEF LaneFault
    <2> QED BY <2>3, <2>4, <2>5 DEF lmodule, lstore, lclient
  <1>11. ASSUME NEW k \in Keys, OtherWrite(k) PROVE TypeOK'
    <2>1. \E rec \in Record : Install(k, rec, TRUE)
      <3>1. ASSUME NEW v \in Values, NEW x \in Expiries
            PROVE  [rev |-> rev + 1, val |-> v, exp |-> x, present |-> TRUE] \in Record
        BY LatticeOps DEF Record
      <3>2. Removed(rev + 1) \in Record
        BY RemovedType
      <3> QED BY <1>11, <3>1, <3>2 DEF OtherWrite
    <2>2. store' \in [Keys -> Record] /\ durable' \in [Keys -> Record] /\ rev' \in Nat
      BY <2>1 DEF Install, Record
    <2> QED BY <1>11, <2>2 DEF OtherWrite, lmodule, lclient
  <1>12. CASE Failover
    BY <1>12 DEF Failover, lmodule, lclient
  <1>13. CASE Tick
    BY <1>13 DEF Tick, lmodule, lstore, lclient, count
  <1>14. CASE UNCHANGED vars
    BY <1>14 DEF vars, lmodule, lstore, lclient, count
  <1> QED BY <1>1, <1>2, <1>3, <1>4, <1>5, <1>7, <1>8, <1>9, <1>10, <1>11, <1>12,
             <1>13, <1>14 DEF Next, ModuleStep, ReceiveStep

(* The lane's state keeps its types, whatever the constants.               *)
THEOREM TypeCorrect == Spec => []TypeOK
  BY InitType, NextType, PTL DEF Spec

(***************************************************************************)
(* Routing.  SlotsAreExact is not inductive: that an answer finds its own  *)
(* slot rests on correlation ids being fresh, and that an answered request *)
(* holds no slot on every request being in one place at a time.            *)
(***************************************************************************)
CorrsAreFresh ==
    /\ \A p \in kvPending : p.corr < nextCorr
    /\ \A f \in lane : f.corr < nextCorr
    /\ \A a \in answers : a.frame.corr < nextCorr /\ a.corr = a.frame.corr

FramesMatch ==
    /\ \A p, q \in kvPending : p.corr = q.corr => p = q
    /\ \A f \in lane, p \in kvPending : f.corr = p.corr => f = Frame(p.corr, p.req)
    /\ \A a \in answers, p \in kvPending :
          a.corr = p.corr => a.frame = Frame(p.corr, p.req)
    /\ \A f \in lane : \E p \in kvPending : p.corr = f.corr
    /\ \A f \in lane, a \in answers : f.corr # a.corr

(* Ids are given out once: a request is queued, parked or answered.        *)
OnePlace ==
    /\ \A i \in DOMAIN requests : requests[i].id[2] <= sent[requests[i].id[1]]
    /\ \A p \in kvPending : p.req.id[2] <= sent[p.req.id[1]]
    /\ \A m \in replies : m.req.id[2] <= sent[m.req.id[1]]
    /\ \A i, j \in DOMAIN requests : requests[i].id = requests[j].id => i = j
    /\ \A i \in DOMAIN requests, p \in kvPending : requests[i].id # p.req.id
    /\ \A i \in DOMAIN requests, m \in replies : requests[i].id # m.req.id
    /\ \A p \in kvPending, m \in replies : p.req.id # m.req.id
    /\ \A p, q \in kvPending : p.req.id = q.req.id => p = q

SlotsBounded == IsFiniteSet(kvPending) /\ Cardinality(kvPending) <= MaxPending

Routing == TypeOK /\ CorrsAreFresh /\ FramesMatch /\ OnePlace /\ SlotsBounded

LEMMA InitRouting == Init => Routing
  <1> SUFFICES ASSUME Init PROVE Routing
    OBVIOUS
  <1>1. TypeOK
    BY InitType
  <1>2. CorrsAreFresh /\ FramesMatch
    BY DEF Init, CorrsAreFresh, FramesMatch
  <1>3. OnePlace
    BY DEF Init, OnePlace
  <1>4. SlotsBounded
    BY FS_EmptySet, LatticeBounds DEF Init, SlotsBounded
  <1> QED BY <1>1, <1>2, <1>3, <1>4 DEF Routing

(* A step that leaves the queue, the slots, the lane, the answers and the  *)
(* replies alone preserves the routing.                                    *)
LEMMA RoutingFrame ==
    ASSUME Routing, TypeOK',
           UNCHANGED <<requests, kvPending, nextCorr, lane, answers, replies, sent>>
    PROVE  Routing'
  BY DEF Routing, CorrsAreFresh, FramesMatch, OnePlace, SlotsBounded

(* What the routing says of the request at the head of the queue.          *)
LEMMA HeadIsElsewhereNowhere ==
    ASSUME Routing, requests # <<>>
    PROVE  LET r == Head(requests) IN
           /\ r = requests[1] /\ 1 \in DOMAIN requests
           /\ \A i \in DOMAIN Tail(requests) :
                 /\ i + 1 \in DOMAIN requests /\ Tail(requests)[i] = requests[i + 1]
                 /\ Tail(requests)[i].id # r.id
  <1>1. requests \in Seq(Request) /\ Len(requests) >= 1
    BY DEF Routing, TypeOK
  <1>2. Head(requests) = requests[1] /\ 1 \in DOMAIN requests
    BY <1>1
  <1>3. ASSUME NEW i \in DOMAIN Tail(requests)
        PROVE  /\ i + 1 \in DOMAIN requests /\ Tail(requests)[i] = requests[i + 1]
               /\ i + 1 # 1
    BY <1>1
  <1> QED BY <1>2, <1>3 DEF Routing, OnePlace

LEMMA TakeHead ==
    ASSUME Routing, requests # <<>>, requests' = Tail(requests), sent' = sent,
           TypeOK', UNCHANGED <<kvPending, nextCorr, lane, answers>>,
           \/ replies' = replies
           \/ \E m \in LedgerReply : m.req = Head(requests) /\ replies' = replies \cup {m}
    PROVE  Routing'
  <1>1. CorrsAreFresh' /\ FramesMatch' /\ SlotsBounded'
    BY DEF Routing, CorrsAreFresh, FramesMatch, SlotsBounded
  <1>2. OnePlace'
    <2> USE HeadIsElsewhereNowhere DEF Routing, OnePlace
    <2>1. /\ \A i \in DOMAIN requests' : requests'[i].id[2] <= sent'[requests'[i].id[1]]
          /\ \A i, j \in DOMAIN requests' : requests'[i].id = requests'[j].id => i = j
          /\ \A i \in DOMAIN requests', p \in kvPending' : requests'[i].id # p.req.id
      <3>1. \A i \in DOMAIN requests' : i \in Int
        BY DEF TypeOK
      <3> QED BY <3>1
    <2>2. \A m \in replies' : m \in replies \/ m.req = Head(requests)
      OBVIOUS
    <2>3. /\ \A m \in replies' : m.req.id[2] <= sent'[m.req.id[1]]
          /\ \A i \in DOMAIN requests', m \in replies' : requests'[i].id # m.req.id
          /\ \A p \in kvPending', m \in replies' : p.req.id # m.req.id
      BY <2>2
    <2> QED BY <2>1, <2>3
  <1> QED BY <1>1, <1>2 DEF Routing

LEMMA KvRequestRouting ==
    ASSUME Routing, TypeOK', KvRequest PROVE Routing'
  <1> DEFINE r == Head(requests)
             slot == [corr |-> nextCorr, req |-> r]
  <1>0. /\ requests # <<>> /\ requests' = Tail(requests)
        /\ kvPending' = kvPending \cup {slot}
        /\ lane' = lane \cup {Frame(nextCorr, r)} /\ nextCorr' = nextCorr + 1
        /\ UNCHANGED <<answers, replies, sent>> /\ ~NoSlot
    BY DEF KvRequest, Draining, lclient
  <1>1. nextCorr \in Nat /\ r \in Request /\ Frame(nextCorr, r).corr = nextCorr
    BY <1>0 DEF Routing, TypeOK, Frame
  <1>2. \A p \in kvPending' : p \in kvPending \/ (p.corr = nextCorr /\ p.req = r /\ p = slot)
    BY <1>0
  <1>3. \A f \in lane' : f \in lane \/ f = Frame(nextCorr, r)
    BY <1>0
  <1>4. /\ \A p \in kvPending : p.corr \in Nat /\ p.corr < nextCorr
        /\ \A f \in lane : f.corr \in Nat /\ f.corr < nextCorr
        /\ \A a \in answers : /\ a.frame.corr \in Nat /\ a.frame.corr < nextCorr
                              /\ a.corr = a.frame.corr
    BY DEF Routing, CorrsAreFresh, TypeOK, KvFrame, KvAnswer
  <1> HIDE DEF slot
  <1>5. CorrsAreFresh'
    BY <1>0, <1>1, <1>2, <1>3, <1>4 DEF CorrsAreFresh
  <1>6. FramesMatch'
    <2>1. \A p, q \in kvPending' : p.corr = q.corr => p = q
      BY <1>1, <1>2, <1>4 DEF Routing, FramesMatch
    <2>2. \A f \in lane', p \in kvPending' : f.corr = p.corr => f = Frame(p.corr, p.req)
      BY <1>1, <1>2, <1>3, <1>4 DEF Routing, FramesMatch
    <2>3. \A a \in answers', p \in kvPending' :
             a.corr = p.corr => a.frame = Frame(p.corr, p.req)
      BY <1>0, <1>1, <1>2, <1>4 DEF Routing, FramesMatch
    <2>4. \A f \in lane' : \E p \in kvPending' : p.corr = f.corr
      <3>1. slot \in kvPending' /\ slot.corr = nextCorr
        BY <1>0 DEF slot
      <3>2. \A f \in lane : \E p \in kvPending' : p.corr = f.corr
        BY <1>0 DEF Routing, FramesMatch
      <3> QED BY <3>1, <3>2, <1>1, <1>3
    <2>5. \A f \in lane', a \in answers' : f.corr # a.corr
      BY <1>0, <1>1, <1>3, <1>4 DEF Routing, FramesMatch
    <2> QED BY <2>1, <2>2, <2>3, <2>4, <2>5 DEF FramesMatch
  <1>7. OnePlace'
    <2> USE HeadIsElsewhereNowhere, <1>0 DEF Routing, OnePlace
    <2>1. /\ \A i \in DOMAIN requests' : requests'[i].id[2] <= sent'[requests'[i].id[1]]
          /\ \A i, j \in DOMAIN requests' : requests'[i].id = requests'[j].id => i = j
          /\ \A i \in DOMAIN requests', m \in replies' : requests'[i].id # m.req.id
      <3>1. \A i \in DOMAIN requests' : i \in Int
        BY DEF TypeOK
      <3> QED BY <3>1
    <2>2. /\ \A p \in kvPending' : p.req.id[2] <= sent'[p.req.id[1]]
          /\ \A i \in DOMAIN requests', p \in kvPending' : requests'[i].id # p.req.id
          /\ \A p \in kvPending', m \in replies' : p.req.id # m.req.id
          /\ \A p, q \in kvPending' : p.req.id = q.req.id => p = q
      BY <1>2
    <2> QED BY <2>1, <2>2
  <1>8. SlotsBounded'
    <2>1. IsFiniteSet(kvPending) /\ Cardinality(kvPending) < MaxPending
      BY <1>0, FS_CardinalityType, LatticeBounds DEF NoSlot, Routing, SlotsBounded
    <2>2. /\ IsFiniteSet(kvPending \cup {slot})
          /\ Cardinality(kvPending \cup {slot}) <= Cardinality(kvPending) + 1
      BY <2>1, FS_AddElement, FS_CardinalityType
    <2> QED BY <1>0, <2>1, <2>2, FS_CardinalityType, LatticeBounds DEF SlotsBounded
  <1> QED BY <1>5, <1>6, <1>7, <1>8 DEF Routing

LEMMA DrainKvRouting ==
    ASSUME Routing, TypeOK', NEW a \in answers, DrainKv(a) PROVE Routing'
  <1>0. /\ answers' = answers \ {a}
        /\ UNCHANGED <<requests, nextCorr, lane, sent>>
    BY DEF DrainKv, lclient
  <1>1. CASE UNCHANGED <<kvPending, replies>>
    BY <1>0, <1>1 DEF Routing, CorrsAreFresh, FramesMatch, OnePlace, SlotsBounded
  <1>2. CASE \E p \in kvPending, t \in NowForReplayRecord :
                  /\ p.corr = a.corr
                  /\ kvPending' = kvPending \ {p}
                  /\ Reply(Answered(a, p.req, t))
    <2> PICK p \in kvPending, t \in NowForReplayRecord :
                  /\ p.corr = a.corr
                  /\ kvPending' = kvPending \ {p}
                  /\ Reply(Answered(a, p.req, t))
      BY <1>2
    <2>1. Answered(a, p.req, t).req = p.req
      BY DEF Answered, Msg
    <2>2. \A m \in replies' : m \in replies \/ m.req = p.req
      BY <2>1 DEF Reply
    <2>3. CorrsAreFresh'
      BY <1>0 DEF Routing, CorrsAreFresh
    <2>4. OnePlace'
      BY <1>0, <2>2 DEF Routing, OnePlace
    <2>5. SlotsBounded'
      <3>1. IsFiniteSet(kvPending) /\ Cardinality(kvPending) <= MaxPending
        BY DEF Routing, SlotsBounded
      <3>2. Cardinality(kvPending) \in Nat /\ MaxPending \in Nat
        BY <3>1, FS_CardinalityType, LatticeBounds
      <3>3. /\ IsFiniteSet(kvPending \ {p})
            /\ Cardinality(kvPending \ {p}) = Cardinality(kvPending) - 1
        BY <3>1, FS_RemoveElement
      <3>4. Cardinality(kvPending \ {p}) <= MaxPending
        BY <3>1, <3>2, <3>3
      <3> QED BY <3>3, <3>4 DEF SlotsBounded
    <2>6. FramesMatch'
      <3>1. \A f \in lane : f.corr # p.corr
        BY DEF Routing, FramesMatch
      <3> QED BY <1>0, <3>1 DEF Routing, FramesMatch
    <2> QED BY <2>3, <2>4, <2>5, <2>6 DEF Routing
  <1> QED BY <1>1, <1>2 DEF DrainKv

(* The store answers a frame: the frame leaves the lane as its answer      *)
(* appears.                                                                *)
LEMMA AnswerRouting ==
    ASSUME Routing, TypeOK', NEW f \in lane, NEW result, NEW d, NEW rec,
           Answer(f, result, d, rec)
    PROVE  Routing'
  <1> DEFINE a == [corr |-> f.corr, result |-> result, durability |-> d,
                   rev |-> rec.rev, val |-> rec.val, exp |-> rec.exp,
                   frame |-> f, copy |-> FALSE]
  <1>0. /\ lane' = lane \ {f} /\ answers' = answers \cup {a}
        /\ UNCHANGED <<requests, kvPending, nextCorr, replies, sent>>
    BY DEF Answer, lmodule, lclient
  <1>1. a.corr = f.corr /\ a.frame = f
    OBVIOUS
  <1> HIDE DEF a
  <1>2. \A g \in lane : g.corr = f.corr => g = f
    BY DEF Routing, FramesMatch
  <1>3. CorrsAreFresh'
    BY <1>0, <1>1 DEF Routing, CorrsAreFresh
  <1>4. FramesMatch'
    BY <1>0, <1>1, <1>2 DEF Routing, FramesMatch
  <1>5. OnePlace' /\ SlotsBounded'
    BY <1>0 DEF Routing, OnePlace, SlotsBounded
  <1> QED BY <1>3, <1>4, <1>5 DEF Routing

LEMMA LaneFaultRouting ==
    ASSUME Routing, TypeOK', NEW a \in answers, LaneFault(a) PROVE Routing'
  <1> DEFINE twice == [a EXCEPT !.copy = TRUE]
  <1>0. /\ answers' = answers \ {a} \/ answers' = answers \cup {twice}
        /\ UNCHANGED <<requests, kvPending, nextCorr, lane, replies, sent>>
    BY DEF LaneFault, lmodule, lclient
  <1>1. a \in KvAnswer
    BY DEF Routing, TypeOK
  <1>2. twice.corr = a.corr /\ twice.frame = a.frame
    BY <1>1 DEF KvAnswer
  <1> HIDE DEF twice
  <1>3. CorrsAreFresh'
    BY <1>0, <1>2 DEF Routing, CorrsAreFresh
  <1>4. FramesMatch'
    BY <1>0, <1>2 DEF Routing, FramesMatch
  <1>5. OnePlace' /\ SlotsBounded'
    BY <1>0 DEF Routing, OnePlace, SlotsBounded
  <1> QED BY <1>3, <1>4, <1>5 DEF Routing

(* A new request takes the sender's next number, which nothing has yet.    *)
LEMMA SendRouting ==
    ASSUME Routing, TypeOK', NEW c \in Clients, NEW op, NEW k, NEW v, NEW x,
           Send(c, op, k, v, x)
    PROVE  Routing'
  <1> DEFINE r == [id |-> <<c, sent[c] + 1>>, op |-> op, key |-> k, val |-> v, exp |-> x,
                   etag |-> IF op \in {"cas", "delete"} THEN view[c][k] ELSE 0]
  <1>0. /\ requests' = Append(requests, r) /\ sent' = [sent EXCEPT ![c] = @ + 1]
        /\ UNCHANGED <<kvPending, nextCorr, lane, answers, replies>>
    BY DEF Send
  <1>1. r.id = <<c, sent[c] + 1>>
    OBVIOUS
  <1> HIDE DEF r
  <1>t. /\ requests \in Seq(Request) /\ sent \in [Clients -> Int]
        /\ \A q \in Request : q.id[1] \in Clients /\ q.id[2] \in Int /\ q.id = <<q.id[1], q.id[2]>>
    <2>1. sent \in [Clients -> 0 .. MaxReqs] /\ requests \in Seq(Request)
      BY DEF Routing, TypeOK
    <2>2. sent \in [Clients -> Int]
      BY <2>1, LatticeBounds
    <2>3. \A q \in Request : q.id \in Ids
      BY DEF Request
    <2>4. \A i \in Ids : i[1] \in Clients /\ i[2] \in Int /\ i = <<i[1], i[2]>>
      BY DEF Ids
    <2> QED BY <2>1, <2>2, <2>3, <2>4
  <1>2. \A i \in DOMAIN requests' :
           \/ i \in DOMAIN requests /\ requests'[i] = requests[i]
           \/ i = Len(requests) + 1 /\ requests'[i] = r
    BY <1>0, <1>t
  <1>3. /\ sent'[c] = sent[c] + 1 /\ sent[c] \in Int
        /\ \A e \in Clients : sent[e] \in Int /\ sent'[e] \in Int /\ sent[e] <= sent'[e]
    BY <1>0, <1>t
  <1>4. \A q \in Request : q.id[2] <= sent[q.id[1]] =>
           q.id # r.id /\ q.id[2] <= sent'[q.id[1]]
    <2> SUFFICES ASSUME NEW q \in Request, q.id[2] <= sent[q.id[1]]
                 PROVE  q.id # r.id /\ q.id[2] <= sent'[q.id[1]]
      OBVIOUS
    <2> DEFINE e == q.id[1]
               n == q.id[2]
    <2>1. e \in Clients /\ n \in Int /\ n <= sent[e]
      BY <1>t
    <2>2. r.id[1] = c /\ r.id[2] = sent[c] + 1
      BY <1>1
    <2> HIDE DEF e, n
    <2>3. n <= sent'[e] /\ (e = c => n # sent[c] + 1)
      BY <2>1, <1>3
    <2> QED BY <2>2, <2>3 DEF e, n
  <1>5. /\ \A i \in DOMAIN requests : requests[i] \in Request
        /\ \A p \in kvPending : p.req \in Request
        /\ \A m \in replies : m.req \in Request
    BY <1>t DEF Routing, TypeOK, LedgerReply
  <1>6. OnePlace'
    <2> USE <1>0, <1>1, <1>2, <1>4, <1>5 DEF Routing, OnePlace
    <2>1. \A i \in DOMAIN requests' : requests'[i].id[2] <= sent'[requests'[i].id[1]]
      BY <1>3
    <2>2. /\ \A p \in kvPending' : p.req.id[2] <= sent'[p.req.id[1]]
          /\ \A m \in replies' : m.req.id[2] <= sent'[m.req.id[1]]
      OBVIOUS
    <2>3. \A i, j \in DOMAIN requests' : requests'[i].id = requests'[j].id => i = j
      OBVIOUS
    <2>4. /\ \A i \in DOMAIN requests', p \in kvPending' : requests'[i].id # p.req.id
          /\ \A i \in DOMAIN requests', m \in replies' : requests'[i].id # m.req.id
      OBVIOUS
    <2> QED BY <2>1, <2>2, <2>3, <2>4
  <1>7. CorrsAreFresh' /\ FramesMatch' /\ SlotsBounded'
    BY <1>0 DEF Routing, CorrsAreFresh, FramesMatch, SlotsBounded
  <1> QED BY <1>6, <1>7 DEF Routing

LEMMA NextRouting == Routing /\ [Next]_vars => Routing'
  <1> SUFFICES ASSUME Routing, [Next]_vars PROVE Routing'
    OBVIOUS
  <1>0. TypeOK'
    BY NextType DEF Routing
  <1>1. CASE Probe \/ Failover \/ Tick \/ UNCHANGED vars
             \/ (\E m \in replies : Receive(m)) \/ (\E k \in Keys : OtherWrite(k))
    BY <1>0, <1>1, RoutingFrame
       DEF Probe, Failover, Tick, Receive, OtherWrite, vars, lmodule, lclient
  <1>2. CASE DropMalformed
    BY <1>0, <1>2, TakeHead DEF DropMalformed, Draining, lclient
  <1>3. CASE RefuseRequest
    <2>1. PICK status \in {"unavailable", "malformed"} :
             Reply(Msg(Head(requests), status))
      BY <1>3 DEF RefuseRequest
    <2>2. Head(requests) \in Request
      BY <1>3 DEF RefuseRequest, Draining, Routing, TypeOK
    <2>3. /\ Msg(Head(requests), status) \in LedgerReply
          /\ Msg(Head(requests), status).req = Head(requests)
      BY <2>2 DEF Msg, LedgerReply, Statuses
    <2> QED BY <1>0, <1>3, <2>1, <2>3, TakeHead DEF RefuseRequest, Draining, Reply, lclient
  <1>4. CASE KvRequest
    BY <1>0, <1>4, KvRequestRouting
  <1>5. ASSUME NEW a \in answers, DrainKv(a) PROVE Routing'
    BY <1>0, <1>5, DrainKvRouting
  <1>6. CASE StoreDecides
    BY <1>0, <1>6, AnswerRouting
       DEF StoreDecides, StoreGet, StoreCas, StoreCasFailed, StoreDelete, StoreFails
  <1>7. CASE SendStep
    BY <1>0, <1>7, SendRouting DEF SendStep
  <1>8. ASSUME NEW a \in answers, LaneFault(a) PROVE Routing'
    BY <1>0, <1>8, LaneFaultRouting
  <1> QED BY <1>1, <1>2, <1>3, <1>4, <1>5, <1>6, <1>7, <1>8
          DEF Next, ModuleStep, ReceiveStep

LEMMA RoutingIsExact == Routing => SlotsAreExact
  <1> SUFFICES ASSUME Routing PROVE SlotsAreExact
    OBVIOUS
  <1>1. \A f \in lane \cup {a.frame : a \in answers}, p \in kvPending :
           f.corr = p.corr => f = Frame(p.corr, p.req)
    BY DEF Routing, FramesMatch, CorrsAreFresh
  <1>2. \A m \in replies : m.req \notin Parked
    BY DEF Routing, OnePlace, Parked
  <1> QED BY <1>1, <1>2 DEF Routing, FramesMatch, SlotsBounded, SlotsAreExact

(* Whatever the answers' order, and whichever are lost or repeated, every  *)
(* slot is given the answer to its own frame and no request is answered    *)
(* while it still holds one (kv_request, drain_kv).                        *)
THEOREM LaneRoutesExactly == Spec => []SlotsAreExact
  <1>1. Spec => []Routing
    BY InitRouting, NextRouting, PTL DEF Spec
  <1> QED BY <1>1, RoutingIsExact, PTL
=============================================================================
