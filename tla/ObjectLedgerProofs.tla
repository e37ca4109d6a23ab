------------------------- MODULE ObjectLedgerProofs --------------------------
(***************************************************************************)
(* For every number of clients, keys, requests, restarts and writes of     *)
(* other holders: what the object-backed ledger acknowledges is true, what *)
(* it reads can be compared against, and the module implements the         *)
(* abstract ledger.                                                        *)
(***************************************************************************)
EXTENDS ObjectLedger, WellFoundedInduction, TLAPS

(***************************************************************************)
(* Types.                                                                  *)
(***************************************************************************)
Vals    == Values \cup {NoVal}
Record  == {r \in [rev : Nat, val : Vals, present : BOOLEAN] : r.present => r.val \in Values}
Call    == {r \in Requests : r.op \in {"put_abs", "cas"} => r.val \in Values}
ArgSet  == [op : Ops \cup {"none", "head"}, key : Keys, val : Vals, guard : Nat]
Flight  == [args : ArgSet, rc : {"undecided"} \cup WriteCodes, fence : Fences, rev : Nat]
Frame   == [req : Call, status : Statuses, etag : Nat, val : Vals \cup {Torn}, crev : Nat]
Learned == [etag : Nat, val : Vals \cup {Torn}, src : {"none", "read", "ack"}]
Buffers == [key : Keys, val : Vals, etag : Nat, op : Ops \cup {"none", "head"}, guard : Nat]
HeldWrites == [live : {TRUE}, req : Call]
HeldReads  == [kind : {"get", "etag"}, req : Call, stage : {"idle", "head", "get", "range"},
               want : Nat, handle : Vals, crev : Nat]

TypeOK ==
    /\ probed \in BOOLEAN /\ unavailable \in BOOLEAN
    /\ requests \in Seq(Call)
    /\ buf \in Buffers
    /\ writePending \in {NoWrite} \cup HeldWrites
    /\ readPending \in {NoRead} \cup HeldReads
    /\ inflight \subseteq Flight
    /\ store \in [Keys -> Record] /\ durable \in [Keys -> Record] /\ rev \in [Keys -> Nat]
    /\ past \subseteq [key : Keys, rec : Record]
    /\ replies \subseteq Frame /\ seen \subseteq replies
    /\ sent \in [Clients -> 0 .. MaxReqs]
    /\ view \in [Clients -> [Keys -> Learned]]
    /\ others \in Nat /\ crashes \in Nat

(***************************************************************************)
(* The inductive invariant.                                                *)
(***************************************************************************)
(* Revisions are given out once: what an object is, or was, is below the   *)
(* last one given out, and a version is known by its revision.             *)
Versions ==
    /\ \A k \in Keys : /\ durable[k].rev <= store[k].rev /\ store[k].rev <= rev[k]
                       /\ [key |-> k, rec |-> store[k]] \in past
                       /\ [key |-> k, rec |-> durable[k]] \in past
    /\ \A h \in past : h.rec.rev <= rev[h.key]
    /\ \A g, h \in past : g.key = h.key /\ g.rec.rev = h.rec.rev => g = h

(* One write or one read is held, and the buffers are its own.             *)
OneHeld ==
    /\ writePending.live =>
          /\ writePending.req.op \in {"put_abs", "cas", "delete"}
          /\ Args(buf) = [op |-> writePending.req.op, key |-> writePending.req.key,
                          val |-> writePending.req.val, guard |-> writePending.req.etag]
          /\ readPending = NoRead
    /\ readPending.kind # "none" => buf.key = readPending.req.key
    /\ readPending.kind = "get"  => readPending.req.op = "get"
    /\ readPending.kind = "get"  => readPending.stage # "idle"
    /\ readPending.kind = "etag" => readPending.req.op \in {"put_abs", "cas"}
    /\ readPending.stage = "range" => readPending.handle \in Values
    /\ \A w \in inflight : writePending.live /\ w.args = Args(buf)
    /\ \A v, w \in inflight : v = w

(* The commit of revision n that the request r asked for stands.           *)
Stands(r, n) ==
    /\ n <= store[r.key].rev
    /\ [key |-> r.key,
        rec |-> [rev |-> n, val |-> IF r.op = "delete" THEN NoVal ELSE r.val,
                 present |-> r.op # "delete"]] \in past

(* What a commit that is not answered yet did.                             *)
Commits ==
    /\ \A w \in inflight : w.rc = "done" =>
          /\ Stands(writePending.req, w.rev)
          /\ AtLeast(w.fence, "local_durable") => w.rev <= durable[w.args.key].rev
    /\ readPending.kind = "etag" =>
          /\ Stands(readPending.req, readPending.crev)
          /\ readPending.req.key \in DurableKeys =>
                readPending.crev <= durable[readPending.req.key].rev

(* A commit of a durable namespace that was acknowledged is durable.       *)
AcksAreDurable ==
    \A m \in replies : m.status = "ok" /\ m.req.op \in {"put_abs", "cas"}
                       /\ m.req.key \in DurableKeys => m.crev <= durable[m.req.key].rev

(* The revision e was seen with the value v: no later one is e, and while  *)
(* the store is at e it holds v.                                           *)
Basis(k, e, v) ==
    e <= rev[k] /\ (store[k].present /\ store[k].rev = e => store[k].val = v)

IsGuarded(r) == r.op \in {"cas", "delete"} /\ r.src = "read"

(* Wherever an etag that was read travels, it stays the etag of its value. *)
Bases ==
    /\ \A i \in DOMAIN requests :
          IsGuarded(requests[i]) => Basis(requests[i].key, requests[i].etag, requests[i].basis)
    /\ writePending.live /\ IsGuarded(writePending.req) =>
          Basis(writePending.req.key, writePending.req.etag, writePending.req.basis)
    /\ \A c \in Clients, k \in Keys :
          view[c][k].src = "read" => Basis(k, view[c][k].etag, view[c][k].val)
    /\ \A m \in replies \ seen :
          m.status = "ok" /\ m.req.op = "get" => Basis(m.req.key, m.etag, m.val)
    /\ readPending.kind = "get" /\ readPending.stage = "get" =>
          /\ buf.etag <= rev[buf.key]
          /\ store[buf.key].present /\ store[buf.key].rev = buf.etag =>
                readPending.want = SizeOf[store[buf.key].val]
    /\ readPending.kind = "get" /\ readPending.stage = "range" =>
          Basis(buf.key, buf.etag, Cut(readPending.handle, readPending.want))

(* A request is in one place: queued, held or answered once.               *)
Places ==
    /\ \A i \in DOMAIN requests : requests[i].id[2] <= sent[requests[i].id[1]]
    /\ \A m \in replies : m.req.id[2] <= sent[m.req.id[1]] /\ m.req.op # "junk"
    /\ writePending.live => writePending.req.id[2] <= sent[writePending.req.id[1]]
    /\ readPending.kind # "none" => readPending.req.id[2] <= sent[readPending.req.id[1]]
    /\ \A i, j \in DOMAIN requests : requests[i].id = requests[j].id => i = j
    /\ \A m, n \in replies : m.req.id = n.req.id => m = n
    /\ \A i \in DOMAIN requests :
          /\ \A m \in replies : m.req.id # requests[i].id
          /\ writePending.live => writePending.req.id # requests[i].id
          /\ readPending.kind # "none" => readPending.req.id # requests[i].id
    /\ \A m \in replies :
          /\ writePending.live => writePending.req.id # m.req.id
          /\ readPending.kind # "none" => readPending.req.id # m.req.id

IInv == /\ TypeOK /\ Versions /\ OneHeld /\ Commits /\ AcksAreTrue /\ AcksAreDurable
        /\ Bases /\ Places

(***************************************************************************)
(* Facts about queues and frames.                                          *)
(***************************************************************************)
LEMMA TailFacts ==
    ASSUME NEW S, NEW q \in Seq(S), q # <<>>
    PROVE  /\ 1 \in DOMAIN q /\ Head(q) = q[1] /\ Head(q) \in S
           /\ Tail(q) \in Seq(S)
           /\ \A i \in DOMAIN Tail(q) :
                 i + 1 \in DOMAIN q /\ i \in Nat \ {0} /\ Tail(q)[i] = q[i + 1]
  OBVIOUS

LEMMA AppendFacts ==
    ASSUME NEW S, NEW q \in Seq(S), NEW x \in S
    PROVE  /\ Append(q, x) \in Seq(S)
           /\ \A i \in DOMAIN Append(q, x) :
                 \/ i \in DOMAIN q /\ Append(q, x)[i] = q[i]
                 \/ i \notin DOMAIN q /\ i = Len(q) + 1 /\ Append(q, x)[i] = x
  OBVIOUS

LEMMA MsgType ==
    ASSUME NEW r \in Call, NEW status \in Statuses
    PROVE  Msg(r, status) \in Frame
  BY DEF Msg, Frame, Vals

LEMMA StatusesAre ==
    /\ "ok" \in Statuses /\ "not_found" \in Statuses /\ "malformed" \in Statuses
    /\ "unavailable" \in Statuses
  BY DEF Statuses

LEMMA DecidedStatus ==
    ASSUME NEW rc \in WriteCodes, NEW b \in BOOLEAN
    PROVE  /\ DecidedWrite(rc, b) \in Statuses \cup {"committed"}
           /\ DecidedWrite(rc, b) = "ok" => b
           /\ DecidedWrite(rc, b) = "committed" => rc = "done" /\ ~b
  BY DEF WriteCodes, DecidedWrite, Statuses

(* A durable namespace's floor is above what only this run would keep.     *)
LEMMA FloorIsDurable ==
    ASSUME NEW ns \in DurableNamespaces, NEW f \in Fences, NEW b \in BOOLEAN,
           FenceSatisfies(ns, f, b)
    PROVE  AtLeast(f, "local_durable")
  BY DEF DurableNamespaces, Fences, FenceSatisfies, AtLeast, Strength, MinFence,
         MinFenceReplicated

LEMMA InitInv == Init => IInv
  <1> SUFFICES ASSUME Init PROVE IInv
    OBVIOUS
  <1> USE DEF Init
  <1>1. Nothing \in Record /\ NoView \in Learned
    BY DEF Nothing, Record, Vals, NoView, Learned
  <1>2. TypeOK
    <2>1. /\ store \in [Keys -> Record] /\ durable \in [Keys -> Record] /\ rev \in [Keys -> Nat]
          /\ past \subseteq [key : Keys, rec : Record]
          /\ view \in [Clients -> [Keys -> Learned]]
          /\ sent \in [Clients -> 0 .. MaxReqs]
      BY <1>1, BoundAssumption
    <2>2. buf \in Buffers
      <3>1. [key : Keys, val : {NoVal}, etag : {0}, op : {"none"}, guard : {0}] \subseteq Buffers
        BY DEF Vals, Buffers
      <3> QED BY <3>1
    <2>3. writePending \in {NoWrite} \cup HeldWrites /\ readPending \in {NoRead} \cup HeldReads
      OBVIOUS
    <2>4. requests \in Seq(Call) /\ others \in Nat /\ crashes \in Nat
      OBVIOUS
    <2>5. inflight \subseteq Flight /\ replies \subseteq Frame /\ seen \subseteq replies
      OBVIOUS
    <2>6. probed \in BOOLEAN /\ unavailable \in BOOLEAN
      OBVIOUS
    <2> HIDE DEF Init
    <2> QED BY <2>1, <2>2, <2>3, <2>4, <2>5, <2>6 DEF TypeOK
  <1>3. Versions
    <2>1. \A k \in Keys : store[k] = Nothing /\ durable[k] = Nothing /\ rev[k] = 0
      OBVIOUS
    <2>2. \A h : h \in past <=> \E k \in Keys : h = [key |-> k, rec |-> Nothing]
      OBVIOUS
    <2>3. Nothing.rev = 0
      BY DEF Nothing
    <2> HIDE DEF Init
    <2> QED BY <2>1, <2>2, <2>3 DEF Versions
  <1>4. OneHeld /\ Commits
    BY DEF OneHeld, Commits, NoWrite, NoRead
  <1>5. AcksAreTrue /\ AcksAreDurable
    BY DEF AcksAreTrue, AcksAreDurable
  <1>6. Bases
    BY DEF Bases, NoWrite, NoRead, NoView
  <1>7. Places
    BY DEF Places, NoWrite, NoRead
  <1> QED BY <1>2, <1>3, <1>4, <1>5, <1>6, <1>7 DEF IInv

(* What the request at the head of the queue is, and what it leaves.       *)
LEMMA QueueHead ==
    ASSUME IInv, requests # <<>>, NEW r, r = Head(requests), NEW q, q = Tail(requests)
    PROVE  /\ r \in Call /\ q \in Seq(Call)
           /\ 1 \in DOMAIN requests /\ r = requests[1]
           /\ \A i \in DOMAIN q :
                 i + 1 \in DOMAIN requests /\ i \in Nat \ {0} /\ q[i] = requests[i + 1]
           /\ \A i \in DOMAIN q : q[i].id # r.id
           /\ \A m \in replies : m.req.id # r.id
           /\ r.id[2] <= sent[r.id[1]]
  <1>1. /\ r \in Call /\ q \in Seq(Call) /\ 1 \in DOMAIN requests /\ r = requests[1]
        /\ \A i \in DOMAIN q :
              i + 1 \in DOMAIN requests /\ i \in Nat \ {0} /\ q[i] = requests[i + 1]
    BY TailFacts DEF IInv, TypeOK
  <1> QED BY <1>1 DEF IInv, Places

(* Places, once the head of the queue is gone.                             *)
LEMMA QueueRest ==
    ASSUME IInv, requests # <<>>, NEW q, q = Tail(requests)
    PROVE  /\ \A i \in DOMAIN q : q[i].id[2] <= sent[q[i].id[1]]
           /\ \A i, j \in DOMAIN q : q[i].id = q[j].id => i = j
           /\ \A i \in DOMAIN q :
                 /\ \A m \in replies : m.req.id # q[i].id
                 /\ writePending.live => writePending.req.id # q[i].id
                 /\ readPending.kind # "none" => readPending.req.id # q[i].id
           /\ \A i \in DOMAIN q : IsGuarded(q[i]) => Basis(q[i].key, q[i].etag, q[i].basis)
  <1>1. \A i \in DOMAIN q :
           i + 1 \in DOMAIN requests /\ i \in Nat \ {0} /\ q[i] = requests[i + 1]
    BY QueueHead
  <1>2. \A i, j \in DOMAIN q : q[i].id = q[j].id => i = j
    <2> SUFFICES ASSUME NEW i \in DOMAIN q, NEW j \in DOMAIN q, q[i].id = q[j].id
                 PROVE  i = j
      OBVIOUS
    <2>1. i + 1 = j + 1
      BY <1>1 DEF IInv, Places
    <2> QED BY <1>1, <2>1
  <1>3. \A i \in DOMAIN q : IsGuarded(q[i]) => Basis(q[i].key, q[i].etag, q[i].basis)
    BY <1>1 DEF IInv, Bases
  <1> QED BY <1>1, <1>2, <1>3 DEF IInv, Places

LEMMA ProbeStep == ASSUME IInv, Probe PROVE IInv'
  <1> USE DEF IInv, Probe, provider, client
  <1>1. TypeOK'
    BY DEF TypeOK
  <1>2. Versions' /\ OneHeld' /\ Commits' /\ AcksAreTrue' /\ AcksAreDurable'
    BY DEF Versions, OneHeld, Commits, AcksAreTrue, AcksAreDurable, Stands, Args
  <1>3. Bases' /\ Places'
    BY DEF Bases, Places, Basis, IsGuarded, Cut
  <1> QED BY <1>1, <1>2, <1>3

LEMMA DropStep == ASSUME IInv, DropMalformed PROVE IInv'
  <1> USE DEF DropMalformed, Draining, provider, client
  <1>1. TypeOK'
    BY QueueHead DEF IInv, TypeOK
  <1>2. Versions' /\ OneHeld' /\ Commits' /\ AcksAreTrue' /\ AcksAreDurable'
    BY DEF IInv, Versions, OneHeld, Commits, AcksAreTrue, AcksAreDurable, Stands, Args
  <1>3. Bases'
    <2>1. \A i \in DOMAIN requests' : IsGuarded(requests'[i]) =>
             Basis(requests'[i].key, requests'[i].etag, requests'[i].basis)
      BY QueueRest
    <2> QED BY <2>1 DEF IInv, Bases, Basis, IsGuarded, Cut
  <1>4. Places'
    <2>1. /\ \A i \in DOMAIN requests' : requests'[i].id[2] <= sent[requests'[i].id[1]]
          /\ \A i, j \in DOMAIN requests' : requests'[i].id = requests'[j].id => i = j
          /\ \A i \in DOMAIN requests' :
                 /\ \A m \in replies : m.req.id # requests'[i].id
                 /\ writePending.live => writePending.req.id # requests'[i].id
                 /\ readPending.kind # "none" => readPending.req.id # requests'[i].id
      BY QueueRest
    <2> QED BY <2>1 DEF IInv, Places
  <1> QED BY <1>1, <1>2, <1>3, <1>4 DEF IInv

LEMMA RefuseStep == ASSUME IInv, RefuseRequest PROVE IInv'
  <1> DEFINE r == Head(requests)
  <1>0. PICK m \in {Msg(r, "unavailable"), Msg(r, "malformed")} : replies' = replies \cup {m}
    BY DEF RefuseRequest, Reply
  <1> DEFINE q == Tail(requests)
  <1>1. /\ r \in Call /\ q \in Seq(Call) /\ r.op # "junk"
        /\ \A i \in DOMAIN q : q[i].id # r.id
        /\ \A n \in replies : n.req.id # r.id
        /\ r.id[2] <= sent[r.id[1]]
    BY QueueHead DEF RefuseRequest, Draining
  <1>2. m \in Frame /\ m.req = r /\ m.status # "ok"
    BY <1>0, <1>1, MsgType, StatusesAre DEF Msg
  <1>3. /\ requests # <<>> /\ requests' = q
        /\ ~writePending.live /\ readPending.kind = "none"
        /\ UNCHANGED <<probed, unavailable, buf, writePending, readPending, provider, client,
                       others, crashes>>
    BY DEF RefuseRequest, Draining
  <1> HIDE DEF r, q
  <1>4. TypeOK'
    BY <1>0, <1>1, <1>2, <1>3 DEF IInv, TypeOK, provider, client
  <1>5. Versions' /\ OneHeld' /\ Commits'
    BY <1>3 DEF IInv, Versions, OneHeld, Commits, Stands, Args, provider
  <1>6. AcksAreTrue' /\ AcksAreDurable'
    BY <1>0, <1>2, <1>3 DEF IInv, AcksAreTrue, AcksAreDurable, provider
  <1>7. Bases'
    <2>1. \A i \in DOMAIN q : IsGuarded(q[i]) => Basis(q[i].key, q[i].etag, q[i].basis)
      BY <1>3, QueueRest DEF q
    <2> QED BY <1>0, <1>2, <1>3, <2>1 DEF IInv, Bases, Basis, IsGuarded, Cut, provider, client
  <1>8. Places'
    <2>1. /\ \A i \in DOMAIN q : q[i].id[2] <= sent[q[i].id[1]]
          /\ \A i, j \in DOMAIN q : q[i].id = q[j].id => i = j
          /\ \A i \in DOMAIN q : \A n \in replies : n.req.id # q[i].id
      BY <1>3, QueueRest DEF q
    <2>2. /\ \A n \in replies' : n.req.id[2] <= sent[n.req.id[1]] /\ n.req.op # "junk"
          /\ \A n, o \in replies' : n.req.id = o.req.id => n = o
          /\ \A i \in DOMAIN q : \A n \in replies' : n.req.id # q[i].id
      BY <1>0, <1>1, <1>2, <2>1 DEF IInv, Places
    <2> QED BY <1>3, <2>1, <2>2 DEF Places, client
  <1> QED BY <1>4, <1>5, <1>6, <1>7, <1>8 DEF IInv

LEMMA StartGetStep == ASSUME IInv, StartGet PROVE IInv'
  <1> DEFINE r == Head(requests)
  <1> DEFINE q == Tail(requests)
  <1>1. /\ r \in Call /\ q \in Seq(Call) /\ r.op = "get"
        /\ \A i \in DOMAIN q : q[i].id # r.id
        /\ \A n \in replies : n.req.id # r.id
        /\ r.id[2] <= sent[r.id[1]]
    BY QueueHead DEF StartGet, Draining
  <1>2. /\ requests # <<>> /\ requests' = q
        /\ ~writePending.live /\ readPending.kind = "none"
        /\ buf' = [buf EXCEPT !.key = r.key]
        /\ readPending' = [NoRead EXCEPT !.kind = "get", !.req = r, !.stage = "head"]
        /\ UNCHANGED <<probed, unavailable, writePending, provider, client, replies,
                       others, crashes>>
    BY DEF StartGet, Draining
  <1>3. r.key \in Keys
    BY <1>1 DEF Call, Requests
  <1> HIDE DEF r, q
  <1>4. /\ buf' \in Buffers /\ buf'.key = r.key
        /\ readPending' \in HeldReads /\ readPending'.kind = "get" /\ readPending'.req = r
        /\ readPending'.stage = "head"
    BY <1>1, <1>2, <1>3 DEF IInv, TypeOK, Buffers, NoRead, HeldReads, Vals
  <1>5. TypeOK'
    BY <1>1, <1>2, <1>4 DEF IInv, TypeOK, provider, client
  <1>6. Versions' /\ AcksAreTrue' /\ AcksAreDurable'
    BY <1>2 DEF IInv, Versions, AcksAreTrue, AcksAreDurable, provider
  <1>7. OneHeld' /\ Commits'
    BY <1>1, <1>2, <1>4 DEF IInv, OneHeld, Commits, Stands, Args, provider
  <1>8. Bases'
    <2>1. \A i \in DOMAIN q : IsGuarded(q[i]) => Basis(q[i].key, q[i].etag, q[i].basis)
      BY <1>2, QueueRest DEF q
    <2> QED BY <1>2, <1>4, <2>1 DEF IInv, Bases, Basis, IsGuarded, Cut, provider, client
  <1>9. Places'
    <2>1. /\ \A i \in DOMAIN q : q[i].id[2] <= sent[q[i].id[1]]
          /\ \A i, j \in DOMAIN q : q[i].id = q[j].id => i = j
          /\ \A i \in DOMAIN q : \A n \in replies : n.req.id # q[i].id
      BY <1>2, QueueRest DEF q
    <2> QED BY <1>1, <1>2, <1>4, <2>1 DEF IInv, Places, client
  <1> QED BY <1>5, <1>6, <1>7, <1>8, <1>9 DEF IInv

LEMMA StartWriteStep == ASSUME IInv, StartWrite PROVE IInv'
  <1> DEFINE r == Head(requests)
  <1> DEFINE q == Tail(requests)
  <1>1. /\ r \in Call /\ q \in Seq(Call) /\ r.op \in {"put_abs", "cas", "delete"}
        /\ 1 \in DOMAIN requests /\ r = requests[1]
        /\ \A i \in DOMAIN q : q[i].id # r.id
        /\ \A n \in replies : n.req.id # r.id
        /\ r.id[2] <= sent[r.id[1]]
    BY QueueHead DEF StartWrite, Draining
  <1>2. /\ requests # <<>> /\ requests' = q
        /\ ~writePending.live /\ readPending.kind = "none"
        /\ buf' = [buf EXCEPT !.key = r.key, !.val = r.val, !.etag = r.etag,
                              !.op = r.op, !.guard = r.etag]
        /\ inflight' = Take(Args(buf'))
        /\ writePending' = [live |-> TRUE, req |-> r]
        /\ UNCHANGED <<probed, unavailable, readPending, store, durable, rev, past,
                       client, replies, others, crashes>>
    BY DEF StartWrite, Draining
  <1> HIDE DEF r, q
  <1>3. /\ buf' \in Buffers /\ writePending' \in HeldWrites
        /\ writePending'.live /\ writePending'.req = r
        /\ Args(buf') = [op |-> r.op, key |-> r.key, val |-> r.val, guard |-> r.etag]
        /\ Args(buf') \in ArgSet
    BY <1>1, <1>2 DEF IInv, TypeOK, Buffers, HeldWrites, Call, Requests, Args, ArgSet, Vals
  <1>4. inflight = {} /\ readPending = NoRead
    BY <1>2 DEF IInv, OneHeld, TypeOK, HeldReads
  <1>5. inflight' = {[args |-> Args(buf'), rc |-> "undecided", fence |-> "volatile", rev |-> 0]}
    BY <1>2, <1>4 DEF Take
  <1>6. TypeOK'
    <2>1. inflight' \subseteq Flight
      BY <1>3, <1>5 DEF Flight, Fences
    <2> QED BY <1>1, <1>2, <1>3, <2>1 DEF IInv, TypeOK, client
  <1>7. Versions' /\ AcksAreTrue' /\ AcksAreDurable'
    BY <1>2 DEF IInv, Versions, AcksAreTrue, AcksAreDurable
  <1>8. OneHeld'
    BY <1>1, <1>2, <1>3, <1>4, <1>5 DEF OneHeld, NoRead, Args
  <1>9. Commits'
    BY <1>2, <1>4, <1>5 DEF Commits, NoRead
  <1>10. Bases'
    <2>1. \A i \in DOMAIN q : IsGuarded(q[i]) => Basis(q[i].key, q[i].etag, q[i].basis)
      BY <1>2, QueueRest DEF q
    <2>2. IsGuarded(r) => Basis(r.key, r.etag, r.basis)
      BY <1>1 DEF IInv, Bases
    <2> QED BY <1>2, <1>3, <2>1, <2>2 DEF IInv, Bases, Basis, IsGuarded, Cut, client
  <1>11. Places'
    <2>1. /\ \A i \in DOMAIN q : q[i].id[2] <= sent[q[i].id[1]]
          /\ \A i, j \in DOMAIN q : q[i].id = q[j].id => i = j
          /\ \A i \in DOMAIN q : \A n \in replies : n.req.id # q[i].id
      BY <1>2, QueueRest DEF q
    <2> QED BY <1>1, <1>2, <1>3, <2>1 DEF IInv, Places, client
  <1> QED BY <1>6, <1>7, <1>8, <1>9, <1>10, <1>11 DEF IInv

(* Nothing else is held beside a read, nor beside a write.                 *)
LEMMA HeldRead ==
    ASSUME IInv, readPending.kind # "none"
    PROVE  /\ readPending \in HeldReads /\ readPending.req \in Call
           /\ buf \in Buffers /\ buf.key \in Keys /\ buf.key = readPending.req.key
           /\ ~writePending.live /\ writePending = NoWrite /\ inflight = {}
  <1>1. readPending \in HeldReads
    BY DEF IInv, TypeOK, NoRead
  <1>2. ~writePending.live
    BY DEF IInv, OneHeld, NoRead
  <1>3. writePending = NoWrite
    BY <1>2 DEF IInv, TypeOK, HeldWrites
  <1>4. inflight = {}
    BY <1>2 DEF IInv, OneHeld
  <1>5. buf \in Buffers /\ buf.key = readPending.req.key
    BY DEF IInv, TypeOK, OneHeld
  <1> QED BY <1>1, <1>2, <1>3, <1>4, <1>5 DEF HeldReads, Buffers

LEMMA HeldWrite ==
    ASSUME IInv, writePending.live, NEW r, r = writePending.req
    PROVE  /\ writePending \in HeldWrites /\ r \in Call
           /\ r.op \in {"put_abs", "cas", "delete"} /\ readPending = NoRead
           /\ buf \in Buffers /\ buf.key = r.key
           /\ Args(buf) = [op |-> r.op, key |-> r.key, val |-> r.val, guard |-> r.etag]
           /\ \A w \in inflight : inflight = {w} /\ w \in Flight /\ w.args = Args(buf)
  <1>1. writePending \in HeldWrites
    BY DEF IInv, TypeOK, NoWrite
  <1>2. /\ r.op \in {"put_abs", "cas", "delete"} /\ readPending = NoRead /\ buf \in Buffers
        /\ Args(buf) = [op |-> r.op, key |-> r.key, val |-> r.val, guard |-> r.etag]
    BY DEF IInv, OneHeld, TypeOK
  <1>3. buf.key = r.key
    BY <1>2 DEF Args
  <1>4. \A w \in inflight : inflight = {w} /\ w \in Flight /\ w.args = Args(buf)
    BY DEF IInv, OneHeld, TypeOK
  <1> QED BY <1>1, <1>2, <1>3, <1>4 DEF HeldWrites

(* The held request is answered, with the truth.                           *)
LEMMA AnswerHeld ==
    ASSUME IInv, NEW m \in Frame, replies' = replies \cup {m},
           UNCHANGED <<requests, store, durable, rev, past, client>>,
           \/ writePending.live /\ m.req = writePending.req
           \/ readPending.kind # "none" /\ m.req = readPending.req,
           writePending' = NoWrite, readPending' = NoRead,
           m.req.op # "junk",
           m.status = "ok" /\ m.req.op \in {"put_abs", "cas"} =>
              /\ [key |-> m.req.key,
                  rec |-> [rev |-> m.crev, val |-> m.req.val, present |-> TRUE]] \in past
              /\ m.etag = 0 \/ m.etag >= m.crev
              /\ m.req.key \in DurableKeys => m.crev <= durable[m.req.key].rev,
           m.status = "ok" /\ m.req.op = "get" => Basis(m.req.key, m.etag, m.val)
    PROVE  /\ requests' \in Seq(Call) /\ replies' \subseteq Frame /\ seen' \subseteq replies'
           /\ AcksAreTrue' /\ AcksAreDurable' /\ Bases' /\ Places'
  <1>1. AcksAreTrue' /\ AcksAreDurable'
    BY DEF IInv, AcksAreTrue, AcksAreDurable
  <1>2. Bases'
    <2>1. \A n \in replies' \ seen' :
             n.status = "ok" /\ n.req.op = "get" => Basis(n.req.key, n.etag, n.val)
      BY DEF IInv, Bases, client
    <2>2. ~writePending'.live /\ readPending'.kind # "get"
      BY DEF NoWrite, NoRead
    <2> QED BY <2>1, <2>2 DEF IInv, Bases, Basis, IsGuarded, client
  <1>3. Places'
    <2>1. ~writePending'.live /\ readPending'.kind = "none"
      BY DEF NoWrite, NoRead
    <2>2. /\ m.req.id[2] <= sent[m.req.id[1]]
          /\ \A n \in replies : n.req.id # m.req.id
          /\ \A i \in DOMAIN requests : requests[i].id # m.req.id
      BY DEF IInv, Places
    <2> QED BY <2>1, <2>2 DEF IInv, Places, client
  <1> QED BY <1>1, <1>2, <1>3 DEF IInv, TypeOK, client

LEMMA AskAgainStep == ASSUME IInv, AskAgain PROVE IInv'
  <1>1. /\ writePending.live /\ inflight' = Take(Args(buf))
        /\ UNCHANGED <<module, store, durable, rev, past, client, replies, others, crashes>>
    BY DEF AskAgain
  <1>2. \/ inflight' = inflight
        \/ /\ inflight = {}
           /\ inflight' = {[args |-> Args(buf), rc |-> "undecided", fence |-> "volatile",
                            rev |-> 0]}
    BY <1>1 DEF Take, IInv, OneHeld
  <1>3. TypeOK'
    <2>1. Args(buf) \in ArgSet
      BY DEF IInv, TypeOK, Buffers, Args, ArgSet
    <2>2. inflight' \subseteq Flight
      BY <1>2, <2>1 DEF IInv, TypeOK, Flight, Fences
    <2> QED BY <1>1, <2>2 DEF IInv, TypeOK, module, client
  <1>4. OneHeld' /\ Commits'
    BY <1>1, <1>2 DEF IInv, OneHeld, Commits, Stands, Args, module
  <1>5. Versions' /\ AcksAreTrue' /\ AcksAreDurable'
    BY <1>1 DEF IInv, Versions, AcksAreTrue, AcksAreDurable
  <1>6. Bases' /\ Places'
    BY <1>1 DEF IInv, Bases, Places, Basis, IsGuarded, Cut, module, client
  <1> QED BY <1>3, <1>4, <1>5, <1>6 DEF IInv

LEMMA FinishStep == ASSUME IInv, FinishWrite PROVE IInv'
  <1> DEFINE r == writePending.req
  <1>0. PICK w \in inflight :
           /\ writePending.live /\ w.args = Args(buf) /\ w.rc # "undecided"
           /\ inflight' = inflight \ {w} /\ writePending' = NoWrite
           /\ UNCHANGED <<probed, unavailable, requests, buf, store, durable, rev, past,
                          client, others, crashes>>
           /\ \/ /\ DecidedWrite(w.rc, r.op = "delete") # "committed"
                 /\ Reply([Msg(r, DecidedWrite(w.rc, r.op = "delete")) EXCEPT !.crev = w.rev])
                 /\ UNCHANGED readPending
              \/ Reply(Msg(r, "unavailable")) /\ UNCHANGED readPending
              \/ /\ DecidedWrite(w.rc, r.op = "delete") = "committed"
                 /\ FenceSatisfies(NsOf[r.key], w.fence, Authority = "replicated")
                 /\ readPending' = [NoRead EXCEPT !.kind = "etag", !.req = r, !.crev = w.rev]
                 /\ UNCHANGED replies
    BY DEF FinishWrite
  <1> DEFINE status == DecidedWrite(w.rc, r.op = "delete")
  <1>1. /\ r \in Call /\ r.op \in {"put_abs", "cas", "delete"} /\ readPending = NoRead
        /\ w \in Flight /\ inflight' = {} /\ w.args = [op |-> r.op, key |-> r.key,
                                                       val |-> r.val, guard |-> r.etag]
    BY <1>0, HeldWrite
  <1>2. /\ status \in Statuses \cup {"committed"} /\ (status = "ok" => r.op = "delete")
        /\ status = "committed" => w.rc = "done" /\ r.op # "delete"
    BY <1>0, <1>1, DecidedStatus DEF Flight
  <1> HIDE DEF status
  <1>3. Versions' /\ writePending' \in {NoWrite} /\ inflight' \subseteq Flight
    BY <1>0, <1>1 DEF IInv, Versions
  <1>4. ~writePending'.live
    BY <1>0 DEF NoWrite
  <1>5. ASSUME NEW m \in Frame, Reply(m), m.req = r, readPending' = readPending,
               m.status = "ok" => r.op = "delete"
        PROVE  IInv'
    <2>1. /\ requests' \in Seq(Call) /\ replies' \subseteq Frame /\ seen' \subseteq replies'
          /\ AcksAreTrue' /\ AcksAreDurable' /\ Bases' /\ Places'
      BY <1>0, <1>1, <1>5, AnswerHeld DEF Reply
    <2>2. TypeOK'
      BY <1>0, <1>1, <1>3, <1>5, <2>1 DEF IInv, TypeOK, client
    <2>3. OneHeld' /\ Commits'
      BY <1>1, <1>4, <1>5 DEF OneHeld, Commits, NoRead
    <2> QED BY <1>3, <2>1, <2>2, <2>3 DEF IInv
  <1>6. CASE status # "committed" /\ UNCHANGED readPending
             /\ Reply([Msg(r, status) EXCEPT !.crev = w.rev])
    <2> DEFINE m == [Msg(r, status) EXCEPT !.crev = w.rev]
    <2>1. m \in Frame /\ m.req = r /\ m.status = status
      BY <1>1, <1>2, <1>6, MsgType DEF Frame, Flight, Msg
    <2> HIDE DEF m
    <2> QED BY <1>2, <1>5, <1>6, <2>1 DEF m
  <1>7. CASE Reply(Msg(r, "unavailable")) /\ UNCHANGED readPending
    <2>1. /\ Msg(r, "unavailable") \in Frame /\ Msg(r, "unavailable").req = r
          /\ Msg(r, "unavailable").status # "ok"
      BY <1>1, MsgType, StatusesAre DEF Msg
    <2> QED BY <1>5, <1>7, <2>1
  <1>8. CASE /\ status = "committed"
             /\ FenceSatisfies(NsOf[r.key], w.fence, Authority = "replicated")
             /\ readPending' = [NoRead EXCEPT !.kind = "etag", !.req = r, !.crev = w.rev]
             /\ UNCHANGED replies
    <2>1. /\ readPending' \in HeldReads /\ readPending'.kind = "etag" /\ readPending'.req = r
          /\ readPending'.crev = w.rev /\ readPending'.stage = "idle"
      BY <1>1, <1>8 DEF NoRead, HeldReads, Flight, Vals
    <2>2. TypeOK'
      BY <1>0, <1>3, <1>8, <2>1 DEF IInv, TypeOK, client
    <2>3. OneHeld'
      <3>1. buf.key = r.key
        BY <1>0, <1>1 DEF Args
      <3> QED BY <1>0, <1>1, <1>2, <1>4, <1>8, <2>1, <3>1 DEF OneHeld
    <2>4. Commits'
      <3>1. /\ Stands(r, w.rev)
            /\ AtLeast(w.fence, "local_durable") => w.rev <= durable[r.key].rev
        BY <1>0, <1>1, <1>2, <1>8 DEF IInv, Commits
      <3>2. r.key \in DurableKeys => AtLeast(w.fence, "local_durable")
        <4>1. w.fence \in Fences /\ (Authority = "replicated") \in BOOLEAN
          BY <1>1 DEF Flight
        <4> QED BY <1>8, <4>1, FloorIsDurable DEF DurableKeys
      <3> QED BY <1>0, <1>1, <2>1, <3>1, <3>2 DEF Commits, Stands, DurableKeys
    <2>5. AcksAreTrue' /\ AcksAreDurable'
      BY <1>0, <1>8 DEF IInv, AcksAreTrue, AcksAreDurable
    <2>6. Bases'
      BY <1>0, <1>4, <1>8, <2>1 DEF IInv, Bases, Basis, IsGuarded, client
    <2>7. Places'
      BY <1>0, <1>4, <1>8, <2>1 DEF IInv, Places, client
    <2> QED BY <1>3, <2>2, <2>3, <2>4, <2>5, <2>6, <2>7 DEF IInv
  <1> QED BY <1>0, <1>6, <1>7, <1>8 DEF status

LEMMA EtagStep == ASSUME IInv, EtagAfterWrite PROVE IInv'
  <1> DEFINE r == readPending.req
  <1> DEFINE rec == store[buf.key]
  <1>0. PICK e \in {0} \cup (IF rec.present THEN {rec.rev} ELSE {}) :
           /\ buf' = [buf EXCEPT !.etag = e, !.op = "head"]
           /\ Reply([Msg(r, "ok") EXCEPT !.etag = e, !.crev = readPending.crev])
    BY DEF EtagAfterWrite
  <1> DEFINE m == [Msg(r, "ok") EXCEPT !.etag = e, !.crev = readPending.crev]
  <1>1. /\ readPending.kind = "etag" /\ readPending' = NoRead
        /\ UNCHANGED <<probed, unavailable, requests, writePending, provider, client,
                       others, crashes>>
    BY DEF EtagAfterWrite
  <1>2. /\ readPending \in HeldReads /\ r \in Call /\ r.op \in {"put_abs", "cas"}
        /\ buf.key = r.key /\ ~writePending.live /\ writePending = NoWrite
        /\ inflight = {} /\ buf.key \in Keys /\ rec \in Record
    BY <1>1, HeldRead DEF IInv, TypeOK, OneHeld
  <1>3. e \in Nat /\ (e = 0 \/ e = store[r.key].rev)
    BY <1>2 DEF Record
  <1>4. /\ m \in Frame /\ m.req = r /\ m.etag = e /\ m.crev = readPending.crev
    BY <1>2, <1>3, MsgType, StatusesAre DEF Msg, Frame, HeldReads
  <1>5. /\ Stands(r, readPending.crev)
        /\ r.key \in DurableKeys => readPending.crev <= durable[r.key].rev
    BY <1>1 DEF IInv, Commits
  <1>6. /\ [key |-> r.key, rec |-> [rev |-> m.crev, val |-> r.val, present |-> TRUE]] \in past
        /\ m.etag = 0 \/ m.etag >= m.crev
    <2>1. r.op # "delete"
      BY <1>2
    <2>2. readPending.crev \in Nat
      BY <1>2 DEF HeldReads
    <2> QED BY <1>3, <1>4, <1>5, <2>1, <2>2 DEF Stands
  <1> HIDE DEF m
  <1>7. /\ requests' \in Seq(Call) /\ replies' \subseteq Frame /\ seen' \subseteq replies'
        /\ AcksAreTrue' /\ AcksAreDurable' /\ Bases' /\ Places'
    <2>1. replies' = replies \cup {m} /\ m.req.op # "junk" /\ m.req.op # "get"
      BY <1>0, <1>2, <1>4 DEF Reply, m
    <2> QED BY <1>1, <1>2, <1>4, <1>5, <1>6, <2>1, AnswerHeld DEF provider
  <1>8. TypeOK'
    <2>1. buf' \in Buffers
      BY <1>0, <1>3 DEF IInv, TypeOK, Buffers
    <2> QED BY <1>1, <1>7, <2>1 DEF IInv, TypeOK, provider, client
  <1>9. OneHeld' /\ Commits' /\ Versions'
    BY <1>1, <1>2 DEF IInv, OneHeld, Commits, Versions, NoRead, provider
  <1> QED BY <1>7, <1>8, <1>9 DEF IInv

(* A read that ends without a body.                                        *)
LEMMA EndReadStep ==
    ASSUME IInv, NEW status \in Statuses \ {"ok"}, EndRead(status),
           readPending.kind = "get", UNCHANGED buf,
           UNCHANGED <<probed, unavailable, requests, writePending, provider, client,
                       others, crashes>>
    PROVE  IInv'
  <1> DEFINE r == readPending.req
  <1>1. /\ readPending \in HeldReads /\ r \in Call /\ r.op = "get"
        /\ ~writePending.live /\ writePending = NoWrite /\ inflight = {}
    BY HeldRead DEF IInv, OneHeld
  <1>2. Msg(r, status) \in Frame /\ Msg(r, status).req = r /\ Msg(r, status).status # "ok"
    BY <1>1, MsgType DEF Msg
  <1>3. /\ requests' \in Seq(Call) /\ replies' \subseteq Frame /\ seen' \subseteq replies'
        /\ AcksAreTrue' /\ AcksAreDurable' /\ Bases' /\ Places'
    BY <1>1, <1>2, AnswerHeld DEF EndRead, Reply, provider
  <1>4. TypeOK'
    BY <1>3 DEF EndRead, IInv, TypeOK, provider, client
  <1>5. OneHeld' /\ Commits' /\ Versions'
    BY <1>1 DEF EndRead, IInv, OneHeld, Commits, Versions, NoRead, provider
  <1> QED BY <1>3, <1>4, <1>5 DEF IInv

LEMMA ViewIsAVersion ==
    ASSUME IInv, NEW k \in Keys, NEW f, NEW rec \in Views(k, f)
    PROVE  rec \in Record /\ [key |-> k, rec |-> rec] \in past
  <1>1. CASE rec = store[k]
    BY <1>1 DEF IInv, TypeOK, Versions
  <1>2. CASE \E h \in past : h.key = k /\ rec = h.rec
    <2>1. PICK h \in past : h.key = k /\ rec = h.rec
      BY <1>2
    <2>2. h = [key |-> h.key, rec |-> h.rec] /\ h.rec \in Record
      BY DEF IInv, TypeOK
    <2> QED BY <2>1, <2>2
  <1> QED BY <1>1, <1>2 DEF Views

LEMMA ReadHeadStep == ASSUME IInv, ReadHead PROVE IInv'
  <1>0. /\ readPending.kind = "get" /\ readPending.stage = "head"
        /\ UNCHANGED <<probed, unavailable, requests, writePending, provider, client,
                       others, crashes>>
    BY DEF ReadHead, Reading
  <1>1. CASE EndRead("unavailable") /\ UNCHANGED buf
    BY <1>0, <1>1, EndReadStep, StatusesAre
  <1>2. CASE EndRead("not_found") /\ UNCHANGED buf
    BY <1>0, <1>2, EndReadStep, StatusesAre
  <1>3. ASSUME NEW f \in ReadFences, NEW rec \in Views(buf.key, f), rec.present,
               buf' = [buf EXCEPT !.etag = rec.rev, !.op = "head"],
               readPending' = [readPending EXCEPT !.stage = "get", !.want = SizeOf[rec.val]],
               UNCHANGED replies
        PROVE  IInv'
    <2> DEFINE r == readPending.req
    <2>1. /\ readPending \in HeldReads /\ r \in Call /\ r.op = "get" /\ buf.key = r.key
          /\ buf \in Buffers /\ buf.key \in Keys
          /\ ~writePending.live /\ writePending = NoWrite /\ inflight = {}
      BY <1>0, HeldRead DEF IInv, OneHeld
    <2>2. /\ rec \in Record /\ [key |-> buf.key, rec |-> rec] \in past
      BY <1>3, <2>1, ViewIsAVersion
    <2>3. rec.val \in Values /\ SizeOf[rec.val] \in Nat /\ rec.rev \in Nat
      BY <1>3, <2>2, ValuesAssumption DEF Record
    <2>4. /\ buf' \in Buffers /\ buf'.key = buf.key /\ buf'.etag = rec.rev
          /\ readPending' \in HeldReads /\ readPending'.kind = "get" /\ readPending'.req = r
          /\ readPending'.stage = "get" /\ readPending'.want = SizeOf[rec.val]
      BY <1>0, <1>3, <2>1, <2>3 DEF Buffers, HeldReads
    <2>5. TypeOK'
      BY <1>0, <1>3, <2>4 DEF IInv, TypeOK, provider, client
    <2>6. OneHeld' /\ Commits' /\ Versions'
      BY <1>0, <2>1, <2>4 DEF IInv, OneHeld, Commits, Versions, provider
    <2>7. AcksAreTrue' /\ AcksAreDurable'
      BY <1>0, <1>3 DEF IInv, AcksAreTrue, AcksAreDurable, provider
    <2>8. Bases'
      <3>1. /\ rec.rev <= rev[buf.key]
            /\ store[buf.key].rev = rec.rev => store[buf.key] = rec
        <4>1. [key |-> buf.key, rec |-> store[buf.key]] \in past
          BY <2>1 DEF IInv, Versions
        <4> QED BY <2>2, <4>1 DEF IInv, Versions
      <3> QED BY <1>0, <1>3, <2>1, <2>4, <3>1
              DEF IInv, Bases, Basis, IsGuarded, provider, client
    <2>9. Places'
      BY <1>0, <1>3, <2>4 DEF IInv, Places, client
    <2> QED BY <2>5, <2>6, <2>7, <2>8, <2>9 DEF IInv
  <1> QED BY <1>1, <1>2, <1>3 DEF ReadHead

LEMMA ReadOpenStep == ASSUME IInv, ReadOpen PROVE IInv'
  <1>0. /\ readPending.kind = "get" /\ readPending.stage = "get"
        /\ UNCHANGED <<probed, unavailable, requests, buf, writePending, provider, client,
                       others, crashes>>
    BY DEF ReadOpen, Reading
  <1>1. CASE EndRead("unavailable")
    BY <1>0, <1>1, EndReadStep, StatusesAre
  <1>2. CASE /\ store[buf.key].present
             /\ readPending' = [readPending EXCEPT !.stage = "range",
                                                   !.handle = store[buf.key].val]
             /\ UNCHANGED replies
    <2> DEFINE r == readPending.req
    <2>1. /\ readPending \in HeldReads /\ r \in Call /\ r.op = "get" /\ buf.key = r.key
          /\ buf \in Buffers /\ buf.key \in Keys
          /\ ~writePending.live /\ writePending = NoWrite /\ inflight = {}
      BY <1>0, HeldRead DEF IInv, OneHeld
    <2>2. store[buf.key].val \in Values
      BY <1>2, <2>1 DEF IInv, TypeOK, Record
    <2>3. /\ readPending' \in HeldReads /\ readPending'.kind = "get" /\ readPending'.req = r
          /\ readPending'.stage = "range" /\ readPending'.handle = store[buf.key].val
          /\ readPending'.want = readPending.want
      BY <1>0, <1>2, <2>1, <2>2 DEF HeldReads, Vals
    <2>4. TypeOK'
      BY <1>0, <1>2, <2>3 DEF IInv, TypeOK, provider, client
    <2>5. OneHeld' /\ Commits' /\ Versions'
      BY <1>0, <2>1, <2>2, <2>3 DEF IInv, OneHeld, Commits, Versions, provider
    <2>6. AcksAreTrue' /\ AcksAreDurable'
      BY <1>0, <1>2 DEF IInv, AcksAreTrue, AcksAreDurable, provider
    <2>7. Bases'
      <3>1. /\ buf.etag <= rev[buf.key]
            /\ store[buf.key].present /\ store[buf.key].rev = buf.etag =>
                  readPending.want = SizeOf[store[buf.key].val]
        BY <1>0 DEF IInv, Bases
      <3>2. SizeOf[store[buf.key].val] \in Nat
        BY <2>2, ValuesAssumption
      <3>3. Basis(buf.key, buf.etag, Cut(store[buf.key].val, readPending.want))
        BY <3>1, <3>2 DEF Basis, Cut
      <3> QED BY <1>0, <1>2, <2>1, <2>3, <3>3
              DEF IInv, Bases, Basis, IsGuarded, Cut, provider, client
    <2>8. Places'
      BY <1>0, <1>2, <2>3 DEF IInv, Places, client
    <2> QED BY <2>4, <2>5, <2>6, <2>7, <2>8 DEF IInv
  <1> QED BY <1>1, <1>2 DEF ReadOpen

LEMMA ReadRangeStep == ASSUME IInv, ReadRange PROVE IInv'
  <1>0. /\ readPending.kind = "get" /\ readPending.stage = "range"
        /\ UNCHANGED <<probed, unavailable, requests, buf, writePending, provider, client,
                       others, crashes>>
    BY DEF ReadRange, Reading
  <1>1. CASE EndRead("unavailable")
    BY <1>0, <1>1, EndReadStep, StatusesAre
  <1> DEFINE r == readPending.req
  <1> DEFINE m == [Msg(r, "ok") EXCEPT !.etag = buf.etag,
                                       !.val = Cut(readPending.handle, readPending.want)]
  <1>2. CASE Reply(m) /\ readPending' = NoRead
    <2>1. /\ readPending \in HeldReads /\ r \in Call /\ r.op = "get" /\ buf.key = r.key
          /\ buf \in Buffers /\ readPending.handle \in Values
          /\ ~writePending.live /\ writePending = NoWrite /\ inflight = {}
      BY <1>0, HeldRead DEF IInv, OneHeld
    <2>2. Cut(readPending.handle, readPending.want) \in Vals \cup {Torn} /\ buf.etag \in Nat
      BY <2>1 DEF Cut, Vals, Buffers
    <2>3. m \in Frame /\ m.req = r /\ m.etag = buf.etag
          /\ m.val = Cut(readPending.handle, readPending.want)
      BY <2>1, <2>2, MsgType, StatusesAre DEF Msg, Frame
    <2>4. Basis(r.key, m.etag, m.val)
      BY <1>0, <2>1, <2>3 DEF IInv, Bases
    <2> HIDE DEF m
    <2>5. /\ requests' \in Seq(Call) /\ replies' \subseteq Frame /\ seen' \subseteq replies'
          /\ AcksAreTrue' /\ AcksAreDurable' /\ Bases' /\ Places'
      BY <1>0, <1>2, <2>1, <2>3, <2>4, AnswerHeld DEF Reply, provider
    <2>6. TypeOK'
      BY <1>0, <1>2, <2>5 DEF IInv, TypeOK, provider, client
    <2>7. OneHeld' /\ Commits' /\ Versions'
      BY <1>0, <1>2, <2>1 DEF IInv, OneHeld, Commits, Versions, NoRead, provider
    <2> QED BY <2>5, <2>6, <2>7 DEF IInv
  <1> QED BY <1>1, <1>2 DEF ReadRange

LEMMA ReceiveStepInv == ASSUME IInv, NEW m \in replies, Receive(m) PROVE IInv'
  <1>0. /\ m \in replies \ seen /\ seen' = seen \cup {m} /\ m \in Frame
        /\ UNCHANGED <<module, provider, sent, replies, others, crashes>>
    BY DEF Receive, IInv, TypeOK
  <1> DEFINE c == m.req.id[1]
  <1> DEFINE k == m.req.key
  <1> DEFINE new == IF m.req.op = "get"
                      THEN [etag |-> m.etag, val |-> m.val, src |-> "read"]
                      ELSE [etag |-> m.etag, val |-> m.req.val, src |-> "ack"]
  <1>1. c \in Clients /\ k \in Keys /\ new \in Learned
    BY <1>0 DEF Frame, Call, Requests, Ids, Learned, Vals
  <1>2. \/ view' = view
        \/ m.status = "ok" /\ view' = [view EXCEPT ![c][k] = new]
    BY DEF Receive
  <1>3. m.status = "ok" /\ new.src = "read" => Basis(k, new.etag, new.val)
    BY <1>0 DEF IInv, Bases
  <1> HIDE DEF c, k, new
  <1>4. \A d \in Clients, j \in Keys :
           view'[d][j] = view[d][j] \/ (m.status = "ok" /\ j = k /\ view'[d][j] = new)
    BY <1>1, <1>2 DEF IInv, TypeOK
  <1>5. TypeOK'
    <2>1. view' \in [Clients -> [Keys -> Learned]]
      <3>1. view \in [Clients -> [Keys -> Learned]]
        BY DEF IInv, TypeOK
      <3>2. [view[c] EXCEPT ![k] = new] \in [Keys -> Learned]
        BY <1>1, <3>1
      <3>3. [view EXCEPT ![c] = [view[c] EXCEPT ![k] = new]] \in [Clients -> [Keys -> Learned]]
        BY <1>1, <3>1, <3>2
      <3> QED BY <1>2, <3>1, <3>3
    <2> QED BY <1>0, <2>1 DEF IInv, TypeOK, module, provider
  <1>6. OneHeld' /\ Commits' /\ Versions' /\ AcksAreTrue' /\ AcksAreDurable'
    BY <1>0 DEF IInv, OneHeld, Commits, Versions, AcksAreTrue, AcksAreDurable, Stands,
                Args, module, provider
  <1>7. Bases'
    <2>1. \A d \in Clients, j \in Keys :
             view'[d][j].src = "read" => Basis(j, view'[d][j].etag, view'[d][j].val)
      BY <1>3, <1>4 DEF IInv, Bases
    <2> QED BY <1>0, <2>1 DEF IInv, Bases, Basis, IsGuarded, Cut, module, provider
  <1>8. Places'
    BY <1>0 DEF IInv, Places, module
  <1> QED BY <1>5, <1>6, <1>7, <1>8 DEF IInv

LEMMA SendStep ==
    ASSUME IInv, NEW c \in Clients, NEW r \in Call, Send(c, r),
           r.id = <<c, sent[c] + 1>>,
           IsGuarded(r) => Basis(r.key, r.etag, r.basis)
    PROVE  IInv'
  <1>0. /\ sent[c] < MaxReqs /\ sent' = [sent EXCEPT ![c] = @ + 1]
        /\ requests' = Append(requests, r)
        /\ UNCHANGED <<probed, unavailable, buf, writePending, readPending, provider, seen,
                       view, replies, others, crashes>>
    BY DEF Send
  <1>1. /\ requests' \in Seq(Call)
        /\ \A i \in DOMAIN requests' :
              \/ i \in DOMAIN requests /\ requests'[i] = requests[i]
              \/ i \notin DOMAIN requests /\ i = Len(requests) + 1 /\ requests'[i] = r
    BY <1>0, AppendFacts DEF IInv, TypeOK
  <1>2. /\ sent' \in [Clients -> 0 .. MaxReqs]
        /\ \A d \in Clients : sent[d] \in Nat /\ sent[d] <= sent'[d]
        /\ sent'[c] = sent[c] + 1
    BY <1>0, BoundAssumption DEF IInv, TypeOK
  <1>3. TypeOK'
    BY <1>0, <1>1, <1>2 DEF IInv, TypeOK, provider
  <1>4. OneHeld' /\ Commits' /\ Versions' /\ AcksAreTrue' /\ AcksAreDurable'
    BY <1>0 DEF IInv, OneHeld, Commits, Versions, AcksAreTrue, AcksAreDurable, Stands,
                Args, provider
  <1>5. Bases'
    BY <1>0, <1>1 DEF IInv, Bases, Basis, IsGuarded, Cut, provider
  <1>6. Places'
    <2>1. ASSUME NEW q \in Call, q.id[2] <= sent[q.id[1]]
          PROVE  q.id[2] <= sent'[q.id[1]] /\ q.id # r.id
      <3>1. q.id[1] \in Clients /\ q.id[2] \in Nat
        BY DEF Call, Requests, Ids
      <3>2. sent[q.id[1]] \in Nat /\ sent'[q.id[1]] \in Nat /\ sent[q.id[1]] <= sent'[q.id[1]]
        BY <1>2, <3>1
      <3>3. q.id[1] = c => q.id[2] # sent[c] + 1
        BY <2>1, <3>1, <3>2
      <3>4. r.id[1] = c /\ r.id[2] = sent[c] + 1
        OBVIOUS
      <3> QED BY <2>1, <3>1, <3>2, <3>3, <3>4
    <2>2. r.id[2] <= sent'[r.id[1]]
      BY <1>2
    <2>3. \A i \in DOMAIN requests : /\ requests[i].id[2] <= sent'[requests[i].id[1]]
                                     /\ requests[i].id # r.id
      BY <2>1 DEF IInv, TypeOK, Places
    <2>4. \A m \in replies : m.req.id[2] <= sent'[m.req.id[1]] /\ m.req.id # r.id
      <3>1. \A m \in replies : m.req \in Call
        BY DEF IInv, TypeOK, Frame
      <3> QED BY <2>1, <3>1 DEF IInv, Places
    <2>5. writePending.live => /\ writePending.req.id[2] <= sent'[writePending.req.id[1]]
                               /\ writePending.req.id # r.id
      BY <2>1, HeldWrite DEF IInv, Places
    <2>6. readPending.kind # "none" =>
             /\ readPending.req.id[2] <= sent'[readPending.req.id[1]]
             /\ readPending.req.id # r.id
      BY <2>1, HeldRead DEF IInv, Places
    <2> QED BY <1>0, <1>1, <2>2, <2>3, <2>4, <2>5, <2>6 DEF IInv, Places
  <1> QED BY <1>3, <1>4, <1>5, <1>6 DEF IInv

(* A new version of one object: the last revision given out grows by one,  *)
(* and so nothing that was seen, acknowledged or promised changes.         *)
LEMMA InstallKeeps ==
    ASSUME IInv, NEW k \in Keys, NEW rec \in Record, NEW b \in BOOLEAN,
           rec.rev = rev[k] + 1, Install(k, rec, b)
    PROVE  /\ store' \in [Keys -> Record] /\ durable' \in [Keys -> Record]
           /\ rev' \in [Keys -> Nat] /\ past' \subseteq [key : Keys, rec : Record]
           /\ past \subseteq past' /\ [key |-> k, rec |-> rec] \in past'
           /\ store' = [store EXCEPT ![k] = rec] /\ store'[k] = rec
           /\ b => durable'[k] = rec
           /\ \A j \in Keys : /\ store[j].rev <= store'[j].rev
                              /\ durable[j].rev <= durable'[j].rev
           /\ Versions'
           /\ \A j \in Keys, e \in Nat : \A v : Basis(j, e, v) =>
                 /\ e <= rev'[j]
                 /\ store'[j].present /\ store'[j].rev = e => store'[j].val = v
  <1>0. /\ store \in [Keys -> Record] /\ durable \in [Keys -> Record] /\ rev \in [Keys -> Nat]
        /\ past \subseteq [key : Keys, rec : Record]
    BY DEF IInv, TypeOK
  <1>1. /\ rev' = [rev EXCEPT ![k] = rec.rev] /\ store' = [store EXCEPT ![k] = rec]
        /\ past' = past \cup {[key |-> k, rec |-> rec]}
        /\ durable' = IF b THEN [durable EXCEPT ![k] = rec] ELSE durable
    BY DEF Install
  <1>2. \A r \in Record : r.rev \in Nat
    BY DEF Record
  <1>3. /\ store' \in [Keys -> Record] /\ durable' \in [Keys -> Record]
        /\ rev' \in [Keys -> Nat] /\ past' \subseteq [key : Keys, rec : Record]
    BY <1>0, <1>1, <1>2
  <1>4. \A j \in Keys : /\ durable[j].rev <= store[j].rev /\ store[j].rev <= rev[j]
                        /\ [key |-> j, rec |-> store[j]] \in past
                        /\ [key |-> j, rec |-> durable[j]] \in past
    BY DEF IInv, Versions
  <1>5. \A j \in Keys : /\ store'[j] = IF j = k THEN rec ELSE store[j]
                        /\ durable'[j] = IF j = k /\ b THEN rec ELSE durable[j]
                        /\ rev'[j] = IF j = k THEN rev[k] + 1 ELSE rev[j]
    BY <1>0, <1>1
  <1>6. \A j \in Keys : store[j].rev \in Nat /\ durable[j].rev \in Nat /\ rev[j] \in Nat
    BY <1>0, <1>2
  <1>7. \A j \in Keys : /\ store[j].rev <= store'[j].rev /\ durable[j].rev <= durable'[j].rev
                        /\ durable'[j].rev <= store'[j].rev /\ store'[j].rev <= rev'[j]
                        /\ rev[j] <= rev'[j]
    <2> SUFFICES ASSUME NEW j \in Keys
                 PROVE  /\ store[j].rev <= store'[j].rev /\ durable[j].rev <= durable'[j].rev
                        /\ durable'[j].rev <= store'[j].rev /\ store'[j].rev <= rev'[j]
                        /\ rev[j] <= rev'[j]
      OBVIOUS
    <2>1. /\ store[j].rev \in Nat /\ durable[j].rev \in Nat /\ rev[j] \in Nat
          /\ durable[j].rev <= store[j].rev /\ store[j].rev <= rev[j]
      BY <1>4, <1>6
    <2>2. CASE j = k
      <3>1. store'[k].rev = rev[k] + 1 /\ rev'[k] = rev[k] + 1
        BY <1>5
      <3>2. durable'[k].rev = rev[k] + 1 \/ durable'[k].rev = durable[k].rev
        BY <1>5
      <3> QED BY <2>1, <2>2, <3>1, <3>2
    <2>3. CASE j # k
      <3>1. store'[j] = store[j] /\ durable'[j] = durable[j] /\ rev'[j] = rev[j]
        BY <1>5, <2>3
      <3> QED BY <2>1, <3>1
    <2> QED BY <2>2, <2>3
  <1>8. Versions'
    <2>1. \A j \in Keys : /\ [key |-> j, rec |-> store'[j]] \in past'
                          /\ [key |-> j, rec |-> durable'[j]] \in past'
      <3> SUFFICES ASSUME NEW j \in Keys
                   PROVE  /\ [key |-> j, rec |-> store'[j]] \in past'
                          /\ [key |-> j, rec |-> durable'[j]] \in past'
        OBVIOUS
      <3>1. \/ j = k /\ store'[j] = rec
            \/ store'[j] = store[j]
        BY <1>5
      <3>2. \/ j = k /\ durable'[j] = rec
            \/ durable'[j] = durable[j]
        BY <1>5
      <3>3. past \subseteq past' /\ [key |-> k, rec |-> rec] \in past'
        BY <1>1
      <3>4. /\ [key |-> j, rec |-> store[j]] \in past'
            /\ [key |-> j, rec |-> durable[j]] \in past'
        BY <1>4, <3>3
      <3> QED BY <3>1, <3>2, <3>3, <3>4
    <2>2. \A h \in past : h.key \in Keys /\ h.rec.rev \in Nat /\ h.rec.rev <= rev[h.key]
      BY <1>0, <1>2 DEF IInv, Versions
    <2>3. \A h \in past' : h.rec.rev <= rev'[h.key]
      BY <1>1, <1>5, <1>6, <1>7, <2>2
    <2>4. \A h \in past : h.key = k => h.rec.rev # rec.rev
      BY <1>6, <2>2
    <2>5. \A g, h \in past' : g.key = h.key /\ g.rec.rev = h.rec.rev => g = h
      BY <1>1, <2>4 DEF IInv, Versions
    <2> QED BY <1>7, <2>1, <2>3, <2>5 DEF Versions
  <1>9. \A j \in Keys, e \in Nat : \A v : Basis(j, e, v) =>
           /\ e <= rev'[j]
           /\ store'[j].present /\ store'[j].rev = e => store'[j].val = v
    BY <1>5, <1>6 DEF Basis
  <1> QED BY <1>1, <1>3, <1>5, <1>7, <1>8, <1>9

(* What the clients, the module and the replies hold is about versions     *)
(* that an installed one leaves as they were.                              *)
LEMMA InstallBases ==
    ASSUME IInv, NEW k \in Keys, NEW rec \in Record, NEW b \in BOOLEAN,
           rec.rev = rev[k] + 1, Install(k, rec, b), UNCHANGED <<module, client, replies>>
    PROVE  Bases' /\ AcksAreTrue' /\ AcksAreDurable' /\ Places'
  <1>0. /\ store' \in [Keys -> Record] /\ durable' \in [Keys -> Record]
        /\ past \subseteq past' /\ store' = [store EXCEPT ![k] = rec] /\ store'[k] = rec
        /\ \A j \in Keys : durable[j].rev <= durable'[j].rev
        /\ \A j \in Keys, e \in Nat : \A v : Basis(j, e, v) =>
              /\ e <= rev'[j]
              /\ store'[j].present /\ store'[j].rev = e => store'[j].val = v
    BY InstallKeeps
  <1>1. ASSUME NEW j \in Keys, NEW e \in Nat, NEW v, Basis(j, e, v) PROVE Basis(j, e, v)'
    BY <1>0, <1>1 DEF Basis
  <1>2. AcksAreTrue'
    BY <1>0 DEF IInv, AcksAreTrue
  <1>3. AcksAreDurable'
    <2> SUFFICES ASSUME NEW m \in replies, m.status = "ok", m.req.op \in {"put_abs", "cas"},
                        m.req.key \in DurableKeys
                 PROVE  m.crev <= durable'[m.req.key].rev
      BY DEF AcksAreDurable, DurableKeys
    <2>1. m.req.key \in Keys /\ m.crev \in Nat
      BY DEF IInv, TypeOK, Frame, DurableKeys
    <2>2. durable[m.req.key].rev \in Nat /\ durable'[m.req.key].rev \in Nat
      BY <1>0, <2>1 DEF IInv, TypeOK, Record
    <2>3. m.crev <= durable[m.req.key].rev /\ durable[m.req.key].rev <= durable'[m.req.key].rev
      BY <1>0, <2>1 DEF IInv, AcksAreDurable
    <2> QED BY <2>1, <2>2, <2>3
  <1>4. Places'
    BY DEF IInv, Places, module, client
  <1>5. Bases'
    <2>1. \A i \in DOMAIN requests : IsGuarded(requests[i]) =>
             Basis(requests[i].key, requests[i].etag, requests[i].basis)'
      <3>1. \A i \in DOMAIN requests : requests[i].key \in Keys /\ requests[i].etag \in Nat
        BY DEF IInv, TypeOK, Call, Requests
      <3> QED BY <1>1, <3>1 DEF IInv, Bases, module
    <2>2. writePending.live /\ IsGuarded(writePending.req) =>
             Basis(writePending.req.key, writePending.req.etag, writePending.req.basis)'
      <3>1. writePending.live => /\ writePending.req.key \in Keys
                                 /\ writePending.req.etag \in Nat
        BY HeldWrite DEF Call, Requests
      <3> QED BY <1>1, <3>1 DEF IInv, Bases, module
    <2>3. \A c \in Clients, j \in Keys : view[c][j].src = "read" =>
             Basis(j, view[c][j].etag, view[c][j].val)'
      <3>1. \A c \in Clients, j \in Keys : view[c][j].etag \in Nat
        BY DEF IInv, TypeOK, Learned
      <3> QED BY <1>1, <3>1 DEF IInv, Bases, client
    <2>4. \A m \in replies \ seen : m.status = "ok" /\ m.req.op = "get" =>
             Basis(m.req.key, m.etag, m.val)'
      <3>1. \A m \in replies : m.req.key \in Keys /\ m.etag \in Nat
        BY DEF IInv, TypeOK, Frame, Call, Requests
      <3> QED BY <1>1, <3>1 DEF IInv, Bases
    <2>5. buf.key \in Keys /\ buf.etag \in Nat
      BY DEF IInv, TypeOK, Buffers
    <2>6. readPending.kind = "get" /\ readPending.stage = "get" =>
             /\ buf.etag <= rev'[buf.key]
             /\ store'[buf.key].present /\ store'[buf.key].rev = buf.etag =>
                   readPending.want = SizeOf[store'[buf.key].val]
      <3> SUFFICES ASSUME readPending.kind = "get", readPending.stage = "get"
                   PROVE  /\ buf.etag <= rev'[buf.key]
                          /\ store'[buf.key].present /\ store'[buf.key].rev = buf.etag =>
                                readPending.want = SizeOf[store'[buf.key].val]
        OBVIOUS
      <3>1. Basis(buf.key, buf.etag, store[buf.key].val)
        BY DEF IInv, Bases, Basis
      <3>2. CASE buf.key = k
        <4>1. store'[k].rev = rev[k] + 1 /\ rev[k] \in Nat /\ buf.etag <= rev[k]
          BY <1>0, <3>1, <3>2 DEF IInv, TypeOK, Basis
        <4>2. store'[k].rev # buf.etag
          BY <2>5, <4>1
        <4> QED BY <1>1, <2>5, <3>1, <3>2, <4>2 DEF Basis
      <3>3. CASE buf.key # k
        <4>1. store'[buf.key] = store[buf.key]
          BY <1>0, <2>5, <3>3 DEF IInv, TypeOK
        <4> QED BY <1>1, <2>5, <3>1, <4>1 DEF Basis, IInv, Bases
      <3> QED BY <3>2, <3>3
    <2>7. readPending.kind = "get" /\ readPending.stage = "range" =>
             Basis(buf.key, buf.etag, Cut(readPending.handle, readPending.want))'
      BY <1>1, <2>5 DEF IInv, Bases, module, Cut
    <2> QED BY <2>1, <2>2, <2>3, <2>4, <2>6, <2>7 DEF Bases, IsGuarded, module, client
  <1> QED BY <1>2, <1>3, <1>4, <1>5

LEMMA CommitStep ==
    ASSUME IInv, NEW w \in inflight, NEW f \in WriteFences, ProviderCommit(w, f)
    PROVE  IInv'
  <1> DEFINE r == writePending.req
  <1> DEFINE rec == Version(w.args)
  <1> DEFINE b == AtLeast(f, "local_durable")
  <1> DEFINE d == [w EXCEPT !.rc = "done", !.fence = f, !.rev = rev[w.args.key] + 1]
  <1>0. /\ Install(w.args.key, rec, b) /\ inflight' = (inflight \ {w}) \cup {d}
        /\ UNCHANGED <<module, client, replies, others, crashes>>
    BY DEF ProviderCommit, Decide
  <1>1. /\ writePending.live /\ r \in Call /\ r.op \in {"put_abs", "cas", "delete"}
        /\ inflight = {w} /\ w \in Flight /\ w.args = Args(buf) /\ readPending = NoRead
        /\ w.args = [op |-> r.op, key |-> r.key, val |-> r.val, guard |-> r.etag]
    <2>1. writePending.live
      BY DEF IInv, OneHeld
    <2> QED BY <2>1, HeldWrite
  <1>2. /\ r.key \in Keys /\ w.args.key = r.key /\ rev[r.key] \in Nat
        /\ rec = [rev |-> rev[r.key] + 1, val |-> IF r.op = "delete" THEN NoVal ELSE r.val,
                  present |-> r.op # "delete"]
    BY <1>1 DEF Call, Requests, IInv, TypeOK, Version
  <1>3. rec \in Record /\ rec.rev = rev[r.key] + 1
    <2>1. r.val \in Vals /\ (r.op # "delete" => r.val \in Values)
      BY <1>1 DEF Call, Requests, Vals
    <2>2. (IF r.op = "delete" THEN NoVal ELSE r.val) \in Vals
      BY <2>1 DEF Vals
    <2>3. rec.present => rec.val \in Values
      <3>1. CASE r.op = "delete"
        <4>1. rec = [rev |-> rev[r.key] + 1, val |-> NoVal, present |-> FALSE]
          BY <1>2, <3>1
        <4> QED BY <4>1
      <3>2. CASE r.op # "delete"
        <4>1. rec.val = r.val
          BY <1>2, <3>2
        <4> QED BY <2>1, <3>2, <4>1
      <3> QED BY <3>1, <3>2
    <2>4. rec \in [rev : Nat, val : Vals, present : BOOLEAN]
      BY <1>2, <2>2
    <2>5. rec.rev = rev[r.key] + 1
      BY <1>2
    <2> HIDE DEF rec
    <2> QED BY <2>3, <2>4, <2>5 DEF Record
  <1>4. d \in Flight /\ d.args = w.args /\ d.rc = "done" /\ d.fence = f
        /\ d.rev = rev[r.key] + 1 /\ inflight' = {d}
    <2>1. f \in Fences /\ "done" \in WriteCodes /\ rev[w.args.key] + 1 \in Nat
      BY <1>2, FenceAssumption DEF WriteCodes
    <2>2. inflight' = {d}
      BY <1>0, <1>1
    <2> QED BY <1>1, <1>2, <2>1, <2>2 DEF Flight
  <1> HIDE DEF r, rec, d
  <1>5. b \in BOOLEAN
    BY DEF AtLeast
  <1> HIDE DEF b
  <1>6. /\ store' \in [Keys -> Record] /\ durable' \in [Keys -> Record]
        /\ rev' \in [Keys -> Nat] /\ past' \subseteq [key : Keys, rec : Record]
        /\ [key |-> r.key, rec |-> rec] \in past' /\ store'[r.key] = rec
        /\ b => durable'[r.key] = rec
        /\ Versions'
    BY <1>0, <1>2, <1>3, <1>5, InstallKeeps
  <1>7. Bases' /\ AcksAreTrue' /\ AcksAreDurable' /\ Places'
    BY <1>0, <1>2, <1>3, <1>5, InstallBases
  <1>8. TypeOK'
    BY <1>0, <1>4, <1>6 DEF IInv, TypeOK, module, client
  <1>9. OneHeld'
    BY <1>0, <1>1, <1>4 DEF IInv, OneHeld, Args, module
  <1>10. Commits'
    <2>1. writePending' = writePending /\ readPending'.kind # "etag"
      BY <1>0, <1>1 DEF module, NoRead
    <2>2. d.rev <= store'[r.key].rev
      BY <1>2, <1>3, <1>4, <1>6
    <2>3. [key |-> r.key,
           rec |-> [rev |-> d.rev, val |-> IF r.op = "delete" THEN NoVal ELSE r.val,
                    present |-> r.op # "delete"]] \in past'
      BY <1>2, <1>4, <1>6
    <2>4. AtLeast(d.fence, "local_durable") => d.rev <= durable'[d.args.key].rev
      <3>1. d.rev \in Nat
        BY <1>4 DEF Flight
      <3> QED BY <1>2, <1>3, <1>4, <1>6, <3>1 DEF b
    <2> QED BY <1>4, <2>1, <2>2, <2>3, <2>4 DEF Commits, Stands, r
  <1> QED BY <1>6, <1>7, <1>8, <1>9, <1>10 DEF IInv

LEMMA RefusalStep == ASSUME IInv, NEW w \in inflight, ProviderRefuse(w) PROVE IInv'
  <1>0. PICK rc \in Refusals(w.args) :
           inflight' = (inflight \ {w}) \cup {[w EXCEPT !.rc = rc]}
    BY DEF ProviderRefuse, Decide
  <1> DEFINE d == [w EXCEPT !.rc = rc]
  <1>1. UNCHANGED <<module, store, durable, rev, past, client, replies, others, crashes>>
    BY DEF ProviderRefuse
  <1>2. /\ writePending.live /\ inflight = {w} /\ w \in Flight /\ w.args = Args(buf)
        /\ readPending = NoRead
    <2>1. writePending.live
      BY DEF IInv, OneHeld
    <2> QED BY <2>1, HeldWrite
  <1>3. rc \in WriteCodes \ {"done"}
    BY DEF Refusals, WriteCodes
  <1>4. d \in Flight /\ d.args = w.args /\ d.rc = rc /\ inflight' = {d}
    BY <1>0, <1>2, <1>3 DEF Flight
  <1> HIDE DEF d
  <1>5. TypeOK'
    BY <1>1, <1>4 DEF IInv, TypeOK, module, client
  <1>6. OneHeld' /\ Commits'
    BY <1>1, <1>2, <1>3, <1>4 DEF IInv, OneHeld, Commits, Args, NoRead, module
  <1>7. Versions' /\ AcksAreTrue' /\ AcksAreDurable'
    BY <1>1 DEF IInv, Versions, AcksAreTrue, AcksAreDurable
  <1>8. Bases' /\ Places'
    BY <1>1 DEF IInv, Bases, Places, Basis, IsGuarded, Cut, module, client
  <1> QED BY <1>5, <1>6, <1>7, <1>8 DEF IInv

LEMMA OtherStep == ASSUME IInv, NEW k \in Keys, OtherWrite(k) PROVE IInv'
  <1>0. /\ others' = others + 1 /\ UNCHANGED <<module, inflight, client, replies, crashes>>
    BY DEF OtherWrite
  <1>1. PICK rec \in [rev : {rev[k] + 1}, val : Vals, present : BOOLEAN] :
           (rec.present => rec.val \in Values) /\ Install(k, rec, TRUE)
    BY DEF OtherWrite, Vals
  <1>2. rec \in Record /\ rec.rev = rev[k] + 1
    BY <1>1 DEF Record, IInv, TypeOK
  <1>3. /\ store' \in [Keys -> Record] /\ durable' \in [Keys -> Record]
        /\ rev' \in [Keys -> Nat] /\ past' \subseteq [key : Keys, rec : Record]
        /\ past \subseteq past'
        /\ \A j \in Keys : store[j].rev <= store'[j].rev /\ durable[j].rev <= durable'[j].rev
        /\ Versions'
    BY <1>1, <1>2, InstallKeeps
  <1>4. Bases' /\ AcksAreTrue' /\ AcksAreDurable' /\ Places'
    BY <1>0, <1>1, <1>2, InstallBases
  <1>5. TypeOK'
    BY <1>0, <1>3 DEF IInv, TypeOK, module, client
  <1>6. OneHeld'
    BY <1>0 DEF IInv, OneHeld, Args, module
  <1>7. Commits'
    <2>1. ASSUME NEW j \in Keys, NEW n \in Nat
          PROVE  /\ n <= store[j].rev => n <= store'[j].rev
                 /\ n <= durable[j].rev => n <= durable'[j].rev
      <3>1. /\ store[j].rev \in Nat /\ store'[j].rev \in Nat
            /\ durable[j].rev \in Nat /\ durable'[j].rev \in Nat
        BY <1>3 DEF IInv, TypeOK, Record
      <3> QED BY <1>3, <3>1
    <2>2. ASSUME NEW w \in inflight, w.rc = "done"
          PROVE  /\ Stands(writePending.req, w.rev)'
                 /\ AtLeast(w.fence, "local_durable") => w.rev <= durable'[w.args.key].rev
      <3>1. /\ writePending.req.key \in Keys /\ w.rev \in Nat
            /\ w.args.key = writePending.req.key
        <4>1. writePending.live
          BY DEF IInv, OneHeld
        <4>2. /\ writePending.req \in Call /\ w \in Flight /\ w.args = Args(buf)
              /\ buf.key = writePending.req.key
          BY <4>1, HeldWrite
        <4> QED BY <4>2 DEF Call, Requests, Flight, Args
      <3>2. /\ Stands(writePending.req, w.rev)
            /\ AtLeast(w.fence, "local_durable") => w.rev <= durable[w.args.key].rev
        BY <2>2 DEF IInv, Commits
      <3> QED BY <1>0, <1>3, <2>1, <3>1, <3>2 DEF Stands, module
    <2>3. ASSUME readPending.kind = "etag"
          PROVE  /\ Stands(readPending.req, readPending.crev)'
                 /\ readPending.req.key \in DurableKeys =>
                       readPending.crev <= durable'[readPending.req.key].rev
      <3>1. readPending.req.key \in Keys /\ readPending.crev \in Nat
        BY <2>3, HeldRead DEF Call, Requests, HeldReads
      <3>2. /\ Stands(readPending.req, readPending.crev)
            /\ readPending.req.key \in DurableKeys =>
                  readPending.crev <= durable[readPending.req.key].rev
        BY <2>3 DEF IInv, Commits
      <3> QED BY <1>0, <1>3, <2>1, <3>1, <3>2 DEF Stands, module
    <2> QED BY <1>0, <2>2, <2>3 DEF Commits, module, DurableKeys
  <1> QED BY <1>3, <1>4, <1>5, <1>6, <1>7 DEF IInv

LEMMA CrashStep == ASSUME IInv, Crash PROVE IInv'
  <1>0. /\ requests' = <<>> /\ writePending' = NoWrite /\ readPending' = NoRead
        /\ inflight' = {} /\ store' = durable /\ seen' = replies
        /\ view' = [c \in Clients |-> [k \in Keys |-> NoView]]
        /\ UNCHANGED <<buf, durable, rev, past, sent, replies, others>>
        /\ crashes' = crashes + 1 /\ probed' = FALSE /\ unavailable' = FALSE
    BY DEF Crash
  <1>1. ~writePending'.live /\ readPending'.kind = "none" /\ readPending'.stage = "idle"
    BY <1>0 DEF NoWrite, NoRead
  <1>2. TypeOK'
    <2>1. NoView \in Learned
      BY DEF NoView, Learned, Vals
    <2>2. view' \in [Clients -> [Keys -> Learned]]
      BY <1>0, <2>1
    <2>3. crashes' \in Nat /\ requests' \in Seq(Call)
      BY <1>0 DEF IInv, TypeOK
    <2> QED BY <1>0, <2>2, <2>3 DEF IInv, TypeOK
  <1>3. Versions'
    <2>1. \A k \in Keys : durable[k].rev \in Nat /\ store[k].rev \in Nat /\ rev[k] \in Nat
      BY DEF IInv, TypeOK, Record
    <2>2. \A k \in Keys : durable[k].rev <= rev[k]
      BY <2>1 DEF IInv, Versions
    <2>3. \A k \in Keys : durable[k].rev <= durable[k].rev
      BY <2>1
    <2> QED BY <1>0, <2>2, <2>3 DEF IInv, Versions
  <1>4. OneHeld' /\ Commits' /\ AcksAreTrue' /\ AcksAreDurable'
    BY <1>0, <1>1 DEF IInv, OneHeld, Commits, AcksAreTrue, AcksAreDurable
  <1>5. Bases'
    <2>1. \A c \in Clients, k \in Keys : view'[c][k].src # "read"
      BY <1>0 DEF NoView
    <2> QED BY <1>0, <1>1, <2>1 DEF Bases
  <1>6. Places'
    BY <1>0, <1>1 DEF IInv, Places
  <1> QED BY <1>2, <1>3, <1>4, <1>5, <1>6 DEF IInv

LEMMA ClientStep ==
    ASSUME IInv, NEW c \in Clients, NEW k \in Keys,
           \/ SendGet(c, k) \/ SendDelete(c, k) \/ SendJunk(c, k)
           \/ \E v \in Values : SendPutAbs(c, k, v) \/ SendCas(c, k, v)
    PROVE  IInv'
  <1>1. /\ NoView \in Learned /\ view[c][k] \in Learned
        /\ view[c][k].src = "read" => Basis(k, view[c][k].etag, view[c][k].val)
        /\ NoView.src = "none"
    BY DEF NoView, Learned, Vals, IInv, TypeOK, Bases
  <1>2. ASSUME NEW op \in Ops, NEW v \in Vals, op \in {"put_abs", "cas"} => v \in Values,
               NEW w \in Learned, w.src = "read" => Basis(k, w.etag, w.val),
               Send(c, Request(c, op, k, v, w))
        PROVE  IInv'
    <2> DEFINE r == Request(c, op, k, v, w)
    <2>1. sent[c] + 1 \in 1 .. MaxReqs
      BY <1>2, BoundAssumption DEF Send, IInv, TypeOK
    <2>2. <<c, sent[c] + 1>> \in Ids
      BY <2>1 DEF Ids
    <2>3. r \in Call
      BY <1>2, <2>2 DEF Request, Call, Requests, Learned, Vals
    <2>4. /\ r.id = <<c, sent[c] + 1>>
          /\ IsGuarded(r) => Basis(r.key, r.etag, r.basis)
      BY <1>2 DEF Request, IsGuarded
    <2> HIDE DEF r
    <2> QED BY <1>2, <2>3, <2>4, SendStep DEF r
  <1>3. "get" \in Ops /\ "put_abs" \in Ops /\ "cas" \in Ops /\ "delete" \in Ops
        /\ "junk" \in Ops /\ NoVal \in Vals /\ Values \subseteq Vals
    BY DEF Ops, Vals
  <1>4. CASE SendGet(c, k)
    BY <1>1, <1>2, <1>3, <1>4 DEF SendGet
  <1>5. CASE SendDelete(c, k)
    BY <1>1, <1>2, <1>3, <1>5 DEF SendDelete
  <1>6. CASE SendJunk(c, k)
    BY <1>1, <1>2, <1>3, <1>6 DEF SendJunk
  <1>7. ASSUME NEW v \in Values, SendPutAbs(c, k, v) PROVE IInv'
    BY <1>1, <1>2, <1>3, <1>7 DEF SendPutAbs
  <1>8. ASSUME NEW v \in Values, SendCas(c, k, v) PROVE IInv'
    BY <1>1, <1>2, <1>3, <1>8 DEF SendCas
  <1> QED BY <1>4, <1>5, <1>6, <1>7, <1>8

LEMMA NextInv == IInv /\ [Next]_vars => IInv'
  <1> SUFFICES ASSUME IInv, [Next]_vars PROVE IInv'
    OBVIOUS
  <1>1. CASE ModuleStep
    BY <1>1, ProbeStep, DropStep, RefuseStep, StartGetStep, StartWriteStep, AskAgainStep,
       FinishStep, EtagStep, ReadHeadStep, ReadOpenStep, ReadRangeStep DEF ModuleStep
  <1>2. CASE ProviderStep
    BY <1>2, CommitStep, RefusalStep DEF ProviderStep
  <1>3. CASE ReceiveStep
    BY <1>3, ReceiveStepInv DEF ReceiveStep
  <1>4. ASSUME NEW c \in Clients, NEW k \in Keys,
               \/ SendGet(c, k) \/ SendDelete(c, k) \/ SendJunk(c, k)
               \/ \E v \in Values : SendPutAbs(c, k, v) \/ SendCas(c, k, v)
        PROVE  IInv'
    BY <1>4, ClientStep
  <1>5. ASSUME NEW k \in Keys, OtherWrite(k) PROVE IInv'
    BY <1>5, OtherStep
  <1>6. CASE Crash
    BY <1>6, CrashStep
  <1>7. CASE UNCHANGED vars
    <2>1. TypeOK' /\ Versions' /\ OneHeld' /\ Commits'
      BY <1>7 DEF IInv, TypeOK, Versions, OneHeld, Commits, Stands, Args, vars, module,
                  provider, client
    <2>2. AcksAreTrue' /\ AcksAreDurable' /\ Bases' /\ Places'
      BY <1>7 DEF IInv, AcksAreTrue, AcksAreDurable, Bases, Basis, IsGuarded, Cut, Places,
                  vars, module, provider, client
    <2> QED BY <2>1, <2>2 DEF IInv
  <1> QED BY <1>1, <1>2, <1>3, <1>4, <1>5, <1>6, <1>7 DEF Next

LEMMA SpecInv == Spec => []IInv
  BY InitInv, NextInv, PTL DEF Spec

(* The acknowledgements of the object-backed ledger (etag_after_write) are *)
(* true of their own request: its value was committed under its key, and   *)
(* the etag named is never older than that commit, whatever other holders  *)
(* of the store write, and whichever restarts happen, in between.          *)
THEOREM AcknowledgementsAreTrue == Spec => []AcksAreTrue
  <1>1. IInv => AcksAreTrue
    BY DEF IInv
  <1> QED BY <1>1, SpecInv, PTL

(* The order of a read (advance_read: HEAD for the etag, then GET for the  *)
(* value): a guarded write that presents an etag it read can only find its *)
(* precondition true while the store holds the value that read returned.   *)
THEOREM ReadsCanBeComparedAgainst == Spec => []ReadBasisHolds
  <1>1. IInv => ReadBasisHolds
    BY DEF IInv, ReadBasisHolds, Unwritten, Queued, Bases, Basis, IsGuarded
  <1> QED BY <1>1, SpecInv, PTL

-----------------------------------------------------------------------------
(***************************************************************************)
(* The refinement of LedgerService.                                        *)
(***************************************************************************)
(* A bounded set of numbers has a greatest element, and Max is it.         *)
LEMMA MaxOfBounded ==
    ASSUME NEW S \in SUBSET Nat, S # {}, NEW b \in Nat, \A x \in S : x <= b
    PROVE  Max(S) \in S /\ \A y \in S : Max(S) >= y
  <1> DEFINE T == {t \in Nat : \E x \in S : t = b - x}
  <1>0. \A x \in S : b - x \in T
    OBVIOUS
  <1>1. T \subseteq Nat /\ T # {}
    BY <1>0
  <1> DEFINE Below == {ss \in Nat \X Nat : ss[1] < ss[2]}
  <1>2. IsWellFoundedOn(Below, Nat)
    BY NatLessThanWellFounded, Zenon DEF OpToRel
  <1>3. PICK t \in T : \A u \in T : t <= u
    <2> HIDE DEF T, Below
    <2>1. PICK t \in T : \A u \in T : <<u, t>> \notin Below
      BY <1>1, <1>2, WFMin
    <2>2. ASSUME NEW u \in T PROVE t <= u
      <3>1. t \in Nat /\ u \in Nat
        BY <1>1
      <3>2. ~(u < t)
        BY <2>1, <3>1 DEF Below
      <3> QED BY <3>1, <3>2
    <2> QED BY <2>2
  <1>4. PICK x \in S : t = b - x
    OBVIOUS
  <1>5. \A y \in S : x >= y
    <2> SUFFICES ASSUME NEW y \in S PROVE x >= y
      OBVIOUS
    <2>1. b - x <= b - y
      BY <1>0, <1>3, <1>4
    <2> QED BY <2>1
  <1> QED BY <1>4, <1>5 DEF Max

(***************************************************************************)
(* Where each request stands, without a choice among the requests known.   *)
(***************************************************************************)
Standing(phase, r, at) == [phase |-> phase, req |-> r, at |-> at]

Applied == \E w \in inflight : w.rc = "done"

(* What the one held write is to the abstract ledger.                      *)
HeldWriteCall ==
    Standing(WritePhase, writePending.req,
             IF Applied THEN Commit.rev ELSE 0)

CallTable ==
    /\ Calls = [i \in Ids |-> Calls[i]]
    /\ \A j \in DOMAIN requests : requests[j].op # "junk" =>
          Calls[requests[j].id] = Standing("open", requests[j], 0)
    /\ \A m \in replies : Calls[m.req.id] = Standing(m.status, m.req, 0)
    /\ writePending.live => Calls[writePending.req.id] = HeldWriteCall
    /\ readPending.kind = "etag" =>
          Calls[readPending.req.id] = Standing("applied", readPending.req, readPending.crev)
    /\ readPending.kind = "get" =>
          Calls[readPending.req.id] =
             Standing(IF readPending.stage = "head" THEN "open" ELSE "observed",
                      readPending.req, 0)
    /\ \A i \in Ids :
          /\ \A j \in DOMAIN requests : requests[j].op # "junk" => requests[j].id # i
          /\ \A m \in replies : m.req.id # i
          /\ writePending.live => writePending.req.id # i
          /\ readPending.kind # "none" => readPending.req.id # i
          => Calls[i] = Abstract!NoCall

LEMMA KnownOnce ==
    ASSUME IInv, NEW q \in Known, NEW r \in Known, q.id = r.id PROVE q = r
  <1> DEFINE P(x) == \/ \E j \in DOMAIN requests : x = requests[j]
                     \/ writePending.live /\ x = writePending.req
                     \/ readPending.kind # "none" /\ x = readPending.req
                     \/ \E m \in replies : x = m.req
  <1>1. P(q) /\ P(r)
    BY DEF Known, Outstanding, Queued
  <1>2. ~(writePending.live /\ readPending.kind # "none")
    BY HeldRead
  <1> QED BY <1>1, <1>2 DEF IInv, Places

LEMMA CallOfKnown ==
    ASSUME IInv, NEW r \in Known
    PROVE  r.id \in Ids /\ Calls[r.id] = Standing(PhaseOf(r), r, WroteAt(r))
  <1>1. r.id \in Ids
    <2>1. r \in Call
      <3>1. CASE \E j \in DOMAIN requests : r = requests[j]
        BY <3>1 DEF IInv, TypeOK
      <3>2. CASE writePending.live /\ r = writePending.req
        BY <3>2, HeldWrite
      <3>3. CASE readPending.kind # "none" /\ r = readPending.req
        BY <3>3, HeldRead
      <3>4. CASE \E m \in replies : r = m.req
        BY <3>4 DEF IInv, TypeOK, Frame
      <3> QED BY <3>1, <3>2, <3>3, <3>4 DEF Known, Outstanding, Queued
    <2> QED BY <2>1 DEF Call, Requests
  <1>2. (CHOOSE q \in Known : q.id = r.id) = r
    BY KnownOnce
  <1> QED BY <1>1, <1>2 DEF Calls, Standing

LEMMA TableHolds == IInv => CallTable
  <1> SUFFICES ASSUME IInv PROVE CallTable
    OBVIOUS
  <1>1. Calls = [i \in Ids |-> Calls[i]]
    BY DEF Calls
  <1>2. ASSUME NEW j \in DOMAIN requests, requests[j].op # "junk"
        PROVE  Calls[requests[j].id] = Standing("open", requests[j], 0)
    <2> DEFINE r == requests[j]
    <2>1. r \in Known
      BY <1>2 DEF Known, Outstanding, Queued
    <2>2. /\ \A m \in replies : m.req # r
          /\ ~(writePending.live /\ writePending.req = r)
          /\ ~(readPending.kind # "none" /\ readPending.req = r)
      BY DEF IInv, Places
    <2> HIDE DEF r
    <2>3. PhaseOf(r) = "open"
      BY <2>2 DEF PhaseOf
    <2>4. WroteAt(r) = 0
      BY <2>2, <2>3 DEF WroteAt
    <2> QED BY <2>1, <2>3, <2>4, CallOfKnown DEF r
  <1>3. ASSUME NEW m \in replies PROVE Calls[m.req.id] = Standing(m.status, m.req, 0)
    <2>1. m.req \in Known
      BY DEF IInv, Places, Known
    <2>2. ReplyTo(m.req) = m
      BY DEF IInv, Places, ReplyTo
    <2>6. /\ ~(writePending.live /\ writePending.req = m.req)
          /\ ~(readPending.kind # "none" /\ readPending.req = m.req)
      BY DEF IInv, Places
    <2>3. PhaseOf(m.req) = m.status
      BY <2>2, <2>6 DEF PhaseOf
    <2>4. m.status # "applied"
      BY DEF IInv, TypeOK, Frame, Statuses
    <2>5. WroteAt(m.req) = 0
      BY <2>3, <2>4, <2>6 DEF WroteAt
    <2> QED BY <2>1, <2>3, <2>5, CallOfKnown
  <1>4. ASSUME writePending.live PROVE Calls[writePending.req.id] = HeldWriteCall
    <2> DEFINE r == writePending.req
    <2>1. r \in Known
      <3>1. r.op # "junk"
        BY <1>4, HeldWrite
      <3> QED BY <1>4, <3>1 DEF Known, Outstanding
    <2>2. /\ \A m \in replies : m.req # r
          /\ readPending = NoRead /\ Decisions = inflight
      <3>1. readPending = NoRead /\ Decisions = inflight
        BY <1>4, HeldWrite DEF Decisions
      <3> QED BY <1>4, <3>1 DEF IInv, Places
    <2>3. readPending.kind = "none"
      BY <2>2 DEF NoRead
    <2> HIDE DEF r
    <2>4. PhaseOf(r) = WritePhase
      BY <1>4, <2>2, <2>3 DEF PhaseOf, r
    <2>5. (WritePhase = "applied") <=> Applied
      <3>1. \A v, w \in inflight : v = w
        BY DEF IInv, OneHeld
      <3> QED BY <2>2, <3>1 DEF WritePhase, Applied
    <2>6. WroteAt(r) = IF Applied THEN Commit.rev ELSE 0
      BY <2>3, <2>4, <2>5 DEF WroteAt
    <2> QED BY <2>1, <2>4, <2>6, CallOfKnown DEF r, HeldWriteCall
  <1>5. ASSUME readPending.kind # "none"
        PROVE  /\ readPending.req \in Known /\ ~writePending.live
               /\ \A m \in replies : m.req # readPending.req
    <2>1. readPending.req.op # "junk" /\ ~writePending.live
      <3>1. readPending \in HeldReads /\ ~writePending.live
        BY <1>5, HeldRead
      <3>2. readPending.kind \in {"get", "etag"}
        BY <3>1 DEF HeldReads
      <3> QED BY <3>1, <3>2 DEF IInv, OneHeld
    <2> QED BY <1>5, <2>1 DEF IInv, Places, Known, Outstanding
  <1>6. ASSUME readPending.kind = "etag"
        PROVE  Calls[readPending.req.id] =
                  Standing("applied", readPending.req, readPending.crev)
    <2>1. PhaseOf(readPending.req) = "applied"
      BY <1>5, <1>6 DEF PhaseOf
    <2>2. WroteAt(readPending.req) = readPending.crev
      BY <1>6, <2>1 DEF WroteAt
    <2> QED BY <1>5, <1>6, <2>1, <2>2, CallOfKnown
  <1>7. ASSUME readPending.kind = "get"
        PROVE  Calls[readPending.req.id] =
                  Standing(IF readPending.stage = "head" THEN "open" ELSE "observed",
                           readPending.req, 0)
    <2>1. PhaseOf(readPending.req) = IF readPending.stage = "head" THEN "open" ELSE "observed"
      BY <1>5, <1>7 DEF PhaseOf
    <2>2. WroteAt(readPending.req) = 0
      BY <1>7, <2>1 DEF WroteAt
    <2> QED BY <1>5, <1>7, <2>1, <2>2, CallOfKnown
  <1>8. ASSUME NEW i \in Ids,
               \A j \in DOMAIN requests : requests[j].op # "junk" => requests[j].id # i,
               \A m \in replies : m.req.id # i,
               writePending.live => writePending.req.id # i,
               readPending.kind # "none" => readPending.req.id # i
        PROVE  Calls[i] = Abstract!NoCall
    <2>1. ~ \E r \in Known : r.id = i
      BY <1>8 DEF Known, Outstanding, Queued
    <2> QED BY <2>1 DEF Calls, Abstract!NoCall, NoReq, Abstract!NoReq
  <1> QED BY <1>1, <1>2, <1>3, <1>4, <1>6, <1>7, <1>8 DEF CallTable

(* The same, of the state a step leads to.                                 *)
LEMMA TableHoldsNext == IInv' => CallTable'
  BY TableHolds, PTL

(***************************************************************************)
(* What a step leaves where it was: every call but those of X.             *)
(***************************************************************************)
Stay(X) ==
    /\ \A j \in DOMAIN requests : requests[j].op # "junk" /\ requests[j].id \notin X =>
          \E n \in DOMAIN requests' : requests'[n] = requests[j]
    /\ \A n \in DOMAIN requests' : requests'[n].op # "junk" /\ requests'[n].id \notin X =>
          \E j \in DOMAIN requests : requests'[n] = requests[j]
    /\ replies \subseteq replies'
    /\ \A m \in replies' : m \in replies \/ m.req.id \in X
    /\ \/ UNCHANGED <<writePending, readPending, HeldWriteCall>>
       \/ /\ writePending.live => writePending.req.id \in X
          /\ writePending'.live => writePending'.req.id \in X
          /\ readPending.kind # "none" => readPending.req.id \in X
          /\ readPending'.kind # "none" => readPending'.req.id \in X

LEMMA OthersStay ==
    ASSUME CallTable, CallTable', IInv, NEW X, Stay(X), NEW i \in Ids \ X
    PROVE  Calls'[i] = Calls[i]
  <1>1. CASE \E j \in DOMAIN requests : requests[j].op # "junk" /\ requests[j].id = i
    <2>1. PICK j \in DOMAIN requests : requests[j].op # "junk" /\ requests[j].id = i
      BY <1>1
    <2>2. PICK n \in DOMAIN requests' : requests'[n] = requests[j]
      BY <2>1 DEF Stay
    <2>3. Calls[i] = Standing("open", requests[j], 0)
      BY <2>1 DEF CallTable
    <2>4. Calls'[i] = Standing("open", requests'[n], 0)
      BY <2>1, <2>2 DEF CallTable, Standing
    <2> QED BY <2>2, <2>3, <2>4
  <1>2. CASE \E m \in replies : m.req.id = i
    <2>1. PICK m \in replies : m.req.id = i
      BY <1>2
    <2>2. m \in replies'
      BY DEF Stay
    <2>3. Calls[i] = Standing(m.status, m.req, 0)
      BY <2>1 DEF CallTable
    <2>4. Calls'[i] = Standing(m.status, m.req, 0)
      BY <2>1, <2>2 DEF CallTable, Standing
    <2> QED BY <2>3, <2>4
  <1>3. CASE writePending.live /\ writePending.req.id = i
    <2>1. UNCHANGED <<writePending, HeldWriteCall>>
      BY <1>3 DEF Stay
    <2> QED BY <1>3, <2>1 DEF CallTable
  <1>4. CASE readPending.kind # "none" /\ readPending.req.id = i
    <2>1. readPending' = readPending
      BY <1>4 DEF Stay
    <2>2. readPending.kind \in {"get", "etag"}
      BY <1>4, HeldRead DEF HeldReads
    <2>3. CASE readPending.kind = "get"
      BY <1>4, <2>1, <2>3 DEF CallTable, Standing
    <2>4. CASE readPending.kind = "etag"
      BY <1>4, <2>1, <2>4 DEF CallTable, Standing
    <2> QED BY <2>2, <2>3, <2>4
  <1>5. CASE /\ \A j \in DOMAIN requests : requests[j].op # "junk" => requests[j].id # i
             /\ \A m \in replies : m.req.id # i
             /\ writePending.live => writePending.req.id # i
             /\ readPending.kind # "none" => readPending.req.id # i
    <2>1. /\ \A n \in DOMAIN requests' : requests'[n].op # "junk" => requests'[n].id # i
          /\ \A m \in replies' : m.req.id # i
      BY <1>5 DEF Stay
    <2>2. /\ writePending'.live => writePending'.req.id # i
          /\ readPending'.kind # "none" => readPending'.req.id # i
      BY <1>5 DEF Stay
    <2>3. Calls'[i] = Abstract!NoCall
      BY <2>1, <2>2 DEF CallTable, Abstract!NoCall, Abstract!NoReq
    <2>4. Calls[i] = Abstract!NoCall
      BY <1>5 DEF CallTable
    <2> QED BY <2>3, <2>4
  <1> QED BY <1>1, <1>2, <1>3, <1>4, <1>5

LEMMA NothingMoves ==
    ASSUME CallTable, CallTable', IInv, Stay({}) PROVE Calls' = Calls
  <1>1. \A i \in Ids : Calls'[i] = Calls[i]
    BY OthersStay
  <1> QED BY <1>1 DEF CallTable

LEMMA OneMoves ==
    ASSUME CallTable, CallTable', IInv, NEW id \in Ids, Stay({id}), NEW c, Calls'[id] = c
    PROVE  Calls' = [Calls EXCEPT ![id] = c]
  <1>1. \A i \in Ids : i # id => Calls'[i] = Calls[i]
    BY OthersStay
  <1> QED BY <1>1 DEF CallTable

(***************************************************************************)
(* The highest revision acknowledged as durable.                           *)
(***************************************************************************)
Acked(R, k) ==
    {m.crev : m \in {n \in R : n.status = "ok" /\ n.req.op \in {"put_abs", "cas"}
                               /\ n.req.key = k /\ k \in DurableKeys}}

LEMMA KeptIs == Kept = [k \in Keys |-> Max({0} \cup Acked(replies, k))]
  BY DEF Kept, Acked

LEMMA KeptIsNext == Kept' = [k \in Keys |-> Max({0} \cup Acked(replies', k))]
  BY DEF Kept, Acked, DurableKeys

LEMMA KeptIsGreatest ==
    ASSUME IInv, NEW k \in Keys
    PROVE  /\ Kept[k] \in Nat /\ Kept[k] \in {0} \cup Acked(replies, k)
           /\ \A n \in Acked(replies, k) : n \in Nat /\ n <= Kept[k]
           /\ Kept[k] <= durable[k].rev
  <1> DEFINE S == {0} \cup Acked(replies, k)
  <1>1. durable[k].rev \in Nat
    BY DEF IInv, TypeOK, Record
  <1>2. \A n \in Acked(replies, k) : n \in Nat /\ n <= durable[k].rev
    BY DEF Acked, IInv, TypeOK, Frame, AcksAreDurable
  <1>3. S \in SUBSET Nat /\ S # {} /\ \A n \in S : n <= durable[k].rev
    BY <1>1, <1>2
  <1>4. Kept[k] = Max(S)
    BY KeptIs
  <1> HIDE DEF S
  <1>5. Max(S) \in S /\ \A n \in S : Max(S) >= n
    BY <1>1, <1>3, MaxOfBounded
  <1>6. Max(S) \in Nat /\ Max(S) <= durable[k].rev
    BY <1>3, <1>5
  <1>7. \A n \in Acked(replies, k) : n \in S
    BY DEF S
  <1> QED BY <1>2, <1>4, <1>5, <1>6, <1>7 DEF S

(* A reply that acknowledges no write of a durable key keeps nothing more. *)
LEMMA KeptStays ==
    ASSUME NEW m, replies' = replies \cup {m},
           ~(m.status = "ok" /\ m.req.op \in {"put_abs", "cas"} /\ m.req.key \in DurableKeys)
    PROVE  Kept' = Kept
  <1>1. \A k \in Keys : Acked(replies', k) = Acked(replies, k)
    BY DEF Acked
  <1> QED BY <1>1, KeptIs, KeptIsNext

LEMMA KeptGrows ==
    ASSUME IInv, IInv', NEW m \in Frame, replies' = replies \cup {m}, m.status = "ok",
           m.req.op \in {"put_abs", "cas"}, m.req.key \in DurableKeys
    PROVE  Kept' = IF m.crev > Kept[m.req.key] THEN [Kept EXCEPT ![m.req.key] = m.crev]
                                               ELSE Kept
  <1> DEFINE k == m.req.key
  <1>1. k \in Keys /\ m.crev \in Nat
    BY DEF Frame, DurableKeys
  <1>2. \A j \in Keys : j # k => Acked(replies', j) = Acked(replies, j)
    BY DEF Acked
  <1>3. \A j \in Keys : j # k => Kept'[j] = Kept[j]
    BY <1>2, KeptIs, KeptIsNext
  <1>4. Acked(replies', k) = Acked(replies, k) \cup {m.crev}
    BY DEF Acked
  <1> DEFINE S == {0} \cup Acked(replies, k)
  <1> DEFINE T == {0} \cup Acked(replies', k)
  <1>5. durable'[k].rev \in Nat
    BY <1>1 DEF IInv, TypeOK, Record
  <1>6. T \in SUBSET Nat /\ T # {} /\ \A n \in T : n <= durable'[k].rev
    <2>1. \A n \in Acked(replies', k) : n \in Nat /\ n <= durable'[k].rev
      BY DEF Acked, IInv, TypeOK, Frame, AcksAreDurable, DurableKeys
    <2> QED BY <1>5, <2>1
  <1>7. Kept'[k] = Max(T)
    BY <1>1, KeptIsNext
  <1>8. Max(T) \in T /\ \A n \in T : Max(T) >= n
    <2> HIDE DEF T
    <2> QED BY <1>5, <1>6, MaxOfBounded
  <1>9. /\ Kept[k] \in Nat /\ Kept[k] \in S /\ \A n \in S : n \in Nat /\ n <= Kept[k]
    BY <1>1, KeptIsGreatest
  <1>10. T = S \cup {m.crev}
    BY <1>4
  <1> HIDE DEF S, T, k
  <1>11. Max(T) = IF m.crev > Kept[k] THEN m.crev ELSE Kept[k]
    BY <1>1, <1>6, <1>8, <1>9, <1>10
  <1>12. /\ Kept = [j \in Keys |-> Kept[j]] /\ Kept' = [j \in Keys |-> Kept'[j]]
    BY KeptIs, KeptIsNext
  <1> QED BY <1>1, <1>3, <1>7, <1>11, <1>12 DEF k

(***************************************************************************)
(* The steps of the abstract ledger, from what moves.                      *)
(***************************************************************************)
LedgerStep == Abstract!SNext \/ UNCHANGED <<store, Calls, Kept>>

LEMMA StutterIs ==
    ASSUME CallTable, CallTable', IInv, NEW id \in Ids, Stay({id}), Calls'[id] = Calls[id],
           UNCHANGED <<store, replies>>
    PROVE  LedgerStep
  <1>1. Calls' = [Calls EXCEPT ![id] = Calls[id]]
    BY OneMoves
  <1>2. Calls' = Calls
    BY <1>1 DEF CallTable
  <1>3. Kept' = Kept
    BY DEF Kept
  <1> QED BY <1>2, <1>3 DEF LedgerStep

LEMMA InvokeIs ==
    ASSUME CallTable, CallTable', IInv, NEW id \in Ids, Stay({id}), NEW r,
           Calls[id] = Abstract!NoCall, Calls'[id] = Standing("open", r, 0),
           UNCHANGED <<store, replies>>
    PROVE  LedgerStep
  <1>1. Calls' = [Calls EXCEPT ![id] = Calls'[id]]
    BY OneMoves
  <1>2. Kept' = Kept
    BY DEF Kept
  <1>3. /\ Calls[id].phase = "idle" /\ Calls'[id].phase = "open" /\ Calls'[id].at = 0
    BY DEF Abstract!NoCall, Standing
  <1>4. Abstract!Invoke(id)
    BY <1>1, <1>2, <1>3 DEF Abstract!Invoke
  <1> QED BY <1>4 DEF LedgerStep, Abstract!SNext

LEMMA DecideIs ==
    ASSUME CallTable, CallTable', IInv, NEW id \in Ids, Stay({id}), NEW r, NEW phase,
           Calls[id] = Standing("open", r, 0), Calls'[id] = Standing(phase, r, 0),
           phase \in Abstract!Decided(r, store[r.key]), UNCHANGED <<store, Kept>>
    PROVE  LedgerStep
  <1>1. Calls' = [Calls EXCEPT ![id] = Standing(phase, r, 0)]
    BY OneMoves
  <1>2. /\ Calls[id].phase = "open" /\ Calls[id].req = r /\ Calls'[id].phase = phase
    BY DEF Standing
  <1>3. [Calls[id] EXCEPT !.phase = phase] = Standing(phase, r, 0)
    BY DEF Standing
  <1>4. Calls' = [Calls EXCEPT ![id].phase = Calls'[id].phase]
    BY <1>1, <1>2, <1>3 DEF CallTable
  <1>5. Abstract!Decide(id)
    BY <1>2, <1>4 DEF Abstract!Decide
  <1> QED BY <1>5 DEF LedgerStep, Abstract!SNext

LEMMA AnswerIs ==
    ASSUME CallTable, CallTable', IInv, IInv', NEW m \in Frame, replies' = replies \cup {m},
           Stay({m.req.id}), UNCHANGED store, NEW phase, NEW at,
           Calls[m.req.id] = Standing(phase, m.req, at), m.status \in Abstract!May(phase),
           m.status = "ok" /\ m.req.op \in {"put_abs", "cas"} => at = m.crev
    PROVE  LedgerStep
  <1> DEFINE i == m.req.id
  <1> DEFINE r == m.req
  <1>1. i \in Ids /\ m.status \in Abstract!Final
    BY DEF Frame, Call, Requests, Statuses, Abstract!Final
  <1>2. Calls'[i] = Standing(m.status, r, 0)
    <2>1. m \in replies'
      OBVIOUS
    <2> QED BY <2>1 DEF CallTable, Standing
  <1>3. Calls' = [Calls EXCEPT ![i] = Standing(m.status, r, 0)]
    BY <1>1, <1>2, OneMoves
  <1>4. Calls[i].phase = phase /\ Calls[i].req = r /\ Calls[i].at = at
    BY DEF Standing
  <1>5. [[Calls[i] EXCEPT !.phase = m.status] EXCEPT !.at = 0] = Standing(m.status, r, 0)
    <2>1. [Calls[i] EXCEPT !.phase = m.status] = Standing(m.status, r, at)
      BY DEF Standing
    <2>2. [Standing(m.status, r, at) EXCEPT !.at = 0] = Standing(m.status, r, 0)
      BY DEF Standing
    <2> QED BY <2>1, <2>2
  <1> HIDE DEF i, r
  <1>6. Calls' = [Calls EXCEPT ![i].phase = m.status, ![i].at = 0]
    BY <1>1, <1>3, <1>5 DEF CallTable
  <1>7. Kept' = IF m.status = "ok" /\ r.op \in {"put_abs", "cas"}
                     /\ r.key \in DurableKeys /\ at > Kept[r.key]
                  THEN [Kept EXCEPT ![r.key] = at] ELSE Kept
    <2>1. CASE m.status = "ok" /\ r.op \in {"put_abs", "cas"} /\ r.key \in DurableKeys
      BY <2>1, KeptGrows DEF r
    <2>2. CASE ~(m.status = "ok" /\ r.op \in {"put_abs", "cas"} /\ r.key \in DurableKeys)
      BY <2>2, KeptStays DEF r
    <2> QED BY <2>1, <2>2
  <1>8. Abstract!Answer(i, m.status)
    BY <1>4, <1>6, <1>7 DEF Abstract!Answer
  <1> QED BY <1>1, <1>8 DEF LedgerStep, Abstract!SNext

(* The head of the queue leaves it: the rest of the queue stays.           *)
LEMMA RestStays ==
    ASSUME IInv, requests # <<>>, requests' = Tail(requests), NEW X, Head(requests).id \in X
    PROVE  /\ \A j \in DOMAIN requests : requests[j].op # "junk" /\ requests[j].id \notin X =>
                 \E n \in DOMAIN requests' : requests'[n] = requests[j]
           /\ \A n \in DOMAIN requests' : \E j \in DOMAIN requests : requests'[n] = requests[j]
  <1>1. /\ Head(requests) = requests[1] /\ requests \in Seq(Call)
        /\ \A i \in DOMAIN requests' :
              i + 1 \in DOMAIN requests /\ requests'[i] = requests[i + 1]
    BY QueueHead DEF IInv, TypeOK
  <1>2. ASSUME NEW j \in DOMAIN requests, requests[j].id \notin X
        PROVE  \E n \in DOMAIN requests' : requests'[n] = requests[j]
    <2>1. j # 1 /\ j \in 1 .. Len(requests)
      BY <1>1, <1>2
    <2>2. j - 1 \in DOMAIN requests' /\ requests'[j - 1] = requests[j]
      BY <1>1, <2>1
    <2> QED BY <2>2
  <1> QED BY <1>1, <1>2

(***************************************************************************)
(* The module's steps, as steps of the abstract ledger.                    *)
(***************************************************************************)
LEMMA RefuseRefines ==
    ASSUME CallTable, CallTable', IInv, IInv', RefuseRequest PROVE LedgerStep
  <1> DEFINE r == Head(requests)
  <1>0. PICK m \in {Msg(r, "unavailable"), Msg(r, "malformed")} : replies' = replies \cup {m}
    BY DEF RefuseRequest, Reply
  <1>1. /\ requests # <<>> /\ requests' = Tail(requests) /\ r.op # "junk"
        /\ UNCHANGED <<store, writePending, readPending, inflight, buf>>
    BY DEF RefuseRequest, Draining, provider
  <1>2. r \in Call /\ 1 \in DOMAIN requests /\ r = requests[1]
    BY <1>1, QueueHead
  <1> HIDE DEF r
  <1>3. m \in Frame /\ m.req = r /\ m.status \in {"unavailable", "malformed"}
    BY <1>0, <1>2, MsgType, StatusesAre DEF Msg
  <1>4. Stay({r.id})
    <2>1. HeldWriteCall' = HeldWriteCall
      BY <1>1 DEF HeldWriteCall, Standing, WritePhase, Decisions, Commit, Applied, Args
    <2>2. /\ \A j \in DOMAIN requests : requests[j].op # "junk" /\ requests[j].id \notin {r.id}
                => \E n \in DOMAIN requests' : requests'[n] = requests[j]
          /\ \A n \in DOMAIN requests' : \E j \in DOMAIN requests : requests'[n] = requests[j]
      BY <1>1, RestStays DEF r
    <2> QED BY <1>0, <1>1, <1>3, <2>1, <2>2 DEF Stay
  <1>5. Calls[r.id] = Standing("open", r, 0)
    BY <1>1, <1>2 DEF CallTable
  <1>6. m.status \in Abstract!May("open")
    BY <1>3 DEF Abstract!May
  <1> QED BY <1>0, <1>1, <1>3, <1>4, <1>5, <1>6, AnswerIs

LEMMA DropRefines ==
    ASSUME CallTable, CallTable', IInv, IInv', DropMalformed PROVE LedgerStep
  <1>1. /\ requests # <<>> /\ requests' = Tail(requests) /\ Head(requests).op = "junk"
        /\ UNCHANGED <<store, writePending, readPending, inflight, buf, replies>>
    BY DEF DropMalformed, Draining, provider
  <1>2. Stay({})
    <2>1. HeldWriteCall' = HeldWriteCall
      BY <1>1 DEF HeldWriteCall, Standing, WritePhase, Decisions, Commit, Applied, Args
    <2>2. /\ \A j \in DOMAIN requests : requests[j].op # "junk" /\ requests[j].id \notin
                {Head(requests).id} => \E n \in DOMAIN requests' : requests'[n] = requests[j]
          /\ \A n \in DOMAIN requests' : \E j \in DOMAIN requests : requests'[n] = requests[j]
      BY <1>1, RestStays
    <2>3. \A j \in DOMAIN requests : requests[j].id = Head(requests).id =>
             requests[j].op = "junk"
      BY <1>1, QueueHead DEF IInv, Places
    <2> QED BY <1>1, <2>1, <2>2, <2>3 DEF Stay
  <1>3. Calls' = Calls
    BY <1>2, NothingMoves
  <1>4. Kept' = Kept
    BY <1>1 DEF Kept
  <1> QED BY <1>1, <1>3, <1>4 DEF LedgerStep

LEMMA StartGetRefines ==
    ASSUME CallTable, CallTable', IInv, IInv', StartGet PROVE LedgerStep
  <1> DEFINE r == Head(requests)
  <1>1. /\ requests # <<>> /\ requests' = Tail(requests) /\ r.op = "get"
        /\ ~writePending.live /\ readPending.kind = "none"
        /\ readPending' = [NoRead EXCEPT !.kind = "get", !.req = r, !.stage = "head"]
        /\ UNCHANGED <<store, writePending, replies>>
    BY DEF StartGet, Draining, provider
  <1>2. r \in Call /\ 1 \in DOMAIN requests /\ r = requests[1]
    BY <1>1, QueueHead
  <1> HIDE DEF r
  <1>3. readPending'.kind = "get" /\ readPending'.req = r /\ readPending'.stage = "head"
    BY <1>1 DEF NoRead
  <1>4. Stay({r.id})
    <2>1. /\ \A j \in DOMAIN requests : requests[j].op # "junk" /\ requests[j].id \notin {r.id}
                => \E n \in DOMAIN requests' : requests'[n] = requests[j]
          /\ \A n \in DOMAIN requests' : \E j \in DOMAIN requests : requests'[n] = requests[j]
      BY <1>1, RestStays DEF r
    <2> QED BY <1>1, <1>3, <2>1 DEF Stay
  <1>5. Calls[r.id] = Standing("open", r, 0)
    BY <1>1, <1>2 DEF CallTable
  <1>6. Calls'[r.id] = Standing("open", r, 0)
    BY <1>3 DEF CallTable, Standing
  <1>7. r.id \in Ids
    BY <1>2 DEF Call, Requests
  <1> QED BY <1>1, <1>4, <1>5, <1>6, <1>7, StutterIs

LEMMA StartWriteRefines ==
    ASSUME CallTable, CallTable', IInv, IInv', StartWrite PROVE LedgerStep
  <1> DEFINE r == Head(requests)
  <1>1. /\ requests # <<>> /\ requests' = Tail(requests)
        /\ r.op \in {"put_abs", "cas", "delete"}
        /\ ~writePending.live /\ readPending.kind = "none"
        /\ writePending' = [live |-> TRUE, req |-> r]
        /\ inflight' = Take(Args(buf'))
        /\ UNCHANGED <<store, readPending, replies>>
    BY DEF StartWrite, Draining
  <1>2. r \in Call /\ 1 \in DOMAIN requests /\ r = requests[1]
    BY <1>1, QueueHead
  <1> HIDE DEF r
  <1>3. writePending'.live /\ writePending'.req = r
    BY <1>1
  <1>4. Stay({r.id})
    <2>1. /\ \A j \in DOMAIN requests : requests[j].op # "junk" /\ requests[j].id \notin {r.id}
                => \E n \in DOMAIN requests' : requests'[n] = requests[j]
          /\ \A n \in DOMAIN requests' : \E j \in DOMAIN requests : requests'[n] = requests[j]
      BY <1>1, RestStays DEF r
    <2> QED BY <1>1, <1>3, <2>1 DEF Stay
  <1>5. Calls[r.id] = Standing("open", r, 0)
    BY <1>1, <1>2 DEF CallTable
  <1>6. \A w \in inflight' : w.rc = "undecided"
    <2>1. inflight = {}
      BY <1>1 DEF IInv, OneHeld
    <2> QED BY <1>1, <2>1 DEF Take
  <1>7. WritePhase' = "open" /\ ~Applied'
    BY <1>6 DEF WritePhase, Decisions, Applied
  <1>8. Calls'[r.id] = Standing("open", r, 0)
    BY <1>3, <1>7 DEF CallTable, HeldWriteCall, Standing
  <1>9. r.id \in Ids
    BY <1>2 DEF Call, Requests
  <1> QED BY <1>1, <1>4, <1>5, <1>8, <1>9, StutterIs

LEMMA QuietRefines ==
    ASSUME CallTable, CallTable', IInv, IInv',
           UNCHANGED <<requests, replies, writePending, readPending, inflight, buf, store>>
    PROVE  LedgerStep
  <1>1. HeldWriteCall' = HeldWriteCall
    BY DEF HeldWriteCall, Standing, WritePhase, Decisions, Commit, Applied, Args
  <1>2. Stay({})
    BY <1>1 DEF Stay
  <1>3. Calls' = Calls
    BY <1>2, NothingMoves
  <1>4. Kept' = Kept
    BY DEF Kept
  <1> QED BY <1>3, <1>4 DEF LedgerStep

(* What the abstract ledger is told of the held write, by what the         *)
(* provider decided.                                                       *)
LEMMA HeldWriteStands ==
    ASSUME IInv, NEW w, inflight = {w}, w.args = Args(buf)
    PROVE  /\ w.rc = "done" => HeldWriteCall = Standing("applied", writePending.req, w.rev)
           /\ w.rc \in {"EEXIST", "EAGAIN"} =>
                 HeldWriteCall = Standing("refused", writePending.req, 0)
           /\ w.rc = "ENXIO" /\ w.args.op = "delete" =>
                 HeldWriteCall = Standing("absent", writePending.req, 0)
           /\ w.rc = "ENXIO" /\ w.args.op # "delete" =>
                 HeldWriteCall = Standing("open", writePending.req, 0)
           /\ w.rc \in {"undecided", "ERETAINED", "EIO"} =>
                 HeldWriteCall = Standing("open", writePending.req, 0)
  <1>1. Decisions = {w}
    BY DEF Decisions
  <1>2. Applied <=> w.rc = "done"
    BY DEF Applied
  <1>3. w.rc = "done" => Commit = w
    BY <1>1 DEF Commit
  <1>4. /\ w.rc = "done" => WritePhase = "applied"
        /\ w.rc \in {"EEXIST", "EAGAIN"} => WritePhase = "refused"
        /\ w.rc = "ENXIO" /\ w.args.op = "delete" => WritePhase = "absent"
        /\ w.rc = "ENXIO" /\ w.args.op # "delete" => WritePhase = "open"
        /\ w.rc \in {"undecided", "ERETAINED", "EIO"} => WritePhase = "open"
    BY <1>1 DEF WritePhase
  <1> QED BY <1>2, <1>3, <1>4 DEF HeldWriteCall

LEMMA HeldWriteStandsNext ==
    ASSUME IInv', NEW w, inflight' = {w}, w.args = Args(buf')
    PROVE  /\ w.rc = "done" => HeldWriteCall' = Standing("applied", writePending'.req, w.rev)
           /\ w.rc \in {"EEXIST", "EAGAIN"} =>
                 HeldWriteCall' = Standing("refused", writePending'.req, 0)
           /\ w.rc = "ENXIO" /\ w.args.op = "delete" =>
                 HeldWriteCall' = Standing("absent", writePending'.req, 0)
           /\ w.rc = "ENXIO" /\ w.args.op # "delete" =>
                 HeldWriteCall' = Standing("open", writePending'.req, 0)
           /\ w.rc \in {"undecided", "ERETAINED", "EIO"} =>
                 HeldWriteCall' = Standing("open", writePending'.req, 0)
  <1>1. Decisions' = {w}
    BY DEF Decisions, Args
  <1>2. Applied' <=> w.rc = "done"
    BY DEF Applied
  <1>3. w.rc = "done" => Commit' = w
    BY <1>1 DEF Commit
  <1>4. /\ w.rc = "done" => WritePhase' = "applied"
        /\ w.rc \in {"EEXIST", "EAGAIN"} => WritePhase' = "refused"
        /\ w.rc = "ENXIO" /\ w.args.op = "delete" => WritePhase' = "absent"
        /\ w.rc = "ENXIO" /\ w.args.op # "delete" => WritePhase' = "open"
        /\ w.rc \in {"undecided", "ERETAINED", "EIO"} => WritePhase' = "open"
    BY <1>1 DEF WritePhase
  <1> QED BY <1>2, <1>3, <1>4 DEF HeldWriteCall, Standing

LEMMA AskAgainRefines ==
    ASSUME CallTable, CallTable', IInv, IInv', AskAgain PROVE LedgerStep
  <1> DEFINE r == writePending.req
  <1>1. /\ writePending.live /\ inflight' = Take(Args(buf))
        /\ ~ \E w \in inflight : w.args = Args(buf) /\ w.rc # "undecided"
        /\ UNCHANGED <<requests, buf, writePending, readPending, store, replies>>
    BY DEF AskAgain, module
  <1>2. r.id \in Ids /\ readPending = NoRead /\ \A w \in inflight : w.args = Args(buf)
    BY <1>1, HeldWrite DEF Call, Requests
  <1>3. /\ \A w \in inflight : w.rc = "undecided"
        /\ \A w \in inflight' : w.rc = "undecided"
    BY <1>1, <1>2 DEF Take
  <1>4. WritePhase = "open" /\ WritePhase' = "open" /\ ~Applied /\ ~Applied'
    BY <1>3 DEF WritePhase, Decisions, Applied
  <1>5. HeldWriteCall' = HeldWriteCall
    BY <1>1, <1>4 DEF HeldWriteCall, Standing
  <1>6. Stay({r.id})
    BY <1>1, <1>5 DEF Stay
  <1>7. Calls'[r.id] = Calls[r.id]
    BY <1>1, <1>5 DEF CallTable
  <1> QED BY <1>1, <1>2, <1>6, <1>7, StutterIs

LEMMA FinishRefines ==
    ASSUME CallTable, CallTable', IInv, IInv', FinishWrite PROVE LedgerStep
  <1> DEFINE r == writePending.req
  <1>0. PICK w \in inflight :
           /\ writePending.live /\ w.args = Args(buf) /\ w.rc # "undecided"
           /\ writePending' = NoWrite
           /\ UNCHANGED <<requests, store>>
           /\ \/ /\ DecidedWrite(w.rc, r.op = "delete") # "committed"
                 /\ Reply([Msg(r, DecidedWrite(w.rc, r.op = "delete")) EXCEPT !.crev = w.rev])
                 /\ UNCHANGED readPending
              \/ /\ DecidedWrite(w.rc, r.op = "delete") = "committed"
                 /\ Reply(Msg(r, "unavailable")) /\ UNCHANGED readPending
              \/ /\ DecidedWrite(w.rc, r.op = "delete") = "committed"
                 /\ readPending' = [NoRead EXCEPT !.kind = "etag", !.req = r, !.crev = w.rev]
                 /\ UNCHANGED replies
    BY DEF FinishWrite
  <1> DEFINE status == DecidedWrite(w.rc, r.op = "delete")
  <1>1. /\ r \in Call /\ r.op \in {"put_abs", "cas", "delete"} /\ readPending = NoRead
        /\ w \in Flight /\ inflight = {w} /\ w.args.op = r.op
    BY <1>0, HeldWrite
  <1>2. /\ status \in Statuses \cup {"committed"} /\ (status = "ok" => r.op = "delete")
        /\ status = "committed" => w.rc = "done" /\ r.op # "delete"
        /\ w.rc \in WriteCodes
    BY <1>0, <1>1, DecidedStatus DEF Flight
  <1>3. r.id \in Ids /\ Calls[r.id] = HeldWriteCall
    BY <1>0, <1>1 DEF CallTable, Call, Requests
  <1>4. ~writePending'.live /\ readPending.kind = "none"
    BY <1>0, <1>1 DEF NoWrite, NoRead
  <1>5. ASSUME NEW m \in Frame, Reply(m), m.req = r, readPending' = readPending,
               NEW phase, NEW at, HeldWriteCall = Standing(phase, r, at),
               m.status \in Abstract!May(phase), m.status = "ok" => r.op = "delete"
        PROVE  LedgerStep
    <2>1. Stay({r.id})
      BY <1>0, <1>4, <1>5 DEF Stay, Reply
    <2> QED BY <1>0, <1>1, <1>3, <1>5, <2>1, AnswerIs DEF Reply
  <1>6. CASE /\ status # "committed" /\ UNCHANGED readPending
             /\ Reply([Msg(r, status) EXCEPT !.crev = w.rev])
    <2> DEFINE m == [Msg(r, status) EXCEPT !.crev = w.rev]
    <2>1. PICK phase \in {"applied", "refused", "absent", "open"}, at \in Nat :
             /\ HeldWriteCall = Standing(phase, r, at)
             /\ status \in Abstract!May(phase)
      <3>1. w.rev \in Nat
        BY <1>1 DEF Flight
      <3>2. CASE w.rc = "done"
        <4>1. status = "ok"
          BY <1>6, <3>2 DEF DecidedWrite
        <4>2. status \in Abstract!May("applied")
          BY <4>1 DEF Abstract!May
        <4> QED BY <1>0, <1>1, <3>1, <3>2, <4>2, HeldWriteStands
      <3>3. CASE w.rc \in {"EEXIST", "EAGAIN"}
        <4>1. status \in Abstract!May("refused")
          BY <3>3 DEF DecidedWrite, Abstract!May
        <4> QED BY <1>0, <1>1, <3>3, <4>1, HeldWriteStands
      <3>4. CASE w.rc = "ENXIO" /\ r.op = "delete"
        <4>1. status \in Abstract!May("absent")
          BY <3>4 DEF DecidedWrite, Abstract!May
        <4> QED BY <1>0, <1>1, <3>4, <4>1, HeldWriteStands
      <3>5. CASE w.rc = "ENXIO" /\ r.op # "delete"
        <4>1. status \in Abstract!May("open")
          BY <3>5 DEF DecidedWrite, Abstract!May
        <4> QED BY <1>0, <1>1, <3>5, <4>1, HeldWriteStands
      <3>6. CASE w.rc \in {"ERETAINED", "EIO"}
        <4>1. status \in Abstract!May("open")
          BY <3>6 DEF DecidedWrite, Abstract!May
        <4> QED BY <1>0, <1>1, <3>6, <4>1, HeldWriteStands
      <3> QED BY <1>2, <3>2, <3>3, <3>4, <3>5, <3>6 DEF WriteCodes
    <2> HIDE DEF status
    <2>2. m \in Frame /\ m.req = r /\ m.status = status
      BY <1>1, <1>2, <1>6, MsgType DEF Frame, Flight, Msg
    <2> HIDE DEF m
    <2> QED BY <1>2, <1>5, <1>6, <2>1, <2>2 DEF m
  <1>7. CASE /\ status = "committed" /\ UNCHANGED readPending
             /\ Reply(Msg(r, "unavailable"))
    <2>1. /\ Msg(r, "unavailable") \in Frame /\ Msg(r, "unavailable").req = r
          /\ Msg(r, "unavailable").status = "unavailable"
      BY <1>1, MsgType, StatusesAre DEF Msg
    <2>2. HeldWriteCall = Standing("applied", r, w.rev)
      BY <1>0, <1>1, <1>2, <1>7, HeldWriteStands
    <2>3. "unavailable" \in Abstract!May("applied")
      BY DEF Abstract!May
    <2> HIDE DEF status
    <2> QED BY <1>5, <1>7, <2>1, <2>2, <2>3
  <1>8. CASE /\ status = "committed" /\ UNCHANGED replies
             /\ readPending' = [NoRead EXCEPT !.kind = "etag", !.req = r, !.crev = w.rev]
    <2>1. readPending'.kind = "etag" /\ readPending'.req = r /\ readPending'.crev = w.rev
      BY <1>8 DEF NoRead
    <2>2. HeldWriteCall = Standing("applied", r, w.rev)
      BY <1>0, <1>1, <1>2, <1>8, HeldWriteStands
    <2>3. Calls'[r.id] = Standing("applied", r, w.rev)
      BY <2>1 DEF CallTable, Standing
    <2>4. Stay({r.id})
      BY <1>0, <1>4, <1>8, <2>1 DEF Stay
    <2> QED BY <1>0, <1>3, <1>8, <2>2, <2>3, <2>4, StutterIs
  <1> QED BY <1>0, <1>6, <1>7, <1>8

LEMMA EtagRefines ==
    ASSUME CallTable, CallTable', IInv, IInv', EtagAfterWrite PROVE LedgerStep
  <1> DEFINE r == readPending.req
  <1>0. PICK e \in {0} \cup (IF store[buf.key].present THEN {store[buf.key].rev} ELSE {}) :
           Reply([Msg(r, "ok") EXCEPT !.etag = e, !.crev = readPending.crev])
    BY DEF EtagAfterWrite
  <1> DEFINE m == [Msg(r, "ok") EXCEPT !.etag = e, !.crev = readPending.crev]
  <1>1. /\ readPending.kind = "etag" /\ readPending' = NoRead
        /\ UNCHANGED <<requests, writePending, store>>
    BY DEF EtagAfterWrite, provider
  <1>2. readPending \in HeldReads /\ r \in Call /\ ~writePending.live /\ buf.key \in Keys
    BY <1>1, HeldRead
  <1>3. e \in Nat
    BY <1>2 DEF IInv, TypeOK, Record
  <1>4. /\ m \in Frame /\ m.req = r /\ m.status = "ok" /\ m.crev = readPending.crev
    BY <1>2, <1>3, MsgType, StatusesAre DEF Msg, Frame, HeldReads
  <1>5. replies' = replies \cup {m}
    BY <1>0 DEF Reply
  <1> HIDE DEF m
  <1>6. Calls[r.id] = Standing("applied", r, readPending.crev)
    BY <1>1 DEF CallTable
  <1>7. Stay({r.id})
    BY <1>1, <1>2, <1>4, <1>5 DEF Stay, NoRead
  <1>8. m.status \in Abstract!May("applied")
    BY <1>4 DEF Abstract!May
  <1> QED BY <1>1, <1>4, <1>5, <1>6, <1>7, <1>8, AnswerIs

(* A read that was seen, or that saw nothing yet, may end unavailable.     *)
LEMMA EndReadRefines ==
    ASSUME CallTable, CallTable', IInv, IInv', readPending.kind = "get",
           EndRead("unavailable"), UNCHANGED <<requests, writePending, store>>
    PROVE  LedgerStep
  <1> DEFINE r == readPending.req
  <1> DEFINE m == Msg(r, "unavailable")
  <1>1. r \in Call /\ ~writePending.live
    BY HeldRead
  <1>2. /\ m \in Frame /\ m.req = r /\ m.status = "unavailable"
        /\ replies' = replies \cup {m} /\ readPending' = NoRead
    BY <1>1, MsgType, StatusesAre DEF Msg, EndRead, Reply
  <1> HIDE DEF m
  <1>3. Stay({r.id})
    BY <1>1, <1>2 DEF Stay, NoRead
  <1>4. PICK phase \in {"open", "observed"} : Calls[r.id] = Standing(phase, r, 0)
    BY DEF CallTable
  <1>5. m.status \in Abstract!May(phase)
    BY <1>2 DEF Abstract!May
  <1> QED BY <1>2, <1>3, <1>4, <1>5, AnswerIs

LEMMA ReadHeadRefines ==
    ASSUME CallTable, CallTable', IInv, IInv', ReadHead, "volatile" \notin ReadFences
    PROVE  LedgerStep
  <1> DEFINE r == readPending.req
  <1>0. /\ readPending.kind = "get" /\ readPending.stage = "head"
        /\ UNCHANGED <<requests, writePending, store>>
    BY DEF ReadHead, Reading, provider
  <1>1. /\ r \in Call /\ r.op = "get" /\ r.id \in Ids /\ ~writePending.live
        /\ buf.key = r.key /\ readPending \in HeldReads
    BY <1>0, HeldRead DEF IInv, OneHeld, Call, Requests
  <1>2. Calls[r.id] = Standing("open", r, 0)
    BY <1>0 DEF CallTable
  <1>3. CASE EndRead("unavailable")
    BY <1>0, <1>3, EndReadRefines
  <1>4. ASSUME NEW f \in ReadFences, NEW rec \in Views(buf.key, f) PROVE rec = store[r.key]
    BY <1>1 DEF Views
  <1>5. ASSUME ~store[r.key].present, EndRead("not_found") PROVE LedgerStep
    <2> DEFINE m == Msg(r, "not_found")
    <2>1. /\ m.req = r /\ m.status = "not_found" /\ replies' = replies \cup {m}
          /\ readPending' = NoRead
      BY <1>5 DEF Msg, EndRead, Reply
    <2> HIDE DEF m
    <2>2. Stay({r.id})
      BY <1>0, <1>1, <2>1 DEF Stay, NoRead
    <2>3. Calls'[r.id] = Standing("not_found", r, 0)
      <3>1. m \in replies'
        BY <2>1
      <3> QED BY <2>1, <3>1 DEF CallTable, Standing
    <2>4. Kept' = Kept
      BY <2>1, KeptStays
    <2>5. "not_found" \in Abstract!Decided(r, store[r.key])
      BY <1>1, <1>5 DEF Abstract!Decided, Abstract!IsWrite
    <2> QED BY <1>0, <1>1, <1>2, <2>2, <2>3, <2>4, <2>5, DecideIs
  <1>6. ASSUME NEW rec, rec = store[r.key], rec.present,
               readPending' = [readPending EXCEPT !.stage = "get", !.want = SizeOf[rec.val]],
               UNCHANGED replies
        PROVE  LedgerStep
    <2>1. readPending'.kind = "get" /\ readPending'.req = r /\ readPending'.stage = "get"
      BY <1>0, <1>1, <1>6 DEF HeldReads
    <2>2. Stay({r.id})
      BY <1>0, <1>1, <1>6, <2>1 DEF Stay
    <2>3. Calls'[r.id] = Standing("observed", r, 0)
      BY <2>1 DEF CallTable, Standing
    <2>4. Kept' = Kept
      BY <1>6 DEF Kept
    <2>5. "observed" \in Abstract!Decided(r, store[r.key])
      BY <1>1, <1>6 DEF Abstract!Decided, Abstract!IsWrite
    <2> QED BY <1>0, <1>1, <1>2, <2>2, <2>3, <2>4, <2>5, DecideIs
  <1> QED BY <1>3, <1>4, <1>5, <1>6 DEF ReadHead

LEMMA ReadOpenRefines ==
    ASSUME CallTable, CallTable', IInv, IInv', ReadOpen PROVE LedgerStep
  <1> DEFINE r == readPending.req
  <1>0. /\ readPending.kind = "get" /\ readPending.stage = "get"
        /\ UNCHANGED <<requests, writePending, store>>
    BY DEF ReadOpen, Reading, provider
  <1>1. CASE EndRead("unavailable")
    BY <1>0, <1>1, EndReadRefines
  <1>2. CASE /\ readPending' = [readPending EXCEPT !.stage = "range",
                                                   !.handle = store[buf.key].val]
             /\ UNCHANGED replies
    <2>1. /\ r \in Call /\ r.id \in Ids /\ ~writePending.live /\ readPending \in HeldReads
      BY <1>0, HeldRead DEF Call, Requests
    <2>2. readPending'.kind = "get" /\ readPending'.req = r /\ readPending'.stage = "range"
      BY <1>0, <1>2, <2>1 DEF HeldReads
    <2>3. Stay({r.id})
      BY <1>0, <1>2, <2>1, <2>2 DEF Stay
    <2>4. Calls'[r.id] = Standing("observed", r, 0)
      BY <2>2 DEF CallTable, Standing
    <2>5. Calls[r.id] = Standing("observed", r, 0)
      BY <1>0 DEF CallTable
    <2> QED BY <1>0, <1>2, <2>1, <2>3, <2>4, <2>5, StutterIs
  <1> QED BY <1>1, <1>2 DEF ReadOpen

LEMMA ReadRangeRefines ==
    ASSUME CallTable, CallTable', IInv, IInv', ReadRange PROVE LedgerStep
  <1> DEFINE r == readPending.req
  <1> DEFINE m == [Msg(r, "ok") EXCEPT !.etag = buf.etag,
                                       !.val = Cut(readPending.handle, readPending.want)]
  <1>0. /\ readPending.kind = "get" /\ readPending.stage = "range"
        /\ UNCHANGED <<requests, writePending, store>>
    BY DEF ReadRange, Reading, provider
  <1>1. CASE EndRead("unavailable")
    BY <1>0, <1>1, EndReadRefines
  <1>2. CASE Reply(m) /\ readPending' = NoRead
    <2>1. /\ r \in Call /\ r.op = "get" /\ ~writePending.live
      BY <1>0, HeldRead DEF IInv, OneHeld
    <2>2. /\ m.req = r /\ m.status = "ok" /\ replies' = replies \cup {m}
      BY <1>2 DEF Msg, Reply
    <2> HIDE DEF m
    <2>3. m \in Frame
      BY <2>2 DEF IInv, TypeOK
    <2>4. Stay({r.id})
      BY <1>0, <1>2, <2>1, <2>2 DEF Stay, NoRead
    <2>5. Calls[r.id] = Standing("observed", r, 0)
      BY <1>0 DEF CallTable
    <2>6. m.status \in Abstract!May("observed")
      BY <2>2 DEF Abstract!May
    <2> QED BY <1>0, <2>1, <2>2, <2>3, <2>4, <2>5, <2>6, AnswerIs
  <1> QED BY <1>1, <1>2 DEF ReadRange

(***************************************************************************)
(* The clients' and the provider's steps.                                  *)
(***************************************************************************)
LEMMA SendRefines ==
    ASSUME CallTable, CallTable', IInv, IInv', NEW c \in Clients, NEW r, Send(c, r),
           r.id = <<c, sent[c] + 1>>
    PROVE  LedgerStep
  <1>1. /\ requests' = Append(requests, r) /\ sent[c] < MaxReqs
        /\ UNCHANGED <<writePending, readPending, inflight, buf, store, replies>>
    BY DEF Send, provider
  <1>2. HeldWriteCall' = HeldWriteCall
    BY <1>1 DEF HeldWriteCall, Standing, WritePhase, Decisions, Commit, Applied, Args
  <1>3. /\ requests \in Seq(Call)
        /\ DOMAIN requests' = 1 .. (Len(requests) + 1)
        /\ \A j \in DOMAIN requests : j \in DOMAIN requests' /\ requests'[j] = requests[j]
        /\ requests'[Len(requests) + 1] = r
        /\ \A n \in DOMAIN requests' : n \in DOMAIN requests \/ n = Len(requests) + 1
    BY <1>1 DEF IInv, TypeOK
  <1>4. r.id \in Ids
    <2>1. sent[c] + 1 \in 1 .. MaxReqs
      BY <1>1, BoundAssumption DEF IInv, TypeOK
    <2> QED BY <2>1 DEF Ids
  <1>5. CASE r.op = "junk"
    <2>1. Stay({})
      BY <1>1, <1>2, <1>3, <1>5 DEF Stay
    <2>2. Calls' = Calls
      BY <2>1, NothingMoves
    <2>3. Kept' = Kept
      BY <1>1 DEF Kept
    <2> QED BY <1>1, <2>2, <2>3 DEF LedgerStep
  <1>6. CASE r.op # "junk"
    <2>1. Stay({r.id})
      BY <1>1, <1>2, <1>3 DEF Stay
    <2>2. Calls'[r.id] = Standing("open", r, 0)
      <3>1. Len(requests) + 1 \in DOMAIN requests'
        BY <1>3
      <3> QED BY <1>3, <1>6, <3>1 DEF CallTable, Standing
    <2>3. Calls[r.id] = Abstract!NoCall
      <3>1. ASSUME NEW q \in Call, q.id[2] <= sent[q.id[1]] PROVE q.id # r.id
        <4>1. sent[c] \in Nat /\ r.id[1] = c /\ r.id[2] = sent[c] + 1
          BY DEF IInv, TypeOK
        <4> QED BY <3>1, <4>1
      <3>2. \A j \in DOMAIN requests : requests[j].id # r.id
        BY <1>3, <3>1 DEF IInv, Places
      <3>3. \A m \in replies : m.req.id # r.id
        BY <3>1 DEF IInv, TypeOK, Frame, Places
      <3>4. writePending.live => writePending.req.id # r.id
        BY <3>1, HeldWrite DEF IInv, Places
      <3>5. readPending.kind # "none" => readPending.req.id # r.id
        BY <3>1, HeldRead DEF IInv, Places
      <3> QED BY <1>4, <3>2, <3>3, <3>4, <3>5 DEF CallTable
    <2> QED BY <1>1, <1>4, <2>1, <2>2, <2>3, InvokeIs
  <1> QED BY <1>5, <1>6

LEMMA CommitRefines ==
    ASSUME CallTable, CallTable', IInv, IInv', NEW w \in inflight, NEW f \in WriteFences,
           ProviderCommit(w, f)
    PROVE  LedgerStep
  <1> DEFINE r == writePending.req
  <1> DEFINE n == rev[r.key] + 1
  <1> DEFINE d == [w EXCEPT !.rc = "done", !.fence = f, !.rev = rev[w.args.key] + 1]
  <1>0. /\ w.rc = "undecided" /\ PreHolds(w.args)
        /\ store' = [store EXCEPT ![w.args.key] = Version(w.args)]
        /\ inflight' = (inflight \ {w}) \cup {d}
        /\ UNCHANGED <<requests, buf, writePending, readPending, replies>>
    BY DEF ProviderCommit, Decide, Install, module
  <1>1. /\ writePending.live /\ r \in Call /\ r.op \in {"put_abs", "cas", "delete"}
        /\ inflight = {w} /\ w \in Flight /\ w.args = Args(buf)
        /\ w.args = [op |-> r.op, key |-> r.key, val |-> r.val, guard |-> r.etag]
    <2>1. writePending.live
      BY DEF IInv, OneHeld
    <2> QED BY <2>1, HeldWrite
  <1>2. /\ r.key \in Keys /\ r.id \in Ids /\ n \in Nat /\ store[r.key].rev < n
        /\ w.args.key = r.key
    <2>1. r.key \in Keys /\ r.id \in Ids /\ w.args.key = r.key
      BY <1>1 DEF Call, Requests
    <2>2. store[r.key].rev \in Nat /\ rev[r.key] \in Nat /\ store[r.key].rev <= rev[r.key]
      BY <2>1 DEF IInv, TypeOK, Record, Versions
    <2> QED BY <2>1, <2>2
  <1>3. inflight' = {d} /\ d.args = Args(buf') /\ d.rc = "done" /\ d.rev = n
    BY <1>0, <1>1, <1>2 DEF Flight, Args
  <1> HIDE DEF d
  <1>4. Calls[r.id] = Standing("open", r, 0)
    BY <1>0, <1>1, HeldWriteStands DEF CallTable
  <1>5. Calls'[r.id] = Standing("applied", r, n)
    <2>1. HeldWriteCall' = Standing("applied", r, n)
      BY <1>0, <1>3, HeldWriteStandsNext
    <2> QED BY <1>0, <1>1, <2>1 DEF CallTable
  <1>6. Stay({r.id})
    <2>1. readPending.kind = "none"
      BY <1>1, HeldRead
    <2> QED BY <1>0, <2>1 DEF Stay
  <1>7. Calls' = [Calls EXCEPT ![r.id] = Standing("applied", r, n)]
    BY <1>2, <1>5, <1>6, OneMoves
  <1>8. /\ Calls[r.id].phase = "open" /\ Calls[r.id].req = r
        /\ [[Calls[r.id] EXCEPT !.phase = "applied"] EXCEPT !.at = n]
               = Standing("applied", r, n)
    <2>1. [Calls[r.id] EXCEPT !.phase = "applied"] = Standing("applied", r, 0)
      BY <1>4 DEF Standing
    <2>2. [Standing("applied", r, 0) EXCEPT !.at = n] = Standing("applied", r, n)
      BY DEF Standing
    <2>3. Calls[r.id].phase = "open" /\ Calls[r.id].req = r
      BY <1>4 DEF Standing
    <2> QED BY <2>1, <2>2, <2>3
  <1>9. Calls' = [Calls EXCEPT ![r.id].phase = "applied", ![r.id].at = n]
    <2> HIDE DEF r, n
    <2> QED BY <1>2, <1>7, <1>8 DEF CallTable
  <1>10. Abstract!IsWrite(r) /\ Abstract!Pre(r, store[r.key])
    BY <1>0, <1>1 DEF Abstract!IsWrite, Abstract!Pre, PreHolds
  <1>11. Version(w.args) = Abstract!After(r, n)
    <2>0. Version(w.args) = [rev |-> n, val |-> IF r.op = "delete" THEN NoVal ELSE r.val,
                             present |-> r.op # "delete"]
      BY <1>1 DEF Version
    <2> HIDE DEF r, n
    <2>1. CASE r.op = "delete"
      <3>1. Abstract!After(r, n) = [rev |-> n, val |-> NoVal, present |-> FALSE]
        BY <2>1 DEF Abstract!After
      <3> QED BY <2>0, <2>1, <3>1
    <2>2. CASE r.op # "delete"
      <3>1. Abstract!After(r, n) = [rev |-> n, val |-> r.val, present |-> TRUE]
        BY <2>2 DEF Abstract!After
      <3>2. (r.op # "delete") = TRUE
        BY <2>2
      <3> QED BY <2>0, <2>2, <3>1, <3>2
    <2> QED BY <2>1, <2>2
  <1>12. Abstract!After(r, n).rev = n
    BY DEF Abstract!After
  <1>13. store'[r.key].rev = n
    <2>1. store'[r.key] = Abstract!After(r, n)
      BY <1>0, <1>2, <1>11 DEF IInv, TypeOK
    <2> QED BY <1>12, <2>1
  <1>14. store' = [store EXCEPT ![r.key] = Abstract!After(r, n)]
    BY <1>0, <1>2, <1>11
  <1>15. Kept' = Kept
    BY <1>0 DEF Kept
  <1> HIDE DEF r, n
  <1>16. Abstract!TakeEffect(r.id)
    BY <1>2, <1>8, <1>9, <1>10, <1>13, <1>14, <1>15, IInv DEF Abstract!TakeEffect
  <1> QED BY <1>2, <1>16 DEF LedgerStep, Abstract!SNext

LEMMA RefusalRefines ==
    ASSUME CallTable, CallTable', IInv, IInv', NEW w \in inflight, ProviderRefuse(w)
    PROVE  LedgerStep
  <1> DEFINE r == writePending.req
  <1>0. PICK rc \in Refusals(w.args) :
           inflight' = (inflight \ {w}) \cup {[w EXCEPT !.rc = rc]}
    BY DEF ProviderRefuse, Decide
  <1> DEFINE d == [w EXCEPT !.rc = rc]
  <1>1. /\ w.rc = "undecided"
        /\ UNCHANGED <<requests, buf, writePending, readPending, store, replies>>
    BY DEF ProviderRefuse, module
  <1>2. /\ writePending.live /\ r \in Call /\ r.op \in {"put_abs", "cas", "delete"}
        /\ inflight = {w} /\ w \in Flight /\ w.args = Args(buf)
        /\ w.args = [op |-> r.op, key |-> r.key, val |-> r.val, guard |-> r.etag]
    <2>1. writePending.live
      BY DEF IInv, OneHeld
    <2> QED BY <2>1, HeldWrite
  <1>3. r.key \in Keys /\ r.id \in Ids /\ w.args.key = r.key
    BY <1>2 DEF Call, Requests
  <1>4. inflight' = {d} /\ d.args = w.args /\ d.args = Args(buf') /\ d.rc = rc
    BY <1>0, <1>1, <1>2 DEF Flight, Args
  <1> HIDE DEF d
  <1>5. Calls[r.id] = Standing("open", r, 0)
    BY <1>1, <1>2, HeldWriteStands DEF CallTable
  <1>6. Stay({r.id})
    <2>1. readPending.kind = "none"
      BY <1>2, HeldRead
    <2> QED BY <1>1, <2>1 DEF Stay
  <1>7. Calls'[r.id] = HeldWriteCall' /\ Kept' = Kept /\ writePending'.req = r
    BY <1>1, <1>2 DEF CallTable, Kept
  <1>8. CASE rc \in {"EIO", "ERETAINED"} \/ (rc = "ENXIO" /\ r.op # "delete")
    <2>1. HeldWriteCall' = Standing("open", r, 0)
      BY <1>2, <1>4, <1>7, <1>8, HeldWriteStandsNext
    <2> QED BY <1>1, <1>3, <1>5, <1>6, <1>7, <2>1, StutterIs
  <1>9. CASE rc \in {"EEXIST", "EAGAIN"} \/ (rc = "ENXIO" /\ r.op = "delete")
    <2>1. ~Abstract!Pre(r, store[r.key]) /\ Abstract!IsWrite(r)
      BY <1>2, <1>9 DEF Refusals, PreHolds, Abstract!Pre, Abstract!IsWrite
    <2>2. CASE rc \in {"EEXIST", "EAGAIN"}
      <3>1. HeldWriteCall' = Standing("refused", r, 0)
        BY <1>4, <1>7, <2>2, HeldWriteStandsNext
      <3>2. "refused" \in Abstract!Decided(r, store[r.key])
        BY <2>1 DEF Abstract!Decided, Abstract!IsWrite
      <3> QED BY <1>1, <1>3, <1>5, <1>6, <1>7, <3>1, <3>2, DecideIs
    <2>3. CASE rc = "ENXIO" /\ r.op = "delete"
      <3>1. HeldWriteCall' = Standing("absent", r, 0)
        BY <1>2, <1>4, <1>7, <2>3, HeldWriteStandsNext
      <3>2. ~store[r.key].present
        BY <1>2, <1>3, <2>3 DEF Refusals
      <3>3. "absent" \in Abstract!Decided(r, store[r.key])
        BY <2>1, <2>3, <3>2 DEF Abstract!Decided
      <3> QED BY <1>1, <1>3, <1>5, <1>6, <1>7, <3>1, <3>3, DecideIs
    <2> QED BY <1>9, <2>2, <2>3
  <1> QED BY <1>8, <1>9 DEF Refusals

LEMMA OtherRefines ==
    ASSUME CallTable, CallTable', IInv, IInv', NEW k \in Keys, OtherWrite(k)
    PROVE  LedgerStep
  <1>1. PICK rec : rec.rev = rev[k] + 1 /\ store' = [store EXCEPT ![k] = rec]
    <2>1. PICK rec \in [rev : {rev[k] + 1}, val : Values \cup {NoVal}, present : BOOLEAN] :
             Install(k, rec, TRUE)
      BY DEF OtherWrite
    <2> QED BY <2>1 DEF Install
  <1>2. UNCHANGED <<requests, buf, writePending, readPending, inflight, replies>>
    BY DEF OtherWrite, module
  <1>3. HeldWriteCall' = HeldWriteCall
    BY <1>2 DEF HeldWriteCall, Standing, WritePhase, Decisions, Commit, Applied, Args
  <1>4. Stay({})
    BY <1>2, <1>3 DEF Stay
  <1>5. Calls' = Calls /\ Kept' = Kept
    BY <1>2, <1>4, NothingMoves DEF Kept
  <1>6. store'[k].rev > store[k].rev
    <2>1. store[k].rev \in Nat /\ rev[k] \in Nat /\ store[k].rev <= rev[k]
      BY DEF IInv, TypeOK, Record, Versions
    <2>2. store'[k] = rec
      BY <1>1 DEF IInv, TypeOK
    <2> QED BY <1>1, <2>1, <2>2
  <1>7. store' = [store EXCEPT ![k] = store'[k]]
    BY <1>1 DEF IInv, TypeOK
  <1>8. Abstract!Elsewhere(k)
    BY <1>5, <1>6, <1>7 DEF Abstract!Elsewhere
  <1> QED BY <1>8 DEF LedgerStep, Abstract!SNext

LEMMA CrashRefines ==
    ASSUME CallTable, CallTable', IInv, IInv', Crash PROVE LedgerStep
  <1>1. /\ requests' = <<>> /\ writePending' = NoWrite /\ readPending' = NoRead
        /\ store' = durable /\ replies' = replies
    BY DEF Crash
  <1>2. Kept' = Kept
    BY <1>1 DEF Kept
  <1>3. \A k \in Keys : Kept[k] <= store'[k].rev /\ store'[k].rev <= store[k].rev
    BY <1>1, KeptIsGreatest DEF IInv, Versions
  <1>4. ASSUME NEW i \in Ids
        PROVE  Calls'[i] = IF Calls[i].phase \in Abstract!Final THEN Calls[i]
                                                                ELSE Abstract!NoCall
    <2>1. CASE \E m \in replies : m.req.id = i
      <3>1. PICK m \in replies : m.req.id = i
        BY <2>1
      <3>2. Calls[i] = Standing(m.status, m.req, 0)
        BY <3>1 DEF CallTable
      <3>3. Calls'[i] = Standing(m.status, m.req, 0)
        BY <1>1, <3>1 DEF CallTable, Standing
      <3>4. Calls[i].phase \in Abstract!Final
        <4>1. Calls[i].phase = m.status /\ m.status \in Statuses
          BY <3>2 DEF Standing, IInv, TypeOK, Frame
        <4> QED BY <4>1 DEF Statuses, Abstract!Final
      <3> QED BY <3>2, <3>3, <3>4
    <2>2. CASE \A m \in replies : m.req.id # i
      <3>1. Calls'[i] = Abstract!NoCall
        BY <1>1, <2>2 DEF CallTable, NoWrite, NoRead, Abstract!NoCall, Abstract!NoReq
      <3>2. Calls[i].phase \in {"open", "applied", "refused", "absent", "observed", "idle"}
        <4>1. CASE \E j \in DOMAIN requests : requests[j].op # "junk" /\ requests[j].id = i
          <5>1. PICK j \in DOMAIN requests : requests[j].op # "junk" /\ requests[j].id = i
            BY <4>1
          <5>2. Calls[i] = Standing("open", requests[j], 0)
            BY <5>1 DEF CallTable
          <5> QED BY <5>2 DEF Standing
        <4>2. CASE writePending.live /\ writePending.req.id = i
          <5>1. WritePhase \in {"open", "applied", "refused", "absent"}
            BY DEF WritePhase
          <5>2. Calls[i] = HeldWriteCall
            BY <4>2 DEF CallTable
          <5> QED BY <5>1, <5>2 DEF HeldWriteCall, Standing
        <4>3. CASE readPending.kind # "none" /\ readPending.req.id = i
          <5>1. readPending.kind \in {"get", "etag"}
            BY <4>3, HeldRead DEF HeldReads
          <5>2. PICK phase \in {"open", "observed", "applied"} : \E at :
                   Calls[i] = Standing(phase, readPending.req, at)
            BY <4>3, <5>1 DEF CallTable
          <5> QED BY <5>2 DEF Standing
        <4>4. CASE /\ \A j \in DOMAIN requests : requests[j].op # "junk" => requests[j].id # i
                   /\ writePending.live => writePending.req.id # i
                   /\ readPending.kind # "none" => readPending.req.id # i
          <5>1. Calls[i] = Abstract!NoCall
            BY <2>2, <4>4 DEF CallTable
          <5> QED BY <5>1 DEF Abstract!NoCall
        <4> QED BY <4>1, <4>2, <4>3, <4>4
      <3>3. Calls[i].phase \notin Abstract!Final
        BY <3>2 DEF Abstract!Final
      <3> QED BY <3>1, <3>3
    <2> QED BY <2>1, <2>2
  <1>5. Calls' = [i \in Ids |-> IF Calls[i].phase \in Abstract!Final THEN Calls[i]
                                                                  ELSE Abstract!NoCall]
    BY <1>4 DEF CallTable
  <1>6. Abstract!Lose
    BY <1>2, <1>3, <1>5 DEF Abstract!Lose
  <1> QED BY <1>6 DEF LedgerStep, Abstract!SNext

(* The initial states are the abstract ledger's.                           *)
LEMMA InitRefines == Init => Abstract!SInit
  <1> SUFFICES ASSUME Init PROVE Abstract!SInit
    OBVIOUS
  <1>1. IInv /\ CallTable
    BY InitInv, TableHolds
  <1>2. /\ requests = <<>> /\ replies = {} /\ writePending = NoWrite /\ readPending = NoRead
        /\ store = [k \in Keys |-> Nothing] /\ durable = store
    BY DEF Init
  <1>3. \A i \in Ids : Calls[i] = Abstract!NoCall
    BY <1>1, <1>2 DEF CallTable, NoWrite, NoRead
  <1>4. Calls = [i \in Ids |-> Abstract!NoCall]
    BY <1>1, <1>3 DEF CallTable
  <1>5. \A k \in Keys : Kept[k] = 0
    <2>1. \A k \in Keys : Acked(replies, k) = {}
      BY <1>2 DEF Acked
    <2> QED BY <1>1, <2>1, KeptIsGreatest
  <1>6. Kept = [k \in Keys |-> 0]
    BY <1>5, KeptIs
  <1>7. Nothing = Abstract!Absent
    BY DEF Nothing, Abstract!Absent
  <1> QED BY <1>2, <1>4, <1>6, <1>7 DEF Abstract!SInit

LEMMA NextRefines ==
    ASSUME "volatile" \notin ReadFences
    PROVE  IInv /\ IInv' /\ [Next]_vars => [Abstract!SNext]_(Abstract!svars)
  <1> SUFFICES ASSUME IInv, IInv', [Next]_vars PROVE LedgerStep
    BY DEF LedgerStep, Abstract!svars
  <1>0. CallTable /\ CallTable'
    BY TableHolds, TableHoldsNext
  <1>1. CASE Probe
    BY <1>0, <1>1, QuietRefines DEF Probe, provider
  <1>2. CASE DropMalformed
    BY <1>0, <1>2, DropRefines
  <1>3. CASE RefuseRequest
    BY <1>0, <1>3, RefuseRefines
  <1>4. CASE StartGet
    BY <1>0, <1>4, StartGetRefines
  <1>5. CASE StartWrite
    BY <1>0, <1>5, StartWriteRefines
  <1>6. CASE AskAgain
    BY <1>0, <1>6, AskAgainRefines
  <1>7. CASE FinishWrite
    BY <1>0, <1>7, FinishRefines
  <1>8. CASE EtagAfterWrite
    BY <1>0, <1>8, EtagRefines
  <1>9. CASE ReadHead
    BY <1>0, <1>9, ReadHeadRefines
  <1>10. CASE ReadOpen
    BY <1>0, <1>10, ReadOpenRefines
  <1>11. CASE ReadRange
    BY <1>0, <1>11, ReadRangeRefines
  <1>12. CASE ProviderStep
    BY <1>0, <1>12, RefusalRefines, CommitRefines DEF ProviderStep
  <1>13. CASE ReceiveStep
    BY <1>0, <1>13, QuietRefines DEF ReceiveStep, Receive, module, provider
  <1>14. ASSUME NEW c \in Clients, NEW k \in Keys,
                \/ SendGet(c, k) \/ SendDelete(c, k) \/ SendJunk(c, k)
                \/ \E v \in Values : SendPutAbs(c, k, v) \/ SendCas(c, k, v)
         PROVE  LedgerStep
    <2>1. PICK op, v, w : Send(c, Request(c, op, k, v, w))
      BY <1>14 DEF SendGet, SendDelete, SendJunk, SendPutAbs, SendCas
    <2>2. Request(c, op, k, v, w).id = <<c, sent[c] + 1>>
      BY DEF Request
    <2> QED BY <1>0, <2>1, <2>2, SendRefines
  <1>15. ASSUME NEW k \in Keys, OtherWrite(k) PROVE LedgerStep
    BY <1>0, <1>15, OtherRefines
  <1>16. CASE Crash
    BY <1>0, <1>16, CrashRefines
  <1>17. CASE UNCHANGED vars
    BY <1>0, <1>17, QuietRefines DEF vars, module, provider
  <1> QED BY <1>1, <1>2, <1>3, <1>4, <1>5, <1>6, <1>7, <1>8, <1>9, <1>10, <1>11, <1>12, <1>13,
             <1>14, <1>15, <1>16, <1>17 DEF Next, ModuleStep

(* The object-backed ledger implements the abstract one: every request     *)
(* takes effect at most once and only under its precondition, its one      *)
(* reply says what happened, and no acknowledged write of a durable        *)
(* namespace is lost to a restart.  The hypothesis is the provider's: HEAD *)
(* is never served from a view with no linearization point.  The module    *)
(* itself judges the view of a record before it believes it, but answers   *)
(* an absence (ENXIO) whatever view it came from, so without it a stale    *)
(* absence would be told as a present one.                                 *)
THEOREM ObjectLedgerImplementsLedger ==
    ASSUME "volatile" \notin ReadFences PROVE Spec => ImplementsLedger
  <1>1. Init => Abstract!SInit
    BY InitRefines
  <1>2. IInv /\ IInv' /\ [Next]_vars => [Abstract!SNext]_(Abstract!svars)
    BY NextRefines
  <1> QED BY <1>1, <1>2, SpecInv, PTL DEF Spec, ImplementsLedger, Abstract!SSpec
=============================================================================
