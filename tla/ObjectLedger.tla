---------------------------- MODULE ObjectLedger ----------------------------
(***************************************************************************)
(* security_state on its `object' backend: requests drained one at a time  *)
(* into one set of buffers, at most one write and one read held while the  *)
(* storage.object provider has not answered, the fence a commit or a read  *)
(* achieved checked before anything is acknowledged.                       *)
(*                                                                         *)
(* Each provider call is a step of its own, so another holder of the store *)
(* may write between any two of them.  A provider call that answers EAGAIN *)
(* or EINPROGRESS leaves the module where it was: it is the stuttering     *)
(* step of the action that asks.                                           *)
(***************************************************************************)
EXTENDS StateWire, Sequences, FiniteSets, FiniteSetsExt

CONSTANTS
    Clients, Keys, Values,
    NsOf,          \* key -> namespace
    SizeOf,        \* value -> its length, as HEAD announces it
    NoVal,
    Torn,          \* a value of which only a first part was copied
    Authority,     \* what the graph declared
    WriteFences,   \* fences the provider may report of a commit
    ReadFences,    \* fences the provider may report of a HEAD
    MaxReqs,       \* bound: requests per client
    MaxOther,      \* bound: writes by other holders of the store
    MaxCrash,      \* bound: restarts
    ReplyCap       \* frames the replies channel holds

ASSUME KeysAssumption   == NsOf \in [Keys -> Namespaces \cup {"unknown"}]
ASSUME ValuesAssumption == SizeOf \in [Values -> Nat] /\ {NoVal, Torn} \cap Values = {} /\ NoVal # Torn
ASSUME FenceAssumption  == WriteFences \subseteq Fences /\ ReadFences \subseteq Fences
ASSUME BoundAssumption  == MaxReqs \in Nat /\ MaxOther \in Nat /\ MaxCrash \in Nat
                           /\ ReplyCap \in Nat \ {0}

VARIABLES
    probed, unavailable,      \* decided once, on the first steps
    requests,                 \* the requests channel
    buf,                      \* key_buf, value_buf, etag_buf and arg_buf
    writePending,             \* the one write the provider has not decided
    readPending,              \* the one read the provider has not answered
    inflight,                 \* writes the provider took
    store, durable, rev,      \* the provider's objects; what survives a restart;
                              \* the last revision given out per object
    past,                     \* every version an object ever had
    replies, seen,            \* replies sent, and those the clients took
    sent, view,               \* clients: requests sent; [etag, val] last learned
    others, crashes           \* bounded counters

module   == <<probed, unavailable, requests, buf, writePending, readPending>>
provider == <<inflight, store, durable, rev, past>>
client   == <<sent, view, seen>>
vars     == <<module, provider, client, replies, others, crashes>>

Ids == Clients \X (1 .. MaxReqs)
Ops == {"get", "put_abs", "cas", "delete", "junk"}

(* basis and src are the client's own memory of where a compare-and-swap   *)
(* came from: the value it believes it replaces, learned from a read or    *)
(* from the acknowledgement of its own write.                              *)
Requests == [id : Ids, op : Ops, key : Keys, val : Values \cup {NoVal},
             etag : Nat, basis : Values \cup {NoVal, Torn},
             src : {"none", "read", "ack"}]

NoReq   == [op |-> "none"]
NoWrite == [live |-> FALSE, req |-> NoReq]
NoRead  == [kind |-> "none", req |-> NoReq, stage |-> "idle", want |-> 0,
            handle |-> NoVal, crev |-> 0]
NoView  == [etag |-> 0, val |-> NoVal, src |-> "none"]
Nothing == [rev |-> 0, val |-> NoVal, present |-> FALSE]

CanWrite == Cardinality(replies \ seen) < ReplyCap

(***************************************************************************)
(* Clients: any mix of the four operations, with whatever etag the client  *)
(* last learned; a compare-and-swap before it learned one carries none.    *)
(***************************************************************************)
Send(c, r) ==
    /\ sent[c] < MaxReqs
    /\ sent' = [sent EXCEPT ![c] = @ + 1]
    /\ requests' = Append(requests, r)
    /\ UNCHANGED <<probed, unavailable, buf, writePending, readPending,
                   provider, seen, view, replies, others, crashes>>

Request(c, op, k, v, w) ==
    [id |-> <<c, sent[c] + 1>>, op |-> op, key |-> k, val |-> v,
     etag |-> w.etag, basis |-> w.val, src |-> w.src]

SendGet(c, k)       == Send(c, Request(c, "get", k, NoVal, NoView))
SendPutAbs(c, k, v) == Send(c, Request(c, "put_abs", k, v, NoView))
SendCas(c, k, v)    == Send(c, Request(c, "cas", k, v, view[c][k]))
SendDelete(c, k)    == Send(c, Request(c, "delete", k, NoVal, view[c][k]))
SendJunk(c, k)      == Send(c, Request(c, "junk", k, NoVal, NoView))

(* A client takes a reply addressed to it and remembers what it learned:   *)
(* a read's etag and value, or the etag its own write was acknowledged at. *)
Receive(m) ==
    /\ m \in replies \ seen
    /\ seen' = seen \cup {m}
    /\ view' = IF m.status = "ok" /\ m.etag # 0
                 THEN [view EXCEPT ![m.req.id[1]][m.req.key] =
                         IF m.req.op = "get"
                           THEN [etag |-> m.etag, val |-> m.val, src |-> "read"]
                           ELSE [etag |-> m.etag, val |-> m.req.val, src |-> "ack"]]
                 ELSE view
    /\ UNCHANGED <<module, provider, sent, replies, others, crashes>>

(***************************************************************************)
(* The module.                                                             *)
(***************************************************************************)
Reply(m) == replies' = replies \cup {m}

Msg(r, status) == [req |-> r, status |-> status, etag |-> 0, val |-> NoVal,
                   crev |-> 0]

(* The start-up decision, taken once.  An undeclared authority, and a      *)
(* replicated one (whose commits would never leave this node), refuse      *)
(* everything without asking; otherwise HEAD of the probe key says whether *)
(* there is a conditional store at all.                                    *)
Probe ==
    /\ ~probed
    /\ probed' = TRUE
    /\ \E healthy \in BOOLEAN :
          unavailable' = (Authority # "single-node" \/ ~healthy)
    /\ UNCHANGED <<requests, buf, writePending, readPending, provider, client,
                   replies, others, crashes>>

(* No request is drained while a write or a read is held: its arguments    *)
(* live in the buffers the next request would overwrite.                   *)
Draining == /\ probed /\ requests # <<>> /\ CanWrite
            /\ ~writePending.live /\ readPending.kind = "none"

Missing(r) == r.op \in {"cas", "delete"} /\ r.etag = 0

(* A payload that does not decode has no correlation id to answer.         *)
DropMalformed ==
    /\ Draining /\ Head(requests).op = "junk"
    /\ requests' = Tail(requests)
    /\ UNCHANGED <<probed, unavailable, buf, writePending, readPending,
                   provider, client, replies, others, crashes>>

(* Refused before any provider call: no ledger, no such namespace, or a    *)
(* guarded write with no etag.                                             *)
RefuseRequest ==
    LET r == Head(requests) IN
    /\ Draining /\ r.op # "junk"
    /\ \/ /\ unavailable
          /\ Reply(Msg(r, "unavailable"))
       \/ /\ ~unavailable
          /\ ~NamespacePrefix(NsOf[r.key]) \/ Missing(r)
          /\ Reply(Msg(r, "malformed"))
    /\ requests' = Tail(requests)
    /\ UNCHANGED <<probed, unavailable, buf, writePending, readPending,
                   provider, client, others, crashes>>

Admitted(r) == ~unavailable /\ NamespacePrefix(NsOf[r.key]) /\ ~Missing(r)

(* do_get: the read is started here and advanced by the Read actions.      *)
StartGet ==
    LET r == Head(requests) IN
    /\ Draining /\ r.op = "get" /\ Admitted(r)
    /\ requests' = Tail(requests)
    /\ buf' = [buf EXCEPT !.key = r.key]
    /\ readPending' = [NoRead EXCEPT !.kind = "get", !.req = r, !.stage = "head"]
    /\ UNCHANGED <<probed, unavailable, writePending, provider, client,
                   replies, others, crashes>>

(* The provider is asked with what the buffers hold now.                   *)
Args(b) == [op |-> b.op, key |-> b.key, val |-> b.val, guard |-> b.guard]

Take(args) ==
    IF \E w \in inflight : w.args = args THEN inflight
    ELSE inflight \cup {[args |-> args, rc |-> "undecided", fence |-> "volatile",
                         rev |-> 0]}

(* do_write, do_delete: the request is copied into the buffers, the guard  *)
(* encoded with it, and the provider asked for the first time.             *)
StartWrite ==
    LET r == Head(requests)
        b == [buf EXCEPT !.key = r.key, !.val = r.val, !.etag = r.etag,
                         !.op = r.op, !.guard = r.etag]
    IN
    /\ Draining /\ r.op \in {"put_abs", "cas", "delete"} /\ Admitted(r)
    /\ requests' = Tail(requests)
    /\ buf' = b
    /\ inflight' = Take(Args(b))
    /\ writePending' = [live |-> TRUE, req |-> r]
    /\ UNCHANGED <<probed, unavailable, readPending, store, durable, rev, past,
                   client, replies, others, crashes>>

(* issue_write on a later step, with byte-identical arguments; the         *)
(* provider has still not decided.                                         *)
AskAgain ==
    /\ writePending.live /\ CanWrite
    /\ ~ \E w \in inflight : w.args = Args(buf) /\ w.rc # "undecided"
    /\ inflight' = Take(Args(buf))
    /\ UNCHANGED <<module, store, durable, rev, past, client, replies, others,
                   crashes>>

(* finish_write: a refusal is answered; a commit below the namespace's     *)
(* floor is not acknowledged although it stands; any other commit waits    *)
(* for the HEAD that re-reads its etag.  A delete checks no fence.         *)
FinishWrite ==
    \E w \in inflight :
        LET r      == writePending.req
            status == DecidedWrite(w.rc, r.op = "delete")
        IN
        /\ writePending.live /\ CanWrite
        /\ w.args = Args(buf) /\ w.rc # "undecided"
        /\ inflight' = inflight \ {w}
        /\ writePending' = NoWrite
        /\ \/ /\ status # "committed"
              /\ Reply([Msg(r, status) EXCEPT !.crev = w.rev])
              /\ UNCHANGED readPending
           \/ /\ status = "committed"
              /\ ~FenceSatisfies(NsOf[r.key], w.fence, Authority = "replicated")
              /\ Reply(Msg(r, "unavailable"))
              /\ UNCHANGED readPending
           \/ /\ status = "committed"
              /\ FenceSatisfies(NsOf[r.key], w.fence, Authority = "replicated")
              /\ readPending' = [NoRead EXCEPT !.kind = "etag", !.req = r,
                                               !.crev = w.rev]
              /\ UNCHANGED replies
        /\ UNCHANGED <<probed, unavailable, requests, buf, store, durable, rev,
                       past, client, others, crashes>>

(* Mutant: the acknowledgement echoes the etag the buffer already holds.   *)
MutEtagAfterWrite ==
    /\ readPending.kind = "etag" /\ CanWrite
    /\ Reply([Msg(readPending.req, "ok") EXCEPT !.etag = buf.etag,
                                                !.crev = readPending.crev])
    /\ readPending' = NoRead
    /\ UNCHANGED <<probed, unavailable, requests, buf, writePending, provider,
                   client, others, crashes>>

(* etag_after_write: HEAD of the key the buffer names; an answer without   *)
(* an etag still acknowledges the write, unchained.                        *)
EtagAfterWrite ==
    LET rec == store[buf.key] IN
    /\ readPending.kind = "etag" /\ CanWrite
    /\ \E e \in {0} \cup (IF rec.present THEN {rec.rev} ELSE {}) :
          /\ buf' = [buf EXCEPT !.etag = e, !.op = "head"]
          /\ Reply([Msg(readPending.req, "ok") EXCEPT !.etag = e,
                                                      !.crev = readPending.crev])
    /\ readPending' = NoRead
    /\ UNCHANGED <<probed, unavailable, requests, writePending, provider, client,
                   others, crashes>>

(* The read ends without a body.                                           *)
EndRead(status) ==
    /\ Reply(Msg(readPending.req, status))
    /\ readPending' = NoRead

Reading(stage) ==
    readPending.kind = "get" /\ readPending.stage = stage /\ CanWrite

(* What a HEAD served under fence f may see: the object as it is, or, from *)
(* a view with no linearization point, as it was.                          *)
Views(k, f) ==
    {store[k]} \cup (IF f = "volatile" THEN {h.rec : h \in {p \in past : p.key = k}}
                                       ELSE {})

(* HEAD for the etag: absence is answered at once; a record is judged by   *)
(* the view it was served from before its etag is believed.                *)
ReadHead ==
    /\ Reading("head")
    /\ \/ /\ EndRead("unavailable")
          /\ UNCHANGED buf
       \/ \E f \in ReadFences : \E rec \in Views(buf.key, f) :
            \/ /\ ~rec.present
               /\ EndRead("not_found")
               /\ UNCHANGED buf
            \/ /\ rec.present /\ ~ReadFenceSatisfies(NsOf[readPending.req.key], f)
               /\ EndRead("unavailable")
               /\ UNCHANGED buf
            \/ /\ rec.present /\ ReadFenceSatisfies(NsOf[readPending.req.key], f)
               /\ buf' = [buf EXCEPT !.etag = rec.rev, !.op = "head"]
               /\ readPending' = [readPending EXCEPT !.stage = "get",
                                                     !.want = SizeOf[rec.val]]
               /\ UNCHANGED replies
    /\ UNCHANGED <<probed, unavailable, requests, writePending, provider, client,
                   others, crashes>>

(* Mutant: an object gone since HEAD is taken for one not answered yet.    *)
MutReadOpen ==
    /\ Reading("get")
    /\ store[buf.key].present
    /\ readPending' = [readPending EXCEPT !.stage = "range",
                                          !.handle = store[buf.key].val]
    /\ UNCHANGED <<probed, unavailable, requests, buf, writePending, provider,
                   client, replies, others, crashes>>

(* GET for a handle: it names the object as it is now.                     *)
ReadOpen ==
    /\ Reading("get")
    /\ \/ /\ EndRead("unavailable")
       \/ /\ store[buf.key].present
          /\ readPending' = [readPending EXCEPT !.stage = "range",
                                                !.handle = store[buf.key].val]
          /\ UNCHANGED replies
    /\ UNCHANGED <<probed, unavailable, requests, buf, writePending, provider,
                   client, others, crashes>>

(* As many bytes of v as fit in n.                                         *)
Cut(v, n) == IF SizeOf[v] <= n THEN v ELSE Torn

(* Mutant: the etag is taken after the value instead of before it.         *)
MutReadRange ==
    /\ Reading("range")
    /\ \/ /\ EndRead("unavailable")
       \/ /\ Reply([Msg(readPending.req, "ok") EXCEPT
                      !.etag = store[buf.key].rev, !.val = readPending.handle])
          /\ readPending' = NoRead
    /\ UNCHANGED <<probed, unavailable, requests, buf, writePending, provider,
                   client, others, crashes>>

(* RANGE_GET of as many bytes as HEAD announced.                           *)
ReadRange ==
    /\ Reading("range")
    /\ \/ /\ EndRead("unavailable")
       \/ /\ Reply([Msg(readPending.req, "ok") EXCEPT
                      !.etag = buf.etag,
                      !.val = Cut(readPending.handle, readPending.want)])
          /\ readPending' = NoRead
    /\ UNCHANGED <<probed, unavailable, requests, buf, writePending, provider,
                   client, others, crashes>>

(***************************************************************************)
(* The provider: single-object conditional writes.  It decides a write it  *)
(* took at some later instant, or refuses it for a hold or a fault.        *)
(***************************************************************************)
PreHolds(a) == IF a.op = "put_abs"
                 THEN ~store[a.key].present
                 ELSE store[a.key].present /\ store[a.key].rev = a.guard

Install(k, rec, isDurable) ==
    /\ rev' = [rev EXCEPT ![k] = rec.rev]
    /\ store' = [store EXCEPT ![k] = rec]
    /\ past' = past \cup {[key |-> k, rec |-> rec]}
    /\ durable' = IF isDurable THEN [durable EXCEPT ![k] = rec] ELSE durable

Version(a) == [rev |-> rev[a.key] + 1,
               val |-> IF a.op = "delete" THEN NoVal ELSE a.val,
               present |-> a.op # "delete"]

Decide(w, d) == inflight' = (inflight \ {w}) \cup {d}

ProviderCommit(w, f) ==
    /\ w \in inflight /\ w.rc = "undecided" /\ PreHolds(w.args)
    /\ Install(w.args.key, Version(w.args), AtLeast(f, "local_durable"))
    /\ Decide(w, [w EXCEPT !.rc = "done", !.fence = f, !.rev = rev[w.args.key] + 1])
    /\ UNCHANGED <<module, client, replies, others, crashes>>

Refusals(a) ==
    {"EIO"} \cup (IF store[a.key].present THEN {"ERETAINED"} ELSE {})
            \cup (IF PreHolds(a) THEN {}
                  ELSE IF a.op = "put_abs" THEN {"EEXIST"}
                  ELSE IF store[a.key].present THEN {"EAGAIN"}
                  ELSE {"ENXIO"})

ProviderRefuse(w) ==
    /\ w \in inflight /\ w.rc = "undecided"
    /\ \E rc \in Refusals(w.args) : Decide(w, [w EXCEPT !.rc = rc])
    /\ UNCHANGED <<module, store, durable, rev, past, client, replies, others,
                   crashes>>

(* Another holder of the store writes or removes an object.                *)
OtherWrite(k) ==
    /\ others < MaxOther
    /\ others' = others + 1
    /\ \/ \E v \in Values :
             Install(k, [rev |-> rev[k] + 1, val |-> v, present |-> TRUE], TRUE)
       \/ /\ store[k].present
          /\ Install(k, [rev |-> rev[k] + 1, val |-> NoVal, present |-> FALSE], TRUE)
    /\ UNCHANGED <<module, inflight, client, replies, crashes>>

(* The node restarts: the graph's modules, clients included, and their     *)
(* channels start over, and the store is what was durable.                 *)
Crash ==
    /\ crashes < MaxCrash
    /\ crashes' = crashes + 1
    /\ probed' = FALSE /\ unavailable' = FALSE
    /\ requests' = <<>> /\ writePending' = NoWrite /\ readPending' = NoRead
    /\ inflight' = {}
    /\ store' = durable
    /\ seen' = replies
    /\ view' = [c \in Clients |-> [k \in Keys |-> NoView]]
    /\ UNCHANGED <<buf, durable, rev, past, sent, replies, others>>

-----------------------------------------------------------------------------
Init ==
    /\ probed = FALSE /\ unavailable = FALSE
    /\ requests = <<>>
    /\ buf \in [key : Keys, val : {NoVal}, etag : {0}, op : {"none"}, guard : {0}]
    /\ writePending = NoWrite /\ readPending = NoRead
    /\ inflight = {}
    /\ store = [k \in Keys |-> Nothing] /\ durable = store
    /\ past = {[key |-> k, rec |-> Nothing] : k \in Keys}
    /\ rev = [k \in Keys |-> 0]
    /\ replies = {} /\ seen = {}
    /\ sent = [c \in Clients |-> 0]
    /\ view = [c \in Clients |-> [k \in Keys |-> NoView]]
    /\ others = 0 /\ crashes = 0

ModuleStep ==
    \/ Probe \/ DropMalformed \/ RefuseRequest \/ StartGet \/ StartWrite
    \/ AskAgain \/ FinishWrite \/ EtagAfterWrite
    \/ ReadHead \/ ReadOpen \/ ReadRange

ProviderStep ==
    \E w \in inflight : ProviderRefuse(w) \/ \E f \in WriteFences : ProviderCommit(w, f)

ReceiveStep == \E m \in replies : Receive(m)

Next ==
    \/ ModuleStep
    \/ ProviderStep
    \/ ReceiveStep
    \/ \E c \in Clients, k \in Keys :
          \/ SendGet(c, k) \/ SendDelete(c, k) \/ SendJunk(c, k)
          \/ \E v \in Values : SendPutAbs(c, k, v) \/ SendCas(c, k, v)
    \/ \E k \in Keys : OtherWrite(k)
    \/ Crash

Spec == Init /\ [][Next]_vars

(* The graph steps every module forever, the provider decides what it took *)
(* and clients drain their replies.                                        *)
FairSpec == Spec /\ WF_vars(ModuleStep) /\ WF_vars(ProviderStep)
                 /\ WF_vars(ReceiveStep)
-----------------------------------------------------------------------------
(***************************************************************************)
(* Properties.                                                             *)
(***************************************************************************)
Queued == {requests[i] : i \in DOMAIN requests}

(* Requests the ledger has taken on and not answered.                      *)
Outstanding == Queued \cup (IF writePending.live THEN {writePending.req} ELSE {})
                      \cup (IF readPending.kind # "none" THEN {readPending.req} ELSE {})

Unwritten == Queued \cup (IF writePending.live THEN {writePending.req} ELSE {})

(* The read ordering (HEAD for the etag, then GET for the value): whatever *)
(* other holders write in between, a guarded write presenting the etag of  *)
(* a read can only win while the store holds the value that read returned. *)
ReadBasisHolds ==
    \A r \in Unwritten :
        /\ r.op \in {"cas", "delete"} /\ r.src = "read"
        /\ store[r.key].present /\ store[r.key].rev = r.etag
        => store[r.key].val = r.basis

(* An OK acknowledgement tells the truth about its own request: its value  *)
(* was committed under its key (the one-slot back-pressure keeps the       *)
(* buffers a held write is retried from out of the next request's reach),  *)
(* and the etag it names is never older than that commit (finish_write:    *)
(* "Re-read the etag the write produced"), so a caller that chains on it   *)
(* cannot be refused for its own write, only for another holder's.         *)
AcksAreTrue ==
    \A m \in replies :
        m.status = "ok" /\ m.req.op \in {"put_abs", "cas"} =>
            /\ [key |-> m.req.key,
                rec |-> [rev |-> m.crev, val |-> m.req.val, present |-> TRUE]] \in past
            /\ m.etag = 0 \/ m.etag >= m.crev

(* "Every request produces exactly one reply" (module_step): a request the *)
(* ledger has taken on is eventually replied to, although another holder   *)
(* may remove the object in the middle of its read; only a restart may     *)
(* come first and take it.  Leaving the module is not enough.              *)
EveryRequestAnswered ==
    \A i \in Ids, n \in 0 .. MaxCrash :
        (crashes = n /\ \E r \in Outstanding : r.id = i /\ r.op # "junk")
            ~> \/ \E m \in replies : m.req.id = i
               \/ crashes > n

(***************************************************************************)
(* The module implements the abstract ledger.                              *)
(***************************************************************************)
Known == {r \in Outstanding \cup {m.req : m \in replies} : r.op # "junk"}

Decisions == {w \in inflight : w.args = Args(buf)}

WritePhase ==
    CASE \E w \in Decisions : w.rc = "done"                 -> "applied"
      [] \E w \in Decisions : w.rc \in {"EEXIST", "EAGAIN"} -> "refused"
      [] \E w \in Decisions : w.rc = "ENXIO" /\ w.args.op = "delete" -> "absent"
      [] OTHER                                              -> "open"

ReplyTo(r) == CHOOSE m \in replies : m.req = r

PhaseOf(r) ==
    CASE \E m \in replies : m.req = r -> ReplyTo(r).status
      [] writePending.live /\ writePending.req = r -> WritePhase
      [] readPending.kind = "etag" /\ readPending.req = r -> "applied"
      [] readPending.kind = "get" /\ readPending.req = r /\ readPending.stage # "head"
            -> "observed"
      [] OTHER -> "open"

Commit == CHOOSE w \in Decisions : w.rc = "done"

(* The revision an applied, unanswered write produced.                     *)
WroteAt(r) ==
    CASE PhaseOf(r) # "applied" -> 0
      [] readPending.kind = "etag" /\ readPending.req = r -> readPending.crev
      [] OTHER -> Commit.rev

Calls ==
    [i \in Ids |->
        IF \E r \in Known : r.id = i
          THEN LET r == CHOOSE q \in Known : q.id = i
               IN  [phase |-> PhaseOf(r), req |-> r, at |-> WroteAt(r)]
          ELSE [phase |-> "idle", req |-> NoReq, at |-> 0]]

DurableKeys == {k \in Keys : NsOf[k] \in DurableNamespaces}

Kept ==
    [k \in Keys |->
        Max({0} \cup {m.crev : m \in {n \in replies :
                n.status = "ok" /\ n.req.op \in {"put_abs", "cas"}
                /\ n.req.key = k /\ k \in DurableKeys}})]

Abstract == INSTANCE LedgerService WITH reg <- store, call <- Calls, kept <- Kept

(* Every behaviour of the module is one of the abstract ledger: at most    *)
(* one effect per request, only under its precondition, a status that      *)
(* tells the truth about it, and no acknowledged write of a durable        *)
(* namespace lost to a restart.                                            *)
ImplementsLedger == Abstract!SSpec
=============================================================================
