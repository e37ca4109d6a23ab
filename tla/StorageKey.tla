----------------------------- MODULE StorageKey -----------------------------
(***************************************************************************)
(* The storage-key service (storage_key_service.rs): it decides who may    *)
(* reconstruct a volume's key.  Each operation is a chain of ledger round  *)
(* trips; up to MaxOps are in flight at once, every ledger request of an   *)
(* operation carries the operation's one correlation id, and a stage that  *)
(* is not answered in time ends the operation.  Three custodians hold one  *)
(* share each and release it on a signed order.                            *)
(*                                                                         *)
(* One resource: operations on different resources share no record.  What  *)
(* a request's signature, evidence, window and lifetime come to is its     *)
(* field proof.  A frame a channel will not take ends its operation as a   *)
(* frame nobody answers does.                                              *)
(***************************************************************************)
EXTENDS LedgerClient, StateWire, FiniteSets, FiniteSetsExt

CONSTANTS
    Devices, NoDevice,
    Scenarios,      \* what the callers and the environment may do, see below
    MaxReqs,        \* bound: requests presented in any scenario
    MaxOps,         \* operation slots
    MaxChallenges,  \* challenge slots
    MaxRetained     \* retained epochs a grant may list

(***************************************************************************)
(* A scenario: the resource is absent or "provisioned" at the start, then  *)
(* granted to its owner; the bodies callers present, each again and again  *)
(* if they like; how many requests and challenges there are; the devices   *)
(* the directory may stop vouching for; and bounds on ledger calls and     *)
(* custodian orders that fail, on stages that expire and on restarts.      *)
(***************************************************************************)
Bodies == UNION {s.bodies : s \in Scenarios}

ASSUME SkBounds ==
    /\ MaxReqs \in Nat /\ MaxOps \in Nat \ {0} /\ MaxRetained \in Nat \ {0}
    /\ MaxChallenges \in Nat \ {0} /\ NoDevice \notin Devices
    /\ \A s \in Scenarios : s.start \in {"absent", "provisioned"} /\ s.reqs \in 0 .. MaxReqs
    /\ \A b \in Bodies : b.code = "recover" => b.ticket \in 1 .. MaxReqs

VARIABLES
    scn,        \* the scenario
    led,        \* the ledger's records
    ops,        \* operation slots, by correlation id
    next,       \* next_corr
    challenges, \* outstanding challenges: [nonce, device]
    issued,     \* how many challenges were issued
    wire, mail, \* requests the ledger has not decided; answers not taken
    orders, results,   \* towards and from the custodians
    seen, erased,      \* each custodian's memory
    replies,    \* what callers were answered
    faults, timeouts, restarts

lane  == <<wire, mail>>
cust  == <<orders, results, seen, erased>>
count == <<faults, timeouts, restarts>>
vars  == <<scn, led, ops, next, challenges, issued, lane, cust, replies, count>>

Ids        == 1 .. MaxReqs
Custodians == {0, 1, 2}
LastEpoch  == MaxReqs + 3

GrantKey     == <<"grant", 0>>
SetKey(e)    == <<"set", e>>
TicketKey(t) == <<"ticket", t>>
ChainKey(a)  == <<"chain", a>>
ReplayKey(r) == <<"replay", r>>
AuditKey(i)  == <<"audit", i>>
DeviceKey(d) == <<"device", d>>

Keys == {GrantKey} \cup {SetKey(e) : e \in 1 .. LastEpoch}
        \cup {TicketKey(t) : t \in Ids} \cup {AuditKey(i) : i \in Ids}
        \cup {ChainKey(b.replay) : b \in Bodies} \cup {ReplayKey(b.replay) : b \in Bodies}
        \cup {DeviceKey(d) : d \in Devices}

(***************************************************************************)
(* The records.  setid and a ticket's id are fresh: the correlation id of  *)
(* the operation that drew them.                                           *)
(***************************************************************************)
GrantRec(e, g, d, rv, rt, s) ==
    [kind |-> "grant", epoch |-> e, gen |-> g, device |-> d, revoked |-> rv,
     retained |-> rt, setid |-> s]
Erasure(g) ==
    [kind |-> "erasure", epoch |-> g.epoch, gen |-> g.gen + 1, device |-> NoDevice,
     revoked |-> TRUE, retained |-> {}, setid |-> g.setid]
SetRec(kind, e, s) == [kind |-> kind, epoch |-> e, setid |-> s]
Ticket(i, e, d, used) ==
    [kind |-> "ticket", id |-> i, epoch |-> e, device |-> d, consumed |-> used]
Link(kind, i, b, att) ==
    [kind |-> kind, by |-> i, att |-> att, device |-> b.device, epoch |-> b.epoch]

Admits(g, e) == g.kind = "grant" /\ (e = g.epoch \/ e \in g.retained)

(***************************************************************************)
(* Operations.                                                             *)
(***************************************************************************)
Free == [stage |-> "free"]

NewOp(b, p) ==
    [stage |-> "start", body |-> b, prev |-> p, grant |-> Nothing, set |-> Nothing,
     ticket |-> Nothing, chain |-> Nothing, active |-> FALSE, out |-> Nothing,
     aux |-> Nothing, epoch |-> b.epoch, cursor |-> 0, asked |-> {}, answered |-> {},
     envs |-> {}, refusal |-> "none", born |-> led[GrantKey]]

CustodianStages == {"custodians", "erase_custodians"}
Live == {i \in Ids : ops[i].stage # "free"}
Proven(b) == b.code \in {"attach", "recover", "renew"}

(* commit_send: one request to the ledger, under the operation's id.       *)
Ask(i, o, stage, q) ==
    /\ ops' = [ops EXCEPT ![i] = [o EXCEPT !.stage = stage]]
    /\ wire' = wire \cup {[corr |-> i, q |-> q]}
    /\ UNCHANGED orders

Entry(o, refusal) == [kind |-> "audit", code |-> o.body.code, refusal |-> refusal]

(* finish: every decision is audited, and answered once that is written.   *)
Finish(i, o, refusal) ==
    Ask(i, [o EXCEPT !.refusal = refusal,
                     !.out = IF refusal = "none" THEN @ ELSE Nothing,
                     !.envs = IF refusal = "none" THEN @ ELSE {}],
        "write_audit", PutIfAbsent(AuditKey(i), Entry(o, refusal)))

Allow(i, o) == Finish(i, o, "none")

(* Mutant: an unaudited release is answered all the same.                  *)
MutAnswer(i, o, audited) ==
    [id |-> i, body |-> o.body, prev |-> o.prev, audited |-> audited,
     refusal |-> o.refusal, rec |-> o.out, envs |-> o.envs, born |-> o.born,
     grant |-> o.grant]

(* reply: a release or renewal the audit trail does not hold is withheld.  *)
Answer(i, o, audited) ==
    LET refusal == IF o.refusal = "none" /\ Proven(o.body) /\ ~audited
                     THEN "ledger_unavailable" ELSE o.refusal
    IN  [id |-> i, body |-> o.body, prev |-> o.prev, audited |-> audited,
         refusal |-> refusal,
         rec |-> IF refusal = "none" THEN o.out ELSE Nothing,
         envs |-> IF refusal = "none" THEN o.envs ELSE {}, born |-> o.born,
         grant |-> o.grant]

Reply(i, audited) ==
    /\ replies' = replies \cup {Answer(i, ops[i], audited)}
    /\ ops' = [ops EXCEPT ![i] = Free]

(***************************************************************************)
(* Requests.                                                               *)
(***************************************************************************)
(* issue_challenge: a full table loses the entry closest to expiry, which  *)
(* is the oldest.                                                          *)
IssueChallenge(d) ==
    LET full == Cardinality(challenges) >= MaxChallenges
        old  == {c \in challenges : \A x \in challenges : c.nonce <= x.nonce}
    IN
    /\ issued < scn.challenges
    /\ issued' = issued + 1
    /\ challenges' = (IF full THEN challenges \ old ELSE challenges)
                     \cup {[nonce |-> issued + 1, device |-> d]}
    /\ UNCHANGED <<scn, led, ops, next, lane, cust, replies, count>>

(* tick: a challenge past its time is dropped.                             *)
ExpireChallenge(c) ==
    /\ c \in challenges
    /\ challenges' = challenges \ {c}
    /\ UNCHANGED <<scn, led, ops, next, issued, lane, cust, replies, count>>

(* Mutant: a challenge is spent only by a request that goes on.            *)
MutSpent(b) == {}

(* spend_challenge removes the challenge whatever becomes of the request.  *)
Spent(b) == {c \in challenges : c.nonce = b.nonce}

Creation(i) == SetRec("creation", 1, i)

(* on_request_from and start.                                              *)
Submit(b, p) ==
    LET i == next
        o == NewOp(b, p)
    IN
    /\ next <= scn.reqs /\ Cardinality(Live) < MaxOps
    /\ next' = next + 1
    /\ IF Proven(b)
         THEN /\ challenges' = challenges \ Spent(b)
              /\ IF \E c \in challenges : c.nonce = b.nonce /\ c.device = b.device
                   THEN Ask(i, o, "get_grant", Get(GrantKey))
                   ELSE Finish(i, o, "challenge_unknown")
         ELSE /\ UNCHANGED challenges
              /\ IF b.code = "create"
                   THEN LET g == GrantRec(1, 1, NoDevice, FALSE, {}, i)
                        IN Ask(i, [o EXCEPT !.out = Creation(i), !.aux = g, !.epoch = 1],
                               "put_grant", PutIfAbsent(GrantKey, g))
                   ELSE Ask(i, o, "get_grant", Get(GrantKey))
    /\ UNCHANGED <<scn, led, issued, mail, results, seen, erased, replies, count>>

(* A renewal presents a record it was issued.                              *)
Issued == {m.rec : m \in {n \in replies : n.rec.kind \in {"release", "recovery", "renewal"}}}

SubmitAny(b) ==
    \/ b.code # "renew" /\ Submit(b, Nothing)
    \/ b.code = "renew" /\ \E p \in Issued : Submit([b EXCEPT !.epoch = p.epoch], p)

(* No slot: refused at once, with nothing decided and nothing audited.     *)
RefuseNow(b) ==
    /\ next <= scn.reqs /\ Cardinality(Live) >= MaxOps
    /\ next' = next + 1
    /\ replies' = replies \cup {Answer(next, [NewOp(b, Nothing) EXCEPT !.refusal = "busy"],
                                       FALSE)}
    /\ UNCHANGED <<scn, led, ops, challenges, issued, lane, cust, count>>

(***************************************************************************)
(* Ledger answers: on_ledger and advance, one action per stage.            *)
(***************************************************************************)
ReadRefusal(status)  == IF status = "not_found" THEN "unknown_resource"
                                                ELSE "ledger_unavailable"
WriteRefusal(status) == CASE status \in {"conflict", "retained"} -> status
                          [] status = "not_found"  -> "unknown_resource"
                          [] OTHER                 -> "ledger_unavailable"

At(m, stage) == m \in mail /\ ops[m.corr].stage = stage

Taken(m) == /\ mail' = mail \ {m}
            /\ UNCHANGED <<scn, led, next, challenges, issued, results, seen, erased, count>>

(* An answer for an operation that has ended, or is with the custodians.   *)
IgnoreAnswer(m) ==
    /\ m \in mail /\ ops[m.corr].stage \in CustodianStages \cup {"free"}
    /\ Taken(m)
    /\ UNCHANGED <<ops, wire, orders, replies>>

(* Why a grant change is refused.                                          *)
ChangeRefusal(b, g) ==
    CASE b.code = "grant" /\ g.device # NoDevice /\ ~g.revoked   -> "conflict"
      [] b.code \in {"rotate_grant", "replace", "revoke"} /\ g.revoked -> "grant_revoked"
      [] b.code = "rotate_grant" /\ g.device # b.device          -> "device_not_granted"
      [] b.code = "replace" /\ g.device # b.old                  -> "conflict"
      [] b.code = "retire" /\ b.epoch \notin g.retained          -> "wrong_epoch"
      [] OTHER                                                   -> "none"

Changed(b, g) ==
    GrantRec(g.epoch, g.gen + 1,
             IF b.code \in {"grant", "rotate_grant", "replace"} THEN b.device ELSE g.device,
             IF b.code = "grant" THEN FALSE ELSE g.revoked \/ b.code = "revoke",
             IF b.code = "retire" THEN g.retained \ {b.epoch} ELSE g.retained,
             g.setid)

(* Send the custodians their orders: the release or the erasure signed.    *)
Order(i, o, stage, cs) ==
    /\ ops' = [ops EXCEPT ![i] = [o EXCEPT !.stage = stage, !.asked = @ \cup cs]]
    /\ orders' = orders \cup {[corr |-> i, to |-> c, kind |-> stage, replay |-> o.body.replay]
                              : c \in cs}
    /\ UNCHANGED wire

(* erase_next: every epoch's set from 1 through the one after the last,    *)
(* then all three custodians.                                              *)
EraseNext(i, o) ==
    IF o.cursor <= o.epoch + 1
      THEN Ask(i, o, "erase_get_set", Get(SetKey(o.cursor)))
      ELSE Order(i, [o EXCEPT !.asked = {}, !.answered = {}], "erase_custodians", Custodians)

StartErase(i, o) ==
    LET g == o.grant
        e == [o EXCEPT !.epoch = g.epoch, !.out = IF g.kind = "erasure" THEN g ELSE Erasure(g)]
    IN CASE o.body.pins # 0              -> Finish(i, o, "epoch_pinned")
         [] o.body.pins = 0 /\ o.body.epoch # g.epoch -> Finish(i, o, "wrong_epoch")
         [] o.body.pins = 0 /\ o.body.epoch = g.epoch /\ g.kind = "erasure" ->
               EraseNext(i, [e EXCEPT !.cursor = 1])
         [] OTHER -> Ask(i, e, "cas_grant", CompareAndSwap(GrantKey, g, e.out))

(* after_grant.                                                            *)
AfterGrant(i, o) ==
    LET b == o.body
        g == o.grant
    IN CASE Proven(b) ->
               IF Admits(g, b.epoch) THEN Ask(i, o, "get_device", Get(DeviceKey(b.device)))
                                     ELSE Finish(i, o, "wrong_epoch")
         [] b.code = "erase" -> StartErase(i, o)
         [] b.code = "record_set" ->
               IF Admits(g, b.epoch) THEN Ask(i, o, "get_set", Get(SetKey(b.epoch)))
                                     ELSE Finish(i, o, "wrong_epoch")
         [] b.code = "rotate_key" ->
               IF Cardinality(g.retained) >= MaxRetained
                 THEN Finish(i, o, "retained_full")
                 ELSE Ask(i, o, "get_current_set", Get(SetKey(g.epoch)))
         [] b.code = "authorise" ->
               LET t == Ticket(i, b.epoch, b.device, FALSE) IN
               IF Admits(g, b.epoch)
                 THEN Ask(i, [o EXCEPT !.out = t], "put_ticket", PutIfAbsent(TicketKey(i), t))
                 ELSE Finish(i, o, "wrong_epoch")
         [] OTHER ->
               LET new == Changed(b, g) IN
               IF ChangeRefusal(b, g) = "none"
                 THEN Ask(i, [o EXCEPT !.out = new], "cas_grant",
                          CompareAndSwap(GrantKey, g, new))
                 ELSE Finish(i, o, ChangeRefusal(b, g))

(* Mutant: an erasure is taken for a grant.                                *)
MutGetGrant(m) ==
    LET i == m.corr
        o == [ops[i] EXCEPT !.grant = m.val]
    IN
    /\ At(m, "get_grant") /\ Taken(m)
    /\ IF m.status # "ok" THEN Finish(i, ops[i], ReadRefusal(m.status))
                          ELSE AfterGrant(i, o)
    /\ UNCHANGED replies

(* An erasure stands where the grant stood: every operation but the        *)
(* erasure's own retry stops at it.                                        *)
GetGrant(m) ==
    LET i == m.corr
        o == [ops[i] EXCEPT !.grant = m.val]
    IN
    /\ At(m, "get_grant") /\ Taken(m)
    /\ CASE m.status # "ok" -> Finish(i, ops[i], ReadRefusal(m.status))
         [] m.status = "ok" /\ m.val.kind = "erasure" /\ o.body.code # "erase" ->
               Finish(i, o, "erased")
         [] OTHER -> AfterGrant(i, o)
    /\ UNCHANGED replies

(* Mutant: a rotation does not wait for the last one's recovery set.       *)
MutGetCurrentSet(m) ==
    LET i == m.corr
        o == ops[i]
        g == o.grant
        e == g.epoch + 1
    IN
    /\ At(m, "get_current_set") /\ Taken(m)
    /\ IF m.status # "ok" THEN Finish(i, o, "rotation_in_progress")
       ELSE LET c == SetRec("creation", e, i)
                n == GrantRec(e, g.gen + 1, g.device, g.revoked,
                              g.retained \cup {g.epoch}, i)
            IN Ask(i, [o EXCEPT !.out = c, !.aux = n, !.epoch = e], "put_set",
                   PutIfAbsent(SetKey(e), c))
    /\ UNCHANGED replies

(* A rotation waits for the last one's recovery set; then the next epoch's *)
(* creation is recorded before the grant moves to it.                      *)
GetCurrentSet(m) ==
    LET i == m.corr
        o == ops[i]
        g == o.grant
        e == g.epoch + 1
    IN
    /\ At(m, "get_current_set") /\ Taken(m)
    /\ IF m.status = "not_found" \/ (m.status = "ok" /\ m.val.kind # "set")
         THEN Finish(i, o, "rotation_in_progress")
       ELSE IF m.status # "ok" THEN Finish(i, o, ReadRefusal(m.status))
       ELSE LET c == SetRec("creation", e, i)
                n == GrantRec(e, g.gen + 1, g.device, g.revoked,
                              g.retained \cup {g.epoch}, i)
            IN Ask(i, [o EXCEPT !.out = c, !.aux = n, !.epoch = e], "put_set",
                   PutIfAbsent(SetKey(e), c))
    /\ UNCHANGED replies

(* Erasure's sweep: a set that is there is deleted, one that is not is     *)
(* passed over.                                                            *)
EraseGetSet(m) ==
    LET i == m.corr
        o == ops[i]
    IN
    /\ At(m, "erase_get_set") /\ Taken(m)
    /\ CASE m.status = "not_found" -> EraseNext(i, [o EXCEPT !.cursor = @ + 1])
         [] m.status = "ok" -> Ask(i, [o EXCEPT !.set = m.val], "erase_delete_set",
                                   Delete(SetKey(o.cursor), m.val))
         [] OTHER -> Finish(i, o, ReadRefusal(m.status))
    /\ UNCHANGED replies

EraseDeleteSet(m) ==
    LET i == m.corr
        o == ops[i]
    IN
    /\ At(m, "erase_delete_set") /\ Taken(m)
    /\ IF m.status \in {"ok", "not_found"}
         THEN EraseNext(i, [o EXCEPT !.cursor = @ + 1])
         ELSE Finish(i, o, WriteRefusal(m.status))
    /\ UNCHANGED replies

GetDevice(m) ==
    LET i == m.corr
        o == [ops[i] EXCEPT !.active = m.val.active]
        b == ops[i].body
    IN
    /\ At(m, "get_device") /\ Taken(m)
    /\ CASE m.status = "not_found" -> Finish(i, ops[i], "device_unknown")
         [] m.status # "ok" /\ m.status # "not_found" ->
               Finish(i, ops[i], ReadRefusal(m.status))
         [] m.status = "ok" /\ b.code = "recover" ->
               Ask(i, o, "get_ticket", Get(TicketKey(b.ticket)))
         [] m.status = "ok" /\ b.code = "renew" ->
               Ask(i, o, "get_chain", Get(ChainKey(o.prev.att)))
         [] OTHER -> Ask(i, o, "get_set", Get(SetKey(b.epoch)))
    /\ UNCHANGED replies

GetTicket(m) ==
    LET i == m.corr
        o == ops[i]
    IN
    /\ At(m, "get_ticket") /\ Taken(m)
    /\ CASE m.status = "not_found" -> Finish(i, o, "no_recovery_ticket")
         [] m.status = "ok" -> Ask(i, [o EXCEPT !.ticket = m.val], "get_set",
                                   Get(SetKey(o.body.epoch)))
         [] OTHER -> Finish(i, o, ReadRefusal(m.status))
    /\ UNCHANGED replies

(* Mutant: a revoked grant still releases to the device it names.          *)
MutReleaseRefusal(o) ==
    LET b == o.body
        t == o.ticket
    IN CASE o.set.kind # "set" -> "set_incomplete"
         [] ~o.active -> "device_unknown"
         [] b.code = "attach" /\ o.grant.device # b.device -> "device_not_granted"
         [] b.code = "recover" /\ (t.device # b.device \/ t.consumed) -> "no_recovery_ticket"
         [] b.code = "recover" /\ t.epoch # b.epoch -> "wrong_epoch"
         [] ~Admits(o.grant, b.epoch) -> "wrong_epoch"
         [] ~b.proof  -> "bad_proof"
         [] OTHER -> "none"

(* decide_release.                                                         *)
ReleaseRefusal(o) ==
    LET b == o.body
        t == o.ticket
    IN CASE o.set.kind # "set" -> "set_incomplete"
         [] ~o.active -> "device_unknown"
         [] b.code = "attach" /\ o.grant.revoked -> "grant_revoked"
         [] b.code = "attach" /\ o.grant.device # b.device -> "device_not_granted"
         [] b.code = "recover" /\ (t.device # b.device \/ t.consumed) -> "no_recovery_ticket"
         [] b.code = "recover" /\ t.epoch # b.epoch -> "wrong_epoch"
         [] ~Admits(o.grant, b.epoch) -> "wrong_epoch"
         [] ~b.proof  -> "bad_proof"
         [] OTHER -> "none"

(* The last check of a release or a renewal, once everything else holds.   *)
Claim(i, o) == Ask(i, o, "claim_replay",
                   PutIfAbsent(ReplayKey(o.body.replay), [kind |-> "claim"]))

Decide(i, o) == IF ReleaseRefusal(o) = "none" THEN Claim(i, o)
                                              ELSE Finish(i, o, ReleaseRefusal(o))

(* A creation's three custody envelopes are back: record the set.          *)
RecordSet(i, o) ==
    LET new == SetRec("set", o.set.epoch, o.set.setid) IN
    IF o.set.kind # "creation" \/ ~o.body.proof
      THEN Finish(i, o, "malformed")
      ELSE Ask(i, [o EXCEPT !.out = new], "cas_set",
               CompareAndSwap(SetKey(o.body.epoch), o.set, new))

GetSet(m) ==
    LET i == m.corr
        o == [ops[i] EXCEPT !.set = m.val]
        recording == o.body.code = "record_set"
    IN
    /\ At(m, "get_set") /\ Taken(m)
    /\ CASE m.status = "not_found" ->
               Finish(i, ops[i], IF recording THEN "unknown_resource" ELSE "set_incomplete")
         [] m.status # "ok" /\ m.status # "not_found" ->
               Finish(i, ops[i], ReadRefusal(m.status))
         [] m.status = "ok" /\ recording -> RecordSet(i, o)
         [] OTHER -> Decide(i, o)
    /\ UNCHANGED replies

(* decide_renewal: the record presented must be the chain's head.          *)
RenewalRefusal(o) ==
    LET b == o.body
        p == o.prev
        g == o.grant
    IN CASE p.kind = "recovery" -> "unknown_attachment"
         [] g.revoked -> "grant_revoked"
         [] ~o.active -> "device_unknown"
         [] g.device # b.device \/ p.device # b.device -> "device_not_granted"
         [] b.epoch # p.epoch \/ ~Admits(g, b.epoch) -> "wrong_epoch"
         [] ~b.proof -> "bad_proof"
         [] o.chain = Nothing /\ p.kind # "release" -> "conflict"
         [] o.chain # Nothing /\ o.chain # p -> "conflict"
         [] OTHER -> "none"

GetChain(m) ==
    LET i == m.corr
        o == [ops[i] EXCEPT !.chain = m.val]
    IN
    /\ At(m, "get_chain") /\ Taken(m)
    /\ CASE m.status \notin {"ok", "not_found"} -> Finish(i, o, ReadRefusal(m.status))
         [] m.status \in {"ok", "not_found"} /\ RenewalRefusal(o) # "none" ->
               Finish(i, o, RenewalRefusal(o))
         [] OTHER -> Claim(i, [o EXCEPT !.out = Link("renewal", i, o.body, o.prev.att)])
    /\ UNCHANGED replies

GetOldSet(m) ==
    LET i == m.corr
        o == ops[i]
    IN
    /\ At(m, "get_old_set") /\ Taken(m)
    /\ CASE m.status = "not_found" -> Allow(i, o)
         [] m.status = "ok" -> Ask(i, o, "delete_set", Delete(SetKey(o.epoch), m.val))
         [] OTHER -> Finish(i, o, ReadRefusal(m.status))
    /\ UNCHANGED replies

Released(i, o) == Link(IF o.body.code = "recover" THEN "recovery" ELSE "release",
                       i, o.body, o.body.replay)

(* order: two custodians are asked.                                        *)
OrderRelease(i, o) == Order(i, [o EXCEPT !.out = Released(i, o)], "custodians", {0, 1})

(* advance_chain: create-if-absent first, compare-and-swap on the head     *)
(* read after.                                                             *)
AdvanceChain(i, o) ==
    Ask(i, o, "put_chain",
        IF o.chain = Nothing THEN PutIfAbsent(ChainKey(o.prev.att), o.out)
                             ELSE CompareAndSwap(ChainKey(o.prev.att), o.chain, o.out))

(* consume_ticket, conditional on the revision read.                       *)
ConsumeTicket(i, o) ==
    Ask(i, o, "consume_ticket",
        CompareAndSwap(TicketKey(o.body.ticket), o.ticket, [o.ticket EXCEPT !.consumed = TRUE]))

ClaimReplay(m) ==
    LET i == m.corr
        o == ops[i]
        c == ReplayClaimResult(m.status)
    IN
    /\ At(m, "claim_replay") /\ Taken(m)
    /\ CASE c = "replayed"    -> Finish(i, o, "replayed")
         [] c = "unavailable" -> Finish(i, o, "ledger_unavailable")
         [] c = "fresh" /\ o.body.code = "recover" -> ConsumeTicket(i, o)
         [] c = "fresh" /\ o.body.code = "renew"   -> AdvanceChain(i, o)
         [] OTHER             -> OrderRelease(i, o)
    /\ UNCHANGED replies

TicketConsumed(m) ==
    LET i == m.corr
        o == ops[i]
    IN
    /\ At(m, "consume_ticket") /\ Taken(m)
    /\ IF m.status = "ok" THEN OrderRelease(i, o) ELSE Finish(i, o, WriteRefusal(m.status))
    /\ UNCHANGED replies

(* The grant claimed the resource: the creation is recorded next.          *)
PutGrant(m) ==
    LET i == m.corr
        o == ops[i]
    IN
    /\ At(m, "put_grant") /\ Taken(m)
    /\ IF m.status = "ok"
         THEN Ask(i, o, "put_set", PutIfAbsent(SetKey(o.epoch), o.out))
         ELSE Finish(i, o, WriteRefusal(m.status))
    /\ UNCHANGED replies

(* A rotation's creation is recorded: the grant moves to the new epoch.    *)
PutSet(m) ==
    LET i == m.corr
        o == ops[i]
    IN
    /\ At(m, "put_set") /\ Taken(m)
    /\ CASE m.status # "ok" -> Finish(i, o, WriteRefusal(m.status))
         [] m.status = "ok" /\ o.body.code = "rotate_key" ->
               Ask(i, o, "cas_grant", CompareAndSwap(GrantKey, o.grant, o.aux))
         [] OTHER -> Allow(i, o)
    /\ UNCHANGED replies

CasGrant(m) ==
    LET i == m.corr
        o == ops[i]
    IN
    /\ At(m, "cas_grant") /\ Taken(m)
    /\ CASE m.status # "ok" -> Finish(i, o, WriteRefusal(m.status))
         [] m.status = "ok" /\ o.body.code = "erase" ->
               EraseNext(i, [o EXCEPT !.cursor = 1])
         [] m.status = "ok" /\ o.body.code = "retire" ->
               Ask(i, [o EXCEPT !.epoch = o.body.epoch], "get_old_set",
                   Get(SetKey(o.body.epoch)))
         [] OTHER -> Allow(i, o)
    /\ UNCHANGED replies

(* The last write of a record set, a ticket, a retirement or a renewal.    *)
LastWrite(m) ==
    LET i == m.corr
        o == ops[i]
    IN
    /\ \E stage \in {"cas_set", "put_ticket", "delete_set", "put_chain"} : At(m, stage)
    /\ Taken(m)
    /\ IF m.status = "ok" THEN Allow(i, o) ELSE Finish(i, o, WriteRefusal(m.status))
    /\ UNCHANGED replies

WriteAudit(m) ==
    /\ At(m, "write_audit") /\ Taken(m)
    /\ Reply(m.corr, m.status = "ok")
    /\ UNCHANGED <<wire, orders>>

OnLedger(m) ==
    \/ IgnoreAnswer(m) \/ GetGrant(m) \/ GetCurrentSet(m) \/ EraseGetSet(m)
    \/ EraseDeleteSet(m) \/ GetDevice(m) \/ GetTicket(m) \/ GetSet(m) \/ GetChain(m)
    \/ GetOldSet(m) \/ ClaimReplay(m) \/ TicketConsumed(m) \/ PutGrant(m) \/ PutSet(m)
    \/ CasGrant(m) \/ LastWrite(m) \/ WriteAudit(m)

(***************************************************************************)
(* Time.                                                                   *)
(***************************************************************************)
(* Mutant: an operation that waits for the custodians waits for ever.      *)
MutTick(i) ==
    /\ timeouts < scn.timeouts /\ i \in Live /\ ops[i].stage \notin CustodianStages
    /\ timeouts' = timeouts + 1
    /\ IF ops[i].stage = "write_audit"
         THEN Reply(i, FALSE) /\ UNCHANGED <<wire, orders>>
         ELSE Finish(i, ops[i], "ledger_unavailable") /\ UNCHANGED replies
    /\ UNCHANGED <<scn, led, next, challenges, issued, mail, results, seen, erased,
                   faults, restarts>>

(* tick: a stage that was not answered in time.  A decision whose audit    *)
(* write did not answer is answered unaudited.                             *)
Tick(i) ==
    /\ timeouts < scn.timeouts /\ i \in Live
    /\ timeouts' = timeouts + 1
    /\ IF ops[i].stage = "write_audit"
         THEN Reply(i, FALSE) /\ UNCHANGED <<wire, orders>>
         ELSE /\ Finish(i, ops[i], IF ops[i].stage \in CustodianStages
                                     THEN "custodian_refused" ELSE "ledger_unavailable")
              /\ UNCHANGED replies
    /\ UNCHANGED <<scn, led, next, challenges, issued, mail, results, seen, erased,
                   faults, restarts>>

(***************************************************************************)
(* The custodians (storage_custodian).                                     *)
(***************************************************************************)
(* handle_order, handle_erase: one release per authorisation, none of an   *)
(* erased resource; an erasure is remembered and confirmed.  A vault that  *)
(* fails refuses.                                                          *)
HandleOrder(q) ==
    LET c == q.to IN
    /\ q \in orders
    /\ orders' = orders \ {q}
    /\ \/ /\ q.kind = "erase_custodians"
          /\ erased' = erased \cup {c}
          /\ results' = results \cup {[corr |-> q.corr, from |-> c, ok |-> TRUE]}
          /\ UNCHANGED <<seen, faults>>
       \/ /\ q.kind = "custodians"
          /\ q.replay \notin seen[c] /\ c \notin erased
          /\ seen' = [seen EXCEPT ![c] = @ \cup {q.replay}]
          /\ results' = results \cup {[corr |-> q.corr, from |-> c, ok |-> TRUE]}
          /\ UNCHANGED <<erased, faults>>
       \/ /\ \/ /\ q.kind = "custodians" /\ (q.replay \in seen[c] \/ c \in erased)
                /\ UNCHANGED faults
             \/ faults < scn.faults /\ faults' = faults + 1
          /\ results' = results \cup {[corr |-> q.corr, from |-> c, ok |-> FALSE]}
          /\ UNCHANGED <<seen, erased>>
    /\ UNCHANGED <<scn, led, ops, next, challenges, issued, lane, replies, timeouts, restarts>>

(* One custodian's answer is taken, with the envelope if there is one.     *)
Heard(o, r) == [o EXCEPT !.answered = @ \cup {r.from},
                         !.envs = IF r.ok THEN @ \cup {r.from} ELSE @]

(* custodian_result: two envelopes release; the third custodian stands in  *)
(* for one that refuses.                                                   *)
CustodianResult(r) ==
    LET i == r.corr
        o == Heard(ops[i], r)
        spare == Custodians \ o.asked
    IN CASE r.ok /\ Cardinality(o.envs) < 2 ->
               ops' = [ops EXCEPT ![i] = o] /\ UNCHANGED <<wire, orders>>
         [] r.ok /\ Cardinality(o.envs) >= 2 -> Allow(i, o)
         [] ~r.ok /\ spare # {} -> Order(i, o, "custodians", {Min(spare)})
         [] OTHER -> Finish(i, o, "custodian_refused")

(* erase_result: all three must confirm.                                   *)
EraseResult(r) ==
    LET i == r.corr
        o == [ops[i] EXCEPT !.answered = @ \cup {r.from}]
    IN CASE ~r.ok -> Finish(i, o, "custodian_refused")
         [] r.ok /\ o.answered = Custodians -> Allow(i, o)
         [] OTHER -> ops' = [ops EXCEPT ![i] = o] /\ UNCHANGED <<wire, orders>>

OnCustodian(r) ==
    /\ r \in results
    /\ results' = results \ {r}
    /\ LET o == ops[r.corr] IN
       \/ /\ o.stage \in CustodianStages /\ r.from \in o.asked \ o.answered
          /\ IF o.stage = "custodians" THEN CustodianResult(r) ELSE EraseResult(r)
       \/ /\ o.stage \notin CustodianStages
          /\ UNCHANGED <<ops, wire, orders>>
    /\ UNCHANGED <<scn, led, next, challenges, issued, mail, seen, erased, replies, count>>

(***************************************************************************)
(* The ledger, the directory, and restarts.                                *)
(***************************************************************************)
Settle(w, out) ==
    /\ led' = out.led
    /\ wire' = wire \ {w}
    /\ mail' = mail \cup {[corr |-> w.corr, status |-> out.status, val |-> out.val]}
    /\ UNCHANGED <<scn, ops, next, challenges, issued, cust, replies, timeouts, restarts>>

LedgerDecides(w) ==
    /\ w \in wire /\ \E out \in Decided(led, w.q) : Settle(w, out)
    /\ UNCHANGED faults

(* A chain head expires with the attachment it renews, and is then read    *)
(* as absent although its key is still taken.                              *)
Aged(w) == IF w.q.op = "get" /\ w.q.key[1] = "chain"
             THEN {Outcome("not_found", Nothing, led)} ELSE {}

LedgerFails(w) ==
    /\ w \in wire /\ faults < scn.faults
    /\ \E out \in Failed(led, w.q) \cup Aged(w) : Settle(w, out)
    /\ faults' = faults + 1

(* The directory stops vouching for a device.                              *)
DirectoryRevoke(d) ==
    /\ d \in scn.drops /\ led[DeviceKey(d)] = [kind |-> "device", active |-> TRUE]
    /\ led' = [led EXCEPT ![DeviceKey(d)] = [kind |-> "device", active |-> FALSE]]
    /\ UNCHANGED <<scn, ops, next, challenges, issued, lane, cust, replies, count>>

(* The graph restarts, custodians included.  What is in memory is gone;    *)
(* anti-replay claims are not durable and may be gone.                     *)
Restart ==
    /\ restarts < scn.restarts
    /\ restarts' = restarts + 1
    /\ ops' = [i \in Ids |-> Free]
    /\ challenges' = {} /\ wire' = {} /\ mail' = {}
    /\ orders' = {} /\ results' = {}
    /\ seen' = [c \in Custodians |-> {}] /\ erased' = {}
    /\ \/ UNCHANGED led
       \/ led' = [k \in Keys |-> IF k[1] = "replay" THEN Nothing ELSE led[k]]
    /\ UNCHANGED <<scn, next, issued, replies, faults, timeouts>>
-----------------------------------------------------------------------------
Provisioned(d) ==
    [k \in Keys |->
        CASE k = GrantKey  -> GrantRec(2, 3, d, FALSE, {1}, 0)
          [] k \in {SetKey(1), SetKey(2)} -> SetRec("set", k[2], 0)
          [] k[1] = "device" -> [kind |-> "device", active |-> TRUE]
          [] OTHER -> Nothing]

Init ==
    /\ scn \in Scenarios
    /\ led = IF scn.start = "provisioned" THEN Provisioned(scn.owner)
             ELSE [k \in Keys |-> IF k[1] = "device"
                                    THEN [kind |-> "device", active |-> TRUE] ELSE Nothing]
    /\ ops = [i \in Ids |-> Free] /\ next = 1
    /\ challenges = {} /\ issued = 0
    /\ wire = {} /\ mail = {} /\ orders = {} /\ results = {}
    /\ seen = [c \in Custodians |-> {}] /\ erased = {}
    /\ replies = {}
    /\ faults = 0 /\ timeouts = 0 /\ restarts = 0

Next ==
    \/ \E d \in Devices : IssueChallenge(d) \/ DirectoryRevoke(d)
    \/ \E c \in challenges : ExpireChallenge(c)
    \/ \E b \in scn.bodies : SubmitAny(b) \/ RefuseNow(b)
    \/ \E m \in mail : OnLedger(m)
    \/ \E i \in Ids : Tick(i)
    \/ \E q \in orders : HandleOrder(q)
    \/ \E r \in results : OnCustodian(r)
    \/ \E w \in wire : LedgerDecides(w) \/ LedgerFails(w)
    \/ Restart

Spec == Init /\ [][Next]_vars

(* Only the module's own clock is fair: the ledger and the custodians may  *)
(* stay silent for ever.                                                   *)
FairSpec == Spec /\ WF_vars(\E i \in Ids : Tick(i))
-----------------------------------------------------------------------------
(***************************************************************************)
(* Properties.                                                             *)
(***************************************************************************)
(* Releases and renewals answered.                                         *)
Releases == {m \in replies : Proven(m.body) /\ m.refusal = "none"}

(* Erasures answered.                                                      *)
Erasures == {m \in replies : m.body.code = "erase" /\ m.refusal = "none"}

(* Nothing is used twice, whatever is presented again, however the         *)
(* operations overlap and however late their answers come: a challenge, an *)
(* anti-replay id and a recovery ticket release once (spend_challenge,     *)
(* CLAIM_REPLAY, CONSUME_TICKET), the challenge and the ticket across a    *)
(* restart too, which forgets the claims; no record is renewed twice, so   *)
(* an attachment's renewals form one chain (advance_chain); and a request  *)
(* is answered once.                                                       *)
SingleUse ==
    /\ \A m, n \in Releases : m.id # n.id =>
          /\ m.body.nonce # n.body.nonce
          /\ restarts = 0 => m.body.replay # n.body.replay
          /\ m.body.code = "recover" /\ n.body.code = "recover" =>
                m.body.ticket # n.body.ticket
          /\ m.body.code = "renew" /\ n.body.code = "renew" => m.prev # n.prev
    /\ \A m, n \in replies : m.id = n.id => m = n

(* A release rests on a grant that stood after the request came, and that  *)
(* grant admits it: a retired epoch or an erasure answered before a        *)
(* request is never missed by it, nor, for an attachment or a renewal, a   *)
(* revocation or a replaced device (decide_release, decide_renewal).  A    *)
(* recovery rests on a ticket of its own, spent, and not on the grant's    *)
(* device or standing: decide_release looks at `revoked' for an attachment *)
(* only, so a revoked grant still releases to whoever holds a ticket.      *)
ReleaseIsAuthorised ==
    \A m \in Releases :
        /\ m.born.kind # "erasure"
        /\ m.born.kind = "grant" => m.grant.gen >= m.born.gen
        /\ Admits(m.grant, m.body.epoch)
        /\ m.body.code # "recover" => ~m.grant.revoked /\ m.grant.device = m.body.device
        /\ m.body.code = "recover" =>
              led[TicketKey(m.body.ticket)] = Ticket(m.body.ticket, m.body.epoch, m.body.device, TRUE)
        /\ m.body.code # "renew" => Cardinality(m.envs) = 2

(* "The grant is revoked: nothing further is released under it"            *)
(* (flag::REVOKED), whoever asks.  The code does not have this: a recovery *)
(* is authorised and released under a revoked grant (ReleaseRefusal).      *)
RevokedReleasesNothing == \A m \in Releases : ~m.grant.revoked

(* "Envelopes are released only after the audit entry is written" (the     *)
(* module's ordering): every release and renewal answered is in the trail, *)
(* as allowed.                                                             *)
ReleaseIsAudited ==
    \A m \in Releases :
        led[AuditKey(m.id)] = [kind |-> "audit", code |-> m.body.code, refusal |-> "none"]

(* Custody follows the grant.  Every epoch it retains can be recovered     *)
(* (GET_CURRENT_SET before a rotation, CAS_GRANT before DELETE_SET in a    *)
(* retirement, the erasure record before the sweep).  It names the set its *)
(* current epoch's creation was signed for: a creation that another        *)
(* rotation left under the next epoch is never adopted (PUT_SET is         *)
(* create-if-absent and comes before CAS_GRANT).  And once an erasure is   *)
(* answered the set of the last key a rotation made is gone, and does not  *)
(* come back, whatever was under way (erase_next).                         *)
CustodyFollowsTheGrant ==
    LET g == led[GrantKey] IN
    /\ g.kind = "grant" =>
          /\ \A e \in g.retained : e < g.epoch /\ led[SetKey(e)].kind = "set"
          /\ Cardinality(g.retained) <= MaxRetained
          /\ led[SetKey(g.epoch)] = Nothing \/ led[SetKey(g.epoch)].setid = g.setid
    /\ Erasures # {} =>
          /\ g.kind = "erasure"
          /\ g.epoch > 1 => \/ led[SetKey(g.epoch)] = Nothing
                            \/ led[SetKey(g.epoch)].setid # g.setid

(* The grant moves by one generation at a time, its epoch never goes back, *)
(* and an erasure stands for ever.                                         *)
GrantMovesForward ==
    [][LET g == led[GrantKey]
           h == led'[GrantKey]
       IN g # h => \/ g = Nothing
                   \/ /\ g.kind = "grant" /\ h # Nothing
                      /\ h.gen = g.gen + 1 /\ h.epoch \in {g.epoch, g.epoch + 1}]_vars

(* Every request is answered, with the ledger and the custodians silent    *)
(* too: no stage is left without its deadline (tick). An act is expired at *)
(* most twice, for its work and for its audit entry, so a scenario that    *)
(* bounds the expiries below that asks nothing here.                       *)
EveryRequestAnswered ==
    \A i \in Ids : (i < next /\ 2 * scn.reqs <= scn.timeouts)
                       ~> (restarts > 0 \/ \E m \in replies : m.id = i)

(* "Every epoch up to it is gone - its recovery set deleted" (erasure): no *)
(* set is left once an erasure is answered.  A creation whose write comes  *)
(* after the sweep brings one back, if a set was being recorded for it.    *)
ErasedIsGone ==
    Erasures # {} => \A e \in 1 .. LastEpoch : led[SetKey(e)].kind # "set"

(* "Audit the decision, then answer once the entry is written" (finish): a *)
(* reply that says it is audited is in the trail.                          *)
AuditedIsWritten ==
    \A m \in replies : m.audited => led[AuditKey(m.id)] # Nothing
=============================================================================
