------------------------------ MODULE AuthCode ------------------------------
(***************************************************************************)
(* The OIDC authorization-code flow (authcode/mod.rs).  /authorize claims  *)
(* the presenter's proof in the ledger, reads the client and files a       *)
(* single-use code; the exchange reads the code and the device, consumes   *)
(* the code, and has the mint sign an access token and then an ID token.   *)
(* Up to MaxInFlight requests wait on the ledger or the mint at once.      *)
(*                                                                         *)
(* The module writes on two exchange ports, the answers to its callers and *)
(* the calls to the mint (Ports).                                          *)
(*                                                                         *)
(* A device stands for what its certificate establishes (sub, device_id,   *)
(* jkt).  What a request's framing, key, clock and signatures come to is   *)
(* its field wrong.  Proofs do not go stale within a behaviour.            *)
(***************************************************************************)
EXTENDS LedgerClient, StateWire, Ports, FiniteSets

CONSTANTS
    Devices, Clients,
    Scenarios,      \* what the callers and the environment may do, see below
    MaxReqs,        \* bound: requests presented in any scenario
    MaxInFlight,    \* pending slots
    WindowSize      \* proofs the in-process replay window remembers

(***************************************************************************)
(* A scenario: the requests callers present, each again and again if they  *)
(* like, and how many; the codes filed before the start, as [code, rec];   *)
(* the devices the directory may revoke or remove; whether codes outlive   *)
(* their time; and bounds on what fails, on mint outages and on restarts.  *)
(***************************************************************************)
Bodies == UNION {s.bodies : s \in Scenarios}
Seeds  == UNION {s.codes : s \in Scenarios}

ASSUME AcBounds ==
    /\ MaxReqs \in Nat /\ MaxInFlight \in Nat \ {0}
    /\ WindowSize \in Nat /\ EdgeCapacity \in Nat \ {0}
    /\ \A s \in Scenarios : s.reqs \in 0 .. MaxReqs
    /\ \A c \in Seeds : c.code \notin 1 .. MaxReqs

(* What is wrong with a request is a refusal; the codes filed are codes.   *)
ASSUME AcScenarios ==
    /\ \A b \in Bodies : b.wrong # "ok" /\ (b.op = "authorize" => b.client \in Clients)
    /\ \A c \in Seeds : c.rec.kind = "code"

VARIABLES
    scn,        \* the scenario
    led,        \* the ledger's records
    pend,       \* pending: the slots
    window,     \* replay: the proofs this process remembers
    next,       \* how many requests were taken, plus one
    wire, mail, \* requests the ledger has not decided; answers not taken
    outq,       \* response_out: answers placed or held
    callq,      \* mint_out: calls placed or held
    minted,     \* mint_in: what the mint has written
    mintDown,   \* mint_down
    up,         \* whether the mint's link is up
    answers,    \* the answers callers have read
    faults, outages, restarts

ledger == <<led, wire, mail>>
mint   == <<callq, minted, up, outages>>
vars   == <<scn, ledger, pend, window, next, outq, mint, mintDown, answers, faults, restarts>>

Ids   == 1 .. MaxReqs
Slots == 1 .. MaxInFlight
Codes == Ids \cup {c.code : c \in Seeds}

ReplayKey(p) == <<"replay", p>>
ClientKey(c) == <<"client", c>>
CodeKey(c)   == <<"code", c>>
DeviceKey(d) == <<"device", d>>

Proofs == {b.proof : b \in {a \in Bodies : a.op = "authorize"}}
Keys   == {ReplayKey(p) : p \in Proofs} \cup {ClientKey(c) : c \in Clients}
          \cup {CodeKey(c) : c \in Codes} \cup {DeviceKey(d) : d \in Devices}

Claim         == [kind |-> "claim"]
ClientRec(c)  == [kind |-> "client", ruri |-> <<"home", c>>, scope |-> <<"scope", c>>]
DeviceRec(on) == [kind |-> "device", active |-> on]
Consumed(e)   == [kind |-> "consumed", by |-> e]   \* by: a ghost, the slot it was for

(* S256: what a verifier's challenge is; no other verifier has it.         *)
S256(v) == <<"s256", v>>

(* build_code_record: what /authorize established, with the scope the      *)
(* client is registered for.                                               *)
CodeRec(b, client) ==
    [kind |-> "code", dev |-> b.dev, client |-> b.client, ruri |-> b.ruri,
     cc |-> b.challenge, nonce |-> b.nonce, scope |-> client.scope]

(* clear and answers_clear.                                                *)
AnswersClear == Clears(outq)
Clear        == AnswersClear /\ Clears(callq)

(***************************************************************************)
(* Slots and verdicts.                                                     *)
(***************************************************************************)
Free == [flow |-> "free"]
MintFlows == {"xchg_mint_at", "xchg_mint_id"}

Live    == {k \in Slots : pend[k].flow # "free"}
Waiting == {k \in Live : pend[k].flow \in MintFlows}

NewEntry(i, b, c) ==
    [flow |-> "new", id |-> i, req |-> b, code |-> c, rec |-> Nothing, access |-> Nothing,
     gone |-> {d \in Devices : led[DeviceKey(d)] # DeviceRec(TRUE)}]

Verdict(e, status, code, access, idt) ==
    [id |-> e.id, req |-> e.req, status |-> status, code |-> code, gone |-> e.gone,
     access |-> access, idt |-> idt]
Refusal(e, status) == Verdict(e, status, 0, Nothing, Nothing)

(* refuse_authz, refuse_xchg with the slot given up.                       *)
Refuse(k, e, status) ==
    /\ pend' = [pend EXCEPT ![k] = Free]
    /\ outq' = Placed(outq, Refusal(e, status))

(* One request to the ledger, under a correlation of its own.  A frame     *)
(* that does not leave (or a code that cannot be drawn) refuses.           *)
Ask(k, e, flow, q) ==
    \/ /\ pend' = [pend EXCEPT ![k] = [e EXCEPT !.flow = flow]]
       /\ wire' = wire \cup {[corr |-> <<e.id, flow>>, q |-> q]}
       /\ UNCHANGED <<outq, faults>>
    \/ /\ faults < scn.faults /\ faults' = faults + 1
       /\ Refuse(k, e, "state_unavailable")
       /\ UNCHANGED wire

(***************************************************************************)
(* Requests: take_request.                                                 *)
(***************************************************************************)
RefuseNow(e, status) ==
    /\ outq' = Placed(outq, Refusal(e, status))
    /\ UNCHANGED <<pend, wire, faults>>

FirstFree == CHOOSE k \in Slots \ Live : \A j \in Slots \ Live : k <= j

(* ReplayWindow::offer: a proof seen, or one a full window cannot record.  *)
Offered(p) == p \notin window /\ Cardinality(window) < WindowSize

(* handle_authorize: the window records the proof before the key binding   *)
(* is checked and before a slot is found.                                  *)
HandleAuthorize(e) ==
    LET b == e.req IN
    CASE b.wrong \notin {"none", "not_bound"} ->
            RefuseNow(e, b.wrong) /\ UNCHANGED window
      [] b.wrong \in {"none", "not_bound"} /\ ~Offered(b.proof) ->
            RefuseNow(e, "replay") /\ UNCHANGED window
      [] OTHER ->
            /\ window' = window \cup {b.proof}
            /\ IF b.wrong = "not_bound" THEN RefuseNow(e, "unauthenticated")
               ELSE IF Live = Slots THEN RefuseNow(e, "state_unavailable")
               ELSE Ask(FirstFree, e, "authz_claim", PutIfAbsent(ReplayKey(b.proof), Claim))

(* handle_exchange.                                                        *)
HandleExchange(e) ==
    /\ IF e.req.wrong # "none" THEN RefuseNow(e, e.req.wrong)
       ELSE IF Live = Slots THEN RefuseNow(e, "state_unavailable")
       ELSE Ask(FirstFree, e, "xchg_code", Get(CodeKey(e.code)))
    /\ UNCHANGED window

(* Codes a caller can present: those it was answered, and earlier ones.    *)
Known == {c.code : c \in scn.codes}
         \cup {a.code : a \in {x \in answers : x.req.op = "authorize" /\ x.status = "ok"}}

TakeRequest(b, c) ==
    /\ next <= scn.reqs /\ Clear
    /\ next' = next + 1
    /\ \/ b.op = "authorize" /\ c = 0 /\ HandleAuthorize(NewEntry(next, b, 0))
       \/ b.op = "exchange" /\ c \in Known /\ HandleExchange(NewEntry(next, b, c))
    /\ UNCHANGED <<scn, led, mail, mint, mintDown, answers, restarts>>

(***************************************************************************)
(* Ledger answers: drain_state, one action per flow.                       *)
(***************************************************************************)
At(m, k, flow) ==
    /\ m \in mail /\ Clear /\ k \in Live
    /\ pend[k].flow = flow /\ m.corr = <<pend[k].id, flow>>

Read(m) == mail' = mail \ {m} /\ UNCHANGED <<scn, led, window, next, minted, up, outages,
                                             mintDown, answers, restarts>>

(* No slot waits on it: the answer to a code's filing, or to a request of  *)
(* a process that is gone.                                                 *)
IgnoreReply(m) ==
    /\ m \in mail /\ Clear
    /\ ~\E k \in Live : m.corr = <<pend[k].id, pend[k].flow>>
    /\ Read(m)
    /\ UNCHANGED <<pend, wire, outq, callq, faults>>

(* replay_claim_result.                                                    *)
ClaimRefusal(status) ==
    CASE status = "ok"       -> "none"
      [] status = "conflict" -> "replay"
      [] OTHER               -> "state_unavailable"

AuthzOnClaim(m, k) ==
    LET e == pend[k] IN
    /\ At(m, k, "authz_claim") /\ Read(m)
    /\ IF ClaimRefusal(m.status) # "none"
         THEN Refuse(k, e, ClaimRefusal(m.status)) /\ UNCHANGED <<wire, faults>>
         ELSE Ask(k, e, "authz_client", Get(ClientKey(e.req.client)))
    /\ UNCHANGED callq

(* The code is filed without waiting for the ledger's word, and answered.  *)
FileCode(k, e, client) ==
    \/ /\ pend' = [pend EXCEPT ![k] = Free]
       /\ wire' = wire \cup {[corr |-> <<e.id, "file_code">>,
                              q |-> PutIfAbsent(CodeKey(e.id), CodeRec(e.req, client))]}
       /\ outq' = Placed(outq, Verdict(e, "ok", e.id, Nothing, Nothing))
       /\ UNCHANGED faults
    \/ /\ faults < scn.faults /\ faults' = faults + 1
       /\ Refuse(k, e, "state_unavailable")
       /\ UNCHANGED wire

AuthzOnClient(m, k) ==
    LET e == pend[k] IN
    /\ At(m, k, "authz_client") /\ Read(m)
    /\ CASE m.status # "ok" ->
               Refuse(k, e, "unknown_client") /\ UNCHANGED <<wire, faults>>
         [] m.status = "ok" /\ m.val.ruri # e.req.ruri ->
               Refuse(k, e, "bad_redirect") /\ UNCHANGED <<wire, faults>>
         [] OTHER -> FileCode(k, e, m.val)
    /\ UNCHANGED callq

(* Mutant: only the verifier is checked.                                   *)
MutCodeRefusal(m, b) ==
    CASE m.status # "ok" \/ m.val.kind = "consumed" -> "invalid_grant"
      [] m.val.kind = "code" /\ m.val.cc # S256(b.verifier) -> "pkce_failed"
      [] OTHER -> "none"

(* Why the code that was read is refused, before it is consumed.           *)
CodeRefusal(m, b) ==
    CASE m.status # "ok" \/ m.val.kind = "consumed" -> "invalid_grant"
      [] m.val.kind = "code" /\ (m.val.client # b.client \/ m.val.ruri # b.ruri) -> "mismatch"
      [] m.val.kind = "code" /\ m.val.client = b.client /\ m.val.ruri = b.ruri
         /\ m.val.cc # S256(b.verifier) -> "pkce_failed"
      [] OTHER -> "none"

(* From here on the slot carries the code's own bindings (capture), and    *)
(* the etag they were read with.                                           *)
XchgOnCode(m, k) ==
    LET e == pend[k]
        why == CodeRefusal(m, e.req)
    IN
    /\ At(m, k, "xchg_code") /\ Read(m)
    /\ IF why # "none"
         THEN Refuse(k, e, why) /\ UNCHANGED <<wire, faults>>
         ELSE Ask(k, [e EXCEPT !.rec = m.val], "xchg_device", Get(DeviceKey(m.val.dev)))
    /\ UNCHANGED callq

(* Mutant: a device the ledger no longer lists passes.                     *)
MutDeviceRefusal(m) ==
    CASE m.status \notin {"ok", "not_found"}    -> "state_unavailable"
      [] m.status = "ok" /\ ~m.val.active       -> "invalid_grant"
      [] OTHER                                  -> "none"

DeviceRefusal(m) ==
    CASE m.status = "not_found"                 -> "invalid_grant"
      [] m.status \notin {"ok", "not_found"}    -> "state_unavailable"
      [] m.status = "ok" /\ ~m.val.active       -> "invalid_grant"
      [] OTHER                                  -> "none"

(* Verified, then consumed: the code is swapped for its marker under the   *)
(* etag it was read with.                                                  *)
XchgOnDevice(m, k) ==
    LET e == pend[k]
        why == DeviceRefusal(m)
    IN
    /\ At(m, k, "xchg_device") /\ Read(m)
    /\ IF why # "none"
         THEN Refuse(k, e, why) /\ UNCHANGED <<wire, faults>>
         ELSE Ask(k, e, "xchg_consume", CompareAndSwap(CodeKey(e.code), e.rec, Consumed(e)))
    /\ UNCHANGED callq

(***************************************************************************)
(* The mint.                                                               *)
(***************************************************************************)
(* The two MintSpecs: a token carries what it was asked to carry.          *)
AccessSpec(rec) ==
    [profile |-> "access_token", sub |-> rec.dev, aud |-> "resource_server",
     scope |-> rec.scope, jkt |-> rec.dev, nonce |-> Nothing]
IdSpec(rec) ==
    [profile |-> "id_token", sub |-> rec.dev, aud |-> rec.client,
     scope |-> Nothing, jkt |-> Nothing, nonce |-> rec.nonce]

(* emit_mint: one call, under an exchange id of its own; none to a mint    *)
(* whose link is down.                                                     *)
EmitMint(k, e, flow, spec) ==
    IF mintDown
      THEN Refuse(k, e, "mint_failed") /\ UNCHANGED callq
      ELSE /\ pend' = [pend EXCEPT ![k] = [e EXCEPT !.flow = flow]]
           /\ callq' = Placed(callq, [id |-> <<e.id, flow>>, spec |-> spec])
           /\ UNCHANGED outq

(* Mutant: a code somebody else consumed is taken for one consumed here.   *)
MutConsumeRefused(m) == m.status \notin {"ok", "conflict"}

ConsumeRefused(m) == m.status # "ok"

XchgOnConsume(m, k) ==
    LET e == pend[k] IN
    /\ At(m, k, "xchg_consume") /\ Read(m)
    /\ IF ConsumeRefused(m)
         THEN Refuse(k, e, "invalid_grant") /\ UNCHANGED callq
         ELSE EmitMint(k, e, "xchg_mint_at", AccessSpec(e.rec))
    /\ UNCHANGED <<wire, faults>>

OnLedger(m) ==
    \/ IgnoreReply(m)
    \/ \E k \in Slots : \/ AuthzOnClaim(m, k)  \/ AuthzOnClient(m, k)
                        \/ XchgOnCode(m, k)    \/ XchgOnDevice(m, k)
                        \/ XchgOnConsume(m, k)

(* The refusals of some slots, in slot order.                              *)
MintFailures(some) ==
    [n \in 1 .. Cardinality(some) |->
        Refusal(pend[CHOOSE k \in some : Cardinality({j \in some : j < k}) = n - 1],
                "mint_failed")]

(* Mutant: only the first of the two mint stages is failed.                *)
MutFailOpen ==
    LET room  == EdgeCapacity + 1 - Len(outq)
        at    == {k \in Waiting : pend[k].flow = "xchg_mint_at"}
        first == {k \in at : Cardinality({j \in at : j < k}) < room}
    IN
    /\ pend' = [k \in Slots |-> IF k \in first THEN Free ELSE pend[k]]
    /\ outq' = outq \o MintFailures(first)

(* fail_open_mints: in slot order, as many as there is room to answer.     *)
FailOpen ==
    LET room  == EdgeCapacity + 1 - Len(outq)
        first == {k \in Waiting : Cardinality({j \in Waiting : j < k}) < room}
    IN
    /\ pend' = [k \in Slots |-> IF k \in first THEN Free ELSE pend[k]]
    /\ outq' = outq \o MintFailures(first)

(* module_step, while the link is down.                                    *)
FailOpenMints ==
    /\ mintDown /\ Waiting # {} /\ AnswersClear
    /\ FailOpen
    /\ UNCHANGED <<scn, ledger, window, next, mint, mintDown, answers, faults, restarts>>

(* awaiting.                                                               *)
Awaits(k, r) == k \in Waiting /\ r.kind \in {"token", "failed"}
                /\ <<pend[k].id, pend[k].flow>> = r.id

(* drain_mint reads the head of the mint's answers whatever call is held.  *)
(* A step that begins with the link down fails the open stages first, or   *)
(* is left holding an answer and reads nothing.                            *)
MintRead(kind) ==
    /\ AnswersClear /\ minted # <<>> /\ Head(minted).kind = kind
    /\ mintDown => Waiting = {}
    /\ minted' = Tail(minted)
    /\ UNCHANGED <<scn, ledger, window, next, up, outages, answers, faults, restarts>>

OnLinkDown ==
    /\ MintRead("down") /\ mintDown' = TRUE
    /\ FailOpen
    /\ UNCHANGED callq

OnLinkUp ==
    /\ MintRead("up") /\ mintDown' = FALSE
    /\ UNCHANGED <<pend, outq, callq>>

OnFailed ==
    /\ MintRead("failed")
    /\ \/ \E k \in Slots : Awaits(k, Head(minted)) /\ Refuse(k, pend[k], "mint_failed")
       \/ (~\E k \in Slots : Awaits(k, Head(minted))) /\ UNCHANGED <<pend, outq>>
    /\ UNCHANGED <<callq, mintDown>>

(* The access token is held and the ID token asked for; then both are      *)
(* answered.                                                               *)
OnToken ==
    /\ MintRead("token")
    /\ \/ \E k \in Slots :
            LET e == [pend[k] EXCEPT !.access = Head(minted).token] IN
            /\ Awaits(k, Head(minted)) /\ e.flow = "xchg_mint_at"
            /\ EmitMint(k, e, "xchg_mint_id", IdSpec(e.rec))
       \/ \E k \in Slots :
            LET e == pend[k] IN
            /\ Awaits(k, Head(minted)) /\ e.flow = "xchg_mint_id"
            /\ pend' = [pend EXCEPT ![k] = Free]
            /\ outq' = Placed(outq, Verdict(e, "ok", e.code, e.access, Head(minted).token))
            /\ UNCHANGED callq
       \/ /\ ~\E k \in Slots : Awaits(k, Head(minted))
          /\ UNCHANGED <<pend, outq, callq>>
    /\ UNCHANGED mintDown

(***************************************************************************)
(* The callers, the ledger, the directory, the mint, and restarts.         *)
(***************************************************************************)
ReadAnswer ==
    /\ outq # <<>>
    /\ answers' = answers \cup {Head(outq)}
    /\ outq' = Tail(outq)
    /\ UNCHANGED <<scn, ledger, pend, window, next, mint, mintDown, faults, restarts>>

Settle(w, out) ==
    /\ led' = out.led
    /\ wire' = wire \ {w}
    /\ mail' = mail \cup {[corr |-> w.corr, status |-> out.status, val |-> out.val]}
    /\ UNCHANGED <<scn, pend, window, next, outq, mint, mintDown, answers, restarts>>

LedgerDecides(w) ==
    /\ w \in wire /\ \E out \in Decided(led, w.q) : Settle(w, out)
    /\ UNCHANGED faults

LedgerFails(w) ==
    /\ w \in wire /\ faults < scn.faults
    /\ \E out \in Failed(led, w.q) : Settle(w, out)
    /\ faults' = faults + 1

Elsewhere == UNCHANGED <<scn, wire, mail, pend, window, next, outq, mint, mintDown, answers,
                         faults, restarts>>

(* A code, or its marker, is past its time.                                *)
CodeLapses(c) ==
    /\ scn.lapse /\ led[CodeKey(c)] # Nothing
    /\ led' = [led EXCEPT ![CodeKey(c)] = Nothing]
    /\ Elsewhere

(* The directory revokes a device, or takes it off its books.              *)
DirectoryDrops(d) ==
    /\ d \in scn.drops /\ led[DeviceKey(d)] = DeviceRec(TRUE)
    /\ \E r \in {DeviceRec(FALSE), Nothing} : led' = [led EXCEPT ![DeviceKey(d)] = r]
    /\ Elsewhere

(* The mint answers the call at the head of its edge, once it has room.    *)
MintAnswers ==
    /\ up /\ callq # <<>> /\ Clears(minted)
    /\ callq' = Tail(callq)
    /\ \/ /\ minted' = Append(minted, [kind |-> "token", id |-> Head(callq).id,
                                       token |-> Head(callq).spec])
          /\ UNCHANGED faults
       \/ /\ faults < scn.faults /\ faults' = faults + 1
          /\ minted' = Append(minted, [kind |-> "failed", id |-> Head(callq).id])
    /\ UNCHANGED <<scn, ledger, pend, window, next, outq, mintDown, up, outages, answers, restarts>>

(* Its link fails, with or without the call that was on its edge, and      *)
(* comes back.                                                             *)
MintLink ==
    /\ Clears(minted)
    /\ \/ /\ up /\ outages < scn.outages
          /\ up' = FALSE /\ outages' = outages + 1
          /\ minted' = Append(minted, [kind |-> "down"])
          /\ callq' \in {callq, IF callq = <<>> THEN callq ELSE Tail(callq)}
       \/ /\ ~up
          /\ up' = TRUE /\ UNCHANGED <<outages, callq>>
          /\ minted' = Append(minted, [kind |-> "up"])
    /\ UNCHANGED <<scn, ledger, pend, window, next, outq, mintDown, answers, faults, restarts>>

(* The issuer's process restarts; the ledger does not, and what it was     *)
(* sent may still be applied.                                              *)
Restart ==
    /\ restarts < scn.restarts
    /\ restarts' = restarts + 1
    /\ pend' = [k \in Slots |-> Free] /\ window' = {} /\ mail' = {}
    /\ outq' = <<>> /\ callq' = <<>> /\ minted' = <<>> /\ mintDown' = FALSE
    /\ UNCHANGED <<scn, led, wire, next, up, outages, answers, faults>>
-----------------------------------------------------------------------------
Init ==
    /\ scn \in Scenarios
    /\ led = [k \in Keys |->
                CASE k[1] = "client" -> ClientRec(k[2])
                  [] k[1] = "device" -> DeviceRec(TRUE)
                  [] k \in {CodeKey(c.code) : c \in scn.codes} ->
                        (CHOOSE c \in scn.codes : CodeKey(c.code) = k).rec
                  [] OTHER -> Nothing]
    /\ pend = [k \in Slots |-> Free] /\ window = {} /\ next = 1
    /\ wire = {} /\ mail = {} /\ outq = <<>> /\ callq = <<>> /\ minted = <<>>
    /\ mintDown = FALSE /\ up = TRUE /\ answers = {}
    /\ faults = 0 /\ outages = 0 /\ restarts = 0

OnMint == OnLinkDown \/ OnLinkUp \/ OnFailed \/ OnToken

Next ==
    \/ \E b \in scn.bodies, c \in Codes \cup {0} : TakeRequest(b, c)
    \/ \E m \in mail : OnLedger(m)
    \/ OnMint \/ FailOpenMints \/ ReadAnswer
    \/ \E w \in wire : LedgerDecides(w) \/ LedgerFails(w)
    \/ \E c \in Codes : CodeLapses(c)
    \/ \E d \in Devices : DirectoryDrops(d)
    \/ MintAnswers \/ MintLink \/ Restart

Spec == Init /\ [][Next]_vars

(* The module steps, callers read, and the ledger and a mint whose link    *)
(* is up answer: authcode sets no deadline of its own.  Every one of these *)
(* steps uses up a request, an answer or a call, so none can go on for     *)
(* ever without the others.                                                *)
Progress ==
    \/ \E m \in mail : OnLedger(m)
    \/ OnMint \/ FailOpenMints \/ ReadAnswer
    \/ \E w \in wire : LedgerDecides(w)
    \/ MintAnswers

FairSpec == Spec /\ WF_vars(Progress)
-----------------------------------------------------------------------------
(***************************************************************************)
(* Properties.                                                             *)
(***************************************************************************)
Answered == answers \cup {outq[n] : n \in DOMAIN outq}
Redeemed == {a \in Answered : a.req.op = "exchange" /\ a.status = "ok"}
Granted  == {a \in Answered : a.req.op = "authorize" /\ a.status = "ok"}

(* One proof, one code, one exchange.  A proof presented twice, at once or *)
(* after the process restarted and its window is empty, is a replay; and   *)
(* (RFC 6749 4.1.2, cited at xchg_on_code) no two exchanges of one code    *)
(* reach the mint, whichever of their reads and swaps come first and       *)
(* whatever a failed swap left behind.                                     *)
CodeRedeemedOnce ==
    LET uses == {[id |-> a.id, code |-> a.code] : a \in Redeemed}
                \cup {[id |-> pend[k].id, code |-> pend[k].code] : k \in Waiting}
    IN /\ \A x, y \in uses : x.code = y.code => x.id = y.id
       /\ \A a, b \in Granted : a.req.proof = b.req.proof => a.id = b.id

(* What a code was issued for.                                             *)
Bindings(c) == {s.rec : s \in {x \in scn.codes : x.code = c}}
               \cup {CodeRec(a.req, ClientRec(a.req.client)) : a \in {x \in Granted : x.code = c}}

(* Tokens are what /authorize established for the code, for a caller that  *)
(* names its client and redirect and holds its verifier, and never for a   *)
(* device the directory had dropped before the exchange was asked for.     *)
TokensAreEarned ==
    \A a \in Redeemed :
        /\ \E r \in Bindings(a.code) :
              /\ a.access = AccessSpec(r) /\ a.idt = IdSpec(r)
              /\ a.req.client = r.client /\ a.req.ruri = r.ruri /\ S256(a.req.verifier) = r.cc
        /\ a.access.sub \notin a.gone

(* "A code consumed by a request that then fails a check is a code the     *)
(* legitimate holder can no longer use" (oidc.md): whoever consumed a code *)
(* named its client and redirect, held its verifier, and asked for a       *)
(* device that stood then, answered or not.                                *)
OnlyItsHolderBurnsACode ==
    \A c \in Codes : led[CodeKey(c)].kind = "consumed" =>
        LET e == led[CodeKey(c)].by IN
        /\ e.rec \in Bindings(c) /\ e.rec.dev \notin e.gone
        /\ e.req.client = e.rec.client /\ e.req.ruri = e.rec.ruri
        /\ S256(e.req.verifier) = e.rec.cc

(* Every request taken is answered, if the mint's link does not stay down: *)
(* no port waits on another that waits on it (answers_clear), and no stage *)
(* is left waiting on a call that went with the link (fail_open_mints).    *)
EveryRequestAnswered ==
    []<>up => []<>(restarts > 0 \/ \A i \in 1 .. next - 1 : \E a \in answers : a.id = i)

(* "Placed now or held for the next step: either way the call is owed and  *)
(* the stage waits on its answer" (emit_mint): a stage that waits on the   *)
(* mint has its call or the answer to it on one of the two ports, or news  *)
(* of an outage that will end it.                                          *)
MintCallsAreKept ==
    outages = 0 /\ restarts = 0 =>
        \A k \in Waiting :
            \/ \E n \in DOMAIN callq : callq[n].id = <<pend[k].id, pend[k].flow>>
            \/ \E n \in DOMAIN minted : Awaits(k, minted[n])
=============================================================================
