------------------------------ MODULE TokenPath -----------------------------
(***************************************************************************)
(* The token endpoint (token_endpoint/mod.rs) with admission behind it: a  *)
(* request's credential and proof go to admission, what admission          *)
(* established goes to the mint, and the mint's token to the caller.       *)
(***************************************************************************)
EXTENDS Admission

VARIABLES
    desk,       \* the endpoint's own pending slots
    http,       \* its answers, placed or held
    lost        \* requests that were open when the process stopped

token == <<desk, http, lost>>
vars  == <<frame, window, links, world, token>>

Seated   == {k \in Slots : desk[k] # Free}
FreeSeat == CHOOSE k \in Slots \ Seated : \A j \in Slots \ Seated : k <= j

Tells(e, status, body) == http' = Placed(http, Verdict(e, status, body))
(***************************************************************************)
(* Requests.                                                               *)
(***************************************************************************)
(* What handle_request refuses without asking admission.                   *)
Turned(b) ==
    CASE b.wrong = "method"    -> "405"
      [] b.wrong = "authority" -> "400"
      [] b.wrong = "bare"      -> "401"
      [] OTHER                 -> "none"

(* handle_request, when no port holds anything.                            *)
TakeHttp ==
    /\ next <= scn.reqs /\ next' = next + 1
    /\ Clears(http) /\ Clears(calls["admit"]) /\ Clears(calls["mint"])
    /\ \E b \in scn.bodies :
          LET e == NewEntry(next, Drawn(next, b)) IN
          /\ b.via = "http"
          /\ \/ /\ Turned(b) # "none" /\ Tells(e, Turned(b), Nothing)
                /\ UNCHANGED <<desk, calls>>
             \/ /\ Turned(b) = "none" /\ (down["admit"] \/ Seated = Slots)
                /\ Tells(e, "503", Nothing) /\ UNCHANGED <<desk, calls>>
             \/ /\ Turned(b) = "none" /\ ~down["admit"] /\ Seated # Slots
                /\ desk' = [desk EXCEPT ![FreeSeat] = [e EXCEPT !.stage = "admit"]]
                /\ calls' = [calls EXCEPT !["admit"] = Placed(@, [id |-> next, req |-> e.req])]
                /\ UNCHANGED http
    /\ UNCHANGED <<scn, lane, slots, answers, faults, restarts, window, replies, down, cut,
                   flaps, world, lost>>

(***************************************************************************)
(* Admission's verdicts.                                                   *)
(***************************************************************************)
(* Mutant: whatever is not an admission is a 401.                          *)
MutStatusOf(verdict) == "401"

(* The verdicts on the presenter, and the rest.                            *)
StatusOf(verdict) ==
    IF verdict \in {"unauthenticated", "replay", "unknown_device", "revoked"} THEN "401" ELSE "503"

(* Mutant: the mint's answers are taken to come in the order of the seats. *)
MutSeatOf(id, stage) ==
    IF stage = "mint" THEN {k \in Seated : desk[k].stage = stage /\
                               \A j \in Seated : desk[j].stage = stage => k <= j}
    ELSE {k \in Seated : desk[k].id = id /\ desk[k].stage = stage}

(* take_pending: a call's id is its request's, for as long as one of its   *)
(* stages is open.                                                         *)
SeatOf(id, stage) == {k \in Seated : desk[k].id = id /\ desk[k].stage = stage}

(* dispatch_mint, from the seat the verdict just vacated.                  *)
DispatchMint(k, x) ==
    \/ /\ down["mint"] /\ Tells(x, "503", Nothing)
       /\ desk' = [desk EXCEPT ![k] = Free] /\ UNCHANGED calls
    \/ /\ ~down["mint"]
       /\ desk' = [desk EXCEPT ![k] = [x EXCEPT !.stage = "mint"]]
       /\ calls' = [calls EXCEPT !["mint"] = Placed(@, MintCall(x))]
       /\ UNCHANGED http

(* drain_admit: read only with room for an answer and for a mint call.     *)
OnAdmit ==
    /\ outq # <<>> /\ Clears(http) /\ Clears(calls["mint"])
    /\ LET r == Head(outq) IN
       \/ /\ IsNews(r) /\ down' = [down EXCEPT !["admit"] = (r.link = "down")]
          /\ UNCHANGED <<desk, http, calls>>
       \/ /\ ~IsNews(r) /\ r.req.via = "http" /\ SeatOf(r.id, "admit") = {}
          /\ UNCHANGED <<desk, http, calls, down>>
       \/ /\ ~IsNews(r) /\ r.req.via = "http" /\ UNCHANGED down
          /\ \E k \in SeatOf(r.id, "admit") :
                \/ r.status = "ok" /\ DispatchMint(k, [desk[k] EXCEPT !.facts = r.body])
                \/ /\ r.status # "ok" /\ Tells(desk[k], StatusOf(r.status), Nothing)
                   /\ desk' = [desk EXCEPT ![k] = Free] /\ UNCHANGED calls
    /\ outq' = Tail(outq)
    /\ UNCHANGED <<scn, lane, pend, next, answers, faults, restarts, window, replies, cut, flaps,
                   world, lost>>

(***************************************************************************)
(* The mint's answers, and links that are down.                            *)
(***************************************************************************)
MintRoom == Clears(http)

(* drain_mint_replies.                                                     *)
OnMint ==
    /\ replies["mint"] # <<>> /\ MintRoom
    /\ LET r == Head(replies["mint"]) IN
       \/ /\ IsNews(r) /\ down' = [down EXCEPT !["mint"] = (r.link = "down")]
          /\ UNCHANGED <<desk, http>>
       \/ /\ ~IsNews(r) /\ SeatOf(r.id, "mint") = {} /\ UNCHANGED <<desk, http, down>>
       \/ /\ ~IsNews(r) /\ UNCHANGED down
          /\ \E k \in SeatOf(r.id, "mint") :
                /\ desk' = [desk EXCEPT ![k] = Free]
                /\ IF r.status = "ok" THEN Tells(desk[k], "ok", r.body)
                                      ELSE Tells(desk[k], "400", Nothing)
    /\ replies' = [replies EXCEPT !["mint"] = Tail(@)]
    /\ UNCHANGED <<scn, lane, slots, next, answers, faults, restarts, window, calls, cut, flaps,
                   world, lost>>

Downed(k) == (desk[k].stage = "admit" /\ down["admit"]) \/ (desk[k].stage = "mint" /\ down["mint"])

(* fail_downed: at the start of a step, while the answers have room.       *)
FailDowned(k) ==
    /\ k \in Seated /\ Downed(k) /\ Clears(http)
    /\ desk' = [desk EXCEPT ![k] = Free] /\ Tells(desk[k], "503", Nothing)
    /\ UNCHANGED <<frame, window, links, world, lost>>

ReadHttp ==
    /\ http # <<>> /\ http' = Tail(http) /\ answers' = answers \cup {Head(http)}
    /\ UNCHANGED <<scn, lane, slots, next, faults, restarts, window, links, world, desk, lost>>

(* The process restarts: endpoint, admission and mints at once.            *)
Restart ==
    /\ ForgetAll
    /\ lost' = {i \in 1 .. next - 1 : ~\E a \in answers : a.id = i}
    /\ window' = {} /\ calls' = [l \in LinkNames |-> <<>>] /\ replies' = calls'
    /\ down' = [l \in LinkNames |-> FALSE] /\ cut' = down'
    /\ desk' = [k \in Slots |-> Free] /\ http' = <<>>
    /\ UNCHANGED <<flaps, world>>
-----------------------------------------------------------------------------
Init == AdmissionInit /\ desk = [k \in Slots |-> Free] /\ http = <<>> /\ lost = {}

AdmissionWorks ==
    \/ TakeAdmit \/ OnGrantMint \/ FailGrants \/ ReadGrant
    \/ \E m \in mail : Ignore(m) \/ \E k \in Slots : OnLedger(m, k)
    \/ \E l \in LinkNames : Mint(l) \/ Discard(l)
    \/ Ledger

EndpointWorks == OnAdmit \/ OnMint \/ ReadHttp \/ \E k \in Slots : FailDowned(k)

Environment ==
    \/ TakeGrant
    \/ \E l \in LinkNames : LinkDown(l) \/ LinkUp(l)
    \/ \E d \in Devices : Revoke(d)

Progress ==
    \/ AdmissionWorks /\ UNCHANGED token
    \/ EndpointWorks

Next == Progress \/ (Environment /\ UNCHANGED token) \/ TakeHttp \/ Restart

Spec == Init /\ [][Next]_vars

(* The modules step, callers read, and the ledger and the mints answer     *)
(* what reaches them; every such step uses something up.                   *)
FairSpec == Spec /\ WF_vars(Progress)
-----------------------------------------------------------------------------
(***************************************************************************)
(* Properties.                                                             *)
(***************************************************************************)
(* What is signed was admitted.  One proof, one token, however often it is *)
(* presented, to either door, while the claim fails or after a restart     *)
(* emptied the window (claim_replay); and "Revocation is checked HERE, at  *)
(* admission" (drain_state): no request presented after a device was       *)
(* revoked gets a token signed for it.                                     *)
TokensAreAdmitted ==
    \A t \in signed : t.id < gone[t.sub] /\ \A u \in signed : t.proof = u.proof => t.id = u.id

(* A caller's 200 carries the token that was signed for its own request,   *)
(* whatever verdicts and answers came late to which slots.                 *)
TokenIsItsCallers ==
    \A a \in answers : a.status = "ok" => a.body.id = a.id /\ a.body.sub = a.req.dev

Presented ==
    answers \cup {desk[k] : k \in Seated} \cup {pend[k] : k \in Live}
    \cup {http[n] : n \in DOMAIN http}
    \cup {outq[n] : n \in {x \in DOMAIN outq : ~IsNews(outq[x])}}

(* The window is full of others' proofs.                                   *)
Crowded(a) == Cardinality({r.req.proof : r \in {x \in Presented : x.id # a.id}}) >= WindowSize

(* "NOT refusals of the presenter: nothing looked at them" (drain_admit):  *)
(* a 401 says that the presentation was wrong, that its device is revoked  *)
(* or that its proof was presented by another request too, and never that  *)
(* the deployment could not decide -- but for a window with no room left,  *)
(* which is answered as a replay (handle: offer), so that a fresh proof is *)
(* refused while others' proofs fill it.                                   *)
RefusalIsOfThePresenter ==
    \A a \in answers : a.status \in {"401", "replay"} =>
        \/ a.req.wrong # "none" \/ a.req.otp = "wrong" \/ led[DeviceKey(a.req.dev)].revoked
        \/ \E r \in Presented : r.id # a.id /\ r.req.proof = a.req.proof
        \/ Crowded(a)
        \/ lost # {}

(* A full window and a replayed proof are kept "apart for the reply,       *)
(* since 'somebody replayed a proof' and 'the window is saturated' are     *)
(* different operator problems" (handle): what is answered as a replay is  *)
(* a proof that was presented before, or one a restart forgot.             *)
ReplayIsOfAProof ==
    \A a \in answers : a.status = "replay" =>
        lost # {} \/ \E r \in Presented : r.id # a.id /\ r.req.proof = a.req.proof

(* Every request taken is answered: no port waits on another that waits on *)
(* it (answers_clear), and no slot waits on a link that went down          *)
(* (fail_downed, fail_open_mints).                                         *)
EveryRequestAnswered ==
    []<>(\A i \in 1 .. next - 1 : i \in lost \/ \E a \in answers : a.id = i)
=============================================================================
