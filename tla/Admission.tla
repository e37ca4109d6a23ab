------------------------------ MODULE Admission -----------------------------
(***************************************************************************)
(* Admission (mint_admission/mod.rs): is this presentation a device's, has *)
(* its proof been used, and does the directory still hold the device.  An  *)
(* admit request is answered with what was established; a grant request    *)
(* goes on to the mint and is answered with a token.                       *)
(*                                                                         *)
(* What the signatures, the certificate's window and the issuer's key come *)
(* to is the field wrong of a presentation.  Proofs do not age within a    *)
(* behaviour.                                                              *)
(***************************************************************************)
EXTENDS Endpoint, Functions

CONSTANTS
    Devices,
    WindowSize      \* proofs the in-process replay window remembers

(***************************************************************************)
(* A scenario: the requests callers present, as often as they like, and    *)
(* how many; the links that may go down and how many may come back; and    *)
(* bounds on faults, restarts and revocations.                             *)
(***************************************************************************)
VARIABLES
    window,     \* replay: the proofs this process remembers
    calls,      \* calls[l]: placed or held on link l
    replies,    \* replies[l]: what link l's provider placed or holds, and news of the link
    down,       \* down[l]: what the caller on link l last read of it
    cut,        \* cut[l]: the link is down
    flaps,      \* links gone down or come back so far
    signed,     \* the tokens mints have signed
    gone        \* gone[d]: the requests presented before d was revoked, plus one

links == <<calls, replies, down, cut, flaps>>
world == <<signed, gone>>

(* A grant's mint call leaves on link "grant"; a token endpoint's calls to *)
(* admission and to the mint on links "admit" and "mint".                  *)
LinkNames == {"admit", "mint", "grant"}

Bodies ==
    [via : {"http", "grant"}, dev : Devices, proof : {0} \cup Ids,
     otp : {"none", "right", "wrong"}, wrong : {"none", "method", "authority", "bare"}]

ASSUME AdBounds ==
    MaxReqs \in Nat /\ MaxPending \in Nat /\ EdgeCapacity \in Nat /\ WindowSize \in Nat

(* The answers port goes with link "admit", and carries no grant's answers *)
(* where that link may go down.                                            *)
ASSUME AdScenarios ==
    \A s \in Scenarios :
        /\ s.bodies \subseteq Bodies /\ s.reqs \in 0 .. MaxReqs /\ s.revokes \subseteq Devices
        /\ "admit" \in s.drops => \A b \in s.bodies : b.via = "http"

(* A caller draws a proof of its own, named for the request, or presents   *)
(* one it has used.                                                        *)
Proofs  == Ids
Drawn(i, b) == IF b.proof = 0 THEN [b EXCEPT !.proof = i] ELSE b

ReplayKey(p) == <<"replay", p>>
DeviceKey(d) == <<"device", d>>
Keys         == {ReplayKey(p) : p \in Proofs} \cup {DeviceKey(d) : d \in Devices}

Claim       == [kind |-> "claim"]
Device(rev) == [kind |-> "device", revoked |-> rev]

News(state) == [link |-> state]
IsNews(r)   == "link" \in DOMAIN r

NewEntry(i, b) == [stage |-> "new", id |-> i, req |-> b, facts |-> Nothing]

(* establish_evidence, admit: the certificate's subject and what was proved *)
(* of it now, by the key and, if one was presented, by a code.             *)
Established(e) ==
    [kind |-> "facts", sub |-> e.req.dev, proof |-> e.req.proof,
     amr |-> {"pop"} \cup (IF e.req.otp = "right" THEN {"otp"} ELSE {})]

MintCall(e) == [id |-> e.id, facts |-> e.facts]
(***************************************************************************)
(* Taking a presentation.                                                  *)
(***************************************************************************)
Room(l) == Clears(outq) /\ Clears(calls[l])

(* ReplayWindow::offer, and what handle makes of its three answers.        *)
Offered(p) == p \notin window /\ Cardinality(window) < WindowSize

Authentic(b) == b.wrong = "none"

(* handle: the window has the proof before a slot is looked for.           *)
Handle(e) ==
    CASE ~Authentic(e.req)                          -> {Refuses(e, "unauthenticated")}
      [] Authentic(e.req) /\ ~Offered(e.req.proof)  -> {Refuses(e, "replay")}
      [] OTHER -> IF Live = Slots THEN {Refuses(e, "unavailable")}
                  ELSE Asks(e, "claim", PutIfAbsent(ReplayKey(e.req.proof), Claim))

Recorded(b) == window' = IF Authentic(b) /\ Offered(b.proof) THEN window \cup {b.proof} ELSE window

(* drain_requests: taken off link "admit", for the token endpoint.         *)
TakeAdmit ==
    /\ calls["admit"] # <<>> /\ ~cut["admit"] /\ Room("grant")
    /\ LET c == Head(calls["admit"])
           e == NewEntry(c.id, c.req)
       IN \E o \in Handle(e) : PerformNew(o) /\ Recorded(e.req)
    /\ calls' = [calls EXCEPT !["admit"] = Tail(@)]
    /\ UNCHANGED <<scn, led, mail, next, answers, restarts, replies, down, cut, flaps, world>>

(* The same, from a caller that asked for a token outright.                *)
TakeGrant ==
    /\ next <= scn.reqs /\ Room("grant")
    /\ \E b \in scn.bodies :
          /\ b.via = "grant"
          /\ LET e == NewEntry(next, Drawn(next, b))
             IN \E o \in Handle(e) : PerformNew(o) /\ Recorded(e.req)
    /\ next' = next + 1
    /\ UNCHANGED <<scn, led, mail, answers, restarts, links, world>>

(***************************************************************************)
(* The ledger's answers.                                                   *)
(***************************************************************************)
(* Mutant: a claim that could not be made passes.                          *)
MutClaimDone(e, m) ==
    CASE m.status = "conflict" -> {Refuses(e, "replay")}
      [] OTHER                 -> Asks(e, "device", Get(DeviceKey(e.req.dev)))

(* drain_state, the replay claim's answer; stage_device_read.              *)
ClaimDone(e, m) ==
    CASE m.status = "ok"       -> Asks(e, "device", Get(DeviceKey(e.req.dev)))
      [] m.status = "conflict" -> {Refuses(e, "replay")}
      [] OTHER                 -> {Refuses(e, "unavailable")}

(* emit_mint: refused at once over a link known to be down, else in the    *)
(* same slot until the mint answers.                                       *)
EmitMint(e) ==
    IF down["grant"] THEN Refuses(e, "mint_failed")
    ELSE [keep |-> [e EXCEPT !.stage = "mint"], asks |-> {}, says |-> <<>>, fault |-> 0]

(* drain_state, the device's record; verify_presented_otp.                 *)
DeviceDone(e, m) ==
    LET x == [e EXCEPT !.facts = Established(e)] IN
    CASE m.status = "not_found" -> Refuses(e, "unknown_device")
      [] m.status = "ok" ->
           CASE m.val.revoked -> Refuses(e, "revoked")
             [] ~m.val.revoked /\ e.req.otp = "wrong" -> Refuses(e, "unauthenticated")
             [] OTHER -> IF e.req.via = "grant" THEN EmitMint(x)
                                                ELSE Says(x, "ok", x.facts)
      [] OTHER -> Refuses(e, "unavailable")

Advanced(e, m) == IF e.stage = "claim" THEN ClaimDone(e, m) ELSE {DeviceDone(e, m)}

(* Nothing is read while an answer or a mint call is held.                 *)
OnLedger(m, k) ==
    /\ At(m, k) /\ Room("grant")
    /\ \E o \in Advanced(pend[k], m) :
          /\ Perform(k, o)
          /\ calls' = IF o.keep # Free /\ o.keep.stage = "mint"
                        THEN [calls EXCEPT !["grant"] = Placed(@, MintCall(o.keep))]
                        ELSE calls
    /\ Taken(m) /\ UNCHANGED <<window, replies, down, cut, flaps, world>>

Ignore(m) == Room("grant") /\ IgnoreReply(m) /\ UNCHANGED <<window, links, world>>

(***************************************************************************)
(* The mint's answers, to grants.                                          *)
(***************************************************************************)
Awaiting == {k \in Live : pend[k].stage = "mint"}

(* fail_open_mints: in slot order, as many as the answers port takes.      *)
Failing ==
    {k \in Awaiting : Cardinality({j \in Awaiting : j < k}) <= EdgeCapacity - Len(outq)}

FailOpenMints ==
    /\ pend' = [k \in Slots |-> IF k \in Failing THEN Free ELSE pend[k]]
    /\ \E slot \in Bijection(1 .. Cardinality(Failing), Failing) :
          /\ \A i, j \in DOMAIN slot : i < j => slot[i] < slot[j]
          /\ outq' = outq \o [n \in 1 .. Cardinality(Failing) |->
                                Verdict(pend[slot[n]], "mint_failed", Nothing)]

(* Mutant: the answer is read only when no call is held either.            *)
MutGrantRoom == Room("grant")

GrantRoom == Clears(outq)

(* drain_mint.                                                             *)
OnGrantMint ==
    /\ replies["grant"] # <<>> /\ GrantRoom
    /\ LET r == Head(replies["grant"]) IN
       \/ /\ IsNews(r) /\ down' = [down EXCEPT !["grant"] = (r.link = "down")]
          /\ IF r.link = "down" THEN FailOpenMints ELSE UNCHANGED slots
       \/ /\ ~IsNews(r) /\ \E k \in Awaiting : pend[k].id = r.id
          /\ \E k \in Awaiting :
               /\ pend[k].id = r.id
               /\ pend' = [pend EXCEPT ![k] = Free]
               /\ outq' = Placed(outq, IF r.status = "ok" THEN Verdict(pend[k], "ok", r.body)
                                       ELSE Verdict(pend[k], "mint_failed", Nothing))
          /\ UNCHANGED down
       \/ /\ ~IsNews(r) /\ ~\E k \in Awaiting : pend[k].id = r.id
          /\ UNCHANGED <<slots, down>>
    /\ replies' = [replies EXCEPT !["grant"] = Tail(@)]
    /\ UNCHANGED <<scn, lane, next, answers, faults, restarts, window, calls, cut, flaps, world>>

(* module_step, while the link is down.                                    *)
FailGrants ==
    /\ down["grant"] /\ Failing # {} /\ FailOpenMints
    /\ UNCHANGED <<scn, lane, next, answers, faults, restarts, window, links, world>>

(* A grant's answer is read by whoever asked.                              *)
ReadGrant ==
    /\ outq # <<>> /\ ~IsNews(Head(outq)) /\ Head(outq).req.via = "grant"
    /\ ReadAnswer /\ UNCHANGED <<window, links, world>>

(***************************************************************************)
(* The mints, the links, the ledger and revocation.                        *)
(***************************************************************************)
(* A mint signs what it is asked to, or refuses; under which key, and when *)
(* it has one, is KeyRotation's.                                           *)
Mint(l) ==
    /\ l \in {"mint", "grant"} /\ calls[l] # <<>> /\ ~cut[l] /\ Clears(replies[l])
    /\ calls' = [calls EXCEPT ![l] = Tail(@)]
    /\ LET c == Head(calls[l])
           t == [kind |-> "token", id |-> c.id, sub |-> c.facts.sub, proof |-> c.facts.proof]
           reply(status, body) == [replies EXCEPT ![l] =
                                     Placed(@, [id |-> c.id, status |-> status, body |-> body])]
       IN \/ signed' = signed \cup {t} /\ replies' = reply("ok", t) /\ UNCHANGED faults
          \/ /\ faults < scn.faults /\ faults' = faults + 1
             /\ replies' = reply("refused", Nothing) /\ UNCHANGED signed
    /\ UNCHANGED <<scn, lane, slots, next, answers, restarts, window, down, cut, flaps, gone>>

(* What an edge holds goes with its link; what a module holds does not.    *)
KeptBack(port) == SubSeq(port, EdgeCapacity + 1, Len(port))

LinkDown(l) ==
    /\ l \in scn.drops /\ ~cut[l] /\ flaps < scn.flaps /\ flaps' = flaps + 1
    /\ cut' = [cut EXCEPT ![l] = TRUE]
    /\ calls' = [calls EXCEPT ![l] = KeptBack(@)]
    /\ IF l = "admit"
         THEN outq' = <<News("down")>> \o KeptBack(outq) /\ UNCHANGED replies
         ELSE /\ replies' = [replies EXCEPT ![l] = <<News("down")>> \o KeptBack(@)]
              /\ UNCHANGED outq
    /\ UNCHANGED <<scn, lane, pend, next, answers, faults, restarts, window, down, world>>

LinkUp(l) ==
    /\ cut[l] /\ flaps < scn.flaps /\ flaps' = flaps + 1
    /\ cut' = [cut EXCEPT ![l] = FALSE]
    /\ IF l = "admit" THEN outq' = Append(outq, News("up")) /\ UNCHANGED replies
       ELSE replies' = [replies EXCEPT ![l] = Append(@, News("up"))] /\ UNCHANGED outq
    /\ UNCHANGED <<scn, lane, pend, next, answers, faults, restarts, window, calls, down, world>>

(* A link that is down takes calls, and drops them.                        *)
Discard(l) ==
    /\ cut[l] /\ calls[l] # <<>> /\ calls' = [calls EXCEPT ![l] = Tail(@)]
    /\ UNCHANGED <<frame, window, replies, down, cut, flaps, world>>

Ledger ==
    /\ \E w \in wire : LedgerDecides(w, led) \/ LedgerFails(w)
    /\ UNCHANGED <<window, links, world>>

Revoke(d) ==
    /\ d \in scn.revokes /\ led[DeviceKey(d)] = Device(FALSE)
    /\ led' = [led EXCEPT ![DeviceKey(d)] = Device(TRUE)]
    /\ gone' = [gone EXCEPT ![d] = next]
    /\ UNCHANGED <<scn, wire, mail, slots, next, answers, faults, restarts, window, links, signed>>

AdmissionInit ==
    /\ FrameInit([k \in Keys |-> IF k[1] = "device" THEN Device(FALSE) ELSE Nothing], {})
    /\ window = {} /\ signed = {} /\ gone = [d \in Devices |-> MaxReqs + 1]
    /\ calls = [l \in LinkNames |-> <<>>] /\ replies = [l \in LinkNames |-> <<>>]
    /\ down = [l \in LinkNames |-> FALSE] /\ cut = [l \in LinkNames |-> FALSE] /\ flaps = 0
=============================================================================
