---------------------------- MODULE TransferGrant ---------------------------
(***************************************************************************)
(* Key-custody transfer grants (transfer_grant.rs): issued, consumed and   *)
(* voided by the transfer-grant service (transfer_grant_service.rs), and   *)
(* issued and consumed in one act by the custody authority of a provider's *)
(* own graph (custody_authority_service.rs).  The two share the ledger's   *)
(* records and the recovery generation.                                    *)
(*                                                                         *)
(* A grant's signature is the key it was signed with, its digest the grant *)
(* itself; an attestation is what it proves: nothing, a software key, or a *)
(* hardware key of some tier.                                              *)
(***************************************************************************)
EXTENDS Generations

CONSTANTS
    Hosts, Self,    \* hosts; the one the custody authority runs on
    Flows,
    Challenges,     \* challenges providers choose
    MaxTtl,         \* TRANSFER_GRANT_TTL_MS
    Slack           \* how long after a grant's expiry its record is kept

(* A nonce is drawn for the request, or is the challenge's.                *)
Nonces == Ids \cup Challenges

GrantKey(g) == <<"grant", g.flow, g.nonce>>
GrantKeys   == {<<"grant", f, n>> : f \in Flows, n \in Nonces}

State(st, g) == [kind |-> "state", state |-> st, doc |-> g, until |-> g.expiry + Slack]

(***************************************************************************)
(* What is decided before the ledger is asked.                             *)
(***************************************************************************)
(* admit_custody, under the policy: the custody, or why there is none.     *)
Custody(ev) ==
    LET floor == scn.policy IN
    CASE ev.sort = "none"   -> IF floor.possession THEN "possession" ELSE "attestation_required"
      [] ev.sort = "forged" -> "attestation_invalid"
      [] ev.sort = "hard" /\ ev.tier >= floor.tier -> "hardware"
      [] OTHER              -> IF floor.possession THEN "possession" ELSE "attestation_insufficient"

Admits(custody) == custody \in {"possession", "hardware"}

Grant(b, src, dst, nonce) ==
    [flow |-> b.flow, src |-> src, dst |-> dst, nonce |-> nonce, custody |-> Custody(b.evid),
     issued |-> now, expiry |-> now + Clamp(b.ttl, MaxTtl), gen |-> 0, key |-> 0]

(* decide_issue.                                                           *)
IssueRefusal(b) ==
    CASE b.src = b.dst            -> "malformed"
      [] b.src # b.dst /\ b.by = "nobody" -> "not_authenticated"
      [] b.src # b.dst /\ b.by # "nobody" /\ b.by # b.src -> "not_source"
      [] b.src # b.dst /\ b.by = b.src /\ ~b.leaf -> "destination_mismatch"
      [] OTHER -> IF Admits(Custody(b.evid)) THEN "none" ELSE Custody(b.evid)

(* start_consume: a grant past its expiry still reaches the ledger.        *)
ConsumeRefusal(b) ==
    CASE b.by = "nobody"    -> "not_authenticated"
      [] b.by # "nobody" /\ b.grant.key # key -> "bad_signature"
      [] OTHER -> IF b.by = b.grant.src THEN "none" ELSE "not_source"

(* start_invalidate.                                                       *)
InvalidateRefusal(b) ==
    CASE b.by = "nobody" -> "not_authenticated"
      [] b.by = "operator" -> "none"
      [] OTHER -> "not_operator"

(* decide_custody_check: the signer's is a host enrolled here.             *)
CheckRefusal(b) ==
    CASE b.signer \notin Hosts \ {Self} -> "destination_mismatch"
      [] OTHER -> IF Admits(Custody(b.evid)) THEN "none" ELSE Custody(b.evid)

(* start_issue draws the nonce, which may fail.                            *)
TakeIssue(b) ==
    LET e == [Op(b) EXCEPT !.doc = Grant(b, b.src, b.dst, next)] IN
    Accept(Start(e, IssueRefusal(b))
           \cup (IF key # 0 /\ now # 0 /\ IssueRefusal(b) = "none"
                   THEN {[Refuses(e, "busy") EXCEPT !.fault = 1]} ELSE {}))

(* A consume presents a grant some caller was answered with.               *)
Granted == {a.body : a \in {x \in answers : x.status = "ok" /\ x.req.op = "issue"}}

TakeConsume(b) ==
    \E g \in Granted :
        LET c == [b EXCEPT !.grant = g] IN
        Accept(Start([Op(c) EXCEPT !.doc = g], ConsumeRefusal(c)))

TakeInvalidate(b) == Accept(Start(Op(b), InvalidateRefusal(b)))

TakeCheck(b) ==
    Accept(Start([Op(b) EXCEPT !.doc = Grant(b, Self, b.signer, b.chal)], CheckRefusal(b)))

(***************************************************************************)
(* The ledger's answers.                                                   *)
(***************************************************************************)
Doc(e) == [kind |-> "doc", doc |-> e.doc, asof |-> e.asof, after |-> acked[e.req.scope],
           at |-> now]

(* The grant, stamped and signed; its state is claimed.                    *)
Claims(e, m, st) ==
    LET x == [e EXCEPT !.doc.gen = Current(m), !.doc.key = key, !.gen = Current(m)] IN
    IF key = 0 THEN {Refuses(e, "no_issuer_key")}
    ELSE Asks(x, "claim", PutIfAbsent(GrantKey(x.doc), State(st, x.doc)))

(* Mutant: the generation is left to the grant's own record.               *)
MutOnGeneration(e, m) ==
    CASE m.status \notin {"ok", "not_found"} -> {Refuses(e, "unavailable")}
      [] e.req.op = "issue"      -> Claims(e, m, "issued")
      [] e.req.op = "check"      -> Claims(e, m, "consumed")
      [] e.req.op = "consume"    -> Asks(e, "state", Get(GrantKey(e.doc)))
      [] OTHER                   -> Advance(e, m)

(* advance, GET_GENERATION.                                                *)
OnGeneration(e, m) ==
    CASE m.status \notin {"ok", "not_found"} -> {Refuses(e, "unavailable")}
      [] m.status \in {"ok", "not_found"} /\ e.req.op = "issue" -> Claims(e, m, "issued")
      [] m.status \in {"ok", "not_found"} /\ e.req.op = "check" -> Claims(e, m, "consumed")
      [] m.status \in {"ok", "not_found"} /\ e.req.op = "consume" ->
            IF e.doc.gen # Current(m) THEN {Refuses(e, "invalidated")}
            ELSE Asks(e, "state", Get(GrantKey(e.doc)))
      [] OTHER -> Advance(e, m)

OnClaim(e, m) ==
    CASE m.status = "ok"       -> {Says(e, "ok", Doc(e))}
      [] m.status = "conflict" -> {Refuses(e, IF e.req.op = "check" THEN "replayed" ELSE "conflict")}
      [] OTHER                 -> {Refuses(e, "unavailable")}

(* advance, GET_STATE: consumed, or expired if it is past its expiry now.  *)
OnState(e, m) ==
    LET end == IF now >= e.doc.expiry THEN "expired" ELSE "ok"
        st  == IF now >= e.doc.expiry THEN "expired" ELSE "consumed"
    IN CASE m.status = "not_found" -> {Refuses(e, "unknown_grant")}
         [] m.status = "ok" ->
              CASE m.val.doc # e.doc          -> {Refuses(e, "unknown_grant")}
                [] m.val.state = "consumed"   -> {Refuses(e, "replayed")}
                [] m.val.state = "expired"    -> {Refuses(e, "expired")}
                [] OTHER -> Asks([e EXCEPT !.end = end], "mark",
                                 CompareAndSwap(GrantKey(e.doc), m.val, State(st, e.doc)))
         [] OTHER -> {Refuses(e, "unavailable")}

(* Mutant: the swap was lost to another consume of the same source's.      *)
MutOnMark(e, m) ==
    CASE m.status \in {"ok", "conflict"} -> {Says(e, e.end, Doc(e))}
      [] OTHER                           -> {Refuses(e, "unavailable")}

(* advance, MARK.                                                          *)
OnMark(e, m) ==
    CASE m.status = "ok"       -> {Says(e, e.end, Doc(e))}
      [] m.status = "conflict" -> {Refuses(e, "replayed")}
      [] OTHER                 -> {Refuses(e, "unavailable")}

TransferStep(e, m) ==
    CASE e.stage = "generation" -> OnGeneration(e, m)
      [] e.stage = "claim"      -> OnClaim(e, m)
      [] e.stage = "state"      -> OnState(e, m)
      [] e.stage = "mark"       -> OnMark(e, m)
      [] OTHER                  -> Advanced(e, m)

TakeTransfer ==
    \E b \in scn.bodies :
      /\ Steps(b.svc)
      /\ \/ b.op = "issue"      /\ TakeIssue(b)
         \/ b.op = "consume"    /\ TakeConsume(b)
         \/ b.op = "invalidate" /\ TakeInvalidate(b)
         \/ b.op = "check"      /\ TakeCheck(b)
=============================================================================
