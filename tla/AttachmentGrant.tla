--------------------------- MODULE AttachmentGrant --------------------------
(***************************************************************************)
(* Attachment grants (attachment_grant.rs, attachment_grant_service.rs): a *)
(* producer publishes a service, a consumer asks for a grant under the     *)
(* publication, and the producer revokes by advancing the generation of    *)
(* the service.  Nothing but that generation is kept.                      *)
(***************************************************************************)
EXTENDS Generations

CONSTANTS MaxPublication, MaxGrant      \* MAX_PUBLICATION_MS, MAX_GRANT_MS

(* An actor is a class and a trust domain, the instance's own or not.      *)
Produces(a) == a.class \in {"workload", "service", "operator"}
Consumes(a) == a.class \in {"workload", "operator"}

ProducerRefusal(a) ==
    CASE a.class = "nobody"                     -> "not_authenticated"
      [] a.class # "nobody" /\ ~Produces(a)     -> "actor_not_permitted"
      [] OTHER                                  -> IF a.local THEN "none" ELSE "foreign_producer"

(* Quotas::within: nonzero, and no more than the ceiling.                  *)
Within(quota, ceiling) == quota # 0 /\ quota <= ceiling

(* decide_publish.                                                         *)
PublishRefusal(b) ==
    CASE ProducerRefusal(b.by) # "none" -> ProducerRefusal(b.by)
      [] ProducerRefusal(b.by) = "none" /\ ~Within(b.quota, b.quota) -> "quota_exceeded"
      [] OTHER -> IF b.tenants = {} \/ b.domains = {} THEN "wildcard" ELSE "none"

Publication(b) ==
    [sort |-> "publication", scope |-> b.scope, tenants |-> b.tenants, domains |-> b.domains,
     quota |-> b.quota, issued |-> now, expiry |-> now + Clamp(b.ttl, MaxPublication),
     gen |-> 0, key |-> 0, id |-> next, to |-> Nothing]

(* decide_request, of the publication under the generation that is current.*)
RequestRefusal(b, p, gen) ==
    CASE ~Consumes(b.by)               -> "actor_not_permitted"
      [] Consumes(b.by) /\ p.scope # b.scope -> "wrong_service"
      [] Consumes(b.by) /\ p.scope = b.scope /\ p.gen # gen  -> "revoked"
      [] Consumes(b.by) /\ p.scope = b.scope /\ p.gen = gen /\ now >= p.expiry -> "expired"
      [] OTHER ->
           CASE b.tenant \notin p.tenants    -> "tenant_not_accepted"
             [] b.tenant \in p.tenants /\ b.by.domain \notin p.domains -> "domain_not_accepted"
             [] OTHER -> IF Within(b.quota, p.quota) THEN "none" ELSE "quota_exceeded"

(* A grant never outlives its publication.                                 *)
Attachment(b, p, i) ==
    [p EXCEPT !.sort = "grant", !.quota = b.quota, !.issued = now, !.id = i, !.key = key,
              !.to = [tenant |-> b.tenant, domain |-> b.by.domain],
              !.expiry = Min({now + Clamp(b.ttl, MaxGrant), p.expiry})]

(***************************************************************************)
(* Requests.                                                               *)
(***************************************************************************)
(* start_publish.                                                          *)
TakePublish(b) ==
    Accept(Start([Op(b) EXCEPT !.doc = Publication(b)], PublishRefusal(b)))

Published == {a.body : a \in {x \in answers : x.status = "ok" /\ x.req.op = "publish"}}

(* start_request: everything but the generation is decided before the      *)
(* ledger is asked.                                                        *)
PresentedRefusal(b, p) ==
    CASE p.key # key        -> "bad_signature"
      [] p.key = key /\ now >= p.expiry -> "expired"
      [] p.key = key /\ now < p.expiry /\ b.by.class = "nobody" -> "not_authenticated"
      [] OTHER              -> RequestRefusal(b, p, p.gen)

(* A request presents a publication some caller was answered with.         *)
TakeRequest(b) ==
    \E p \in Published : Accept(Start([Op(b) EXCEPT !.doc = p], PresentedRefusal(b, p)))

(* start_revoke.                                                           *)
TakeRevoke(b) == Accept(Start(Op(b), ProducerRefusal(b.by)))

(***************************************************************************)
(* The generation, read.                                                   *)
(***************************************************************************)
Issues(e, doc) ==
    IF key = 0 THEN {Refuses(e, "no_issuer_key")}
    ELSE {Says(e, "ok", [kind |-> "doc", doc |-> [doc EXCEPT !.key = key], under |-> e.doc,
                         asof |-> e.asof, after |-> acked[e.req.scope], at |-> now])}

(* Mutant: what start_request decided is not decided again.                *)
MutOnRead(e, m) ==
    CASE m.status \notin {"ok", "not_found"} -> {Refuses(e, "unavailable")}
      [] m.status \in {"ok", "not_found"} /\ e.req.op = "publish" ->
            Issues(e, [e.doc EXCEPT !.gen = Current(m)])
      [] m.status \in {"ok", "not_found"} /\ e.req.op = "request" ->
            Issues(e, Attachment(e.req, e.doc, e.id))
      [] OTHER -> Advance(e, m)

(* advance, GET_GENERATION; a grant's id is drawn, which may fail.         *)
OnRead(e, m) ==
    CASE m.status \notin {"ok", "not_found"} -> {Refuses(e, "unavailable")}
      [] m.status \in {"ok", "not_found"} /\ e.req.op = "publish" ->
            Issues(e, [e.doc EXCEPT !.gen = Current(m)])
      [] m.status \in {"ok", "not_found"} /\ e.req.op = "request" ->
            LET why == RequestRefusal(e.req, e.doc, Current(m)) IN
            (IF why = "none" THEN Issues(e, Attachment(e.req, e.doc, e.id))
                             ELSE {Refuses(e, why)})
            \cup {[Refuses(e, "busy") EXCEPT !.fault = 1]}
      [] OTHER -> Advance(e, m)

AttachmentStep(e, m) ==
    IF e.stage = "generation" THEN OnRead(e, m) ELSE Advanced(e, m)

TakeAttachment ==
    \E b \in scn.bodies :
      /\ Steps(b.svc)
      /\ \/ b.op = "publish" /\ TakePublish(b)
         \/ b.op = "request" /\ TakeRequest(b)
         \/ b.op = "revoke"  /\ TakeRevoke(b)
=============================================================================
