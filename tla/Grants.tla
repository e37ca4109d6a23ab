------------------------------- MODULE Grants -------------------------------
(***************************************************************************)
(* The grant services over one ledger.  In a behaviour, exchanges are with *)
(* the transfer-grant service or with the attachment service; a provider's *)
(* custody authority may share the ledger with the first.                  *)
(***************************************************************************)
EXTENDS TransferGrant, AttachmentGrant

(* What each kind of request names.                                        *)
ASSUME GrBodies ==
    \A s \in Scenarios : \A b \in s.bodies :
        /\ b.scope \in Scopes
        /\ b.op \in {"issue", "consume", "invalidate", "check", "publish", "request", "revoke"}
        /\ b.svc = "attach" <=> b.op \in {"publish", "request", "revoke"}
        /\ b.op \in {"issue", "check"} => b.flow \in Flows /\ b.ttl \in Nat
        /\ b.op = "check" => b.chal \in Challenges
        /\ b.op = "consume" => b = [svc |-> b.svc, op |-> b.op, scope |-> b.scope, by |-> b.by,
                                    grant |-> b.grant]
        /\ b.op \in {"publish", "request"} => b.ttl \in Nat
        /\ b.op \in {"invalidate", "revoke"} => b.target \in Nat

(* Nonces are drawn, never a provider's challenge.                         *)
ASSUME GrBounds ==
    /\ MaxReqs \in Nat /\ MaxPending \in Nat \ {0} /\ EdgeCapacity \in Nat
    /\ MaxTtl \in Nat /\ Slack \in Nat /\ MaxPublication \in Nat /\ MaxGrant \in Nat
    /\ Ids \cap Challenges = {}
    /\ \A s \in Scenarios : s.reqs \in 0 .. MaxReqs /\ s.start \in Nat

LedgerKeys == {GenKey(s) : s \in Scopes} \cup GrantKeys

Init ==
    /\ FrameInit([k \in LedgerKeys |-> Nothing], {})
    /\ now = scn.start /\ key = 0 /\ keys = 0
    /\ done = {} /\ acked = [s \in Scopes |-> 0]

OnLedger(m, k) ==
    /\ At(m, k) /\ Steps(pend[k].req.svc)
    /\ \E o \in (IF pend[k].req.svc = "attach" THEN AttachmentStep(pend[k], m)
                                               ELSE TransferStep(pend[k], m)) :
          Enact(k, o)
    /\ Taken(m) /\ UNCHANGED clock

Ignore(m) == IgnoreReply(m) /\ UNCHANGED <<clock, history>>

Ledger ==
    /\ \E w \in wire : LedgerDecides(w, led) \/ LedgerFails(w)
    /\ UNCHANGED <<clock, history>>

Read == ReadAnswer /\ UNCHANGED <<clock, history>>

Progress ==
    \/ \E m \in mail : Ignore(m) \/ \E k \in Slots : OnLedger(m, k)
    \/ Ledger \/ Read \/ TimePasses \/ \E s \in Services : Tick(s)

Next ==
    \/ Progress \/ TakeTransfer \/ TakeAttachment \/ TakeKey \/ RetryKey \/ Restart
    \/ \E w \in wire : Silence(w)
    \/ \E k \in LedgerKeys : Lapse(k)

Spec == Init /\ [][Next]_vars

(* The services step, callers read, time passes, and the ledger answers    *)
(* what it does not lose; every such step uses something up.               *)
FairSpec == Spec /\ WF_vars(Progress)
-----------------------------------------------------------------------------
(***************************************************************************)
(* Properties.                                                             *)
(***************************************************************************)
Moved(d)  == d.status = "ok" /\ d.req.op \in {"consume", "check"}
Issued(d) == d.status = "ok" /\ d.req.op \in {"issue", "request"}

(* The record of a check was dropped before another was answered.          *)
Forgotten(a, b) == a.req.op = "check" /\ a.body.doc.expiry + Slack < b.body.at

(* Single use: a grant moves secrets once, whoever consumes it at the same *)
(* time, and whatever was lost, late or restarted; and not after a caller  *)
(* was told that it expired (advance, MARK; the claim of a check).  The    *)
(* evidence a check was granted for is refused for as long as the ledger   *)
(* keeps its record.                                                       *)
OneEnd ==
    \A a, b \in done :
        /\ Moved(a) /\ Moved(b) /\ GrantKey(a.body.doc) = GrantKey(b.body.doc) =>
              a.id = b.id \/ Forgotten(a, b) \/ Forgotten(b, a)
        /\ Moved(a) /\ b.req.op = "consume" /\ b.status = "expired" =>
              GrantKey(a.body.doc) # GrantKey(b.req.grant)

(* Once an advance of the generation was answered it holds: the ledger     *)
(* never names an earlier one again, though two operators advance it at    *)
(* once, and no act begun after the answer issues, consumes or grants      *)
(* anything under one.                                                     *)
VoidStaysVoid ==
    /\ \A s \in Scopes : acked[s] # 0 => led[GenKey(s)] # Nothing /\ led[GenKey(s)].n >= acked[s]
    /\ \A d \in done : Moved(d) \/ Issued(d) => d.body.doc.gen >= d.body.asof

(* A grant is decided at the start of its act and again after the ledger   *)
(* answered, and the clock moves between: it is live when it is signed,    *)
(* ends no later than its publication and is within it.                    *)
GrantIsWithinItsPublication ==
    \A d \in done : d.status = "ok" /\ d.req.op = "request" =>
        LET g == d.body.doc  p == d.body.under IN
        /\ d.body.at < g.expiry /\ g.expiry <= p.expiry
        /\ g.gen = p.gen /\ g.quota <= p.quota
        /\ g.to.tenant \in p.tenants /\ g.to.domain \in p.domains

(* Every act ends: no slot is held for good, however often the ledger is   *)
(* silent (tick).                                                          *)
EveryActEnds == []<>(\A i \in 1 .. next - 1 : \E d \in done : d.id = i)

(* "Every grant issued under an earlier one is refused from then on": no   *)
(* consume succeeds once an advance past its grant's generation was        *)
(* answered.                                                               *)
VoidedAtOnce == \A d \in done : Moved(d) => d.body.doc.gen >= d.body.after
=============================================================================
