------------------------- MODULE StorageKeyProofs -------------------------
(***************************************************************************)
(* Proofs about the storage-key service, for any devices, scenarios and    *)
(* bounds.                                                                 *)
(*                                                                         *)
(* The argument rests on two things.  An operation that nothing has        *)
(* refused has at most one message under its id, and that message is what  *)
(* its stage asked (OneMessage, Asked): so the answer it takes is the      *)
(* answer to its question.  An operation that was refused, by a timeout    *)
(* say, may take any answer, but only to end.  And a request on the wire   *)
(* may be applied whatever became of its operation, so what it writes is   *)
(* bounded by itself (Question).                                           *)
(*                                                                         *)
(* What the grant is to the sets needs a second invariant, CInv, over the  *)
(* first: a write of a set or of the grant may be late, so what makes it   *)
(* right must still hold then, for as long as the grant it expects stands. *)
(***************************************************************************)
EXTENDS StorageKey, FiniteSetTheorems, TLAPS

(***************************************************************************)
(* Shapes.                                                                 *)
(***************************************************************************)
LinkKinds == {"release", "recovery", "renewal"}

Atts == {b.replay : b \in Bodies}

IsOp(o) ==
    /\ o = [stage |-> o.stage, body |-> o.body, prev |-> o.prev, grant |-> o.grant,
            set |-> o.set, ticket |-> o.ticket, chain |-> o.chain, active |-> o.active,
            out |-> o.out, aux |-> o.aux, epoch |-> o.epoch, cursor |-> o.cursor,
            asked |-> o.asked, answered |-> o.answered, envs |-> o.envs,
            refusal |-> o.refusal, born |-> o.born]
    /\ o.asked \subseteq Custodians

(* What the ledger holds where a grant is held.                            *)
GrantVal(g) ==
    /\ g.kind \in {"grant", "erasure"} /\ g.gen \in Nat /\ g.epoch \in Nat \ {0}
    /\ g.retained \subseteq 1 .. (g.epoch - 1) /\ Cardinality(g.retained) <= MaxRetained

IsTicket(t, x) == x = Ticket(t, x.epoch, x.device, x.consumed) /\ x.consumed \in BOOLEAN

TypeOK ==
    /\ led = [k \in Keys |-> led[k]]
    /\ led[GrantKey] = Nothing \/ GrantVal(led[GrantKey])
    /\ \A t \in Ids : led[TicketKey(t)] = Nothing \/ IsTicket(t, led[TicketKey(t)])
    /\ ops = [i \in Ids |-> ops[i]]
    /\ next \in Nat \ {0} /\ issued \in Nat /\ restarts \in Nat
    /\ scn \in Scenarios
    /\ \A c \in challenges : c.nonce \in 1 .. issued
    /\ \A q \in orders : q.corr \in Ids
    /\ \A r \in results : r.corr \in Ids

(***************************************************************************)
(* Operations.                                                             *)
(***************************************************************************)
ProvenStages == {"get_grant", "get_device", "get_ticket", "get_chain", "get_set",
                 "claim_replay", "consume_ticket", "put_chain", "custodians", "write_audit"}
ControlStages == {"get_grant", "get_set", "get_current_set", "erase_get_set",
                  "erase_delete_set", "put_grant", "put_set", "cas_grant", "cas_set",
                  "put_ticket", "get_old_set", "delete_set", "erase_custodians",
                  "write_audit"}
LateStages == {"claim_replay", "consume_ticket", "put_chain", "custodians", "write_audit"}

(* The grant g stood after the request came.                               *)
Since(born, g) ==
    /\ born = Nothing \/ GrantVal(born)
    /\ born # Nothing => /\ g.gen >= born.gen
                         /\ born.kind = "erasure" => g.kind = "erasure"

(* What is known of a release or a renewal under way, by its stage.        *)
ReleaseOK(i, o) ==
    LET b == o.body IN
    /\ o.stage \in ProvenStages
    /\ b.code = "renew" => o.prev \in Issued /\ o.stage \notin {"get_set", "custodians"}
    /\ o.stage \in {"get_ticket", "consume_ticket"} => b.code = "recover"
    /\ o.stage \in {"get_chain", "put_chain"} => b.code = "renew"
    /\ o.stage # "get_grant" => /\ GrantVal(o.grant) /\ Since(o.born, o.grant)
                                /\ Admits(o.grant, b.epoch)
    /\ o.stage = "get_set" /\ b.code = "recover" => IsTicket(b.ticket, o.ticket)
    /\ o.stage \in LateStages =>
          /\ b.code # "recover" => ~o.grant.revoked /\ o.grant.device = b.device
          /\ b.code = "recover" => o.ticket = Ticket(b.ticket, b.epoch, b.device, FALSE)
          /\ b.code = "renew" => /\ o.out = Link("renewal", i, b, o.prev.att)
                                 /\ o.chain = Nothing \/ o.chain = o.prev
    /\ o.stage = "custodians" => o.envs \subseteq Custodians /\ Cardinality(o.envs) <= 1
    /\ o.stage = "write_audit" /\ b.code # "renew" => Cardinality(o.envs) = 2
    /\ o.stage \notin LateStages => o.out = Nothing /\ o.envs = {}
    /\ o.stage \in {"claim_replay", "consume_ticket"} => o.envs = {}
    /\ o.out.kind \in LinkKinds => o.out.by = i /\ o.out.att \in Atts

(* And of any other act.                                                   *)
ControlOK(i, o) ==
    /\ o.stage \in ControlStages /\ o.out.kind \notin LinkKinds
    /\ o.stage = "get_set" => o.body.code = "record_set"
    /\ o.stage = "put_grant" => o.body.code = "create"
    /\ o.stage = "get_current_set" => GrantVal(o.grant) /\ o.grant.kind = "grant"
                                      /\ Cardinality(o.grant.retained) < MaxRetained
    /\ o.stage = "put_set" /\ o.body.code = "rotate_key" =>
          /\ GrantVal(o.grant) /\ o.grant.kind = "grant"
          /\ GrantVal(o.aux) /\ o.aux.kind = "grant"
          /\ o.aux.gen = o.grant.gen + 1 /\ o.aux.epoch = o.grant.epoch + 1

OpOK(i, o) ==
    /\ IsOp(o) /\ i < next
    /\ Since(o.born, led[GrantKey]) /\ (o.born # Nothing => GrantVal(led[GrantKey]))
    /\ o.body.replay \in Atts
    /\ o.body.code = "recover" => o.body.ticket \in Ids
    /\ o.refusal # "none" => o.stage = "write_audit" /\ o.out = Nothing
    /\ o.refusal = "none" => IF Proven(o.body) THEN ReleaseOK(i, o) ELSE ControlOK(i, o)

OpsOK ==
    /\ \A i \in Live : OpOK(i, ops[i])
    /\ \A m \in replies : m.id \in Ids /\ m.id < next /\ m.id \notin Live

(***************************************************************************)
(* Messages.                                                               *)
(***************************************************************************)
(* What a request may write, whatever became of its operation.             *)
WritesGrant(q) ==
    \/ q.op = "put" /\ q.old = Nothing /\ GrantVal(q.new)
    \/ /\ q.op = "cas" /\ GrantVal(q.old) /\ GrantVal(q.new) /\ q.old.kind = "grant"
       /\ q.new.gen = q.old.gen + 1 /\ q.new.epoch \in {q.old.epoch, q.old.epoch + 1}
WritesTicket(t, q) ==
    \/ q.op = "put" /\ q.old = Nothing /\ IsTicket(t, q.new)
    \/ /\ q.op = "cas" /\ IsTicket(t, q.old) /\ ~q.old.consumed
       /\ q.new = [q.old EXCEPT !.consumed = TRUE]

Question(w) ==
    LET q == w.q IN
    \/ q.op = "get"
    \/ q.key = GrantKey /\ WritesGrant(q)
    \/ \E t \in Ids : q.key = TicketKey(t) /\ WritesTicket(t, q)
    \/ q.key = AuditKey(w.corr) /\ q.op = "put" /\ q.old = Nothing /\ q.new.kind = "audit"
    \/ \E a \in Atts : /\ q.key = ReplayKey(a) /\ q.op = "put" /\ q.old = Nothing
                       /\ q.new.kind = "claim"
    \/ \E a \in Atts : /\ q.key = ChainKey(a) /\ q.op \in {"put", "cas"}
                       /\ q.new.kind = "renewal" /\ q.new.by = w.corr
    \/ /\ q.key[1] = "set" /\ q.op \in {"put", "cas", "delete"}
       /\ q.op = "delete" => q.new = Nothing

(* What an operation that nothing has refused has asked.                   *)
Asked(i, o, q) ==
    LET b == o.body IN
    /\ o.stage = "get_grant"  => q = Get(GrantKey)
    /\ o.stage = "get_ticket" => q = Get(TicketKey(b.ticket))
    /\ o.stage = "claim_replay" => q.op = "put" /\ q.key = ReplayKey(b.replay)
                                   /\ q.old = Nothing /\ q.new.kind = "claim"
    /\ o.stage = "consume_ticket" => /\ q.op = "cas" /\ q.key = TicketKey(b.ticket)
                                     /\ q.old = o.ticket
                                     /\ q.new = [o.ticket EXCEPT !.consumed = TRUE]
    /\ o.stage = "put_chain" => /\ q.op \in {"put", "cas"} /\ q.key = ChainKey(o.prev.att)
                                /\ q.old = o.chain /\ q.new = o.out
    /\ o.stage = "write_audit" => q = PutIfAbsent(AuditKey(i), Entry(o, o.refusal))

(* What it was told, if that was ok.                                       *)
Tells(i, o, val) ==
    /\ o.stage = "get_grant"  => GrantVal(val) /\ Since(o.born, val)
    /\ o.stage = "get_ticket" => IsTicket(o.body.ticket, val)
    /\ o.stage = "write_audit" => led[AuditKey(i)] = Entry(o, o.refusal)

Silent(i) == (\A w \in wire : w.corr # i) /\ (\A m \in mail : m.corr # i)

OneMessage(i) ==
    /\ \A v, w \in wire : v.corr = i /\ w.corr = i => v = w
    /\ \A m, n \in mail : m.corr = i /\ n.corr = i => m = n
    /\ \A w \in wire, m \in mail : ~(w.corr = i /\ m.corr = i)

Going == {i \in Live : ops[i].refusal = "none"}

WireOK ==
    /\ \A w \in wire : w.corr \in Ids /\ w.corr < next /\ Question(w)
    /\ \A m \in mail : m.corr \in Ids /\ m.corr < next
    /\ \A i \in Going : /\ OneMessage(i)
                        /\ ops[i].stage \in CustodianStages => Silent(i)
    /\ \A i \in Going, w \in wire : w.corr = i => Asked(i, ops[i], w.q)
    /\ \A i \in Going, m \in mail : m.corr = i /\ m.status = "ok" => Tells(i, ops[i], m.val)

(***************************************************************************)
(* What is used once, and who uses it: a release answered, or an operation *)
(* that may still answer one.                                              *)
(***************************************************************************)
Act(i, o) == [id |-> i, body |-> o.body, prev |-> o.prev]
Told(i)   == \E m \in mail : m.corr = i /\ m.status = "ok"
Releasing == {i \in Going : Proven(ops[i].body)}

Claiming  == {i \in Releasing : \/ ops[i].stage \in LateStages \ {"claim_replay"}
                                \/ ops[i].stage = "claim_replay" /\ Told(i)}
Spending  == {i \in Releasing : /\ ops[i].body.code = "recover"
                                /\ \/ ops[i].stage \in {"custodians", "write_audit"}
                                   \/ ops[i].stage = "consume_ticket" /\ Told(i)}
Chaining  == {i \in Releasing : /\ ops[i].body.code = "renew"
                                /\ \/ ops[i].stage = "write_audit"
                                   \/ ops[i].stage = "put_chain" /\ Told(i)}

Done       == {Act(m.id, m) : m \in Releases}
Challenged == {Act(i, ops[i]) : i \in Releasing} \cup Done
Claimed    == {Act(i, ops[i]) : i \in Claiming} \cup Done
Recovered  == {Act(i, ops[i]) : i \in Spending} \cup {x \in Done : x.body.code = "recover"}
Renewed    == {Act(i, ops[i]) : i \in Chaining} \cup {x \in Done : x.body.code = "renew"}

NoncesOnce ==
    /\ \A x \in Challenged : /\ x.body.nonce \in 1 .. issued
                             /\ \A c \in challenges : c.nonce # x.body.nonce
    /\ \A x, y \in Challenged : x.body.nonce = y.body.nonce => x.id = y.id

ReplaysOnce ==
    restarts = 0 =>
        /\ \A x \in Claimed : x.body.replay \in Atts /\ led[ReplayKey(x.body.replay)] # Nothing
        /\ \A x, y \in Claimed : x.body.replay = y.body.replay => x.id = y.id

TicketsOnce ==
    /\ \A x \in Recovered :
          /\ x.body.ticket \in Ids
          /\ led[TicketKey(x.body.ticket)] = Ticket(x.body.ticket, x.body.epoch, x.body.device, TRUE)
    /\ \A x, y \in Recovered : x.body.ticket = y.body.ticket => x.id = y.id

RenewalsOnce ==
    /\ \A x \in Renewed : /\ x.prev \in Issued
                          /\ led[ChainKey(x.prev.att)] \notin {Nothing, x.prev}
    /\ \A x, y \in Renewed : x.prev = y.prev => x.id = y.id

(***************************************************************************)
(* What was answered.                                                      *)
(***************************************************************************)
(* A release answered.                                                     *)
ReleasedOK(m) ==
    /\ m.born.kind # "erasure"
    /\ m.born.kind = "grant" => m.grant.gen >= m.born.gen
    /\ Admits(m.grant, m.body.epoch)
    /\ m.body.code # "recover" => ~m.grant.revoked /\ m.grant.device = m.body.device
    /\ m.body.code # "renew" => Cardinality(m.envs) = 2
    /\ led[AuditKey(m.id)] = [kind |-> "audit", code |-> m.body.code, refusal |-> "none"]
    /\ Silent(m.id)

AnswersOK ==
    /\ \A m \in Releases : ReleasedOK(m)
    /\ \A m \in replies : m.rec.kind \in LinkKinds =>
          m \in Releases /\ m.rec.by = m.id /\ m.rec.att \in Atts
    /\ \A m, n \in replies : m.id = n.id => m = n

IInv ==
    /\ TypeOK /\ OpsOK /\ WireOK
    /\ NoncesOnce /\ ReplaysOnce /\ TicketsOnce /\ RenewalsOnce
    /\ AnswersOK

-----------------------------------------------------------------------------
(***************************************************************************)
(* Keys, operations and sets of them.                                      *)
(***************************************************************************)
LEMMA KeysAreKeys ==
    /\ GrantKey \in Keys
    /\ \A t \in Ids : TicketKey(t) \in Keys /\ AuditKey(t) \in Keys
    /\ \A a \in Atts : ReplayKey(a) \in Keys /\ ChainKey(a) \in Keys
  BY DEF Keys, Atts

LEMMA KeysAreApart ==
    /\ GrantKey[1] = "grant"
    /\ \A x : /\ TicketKey(x)[1] = "ticket" /\ TicketKey(x)[2] = x
              /\ AuditKey(x)[1] = "audit" /\ AuditKey(x)[2] = x
              /\ ReplayKey(x)[1] = "replay" /\ ReplayKey(x)[2] = x
              /\ ChainKey(x)[1] = "chain" /\ ChainKey(x)[2] = x
              /\ SetKey(x)[1] = "set" /\ SetKey(x)[2] = x
              /\ DeviceKey(x)[1] = "device" /\ DeviceKey(x)[2] = x
  BY DEF GrantKey, TicketKey, AuditKey, ReplayKey, ChainKey, SetKey, DeviceKey

LEMMA LiveOps ==
    ASSUME IInv, NEW i \in Live
    PROVE  i \in Ids /\ OpOK(i, ops[i]) /\ IsOp(ops[i])
  BY DEF Live, IInv, OpsOK, OpOK

(* What an operation is known to be does not depend on the ledger but for  *)
(* the grant, which moves forward only.                                    *)
GrantGrows ==
    LET g == led[GrantKey]
        h == led'[GrantKey]
    IN \/ h = g
       \/ g = Nothing /\ GrantVal(h)
       \/ /\ GrantVal(g) /\ g.kind = "grant" /\ GrantVal(h) /\ h.gen = g.gen + 1
          /\ h.epoch \in {g.epoch, g.epoch + 1}

LEMMA SinceGrows ==
    ASSUME NEW born, Since(born, led[GrantKey]), born # Nothing => GrantVal(led[GrantKey]),
           GrantGrows
    PROVE  Since(born, led[GrantKey])' /\ (born # Nothing => GrantVal(led'[GrantKey]))
  <1>1. Nothing.kind = "none"
    BY DEF Nothing
  <1>2. CASE born = Nothing
    BY <1>2 DEF Since
  <1>3. CASE born # Nothing
    <2> PICK g : g = led[GrantKey]
      OBVIOUS
    <2> PICK h : h = led'[GrantKey]
      OBVIOUS
    <2>1. GrantVal(g) /\ GrantVal(born) /\ g.gen >= born.gen /\ g.gen \in Nat /\ born.gen \in Nat
          /\ (born.kind = "erasure" => g.kind = "erasure") /\ g # Nothing
      BY <1>1, <1>3 DEF Since, GrantVal
    <2>2. h = g \/ (g.kind = "grant" /\ GrantVal(h) /\ h.gen = g.gen + 1)
      BY <2>1 DEF GrantGrows
    <2>3. GrantVal(h) /\ h.gen >= born.gen /\ (born.kind = "erasure" => h.kind = "erasure")
      BY <2>1, <2>2
    <2> QED BY <2>1, <2>3 DEF Since
  <1> QED BY <1>2, <1>3

LEMMA OpStays ==
    ASSUME NEW i, NEW o, OpOK(i, o), GrantGrows, replies \subseteq replies',
           next \in Nat, i \in Nat, next' \in {next, next + 1}
    PROVE  OpOK(i, o)'
  <1>1. Since(o.born, led[GrantKey])' /\ (o.born # Nothing => GrantVal(led'[GrantKey]))
    BY SinceGrows DEF OpOK
  <1>2. i < next'
    BY DEF OpOK
  <1>3. Issued \subseteq Issued'
    BY DEF Issued
  <1>4. ReleaseOK(i, o) => ReleaseOK(i, o)'
    BY <1>3 DEF ReleaseOK, GrantVal, Since, Admits, IsTicket
  <1>5. ControlOK(i, o) => ControlOK(i, o)'
    BY DEF ControlOK, GrantVal
  <1> QED BY <1>1, <1>2, <1>4, <1>5 DEF OpOK, IsOp, Proven

(***************************************************************************)
(* A step of an operation under way: it takes the answers it takes, and    *)
(* asks what it asks.                                                      *)
(***************************************************************************)
Moves(i, n, asks, takes) ==
    /\ i \in Live /\ ops' = [ops EXCEPT ![i] = n]
    /\ n.stage # "free" /\ n.body = ops[i].body /\ n.prev = ops[i].prev
    /\ OpOK(i, n)
    /\ UNCHANGED <<scn, led, next, challenges, issued, replies, restarts>>
    /\ wire' = wire \cup asks /\ mail' = mail \ takes
    /\ \A w \in asks : w.corr = i /\ Question(w)
    /\ (\A q \in orders' : q.corr \in Ids) /\ (\A r \in results' : r.corr \in Ids)
    /\ n.refusal = "none" =>
          /\ i \in Going
          /\ \A w \in wire : w.corr # i
          /\ \A m \in mail : m.corr = i => m \in takes
          /\ \A v, w \in asks : v = w
          /\ \A w \in asks : Asked(i, n, w.q)
          /\ n.stage \in CustodianStages => asks = {}
          /\ Proven(n.body) =>
                /\ n.stage \in LateStages \ {"claim_replay"} => i \in Claiming
                /\ n.body.code = "recover" /\ n.stage \in {"custodians", "write_audit"} =>
                      i \in Spending
                /\ n.body.code = "renew" /\ n.stage = "write_audit" => i \in Chaining

LEMMA MovesInv ==
    ASSUME IInv, NEW i, NEW n, NEW asks, NEW takes, Moves(i, n, asks, takes)
    PROVE  IInv'
  <1>1. /\ i \in Ids /\ i \in Live /\ ops' = [ops EXCEPT ![i] = n] /\ n.stage # "free"
        /\ led' = led /\ next' = next /\ challenges' = challenges /\ issued' = issued
        /\ replies' = replies /\ restarts' = restarts /\ scn' = scn
    BY DEF Moves, Live
  <1>2. /\ ops'[i] = n /\ \A j \in Ids : j # i => ops'[j] = ops[j]
        /\ ops' = [j \in Ids |-> ops'[j]]
    BY <1>1 DEF IInv, TypeOK
  <1>3. Live' = Live
    BY <1>1, <1>2 DEF Live
  <1>4. Going' \subseteq Going /\ (i \in Going' => n.refusal = "none")
    BY <1>1, <1>2, <1>3 DEF Going, Moves
  <1>5. TypeOK'
    BY <1>1, <1>2 DEF TypeOK, IInv, GrantVal, IsTicket, Moves
  <1>6. OpsOK'
    <2>1. ASSUME NEW j \in Live' PROVE OpOK(j, ops[j])'
      <3> PICK p : p = ops'[j]
        OBVIOUS
      <3>1. OpOK(j, p) /\ j \in Ids
        BY <1>2, <1>3, <2>1 DEF Live, IInv, OpsOK, Moves
      <3>2. GrantGrows /\ next \in Nat /\ j \in Nat
        BY <1>1, <3>1 DEF GrantGrows, IInv, TypeOK, Ids
      <3>3. OpOK(j, p)'
        BY <1>1, <3>1, <3>2, OpStays
      <3> QED BY <3>3
    <2> QED BY <1>1, <1>3, <2>1 DEF OpsOK, IInv
  <1>7. WireOK'
    <2>1. \A w \in wire' : w.corr \in Ids /\ w.corr < next' /\ Question(w)'
      <3>1. \A w \in wire' : Question(w)
        BY DEF Moves, IInv, WireOK
      <3>2. i < next
        BY <1>1 DEF IInv, OpsOK, OpOK
      <3> QED BY <1>1, <3>1, <3>2 DEF Moves, IInv, WireOK, Question, WritesGrant, WritesTicket, GrantVal, IsTicket
    <2>2. \A m \in mail' : m.corr \in Ids /\ m.corr < next'
      BY <1>1 DEF Moves, IInv, WireOK
    <2>3. ASSUME NEW j \in Going', j # i
          PROVE  /\ OneMessage(j)' /\ (ops'[j].stage \in CustodianStages => Silent(j)')
                 /\ \A w \in wire' : w.corr = j => Asked(j, ops'[j], w.q)
                 /\ \A m \in mail' : m.corr = j /\ m.status = "ok" => Tells(j, ops[j], m.val)'
      <3>1. j \in Going /\ ops'[j] = ops[j] /\ j \in Ids
        BY <1>2, <1>4, <2>3 DEF Going, Live
      <3>2. mail' \subseteq mail /\ \A w \in wire' : w.corr = j => w \in wire
        BY <2>3 DEF Moves
      <3>3. OneMessage(j) /\ (ops[j].stage \in CustodianStages => Silent(j))
        BY <3>1 DEF IInv, WireOK
      <3>4. OneMessage(j)' /\ (ops'[j].stage \in CustodianStages => Silent(j)')
        BY <3>1, <3>2, <3>3 DEF OneMessage, Silent
      <3>5. \A w \in wire' : w.corr = j => Asked(j, ops'[j], w.q)
        BY <3>1, <3>2 DEF IInv, WireOK
      <3>6. \A m \in mail' : m.corr = j /\ m.status = "ok" => Tells(j, ops[j], m.val)
        BY <3>1, <3>2 DEF IInv, WireOK
      <3>7. \A m \in mail' : m.corr = j /\ m.status = "ok" => Tells(j, ops[j], m.val)'
        BY <1>1, <3>1, <3>6 DEF Tells, GrantVal, Since, IsTicket, Entry
      <3> QED BY <3>4, <3>5, <3>7
    <2>4. ASSUME i \in Going'
          PROVE  /\ OneMessage(i)' /\ (ops'[i].stage \in CustodianStages => Silent(i)')
                 /\ \A w \in wire' : w.corr = i => Asked(i, ops'[i], w.q)
                 /\ \A m \in mail' : m.corr # i
      <3>1. n.refusal = "none" /\ i \in Going
        BY <1>4, <2>4
      <3>2. /\ \A w \in wire : w.corr # i
            /\ \A v, w \in asks : v = w
            /\ \A w \in asks : Asked(i, n, w.q)
            /\ n.stage \in CustodianStages => asks = {}
            /\ \A m \in mail : m.corr = i => m \in takes
            /\ wire' = wire \cup asks /\ mail' = mail \ takes
        BY <3>1 DEF Moves
      <3>3. \A m \in mail' : m.corr # i
        BY <3>2
      <3> QED BY <1>2, <3>2, <3>3 DEF OneMessage, Silent
    <2>5. \A j \in Going', w \in wire' : w.corr = j => Asked(j, ops[j], w.q)'
      <3> SUFFICES ASSUME NEW j \in Going', NEW w \in wire', w.corr = j
                   PROVE  Asked(j, ops[j], w.q)'
        OBVIOUS
      <3> PICK p : p = ops'[j]
        OBVIOUS
      <3>1. Asked(j, p, w.q)
        BY <2>3, <2>4
      <3> QED BY <3>1 DEF Asked, Entry
    <2> QED BY <2>1, <2>2, <2>3, <2>4, <2>5 DEF WireOK
  <1>8. Releasing' \subseteq Releasing /\ Claiming' \subseteq Claiming
        /\ Spending' \subseteq Spending /\ Chaining' \subseteq Chaining
    <2>1. \A j \in Going' : ops'[j].body = ops[j].body
      BY <1>1, <1>2, <1>4 DEF Going, Live, Moves
    <2>2. Releasing' \subseteq Releasing
      BY <1>4, <2>1 DEF Releasing, Proven
    <2>3. \A j \in Going' : Told(j)' => Told(j) /\ j # i
      BY <1>4 DEF Told, Moves
    <2>4. \A j \in Going' : j # i => ops'[j] = ops[j]
      BY <1>2 DEF Going, Live
    <2>5. i \in Releasing' => n.refusal = "none" /\ Proven(n.body)
      BY <1>2, <1>4 DEF Releasing, Proven
    <2>6. Claiming' \subseteq Claiming
      BY <1>2, <2>2, <2>3, <2>4, <2>5 DEF Claiming, Moves, Releasing
    <2>7. Spending' \subseteq Spending
      BY <1>2, <2>2, <2>3, <2>4, <2>5 DEF Spending, Moves, Releasing
    <2>8. Chaining' \subseteq Chaining
      BY <1>2, <2>2, <2>3, <2>4, <2>5 DEF Chaining, Moves, Releasing
    <2> QED BY <2>2, <2>6, <2>7, <2>8
  <1>9. \A j \in Releasing : Act(j, ops'[j]) = Act(j, ops[j])
    BY <1>1, <1>2 DEF Releasing, Going, Live, Act, Moves
  <1>10. Releases' = Releases /\ Issued' = Issued /\ Done' = Done
    BY <1>1 DEF Releases, Issued, Done, Act, Proven
  <1>11. /\ Challenged' \subseteq Challenged /\ Claimed' \subseteq Claimed
         /\ Recovered' \subseteq Recovered /\ Renewed' \subseteq Renewed
    <2>1. Claiming \subseteq Releasing /\ Spending \subseteq Releasing /\ Chaining \subseteq Releasing
      BY DEF Claiming, Spending, Chaining
    <2>2. \A j \in Releasing : Act(j, ops[j])' = Act(j, ops[j])
      BY <1>9 DEF Act
    <2> QED BY <1>8, <1>10, <2>1, <2>2 DEF Challenged, Claimed, Recovered, Renewed
  <1>12. NoncesOnce' /\ ReplaysOnce' /\ TicketsOnce' /\ RenewalsOnce'
    BY <1>1, <1>10, <1>11 DEF NoncesOnce, ReplaysOnce, TicketsOnce, RenewalsOnce, IInv
  <1>13. AnswersOK'
    <2>1. \A m \in Releases : Silent(m.id)'
      <3>1. \A m \in Releases : Silent(m.id) /\ m.id \notin Live
        BY DEF IInv, AnswersOK, ReleasedOK, OpsOK, Releases
      <3> QED BY <1>1, <3>1 DEF Silent, Moves
    <2>2. \A m \in Releases : ReleasedOK(m)'
      BY <1>1, <2>1 DEF IInv, AnswersOK, ReleasedOK, Admits
    <2> QED BY <1>1, <1>10, <2>2 DEF IInv, AnswersOK
  <1> QED BY <1>5, <1>6, <1>7, <1>12, <1>13 DEF IInv

(***************************************************************************)
(* What a handler does with its operation: it refuses it, or asks on.      *)
(***************************************************************************)
Rest(takes) ==
    /\ mail' = mail \ takes /\ results' \subseteq results
    /\ UNCHANGED <<scn, led, next, challenges, issued, replies, restarts>>

(* o is the operation p with more read.                                    *)
Same(o, p) ==
    /\ IsOp(o) /\ o.body = p.body /\ o.prev = p.prev /\ o.born = p.born
    /\ o.refusal = p.refusal

Good(i, n) == IF Proven(n.body) THEN ReleaseOK(i, n) ELSE ControlOK(i, n)

(* Nothing else is under i's id.                                           *)
Quiet(i, takes) == (\A w \in wire : w.corr # i) /\ (\A m \in mail : m.corr = i => m \in takes)

Holds(i, n) ==
    Proven(n.body) =>
        /\ n.stage \in LateStages \ {"claim_replay"} => i \in Claiming
        /\ n.body.code = "recover" /\ n.stage \in {"custodians", "write_audit"} => i \in Spending
        /\ n.body.code = "renew" /\ n.stage = "write_audit" => i \in Chaining

LEMMA RefuseInv ==
    ASSUME IInv, NEW i \in Live, NEW o, NEW refusal, NEW takes, Same(o, ops[i]),
           refusal # "none", Finish(i, o, refusal), Rest(takes)
    PROVE  IInv'
  <1> DEFINE n == [stage |-> "write_audit", body |-> o.body, prev |-> o.prev,
                   grant |-> o.grant, set |-> o.set, ticket |-> o.ticket, chain |-> o.chain,
                   active |-> o.active, out |-> Nothing, aux |-> o.aux, epoch |-> o.epoch,
                   cursor |-> o.cursor, asked |-> o.asked, answered |-> o.answered,
                   envs |-> {}, refusal |-> refusal, born |-> o.born]
             w == [corr |-> i, q |-> PutIfAbsent(AuditKey(i), Entry(o, refusal))]
  <1>1. /\ n.stage = "write_audit" /\ n.refusal = refusal /\ n.out = Nothing
        /\ n.body = o.body /\ n.prev = o.prev /\ n.born = o.born /\ IsOp(n)
    BY DEF IsOp, Same
  <1>2. ops' = [ops EXCEPT ![i] = n]
    <2>1. PICK p : p = [o EXCEPT !.refusal = refusal,
                                 !.out = IF refusal = "none" THEN @ ELSE Nothing,
                                 !.envs = IF refusal = "none" THEN @ ELSE {}]
      OBVIOUS
    <2>2. p = [o EXCEPT !.refusal = refusal, !.out = Nothing, !.envs = {}]
      BY <2>1
    <2>3. [p EXCEPT !.stage = "write_audit"] = n
      <3>1. PICK a : a = [o EXCEPT !.refusal = refusal]
        OBVIOUS
      <3>2. PICK b : b = [a EXCEPT !.out = Nothing]
        OBVIOUS
      <3>3. p = [b EXCEPT !.envs = {}]
        BY <2>2, <3>1, <3>2
      <3>4. /\ IsOp(a) /\ a = [stage |-> o.stage, body |-> o.body, prev |-> o.prev,
                   grant |-> o.grant, set |-> o.set, ticket |-> o.ticket, chain |-> o.chain,
                   active |-> o.active, out |-> o.out, aux |-> o.aux, epoch |-> o.epoch,
                   cursor |-> o.cursor, asked |-> o.asked, answered |-> o.answered,
                   envs |-> o.envs, refusal |-> refusal, born |-> o.born]
        BY <3>1 DEF Same, IsOp
      <3>5. b = [stage |-> o.stage, body |-> o.body, prev |-> o.prev,
                   grant |-> o.grant, set |-> o.set, ticket |-> o.ticket, chain |-> o.chain,
                   active |-> o.active, out |-> Nothing, aux |-> o.aux, epoch |-> o.epoch,
                   cursor |-> o.cursor, asked |-> o.asked, answered |-> o.answered,
                   envs |-> o.envs, refusal |-> refusal, born |-> o.born]
        BY <3>2, <3>4
      <3>6. p = [stage |-> o.stage, body |-> o.body, prev |-> o.prev,
                   grant |-> o.grant, set |-> o.set, ticket |-> o.ticket, chain |-> o.chain,
                   active |-> o.active, out |-> Nothing, aux |-> o.aux, epoch |-> o.epoch,
                   cursor |-> o.cursor, asked |-> o.asked, answered |-> o.answered,
                   envs |-> {}, refusal |-> refusal, born |-> o.born]
        BY <3>3, <3>5
      <3> QED BY <3>6
    <2>4. Ask(i, p, "write_audit", PutIfAbsent(AuditKey(i), Entry(o, refusal)))
      BY <2>1 DEF Finish
    <2> QED BY <2>3, <2>4 DEF Ask
  <1>3. /\ w.corr = i /\ w.q.op = "put" /\ w.q.old = Nothing /\ w.q.key = AuditKey(i)
        /\ w.q.new.kind = "audit"
    BY DEF PutIfAbsent, Entry
  <1>4. wire' = wire \cup {w} /\ orders' = orders
    BY DEF Finish, Ask
  <1> HIDE DEF n, w
  <1>5. Question(w)
    BY <1>3 DEF Question
  <1>6. OpOK(i, n)
    BY <1>1, LiveOps DEF OpOK, Same
  <1>7. Moves(i, n, {w}, takes)
    BY <1>1, <1>2, <1>3, <1>4, <1>5, <1>6 DEF Moves, Same, Rest, IInv, TypeOK
  <1> QED BY <1>7, MovesInv

LEMMA AskInv ==
    ASSUME IInv, NEW i \in Going, NEW o, NEW stage, NEW q, NEW n, NEW takes,
           Same(o, ops[i]), n = [o EXCEPT !.stage = stage],
           stage \notin CustodianStages \cup {"free"},
           Ask(i, o, stage, q), Rest(takes), Quiet(i, takes),
           Good(i, n), Holds(i, n), Asked(i, n, q), Question([corr |-> i, q |-> q])
    PROVE  IInv'
  <1>1. /\ n.stage = stage /\ n.body = o.body /\ n.prev = o.prev /\ n.born = o.born
        /\ n.refusal = o.refusal /\ IsOp(n)
    BY DEF Same, IsOp
  <1>2. i \in Live /\ o.refusal = "none"
    BY DEF Going, Same
  <1>3. PICK w : w = [corr |-> i, q |-> q]
    OBVIOUS
  <1>4. w.corr = i /\ w.q = q /\ Question(w)
    BY <1>3
  <1>5. ops' = [ops EXCEPT ![i] = n] /\ wire' = wire \cup {w} /\ orders' = orders
    BY <1>3 DEF Ask
  <1>6. OpOK(i, n)
    BY <1>1, <1>2, LiveOps DEF OpOK, Same, Good
  <1>7. Moves(i, n, {w}, takes)
    BY <1>1, <1>2, <1>4, <1>5, <1>6 DEF Moves, Same, Rest, Quiet, Holds, IInv, TypeOK
  <1> QED BY <1>7, MovesInv

LEMMA AllowInv ==
    ASSUME IInv, NEW i \in Going, NEW o, NEW n, NEW takes,
           Same(o, ops[i]), n = [o EXCEPT !.stage = "write_audit"],
           Allow(i, o), Rest(takes), Quiet(i, takes), Good(i, n), Holds(i, n)
    PROVE  IInv'
  <1>1. o.refusal = "none"
    BY DEF Going, Same
  <1>2. [o EXCEPT !.refusal = "none", !.out = IF "none" = "none" THEN @ ELSE Nothing,
                  !.envs = IF "none" = "none" THEN @ ELSE {}] = o
    BY <1>1 DEF Same, IsOp
  <1>3. PICK q : q = PutIfAbsent(AuditKey(i), Entry(o, "none"))
    OBVIOUS
  <1>4. Ask(i, o, "write_audit", q)
    BY <1>2, <1>3 DEF Allow, Finish
  <1>5. n.body = o.body /\ n.refusal = "none" /\ n.stage = "write_audit"
    BY <1>1 DEF Same, IsOp
  <1>6. Asked(i, n, q)
    BY <1>3, <1>5 DEF Asked, Entry
  <1>7. Question([corr |-> i, q |-> q])
    BY <1>3 DEF Question, PutIfAbsent, Entry
  <1> QED BY <1>4, <1>6, <1>7, AskInv DEF CustodianStages

LEMMA OrderInv ==
    ASSUME IInv, NEW i \in Going, NEW o, NEW stage, NEW cs, NEW n, NEW takes,
           Same(o, ops[i]), n = [o EXCEPT !.stage = stage, !.asked = @ \cup cs],
           stage \in CustodianStages, cs \subseteq Custodians, Order(i, o, stage, cs),
           Rest(takes), Quiet(i, takes),
           Good(i, n), Holds(i, n)
    PROVE  IInv'
  <1>1. /\ n.stage = stage /\ n.body = o.body /\ n.prev = o.prev /\ n.born = o.born
        /\ n.refusal = o.refusal /\ IsOp(n) /\ stage # "free"
    BY DEF Same, IsOp, CustodianStages
  <1>2. i \in Live /\ i \in Ids /\ o.refusal = "none"
    BY DEF Going, Live, Same
  <1>3. ops' = [ops EXCEPT ![i] = n] /\ wire' = wire \cup {}
    BY DEF Order
  <1>4. \A q \in orders' : q.corr \in Ids
    BY <1>2 DEF Order, IInv, TypeOK
  <1>5. OpOK(i, n)
    BY <1>1, <1>2, LiveOps DEF OpOK, Same, Good
  <1>6. Moves(i, n, {}, takes)
    BY <1>1, <1>2, <1>3, <1>4, <1>5 DEF Moves, Same, Rest, Quiet, Holds, IInv, TypeOK
  <1> QED BY <1>6, MovesInv

(* An operation whose stage is not its last has been refused nothing, and  *)
(* the answer it takes is the one it asked for.                            *)
LEMMA TakesItsAnswer ==
    ASSUME IInv, NEW m \in mail, NEW i, i = m.corr, NEW o, o = ops[i],
           o.stage \notin {"free", "write_audit"}
    PROVE  /\ i \in Live /\ i \in Going /\ i \in Ids /\ Quiet(i, {m}) /\ Good(i, o) /\ OpOK(i, o)
           /\ Same(o, ops[i]) /\ IsOp(o) /\ o.refusal = "none"
           /\ m.status = "ok" => Tells(i, o, m.val) /\ Told(i)
  <1>1. i \in Ids /\ i \in Live
    BY DEF IInv, WireOK, Live
  <1>2. OpOK(i, o) /\ IsOp(o)
    BY <1>1, LiveOps
  <1>3. o.refusal = "none" /\ i \in Going
    BY <1>1, <1>2 DEF OpOK, Going
  <1>4. OneMessage(i) /\ (m.status = "ok" => Tells(i, o, m.val))
    BY <1>3 DEF IInv, WireOK
  <1>5. Quiet(i, {m})
    BY <1>4 DEF OneMessage, Quiet
  <1> QED BY <1>1, <1>2, <1>3, <1>4, <1>5 DEF Good, OpOK, Same, Told

LEMMA TakenRests == ASSUME NEW m, Taken(m), UNCHANGED replies PROVE Rest({m})
  BY DEF Taken, Rest, count

(***************************************************************************)
(* The grants that are written.                                            *)
(***************************************************************************)
LEMMA RetainedFinite ==
    ASSUME NEW g, GrantVal(g)
    PROVE  IsFiniteSet(g.retained) /\ Cardinality(g.retained) \in Nat
  <1>1. IsFiniteSet(1 .. (g.epoch - 1))
    BY FS_Interval DEF GrantVal
  <1>2. IsFiniteSet(g.retained)
    BY <1>1, FS_Subset DEF GrantVal
  <1> QED BY <1>2, FS_CardinalityType

LEMMA ChangedVal ==
    ASSUME NEW b, NEW g, GrantVal(g)
    PROVE  /\ GrantVal(Changed(b, g)) /\ Changed(b, g).kind = "grant"
           /\ Changed(b, g).gen = g.gen + 1 /\ Changed(b, g).epoch = g.epoch
  <1> PICK h : h = Changed(b, g)
    OBVIOUS
  <1>1. /\ h.kind = "grant" /\ h.gen = g.gen + 1 /\ h.epoch = g.epoch
        /\ h.retained = IF b.code = "retire" THEN g.retained \ {b.epoch} ELSE g.retained
    BY DEF Changed, GrantRec
  <1>2. h.retained \subseteq g.retained
    BY <1>1
  <1>3. Cardinality(h.retained) <= MaxRetained
    <2>1. /\ Cardinality(h.retained) \in Nat /\ Cardinality(g.retained) \in Nat
          /\ Cardinality(h.retained) <= Cardinality(g.retained)
      BY <1>2, RetainedFinite, FS_Subset, FS_CardinalityType
    <2> QED BY <2>1, SkBounds DEF GrantVal
  <1>4. GrantVal(h)
    BY <1>1, <1>2, <1>3 DEF GrantVal
  <1> QED BY <1>1, <1>4

LEMMA ErasureVal ==
    ASSUME NEW g, GrantVal(g)
    PROVE  /\ GrantVal(Erasure(g)) /\ Erasure(g).kind = "erasure"
           /\ Erasure(g).gen = g.gen + 1 /\ Erasure(g).epoch = g.epoch
  <1> PICK h : h = Erasure(g)
    OBVIOUS
  <1>1. /\ h.kind = "erasure" /\ h.gen = g.gen + 1 /\ h.epoch = g.epoch /\ h.retained = {}
    BY DEF Erasure
  <1>2. Cardinality({}) = 0
    BY FS_EmptySet
  <1>3. GrantVal(h)
    BY <1>1, <1>2, SkBounds DEF GrantVal
  <1> QED BY <1>1, <1>3

LEMMA RotatedVal ==
    ASSUME NEW g, GrantVal(g), Cardinality(g.retained) < MaxRetained, NEW h,
           h.kind = "grant", h.gen = g.gen + 1, h.epoch = g.epoch + 1,
           h.retained = g.retained \cup {g.epoch}
    PROVE  GrantVal(h)
  <1>1. /\ h.kind = "grant" /\ h.gen = g.gen + 1 /\ h.epoch = g.epoch + 1
        /\ h.retained = g.retained \cup {g.epoch}
    OBVIOUS
  <1>2. Cardinality(h.retained) <= MaxRetained
    <2>1. g.epoch \notin g.retained
      BY DEF GrantVal
    <2>2. Cardinality(h.retained) = Cardinality(g.retained) + 1
      BY <1>1, <2>1, RetainedFinite, FS_AddElement
    <2> QED BY <2>2, RetainedFinite, SkBounds
  <1>3. PICK e : e = g.epoch
    OBVIOUS
  <1>4. e \in Nat \ {0} /\ g.retained \subseteq 1 .. (e - 1) /\ g.gen \in Nat
    BY <1>3 DEF GrantVal
  <1>5. h.retained = g.retained \cup {e} /\ h.epoch = e + 1
    BY <1>1, <1>3
  <1>6. \A x \in h.retained : x \in 1 .. (e + 1 - 1)
    BY <1>4, <1>5
  <1>7. h.epoch \in Nat \ {0} /\ h.gen \in Nat
    BY <1>1, <1>4, <1>5
  <1>8. h.retained \subseteq 1 .. (h.epoch - 1)
    BY <1>5, <1>6
  <1> QED BY <1>1, <1>2, <1>7, <1>8 DEF GrantVal

LEMMA FirstVal ==
    ASSUME NEW g, g.kind = "grant", g.gen = 1, g.epoch = 1, g.retained = {}
    PROVE  GrantVal(g)
  <1>1. /\ g.kind = "grant" /\ g.gen = 1 /\ g.epoch = 1 /\ g.retained = {}
    OBVIOUS
  <1>2. Cardinality(g.retained) = 0
    BY <1>1, FS_EmptySet
  <1>3. Cardinality(g.retained) <= MaxRetained
    BY <1>2, SkBounds
  <1>4. g.retained \subseteq 1 .. (g.epoch - 1)
    BY <1>1
  <1> QED BY <1>1, <1>3, <1>4 DEF GrantVal

LEMMA ReadRefuses == \A s : ReadRefusal(s) # "none"
  BY DEF ReadRefusal

LEMMA WriteRefuses == \A s : s # "ok" => WriteRefusal(s) # "none"
  <1> SUFFICES ASSUME NEW s PROVE WriteRefusal(s) # "none"
    OBVIOUS
  <1>1. CASE s \in {"conflict", "retained"}
    BY <1>1 DEF WriteRefusal
  <1>2. CASE s \notin {"conflict", "retained"}
    BY <1>2 DEF WriteRefusal
  <1> QED BY <1>1, <1>2

(***************************************************************************)
(* One handler after another.                                              *)
(***************************************************************************)
(* The sweep of an erasure goes on, or the custodians are told.            *)
LEMMA EraseNextInv ==
    ASSUME IInv, NEW i \in Going, NEW o, NEW takes, Same(o, ops[i]), ~Proven(o.body),
           o.out.kind \notin LinkKinds, EraseNext(i, o), Rest(takes), Quiet(i, takes)
    PROVE  IInv'
  <1>0. ~Proven(o.body)
    OBVIOUS
  <1>1. CASE o.cursor <= o.epoch + 1
    <2>1. Ask(i, o, "erase_get_set", Get(SetKey(o.cursor)))
      BY <1>1 DEF EraseNext
    <2> PICK n : n = [o EXCEPT !.stage = "erase_get_set"]
      OBVIOUS
    <2>2. n.stage = "erase_get_set" /\ n.body = o.body /\ n.out = o.out
      BY DEF Same, IsOp
    <2>3. Good(i, n) /\ Holds(i, n)
      BY <1>0, <2>2 DEF Good, Holds, ControlOK, ControlStages
    <2>4. Question([corr |-> i, q |-> Get(SetKey(o.cursor))])
      BY DEF Question, Get
    <2>5. Asked(i, n, Get(SetKey(o.cursor)))
      BY <2>2 DEF Asked
    <2> QED BY <2>1, <2>3, <2>4, <2>5, AskInv DEF CustodianStages
  <1>2. CASE ~(o.cursor <= o.epoch + 1)
    <2>1. PICK p : p = [o EXCEPT !.asked = {}, !.answered = {}]
      OBVIOUS
    <2>2. PICK a : a = [o EXCEPT !.asked = {}]
      OBVIOUS
    <2>3. IsOp(a) /\ a.body = o.body /\ a.prev = o.prev /\ a.born = o.born
          /\ a.refusal = o.refusal /\ a.out = o.out
      BY <2>2 DEF Same, IsOp
    <2>4. p = [a EXCEPT !.answered = {}]
      BY <2>1, <2>2
    <2>5. IsOp(p) /\ p.body = a.body /\ p.prev = a.prev /\ p.born = a.born
          /\ p.refusal = a.refusal /\ p.out = a.out
      BY <2>3, <2>4 DEF IsOp
    <2>6. Order(i, p, "erase_custodians", Custodians)
      BY <1>2, <2>1 DEF EraseNext
    <2>7. PICK n : n = [p EXCEPT !.stage = "erase_custodians", !.asked = @ \cup Custodians]
      OBVIOUS
    <2>8. n.stage = "erase_custodians" /\ n.body = p.body /\ n.out = p.out
      BY <2>5, <2>7 DEF IsOp
    <2>9. Good(i, n) /\ Holds(i, n)
      BY <1>0, <2>3, <2>5, <2>8 DEF Good, Holds, ControlOK, ControlStages
    <2>10. Same(p, ops[i])
      BY <2>3, <2>5 DEF Same
    <2> QED BY <2>6, <2>7, <2>9, <2>10, OrderInv DEF CustodianStages
  <1> QED BY <1>1, <1>2

(* What is known once the grant is read: it is m.val, read for p.          *)
GrantRead(i, o) ==
    /\ ~Proven(o.body) => o.out.kind \notin LinkKinds
    /\ GrantVal(o.grant) /\ Since(o.born, o.grant)
    /\ o.grant.kind = "grant" \/ o.body.code = "erase"

LEMMA StartEraseInv ==
    ASSUME IInv, NEW i \in Going, NEW o, NEW takes, Same(o, ops[i]), o.body.code = "erase",
           GrantRead(i, o), StartErase(i, o), Rest(takes), Quiet(i, takes)
    PROVE  IInv'
  <1>0. i \in Live /\ ~Proven(o.body)
    BY DEF Going, Proven
  <1> DEFINE g == o.grant
             out == IF g.kind = "erasure" THEN g ELSE Erasure(g)
  <1>1. CASE o.body.pins # 0
    <2>1. Finish(i, o, "epoch_pinned")
      BY <1>1 DEF StartErase
    <2> QED BY <1>0, <2>1, RefuseInv
  <1>2. CASE o.body.pins = 0 /\ o.body.epoch # g.epoch
    <2>1. Finish(i, o, "wrong_epoch")
      BY <1>2 DEF StartErase
    <2> QED BY <1>0, <2>1, RefuseInv
  <1>3. PICK a : a = [o EXCEPT !.epoch = g.epoch]
    OBVIOUS
  <1>4. PICK e : e = [a EXCEPT !.out = out]
    OBVIOUS
  <1>5. IsOp(a) /\ a.body = o.body /\ a.prev = o.prev /\ a.born = o.born /\ a.refusal = o.refusal
        /\ a.grant = o.grant
    BY <1>3 DEF Same, IsOp
  <1>6. IsOp(e) /\ e.body = a.body /\ e.prev = a.prev /\ e.born = a.born
        /\ e.refusal = a.refusal /\ e.grant = a.grant /\ e.out = out
    BY <1>4, <1>5 DEF IsOp
  <1>7. e = [o EXCEPT !.epoch = g.epoch, !.out = out]
    BY <1>3, <1>4
  <1>8. out.kind = "erasure"
    BY ErasureVal DEF GrantRead
  <1>9. CASE o.body.pins = 0 /\ o.body.epoch = g.epoch /\ g.kind = "erasure"
    <2>1. PICK x : x = [e EXCEPT !.cursor = 1]
      OBVIOUS
    <2>2. IsOp(x) /\ x.body = e.body /\ x.prev = e.prev /\ x.born = e.born
          /\ x.refusal = e.refusal /\ x.out = e.out
      BY <1>6, <2>1 DEF IsOp
    <2>3. EraseNext(i, x)
      BY <1>7, <1>9, <2>1 DEF StartErase
    <2>4. Same(x, ops[i]) /\ ~Proven(x.body) /\ x.out.kind \notin LinkKinds
      BY <1>0, <1>5, <1>6, <1>8, <2>2 DEF Same, LinkKinds
    <2> QED BY <2>3, <2>4, EraseNextInv
  <1>10. CASE o.body.pins = 0 /\ o.body.epoch = g.epoch /\ g.kind # "erasure"
    <2>1. PICK q : q = CompareAndSwap(GrantKey, g, e.out)
      OBVIOUS
    <2>2. Ask(i, e, "cas_grant", q)
      BY <1>7, <1>10, <2>1 DEF StartErase
    <2>3. PICK n : n = [e EXCEPT !.stage = "cas_grant"]
      OBVIOUS
    <2>4. n.stage = "cas_grant" /\ n.body = e.body /\ n.out = e.out
      BY <1>6, <2>3 DEF IsOp
    <2>5. Good(i, n) /\ Holds(i, n)
      BY <1>0, <1>5, <1>6, <1>8, <2>4 DEF Good, Holds, ControlOK, ControlStages, LinkKinds
    <2>6. Asked(i, n, q)
      BY <2>4 DEF Asked
    <2>7. q.op = "cas" /\ q.key = GrantKey /\ q.old = g /\ q.new = Erasure(g)
      BY <1>6, <1>10, <2>1 DEF CompareAndSwap
    <2>8. g.kind = "grant"
      BY <1>10 DEF GrantRead, GrantVal
    <2>9. WritesGrant(q)
      BY <2>7, <2>8, ErasureVal DEF WritesGrant, GrantRead
    <2>10. Question([corr |-> i, q |-> q])
      BY <2>7, <2>9 DEF Question
    <2>11. Same(e, ops[i])
      BY <1>5, <1>6 DEF Same
    <2> QED BY <2>2, <2>3, <2>5, <2>6, <2>10, <2>11, AskInv DEF CustodianStages
  <1> QED BY <1>1, <1>2, <1>9, <1>10

LEMMA AfterGrantInv ==
    ASSUME IInv, NEW i \in Going, NEW o, NEW takes, Same(o, ops[i]),
           GrantRead(i, o), AfterGrant(i, o), Rest(takes), Quiet(i, takes), i \in Ids,
           Proven(o.body) =>
              /\ o.body.code = "renew" => o.prev \in Issued
              /\ o.out = Nothing /\ o.envs = {}
    PROVE  IInv'
  <1> DEFINE b == o.body
             g == o.grant
  <1>0. i \in Live /\ (Proven(b) \/ o.out.kind \notin LinkKinds)
    BY DEF Going, GrantRead
  <1>1. CASE Proven(b)
    <2>1. CASE Admits(g, b.epoch)
      <3>1. Ask(i, o, "get_device", Get(DeviceKey(b.device)))
        BY <1>1, <2>1 DEF AfterGrant, Proven
      <3>2. PICK n : n = [o EXCEPT !.stage = "get_device"]
        OBVIOUS
      <3>3. /\ n.stage = "get_device" /\ n.body = b /\ n.out = o.out /\ n.prev = o.prev
            /\ n.envs = o.envs /\ n.grant = g /\ n.born = o.born
        BY <3>2 DEF Same, IsOp
      <3>4. ReleaseOK(i, n)
        BY <1>1, <2>1, <3>3 DEF ReleaseOK, GrantRead, ProvenStages, LateStages, Nothing, LinkKinds
      <3>5. Good(i, n) /\ Holds(i, n)
        BY <1>1, <3>3, <3>4 DEF Good, Holds, LateStages
      <3>6. Asked(i, n, Get(DeviceKey(b.device)))
        BY <3>3 DEF Asked
      <3>7. Question([corr |-> i, q |-> Get(DeviceKey(b.device))])
        BY DEF Question, Get
      <3> QED BY <3>1, <3>2, <3>5, <3>6, <3>7, AskInv DEF CustodianStages
    <2>2. CASE ~Admits(g, b.epoch)
      <3>1. Finish(i, o, "wrong_epoch")
        BY <1>1, <2>2 DEF AfterGrant, Proven
      <3> QED BY <1>0, <3>1, RefuseInv
    <2> QED BY <2>1, <2>2
  <1>2. CASE b.code = "erase"
    <2>1. StartErase(i, o)
      BY <1>2 DEF AfterGrant, Proven
    <2> QED BY <1>2, <2>1, StartEraseInv
  <1>3. CASE b.code = "record_set"
    <2>1. \/ Ask(i, o, "get_set", Get(SetKey(b.epoch)))
          \/ Finish(i, o, "wrong_epoch")
      BY <1>3 DEF AfterGrant, Proven
    <2>2. CASE Ask(i, o, "get_set", Get(SetKey(b.epoch)))
      <3>2. PICK n : n = [o EXCEPT !.stage = "get_set"]
        OBVIOUS
      <3>3. n.stage = "get_set" /\ n.body = b /\ n.out = o.out
        BY <3>2 DEF Same, IsOp
      <3>5. Good(i, n) /\ Holds(i, n)
        BY <1>0, <1>3, <3>3 DEF Good, Holds, ControlOK, ControlStages, Proven
      <3>6. Asked(i, n, Get(SetKey(b.epoch)))
        BY <3>3 DEF Asked
      <3>7. Question([corr |-> i, q |-> Get(SetKey(b.epoch))])
        BY DEF Question, Get
      <3> QED BY <2>2, <3>2, <3>5, <3>6, <3>7, AskInv DEF CustodianStages
    <2> QED BY <1>0, <2>1, <2>2, RefuseInv
  <1>4. CASE b.code = "rotate_key"
    <2>1. CASE Cardinality(g.retained) >= MaxRetained
      <3>1. Finish(i, o, "retained_full")
        BY <1>4, <2>1 DEF AfterGrant, Proven
      <3> QED BY <1>0, <3>1, RefuseInv
    <2>2. CASE ~(Cardinality(g.retained) >= MaxRetained)
      <3>1. Ask(i, o, "get_current_set", Get(SetKey(g.epoch)))
        BY <1>4, <2>2 DEF AfterGrant, Proven
      <3>2. PICK n : n = [o EXCEPT !.stage = "get_current_set"]
        OBVIOUS
      <3>3. n.stage = "get_current_set" /\ n.body = b /\ n.out = o.out /\ n.grant = g
        BY <3>2 DEF Same, IsOp
      <3>4. Cardinality(g.retained) < MaxRetained
        BY <2>2, RetainedFinite, SkBounds DEF GrantRead
      <3>5. Good(i, n) /\ Holds(i, n)
        BY <1>0, <1>4, <3>3, <3>4 DEF Good, Holds, ControlOK, ControlStages, Proven, GrantRead
      <3>6. Asked(i, n, Get(SetKey(g.epoch)))
        BY <3>3 DEF Asked
      <3>7. Question([corr |-> i, q |-> Get(SetKey(g.epoch))])
        BY DEF Question, Get
      <3> QED BY <3>1, <3>2, <3>5, <3>6, <3>7, AskInv DEF CustodianStages
    <2> QED BY <2>1, <2>2
  <1>5. CASE b.code = "authorise"
    <2>1. CASE Admits(g, b.epoch)
      <3>1. PICK t : t = Ticket(i, b.epoch, b.device, FALSE)
        OBVIOUS
      <3>2. PICK x : x = [o EXCEPT !.out = t]
        OBVIOUS
      <3>3. IsOp(x) /\ Same(x, ops[i]) /\ x.out = t /\ x.body = b
        BY <3>2 DEF Same, IsOp
      <3>4. PICK q : q = PutIfAbsent(TicketKey(i), t)
        OBVIOUS
      <3>5. Ask(i, x, "put_ticket", q)
        BY <1>5, <2>1, <3>1, <3>2, <3>4 DEF AfterGrant, Proven
      <3>6. PICK n : n = [x EXCEPT !.stage = "put_ticket"]
        OBVIOUS
      <3>7. n.stage = "put_ticket" /\ n.body = b /\ n.out = t
        BY <3>3, <3>6 DEF IsOp
      <3>8. t.kind = "ticket" /\ IsTicket(i, t)
        BY <3>1 DEF Ticket, IsTicket
      <3>9. Good(i, n) /\ Holds(i, n)
        BY <1>5, <3>7, <3>8 DEF Good, Holds, ControlOK, ControlStages, Proven, LinkKinds
      <3>10. Asked(i, n, q)
        BY <3>7 DEF Asked
      <3>11. q.op = "put" /\ q.key = TicketKey(i) /\ q.old = Nothing /\ q.new = t
        BY <3>4 DEF PutIfAbsent
      <3>12. Question([corr |-> i, q |-> q])
        BY <3>8, <3>11 DEF Question, WritesTicket
      <3> QED BY <3>3, <3>5, <3>6, <3>9, <3>10, <3>12, AskInv DEF CustodianStages
    <2>2. CASE ~Admits(g, b.epoch)
      <3>1. Finish(i, o, "wrong_epoch")
        BY <1>5, <2>2 DEF AfterGrant, Proven
      <3> QED BY <1>0, <3>1, RefuseInv
    <2> QED BY <2>1, <2>2
  <1>6. CASE ~Proven(b) /\ b.code \notin {"erase", "record_set", "rotate_key", "authorise"}
    <2>1. CASE ChangeRefusal(b, g) # "none"
      <3>1. Finish(i, o, ChangeRefusal(b, g))
        BY <1>6, <2>1 DEF AfterGrant
      <3> QED BY <1>0, <2>1, <3>1, RefuseInv
    <2>2. CASE ChangeRefusal(b, g) = "none"
      <3>1. PICK new : new = Changed(b, g)
        OBVIOUS
      <3>2. PICK x : x = [o EXCEPT !.out = new]
        OBVIOUS
      <3>3. IsOp(x) /\ Same(x, ops[i]) /\ x.out = new /\ x.body = b
        BY <3>2 DEF Same, IsOp
      <3>4. PICK q : q = CompareAndSwap(GrantKey, g, new)
        OBVIOUS
      <3>5. Ask(i, x, "cas_grant", q)
        BY <1>6, <2>2, <3>1, <3>2, <3>4 DEF AfterGrant
      <3>6. PICK n : n = [x EXCEPT !.stage = "cas_grant"]
        OBVIOUS
      <3>7. n.stage = "cas_grant" /\ n.body = b /\ n.out = new
        BY <3>3, <3>6 DEF IsOp
      <3>8. GrantVal(new) /\ new.kind = "grant" /\ new.gen = g.gen + 1 /\ new.epoch = g.epoch
        BY <3>1, ChangedVal DEF GrantRead
      <3>9. Good(i, n) /\ Holds(i, n)
        BY <1>6, <3>7, <3>8 DEF Good, Holds, ControlOK, ControlStages, LinkKinds
      <3>10. Asked(i, n, q)
        BY <3>7 DEF Asked
      <3>11. q.op = "cas" /\ q.key = GrantKey /\ q.old = g /\ q.new = new
        BY <3>4 DEF CompareAndSwap
      <3>12. WritesGrant(q)
        BY <1>6, <3>8, <3>11 DEF WritesGrant, GrantRead
      <3>13. Question([corr |-> i, q |-> q])
        BY <3>11, <3>12 DEF Question
      <3> QED BY <3>3, <3>5, <3>6, <3>9, <3>10, <3>13, AskInv DEF CustodianStages
    <2> QED BY <2>1, <2>2
  <1> QED BY <1>1, <1>2, <1>3, <1>4, <1>5, <1>6

LEMMA GetGrantInv == ASSUME IInv, NEW m \in mail, GetGrant(m) PROVE IInv'
  <1> PICK i : i = m.corr
    OBVIOUS
  <1> PICK p : p = ops[i]
    OBVIOUS
  <1>1. p.stage = "get_grant" /\ Rest({m})
    BY TakenRests DEF GetGrant, At
  <1>2. /\ i \in Live /\ i \in Going /\ i \in Ids /\ Quiet(i, {m}) /\ Good(i, p)
        /\ Same(p, ops[i]) /\ IsOp(p) /\ (m.status = "ok" => Tells(i, p, m.val))
    BY <1>1, TakesItsAnswer
  <1>3. PICK o : o = [p EXCEPT !.grant = m.val]
    OBVIOUS
  <1>4. IsOp(o) /\ Same(o, p) /\ o.grant = m.val /\ o.out = p.out /\ o.envs = p.envs
    BY <1>2, <1>3 DEF Same, IsOp
  <1>5. CASE m.status # "ok"
    <2>1. Finish(i, p, ReadRefusal(m.status))
      BY <1>5 DEF GetGrant
    <2> QED BY <1>1, <1>2, <2>1, ReadRefuses, RefuseInv
  <1>6. CASE m.status = "ok" /\ m.val.kind = "erasure" /\ o.body.code # "erase"
    <2>1. Finish(i, o, "erased")
      BY <1>3, <1>6 DEF GetGrant
    <2> QED BY <1>1, <1>2, <1>4, <2>1, RefuseInv
  <1>7. CASE m.status = "ok" /\ ~(m.val.kind = "erasure" /\ o.body.code # "erase")
    <2>1. AfterGrant(i, o)
      BY <1>3, <1>7 DEF GetGrant
    <2>2. GrantVal(m.val) /\ Since(p.born, m.val)
      BY <1>1, <1>2, <1>7 DEF Tells
    <2>3. GrantRead(i, o)
      BY <1>2, <1>4, <1>7, <2>2 DEF GrantRead, Good, ControlOK, Same, GrantVal
    <2>4. Proven(o.body) => /\ o.body.code = "renew" => o.prev \in Issued
                            /\ o.out = Nothing /\ o.envs = {}
      BY <1>1, <1>2, <1>4 DEF Good, ReleaseOK, LateStages, Same
    <2> QED BY <1>1, <1>2, <1>4, <2>1, <2>3, <2>4, AfterGrantInv
  <1> QED BY <1>5, <1>6, <1>7

LEMMA GetCurrentSetInv == ASSUME IInv, NEW m \in mail, GetCurrentSet(m) PROVE IInv'
  <1> PICK i : i = m.corr
    OBVIOUS
  <1> PICK p : p = ops[i]
    OBVIOUS
  <1>1. p.stage = "get_current_set" /\ Rest({m})
    BY TakenRests DEF GetCurrentSet, At
  <1>2. /\ i \in Live /\ i \in Going /\ i \in Ids /\ Quiet(i, {m}) /\ Good(i, p) /\ OpOK(i, p)
        /\ Same(p, ops[i]) /\ IsOp(p) /\ (m.status = "ok" => Tells(i, p, m.val) /\ Told(i))
    BY <1>1, TakesItsAnswer
  <1>3. ~Proven(p.body) /\ ControlOK(i, p)
    BY <1>1, <1>2 DEF Good, ReleaseOK, ProvenStages
  <1>4. CASE m.status = "not_found" \/ (m.status = "ok" /\ m.val.kind # "set")
    <2>1. Finish(i, p, "rotation_in_progress")
      BY <1>4 DEF GetCurrentSet
    <2> QED BY <1>1, <1>2, <2>1, RefuseInv
  <1>5. CASE m.status \notin {"ok", "not_found"}
    <2>1. Finish(i, p, ReadRefusal(m.status))
      BY <1>5 DEF GetCurrentSet
    <2> QED BY <1>1, <1>2, <2>1, ReadRefuses, RefuseInv
  <1>6. CASE m.status = "ok" /\ m.val.kind = "set"
    <2> PICK g : g = p.grant
      OBVIOUS
    <2>1. PICK c : c = SetRec("creation", g.epoch + 1, i)
      OBVIOUS
    <2>2. PICK h : h = GrantRec(g.epoch + 1, g.gen + 1, g.device, g.revoked,
                                g.retained \cup {g.epoch}, i)
      OBVIOUS
    <2>3. PICK q : q = PutIfAbsent(SetKey(g.epoch + 1), c)
      OBVIOUS
    <2>4. PICK o : o = [p EXCEPT !.out = c, !.aux = h, !.epoch = g.epoch + 1]
      OBVIOUS
    <2>5. Ask(i, o, "put_set", q)
      BY <1>6, <2>1, <2>2, <2>3, <2>4 DEF GetCurrentSet
    <2>6. PICK a : a = [p EXCEPT !.out = c]
      OBVIOUS
    <2>7. PICK b : b = [a EXCEPT !.aux = h]
      OBVIOUS
    <2>8. o = [b EXCEPT !.epoch = g.epoch + 1]
      BY <2>4, <2>6, <2>7
    <2>9. /\ IsOp(a) /\ a.body = p.body /\ a.prev = p.prev /\ a.born = p.born
          /\ a.refusal = p.refusal /\ a.out = c /\ a.grant = g
      BY <1>2, <2>6 DEF IsOp
    <2>10. /\ IsOp(b) /\ b.body = a.body /\ b.prev = a.prev /\ b.born = a.born
           /\ b.refusal = a.refusal /\ b.out = a.out /\ b.grant = a.grant /\ b.aux = h
      BY <2>7, <2>9 DEF IsOp
    <2>11. /\ IsOp(o) /\ o.body = b.body /\ o.prev = b.prev /\ o.born = b.born
           /\ o.refusal = b.refusal /\ o.out = b.out /\ o.grant = b.grant /\ o.aux = b.aux
      BY <2>8, <2>10 DEF IsOp
    <2>12. PICK n : n = [o EXCEPT !.stage = "put_set"]
      OBVIOUS
    <2>13. /\ n.stage = "put_set" /\ n.body = p.body /\ n.out = c /\ n.grant = g /\ n.aux = h
      BY <2>9, <2>10, <2>11, <2>12 DEF IsOp
    <2>14. c.kind = "creation"
      BY <2>1 DEF SetRec
    <2>15. GrantVal(g) /\ g.kind = "grant" /\ Cardinality(g.retained) < MaxRetained
      BY <1>1, <1>3 DEF ControlOK
    <2>16. /\ h.kind = "grant" /\ h.gen = g.gen + 1 /\ h.epoch = g.epoch + 1
           /\ h.retained = g.retained \cup {g.epoch}
      BY <2>2 DEF GrantRec
    <2>17. GrantVal(h)
      BY <2>15, <2>16, RotatedVal
    <2>18. Good(i, n) /\ Holds(i, n)
      BY <1>3, <2>13, <2>14, <2>15, <2>16, <2>17 DEF Good, Holds, ControlOK, ControlStages, LinkKinds
    <2>19. Asked(i, n, q)
      BY <2>13 DEF Asked
    <2>20. Question([corr |-> i, q |-> q])
      BY <2>3, KeysAreApart DEF Question, PutIfAbsent
    <2>21. Same(o, ops[i])
      BY <2>9, <2>10, <2>11 DEF Same
    <2> QED BY <1>1, <1>2, <2>5, <2>12, <2>18, <2>19, <2>20, <2>21, AskInv DEF CustodianStages
  <1> QED BY <1>4, <1>5, <1>6

LEMMA EraseGetSetInv == ASSUME IInv, NEW m \in mail, EraseGetSet(m) PROVE IInv'
  <1> PICK i : i = m.corr
    OBVIOUS
  <1> PICK p : p = ops[i]
    OBVIOUS
  <1>1. p.stage = "erase_get_set" /\ Rest({m})
    BY TakenRests DEF EraseGetSet, At
  <1>2. /\ i \in Live /\ i \in Going /\ i \in Ids /\ Quiet(i, {m}) /\ Good(i, p) /\ OpOK(i, p)
        /\ Same(p, ops[i]) /\ IsOp(p) /\ (m.status = "ok" => Tells(i, p, m.val) /\ Told(i))
    BY <1>1, TakesItsAnswer
  <1>3. ~Proven(p.body) /\ ControlOK(i, p)
    BY <1>1, <1>2 DEF Good, ReleaseOK, ProvenStages
  <1>4. CASE m.status = "not_found"
    <2>1. PICK o : o = [p EXCEPT !.cursor = @ + 1]
      OBVIOUS
    <2>2. IsOp(o) /\ Same(o, ops[i]) /\ o.body = p.body /\ o.out = p.out
      BY <1>2, <2>1 DEF Same, IsOp
    <2>3. EraseNext(i, o)
      BY <1>4, <2>1 DEF EraseGetSet
    <2>4. ~Proven(o.body) /\ o.out.kind \notin LinkKinds
      BY <1>3, <2>2 DEF ControlOK
    <2> QED BY <1>1, <1>2, <2>2, <2>3, <2>4, EraseNextInv
  <1>5. CASE m.status \notin {"ok", "not_found"}
    <2>1. Finish(i, p, ReadRefusal(m.status))
      BY <1>5 DEF EraseGetSet
    <2> QED BY <1>1, <1>2, <2>1, ReadRefuses, RefuseInv
  <1>6. CASE m.status = "ok"
    <2>1. PICK o : o = [p EXCEPT !.set = m.val]
      OBVIOUS
    <2>2. IsOp(o) /\ Same(o, ops[i]) /\ o.body = p.body /\ o.out = p.out
      BY <1>2, <2>1 DEF Same, IsOp
    <2>3. PICK q : q = Delete(SetKey(p.cursor), m.val)
      OBVIOUS
    <2>4. Ask(i, o, "erase_delete_set", q)
      BY <1>6, <2>1, <2>3 DEF EraseGetSet
    <2>5. PICK n : n = [o EXCEPT !.stage = "erase_delete_set"]
      OBVIOUS
    <2>6. n.stage = "erase_delete_set" /\ n.body = p.body /\ n.out = p.out
      BY <2>2, <2>5 DEF IsOp
    <2>7. Good(i, n) /\ Holds(i, n)
      BY <1>3, <2>6 DEF Good, Holds, ControlOK, ControlStages
    <2>8. Asked(i, n, q)
      BY <2>6 DEF Asked
    <2>9. Question([corr |-> i, q |-> q])
      BY <2>3, KeysAreApart DEF Question, Delete
    <2> QED BY <1>1, <1>2, <2>2, <2>4, <2>5, <2>7, <2>8, <2>9, AskInv DEF CustodianStages
  <1> QED BY <1>4, <1>5, <1>6

LEMMA EraseDeleteSetInv == ASSUME IInv, NEW m \in mail, EraseDeleteSet(m) PROVE IInv'
  <1> PICK i : i = m.corr
    OBVIOUS
  <1> PICK p : p = ops[i]
    OBVIOUS
  <1>1. p.stage = "erase_delete_set" /\ Rest({m})
    BY TakenRests DEF EraseDeleteSet, At
  <1>2. /\ i \in Live /\ i \in Going /\ i \in Ids /\ Quiet(i, {m}) /\ Good(i, p) /\ OpOK(i, p)
        /\ Same(p, ops[i]) /\ IsOp(p) /\ (m.status = "ok" => Tells(i, p, m.val) /\ Told(i))
    BY <1>1, TakesItsAnswer
  <1>3. ~Proven(p.body) /\ ControlOK(i, p)
    BY <1>1, <1>2 DEF Good, ReleaseOK, ProvenStages
  <1>4. CASE m.status \in {"ok", "not_found"}
    <2>1. PICK o : o = [p EXCEPT !.cursor = @ + 1]
      OBVIOUS
    <2>2. IsOp(o) /\ Same(o, ops[i]) /\ o.body = p.body /\ o.out = p.out
      BY <1>2, <2>1 DEF Same, IsOp
    <2>3. EraseNext(i, o)
      BY <1>4, <2>1 DEF EraseDeleteSet
    <2>4. ~Proven(o.body) /\ o.out.kind \notin LinkKinds
      BY <1>3, <2>2 DEF ControlOK
    <2> QED BY <1>1, <1>2, <2>2, <2>3, <2>4, EraseNextInv
  <1>5. CASE m.status \notin {"ok", "not_found"}
    <2>1. Finish(i, p, WriteRefusal(m.status))
      BY <1>5 DEF EraseDeleteSet
    <2> QED BY <1>1, <1>2, <1>5, <2>1, WriteRefuses, RefuseInv
  <1> QED BY <1>4, <1>5

LEMMA GetDeviceInv == ASSUME IInv, NEW m \in mail, GetDevice(m) PROVE IInv'
  <1> PICK i : i = m.corr
    OBVIOUS
  <1> PICK p : p = ops[i]
    OBVIOUS
  <1>1. p.stage = "get_device" /\ Rest({m})
    BY TakenRests DEF GetDevice, At
  <1>2. /\ i \in Live /\ i \in Going /\ i \in Ids /\ Quiet(i, {m}) /\ Good(i, p) /\ OpOK(i, p)
        /\ Same(p, ops[i]) /\ IsOp(p) /\ (m.status = "ok" => Tells(i, p, m.val) /\ Told(i))
    BY <1>1, TakesItsAnswer
  <1>3. Proven(p.body) /\ ReleaseOK(i, p) /\ p.out = Nothing /\ p.envs = {}
    BY <1>1, <1>2 DEF Good, ReleaseOK, ControlOK, ControlStages, LateStages
  <1>4. CASE m.status = "not_found"
    <2>1. Finish(i, p, "device_unknown")
      BY <1>4 DEF GetDevice
    <2> QED BY <1>1, <1>2, <2>1, RefuseInv
  <1>5. CASE m.status \notin {"ok", "not_found"}
    <2>1. Finish(i, p, ReadRefusal(m.status))
      BY <1>5 DEF GetDevice
    <2> QED BY <1>1, <1>2, <2>1, ReadRefuses, RefuseInv
  <1>6. CASE m.status = "ok"
    <2>1. PICK o : o = [p EXCEPT !.active = m.val.active]
      OBVIOUS
    <2>2. /\ IsOp(o) /\ Same(o, ops[i]) /\ o.body = p.body /\ o.out = p.out /\ o.envs = p.envs
          /\ o.prev = p.prev /\ o.grant = p.grant /\ o.born = p.born
      BY <1>2, <2>1 DEF Same, IsOp
    <2>3. \E stage, q : /\ Ask(i, o, stage, q) /\ q.op = "get"
                        /\ \/ p.body.code = "recover" /\ stage = "get_ticket"
                              /\ q = Get(TicketKey(p.body.ticket))
                           \/ p.body.code = "renew" /\ stage = "get_chain"
                           \/ p.body.code \notin {"recover", "renew"} /\ stage = "get_set"
      <3>1. CASE p.body.code = "recover"
        BY <1>6, <2>1, <3>1 DEF GetDevice, Get
      <3>2. CASE p.body.code = "renew"
        BY <1>6, <2>1, <3>2 DEF GetDevice, Get
      <3>3. CASE p.body.code \notin {"recover", "renew"}
        BY <1>6, <2>1, <3>3 DEF GetDevice, Get
      <3> QED BY <3>1, <3>2, <3>3
    <2>4. PICK stage, q : /\ Ask(i, o, stage, q) /\ q.op = "get"
                          /\ \/ p.body.code = "recover" /\ stage = "get_ticket"
                                /\ q = Get(TicketKey(p.body.ticket))
                             \/ p.body.code = "renew" /\ stage = "get_chain"
                             \/ p.body.code \notin {"recover", "renew"} /\ stage = "get_set"
      BY <2>3
    <2>5. PICK n : n = [o EXCEPT !.stage = stage]
      OBVIOUS
    <2>6. /\ n.stage = stage /\ n.body = p.body /\ n.out = p.out /\ n.envs = p.envs
          /\ n.prev = p.prev /\ n.grant = p.grant /\ n.born = p.born
      BY <2>2, <2>5 DEF IsOp
    <2>7. ReleaseOK(i, n)
      BY <1>1, <1>3, <2>4, <2>6 DEF ReleaseOK, ProvenStages, LateStages, Nothing, LinkKinds
    <2>8. Good(i, n) /\ Holds(i, n)
      BY <1>3, <2>4, <2>6, <2>7 DEF Good, Holds, LateStages
    <2>9. Asked(i, n, q)
      BY <2>4, <2>6 DEF Asked
    <2>10. Question([corr |-> i, q |-> q])
      BY <2>4 DEF Question
    <2>11. stage \notin CustodianStages \cup {"free"}
      BY <2>4 DEF CustodianStages
    <2> QED BY <1>1, <1>2, <2>2, <2>4, <2>5, <2>8, <2>9, <2>10, <2>11, AskInv
  <1> QED BY <1>4, <1>5, <1>6

LEMMA GetTicketInv == ASSUME IInv, NEW m \in mail, GetTicket(m) PROVE IInv'
  <1> PICK i : i = m.corr
    OBVIOUS
  <1> PICK p : p = ops[i]
    OBVIOUS
  <1>1. p.stage = "get_ticket" /\ Rest({m})
    BY TakenRests DEF GetTicket, At
  <1>2. /\ i \in Live /\ i \in Going /\ i \in Ids /\ Quiet(i, {m}) /\ Good(i, p) /\ OpOK(i, p)
        /\ Same(p, ops[i]) /\ IsOp(p) /\ (m.status = "ok" => Tells(i, p, m.val) /\ Told(i))
    BY <1>1, TakesItsAnswer
  <1>3. /\ Proven(p.body) /\ ReleaseOK(i, p) /\ p.out = Nothing /\ p.envs = {}
        /\ p.body.code = "recover"
    BY <1>1, <1>2 DEF Good, ReleaseOK, ControlOK, ControlStages, LateStages
  <1>4. CASE m.status = "not_found"
    <2>1. Finish(i, p, "no_recovery_ticket")
      BY <1>4 DEF GetTicket
    <2> QED BY <1>1, <1>2, <2>1, RefuseInv
  <1>5. CASE m.status \notin {"ok", "not_found"}
    <2>1. Finish(i, p, ReadRefusal(m.status))
      BY <1>5 DEF GetTicket
    <2> QED BY <1>1, <1>2, <2>1, ReadRefuses, RefuseInv
  <1>6. CASE m.status = "ok"
    <2>1. PICK o : o = [p EXCEPT !.ticket = m.val]
      OBVIOUS
    <2>2. /\ IsOp(o) /\ Same(o, ops[i]) /\ o.body = p.body /\ o.out = p.out /\ o.envs = p.envs
          /\ o.prev = p.prev /\ o.grant = p.grant /\ o.born = p.born /\ o.ticket = m.val
      BY <1>2, <2>1 DEF Same, IsOp
    <2>3. PICK q : q = Get(SetKey(p.body.epoch))
      OBVIOUS
    <2>4. Ask(i, o, "get_set", q)
      BY <1>6, <2>1, <2>2, <2>3 DEF GetTicket
    <2>5. PICK n : n = [o EXCEPT !.stage = "get_set"]
      OBVIOUS
    <2>6. /\ n.stage = "get_set" /\ n.body = p.body /\ n.out = p.out /\ n.envs = p.envs
          /\ n.prev = p.prev /\ n.grant = p.grant /\ n.born = p.born /\ n.ticket = m.val
      BY <2>2, <2>5 DEF IsOp
    <2>7. IsTicket(p.body.ticket, m.val)
      BY <1>1, <1>2, <1>6 DEF Tells
    <2>8. ReleaseOK(i, n)
      BY <1>1, <1>3, <2>6, <2>7 DEF ReleaseOK, ProvenStages, LateStages, Nothing, LinkKinds
    <2>9. Good(i, n) /\ Holds(i, n)
      BY <1>3, <2>6, <2>8 DEF Good, Holds, LateStages
    <2>10. Asked(i, n, q)
      BY <2>6 DEF Asked
    <2>11. Question([corr |-> i, q |-> q])
      BY <2>3 DEF Question, Get
    <2> QED BY <1>1, <1>2, <2>2, <2>4, <2>5, <2>9, <2>10, <2>11, AskInv DEF CustodianStages
  <1> QED BY <1>4, <1>5, <1>6

(* What a release has passed once nothing refuses it.                      *)
LEMMA NothingRefuses ==
    ASSUME NEW o, ReleaseRefusal(o) = "none"
    PROVE  /\ o.body.code = "attach" => ~o.grant.revoked /\ o.grant.device = o.body.device
           /\ o.body.code = "recover" => /\ o.ticket.device = o.body.device /\ ~o.ticket.consumed
                                         /\ o.ticket.epoch = o.body.epoch
  BY DEF ReleaseRefusal

(* The anti-replay claim, with everything else decided.                    *)
LEMMA ClaimInv ==
    ASSUME IInv, NEW i \in Going, NEW o, NEW takes, NEW n, Same(o, ops[i]), Claim(i, o),
           Rest(takes), Quiet(i, takes), n = [o EXCEPT !.stage = "claim_replay"],
           Proven(o.body), ReleaseOK(i, n), o.body.replay \in Atts
    PROVE  IInv'
  <1>1. PICK q : q = PutIfAbsent(ReplayKey(o.body.replay), [kind |-> "claim"])
    OBVIOUS
  <1>2. q.op = "put" /\ q.key = ReplayKey(o.body.replay) /\ q.old = Nothing /\ q.new.kind = "claim"
    BY <1>1 DEF PutIfAbsent
  <1>3. n.stage = "claim_replay" /\ n.body = o.body
    BY DEF Same, IsOp
  <1>4. Ask(i, o, "claim_replay", q)
    BY <1>1 DEF Claim
  <1>5. Good(i, n) /\ Holds(i, n)
    BY <1>3 DEF Good, Holds
  <1>6. Asked(i, n, q)
    BY <1>2, <1>3 DEF Asked
  <1>7. Question([corr |-> i, q |-> q])
    BY <1>2 DEF Question
  <1> QED BY <1>4, <1>5, <1>6, <1>7, AskInv DEF CustodianStages

LEMMA GetSetInv == ASSUME IInv, NEW m \in mail, GetSet(m) PROVE IInv'
  <1> PICK i : i = m.corr
    OBVIOUS
  <1> PICK p : p = ops[i]
    OBVIOUS
  <1>1. p.stage = "get_set" /\ Rest({m})
    BY TakenRests DEF GetSet, At
  <1>2. /\ i \in Live /\ i \in Going /\ i \in Ids /\ Quiet(i, {m}) /\ Good(i, p) /\ OpOK(i, p)
        /\ Same(p, ops[i]) /\ IsOp(p) /\ (m.status = "ok" => Tells(i, p, m.val) /\ Told(i))
    BY <1>1, TakesItsAnswer
  <1>3. PICK o : o = [p EXCEPT !.set = m.val]
    OBVIOUS
  <1>4. /\ IsOp(o) /\ Same(o, ops[i]) /\ o.body = p.body /\ o.out = p.out /\ o.envs = p.envs
        /\ o.prev = p.prev /\ o.grant = p.grant /\ o.born = p.born /\ o.ticket = p.ticket
    BY <1>2, <1>3 DEF Same, IsOp
  <1>5. CASE m.status = "not_found"
    <2>1. \E r : r # "none" /\ Finish(i, p, r)
      BY <1>3, <1>4, <1>5 DEF GetSet
    <2> QED BY <1>1, <1>2, <2>1, RefuseInv
  <1>6. CASE m.status \notin {"ok", "not_found"}
    <2>1. Finish(i, p, ReadRefusal(m.status))
      BY <1>6 DEF GetSet
    <2> QED BY <1>1, <1>2, <2>1, ReadRefuses, RefuseInv
  <1>7. CASE m.status = "ok" /\ p.body.code = "record_set"
    <2>1. RecordSet(i, o)
      BY <1>3, <1>4, <1>7 DEF GetSet
    <2>2. ~Proven(p.body)
      BY <1>7 DEF Proven
    <2>3. CASE o.set.kind # "creation" \/ ~o.body.proof
      <3>1. Finish(i, o, "malformed")
        BY <2>1, <2>3 DEF RecordSet
      <3> QED BY <1>1, <1>2, <1>4, <3>1, RefuseInv
    <2>4. CASE ~(o.set.kind # "creation" \/ ~o.body.proof)
      <3>1. PICK new : new = SetRec("set", o.set.epoch, o.set.setid)
        OBVIOUS
      <3>2. PICK x : x = [o EXCEPT !.out = new]
        OBVIOUS
      <3>3. IsOp(x) /\ Same(x, ops[i]) /\ x.body = p.body /\ x.out = new
        BY <1>4, <3>2 DEF Same, IsOp
      <3>4. PICK q : q = CompareAndSwap(SetKey(o.body.epoch), o.set, new)
        OBVIOUS
      <3>5. Ask(i, x, "cas_set", q)
        BY <2>1, <2>4, <3>1, <3>2, <3>4 DEF RecordSet
      <3>6. PICK n : n = [x EXCEPT !.stage = "cas_set"]
        OBVIOUS
      <3>7. n.stage = "cas_set" /\ n.body = p.body /\ n.out = new
        BY <3>3, <3>6 DEF IsOp
      <3>8. Good(i, n) /\ Holds(i, n)
        BY <2>2, <3>1, <3>7 DEF Good, Holds, ControlOK, ControlStages, LinkKinds, SetRec
      <3>9. Asked(i, n, q)
        BY <3>7 DEF Asked
      <3>10. Question([corr |-> i, q |-> q])
        BY <3>4, KeysAreApart DEF Question, CompareAndSwap
      <3> QED BY <1>1, <1>2, <3>3, <3>5, <3>6, <3>8, <3>9, <3>10, AskInv DEF CustodianStages
    <2> QED BY <2>3, <2>4
  <1>8. CASE m.status = "ok" /\ p.body.code # "record_set"
    <2>1. Decide(i, o)
      BY <1>3, <1>4, <1>8 DEF GetSet
    <2>2. CASE ReleaseRefusal(o) # "none"
      <3>1. Finish(i, o, ReleaseRefusal(o))
        BY <2>1, <2>2 DEF Decide
      <3> QED BY <1>1, <1>2, <1>4, <2>2, <3>1, RefuseInv
    <2>3. CASE ReleaseRefusal(o) = "none"
      <3>1. Claim(i, o)
        BY <2>1, <2>3 DEF Decide
      <3>2. /\ Proven(p.body) /\ ReleaseOK(i, p) /\ p.out = Nothing /\ p.envs = {}
            /\ p.body.code \in {"attach", "recover"}
        BY <1>1, <1>2, <1>8 DEF Good, ReleaseOK, ControlOK, LateStages, Proven
      <3>3. PICK n : n = [o EXCEPT !.stage = "claim_replay"]
        OBVIOUS
      <3>4. /\ n.stage = "claim_replay" /\ n.body = p.body /\ n.out = p.out /\ n.envs = p.envs
            /\ n.prev = p.prev /\ n.grant = p.grant /\ n.born = p.born /\ n.ticket = p.ticket
        BY <1>4, <3>3 DEF IsOp
      <3>5. p.body.code = "attach" => ~p.grant.revoked /\ p.grant.device = p.body.device
        BY <1>4, <2>3, NothingRefuses
      <3>6. p.body.code = "recover" =>
              p.ticket = Ticket(p.body.ticket, p.body.epoch, p.body.device, FALSE)
        <4> HAVE p.body.code = "recover"
        <4>1. p.ticket.device = p.body.device /\ ~p.ticket.consumed /\ p.ticket.epoch = p.body.epoch
          BY <1>4, <2>3, NothingRefuses
        <4>2. IsTicket(p.body.ticket, p.ticket)
          BY <1>1, <3>2 DEF ReleaseOK
        <4>3. p.ticket.consumed = FALSE
          BY <4>1, <4>2 DEF IsTicket
        <4> QED BY <4>1, <4>2, <4>3 DEF IsTicket
      <3>7. ReleaseOK(i, n)
        BY <1>1, <3>2, <3>4, <3>5, <3>6 DEF ReleaseOK, ProvenStages, LateStages, Nothing, LinkKinds
      <3>8. o.body.replay \in Atts
        BY <1>2, <1>4 DEF OpOK
      <3> QED BY <1>1, <1>2, <1>4, <3>1, <3>2, <3>3, <3>7, <3>8, ClaimInv
    <2> QED BY <2>2, <2>3
  <1> QED BY <1>5, <1>6, <1>7, <1>8

LEMMA NothingRefusesRenewal ==
    ASSUME NEW o, RenewalRefusal(o) = "none"
    PROVE  /\ ~o.grant.revoked /\ o.grant.device = o.body.device
           /\ o.chain = Nothing \/ o.chain = o.prev
  BY DEF RenewalRefusal

LEMMA GetChainInv == ASSUME IInv, NEW m \in mail, GetChain(m) PROVE IInv'
  <1> PICK i : i = m.corr
    OBVIOUS
  <1> PICK p : p = ops[i]
    OBVIOUS
  <1>1. p.stage = "get_chain" /\ Rest({m})
    BY TakenRests DEF GetChain, At
  <1>2. /\ i \in Live /\ i \in Going /\ i \in Ids /\ Quiet(i, {m}) /\ Good(i, p) /\ OpOK(i, p)
        /\ Same(p, ops[i]) /\ IsOp(p) /\ (m.status = "ok" => Tells(i, p, m.val) /\ Told(i))
    BY <1>1, TakesItsAnswer
  <1>3. PICK o : o = [p EXCEPT !.chain = m.val]
    OBVIOUS
  <1>4. /\ IsOp(o) /\ Same(o, ops[i]) /\ o.body = p.body /\ o.out = p.out /\ o.envs = p.envs
        /\ o.prev = p.prev /\ o.grant = p.grant /\ o.born = p.born
    BY <1>2, <1>3 DEF Same, IsOp
  <1>5. /\ Proven(p.body) /\ ReleaseOK(i, p) /\ p.out = Nothing /\ p.envs = {}
        /\ p.body.code = "renew" /\ p.prev \in Issued
    BY <1>1, <1>2 DEF Good, ReleaseOK, ControlOK, ControlStages, LateStages
  <1>6. CASE m.status \notin {"ok", "not_found"}
    <2>1. Finish(i, o, ReadRefusal(m.status))
      BY <1>3, <1>6 DEF GetChain
    <2> QED BY <1>1, <1>2, <1>4, <2>1, ReadRefuses, RefuseInv
  <1>7. CASE m.status \in {"ok", "not_found"} /\ RenewalRefusal(o) # "none"
    <2>1. Finish(i, o, RenewalRefusal(o))
      BY <1>3, <1>7 DEF GetChain
    <2> QED BY <1>1, <1>2, <1>4, <1>7, <2>1, RefuseInv
  <1>8. CASE m.status \in {"ok", "not_found"} /\ RenewalRefusal(o) = "none"
    <2>1. PICK out : out = Link("renewal", i, p.body, p.prev.att)
      OBVIOUS
    <2>2. PICK x : x = [o EXCEPT !.out = out]
      OBVIOUS
    <2>3. Claim(i, x)
      BY <1>3, <1>4, <1>8, <2>1, <2>2 DEF GetChain
    <2>4. /\ IsOp(x) /\ Same(x, ops[i]) /\ x.body = p.body /\ x.out = out /\ x.envs = p.envs
          /\ x.prev = p.prev /\ x.grant = p.grant /\ x.born = p.born /\ x.chain = o.chain
      BY <1>4, <2>2 DEF Same, IsOp
    <2>5. PICK n : n = [x EXCEPT !.stage = "claim_replay"]
      OBVIOUS
    <2>6. /\ n.stage = "claim_replay" /\ n.body = p.body /\ n.out = out /\ n.envs = p.envs
          /\ n.prev = p.prev /\ n.grant = p.grant /\ n.born = p.born /\ n.chain = o.chain
      BY <2>4, <2>5 DEF IsOp
    <2>7. /\ ~p.grant.revoked /\ p.grant.device = p.body.device
          /\ o.chain = Nothing \/ o.chain = p.prev
      BY <1>4, <1>8, NothingRefusesRenewal
    <2>8. out.kind = "renewal" /\ out.by = i /\ out.att = p.prev.att
      BY <2>1 DEF Link
    <2>9. p.prev.att \in Atts
      BY <1>5 DEF Issued, IInv, AnswersOK, LinkKinds
    <2>10. ReleaseOK(i, n)
      BY <1>1, <1>5, <2>1, <2>6, <2>7, <2>8, <2>9 DEF ReleaseOK, ProvenStages, LateStages, LinkKinds
    <2>11. x.body.replay \in Atts
      BY <1>2, <2>4 DEF OpOK
    <2> QED BY <1>1, <1>2, <1>5, <2>3, <2>4, <2>5, <2>10, <2>11, ClaimInv
  <1> QED BY <1>6, <1>7, <1>8

LEMMA GetOldSetInv == ASSUME IInv, NEW m \in mail, GetOldSet(m) PROVE IInv'
  <1> PICK i : i = m.corr
    OBVIOUS
  <1> PICK p : p = ops[i]
    OBVIOUS
  <1>1. p.stage = "get_old_set" /\ Rest({m})
    BY TakenRests DEF GetOldSet, At
  <1>2. /\ i \in Live /\ i \in Going /\ i \in Ids /\ Quiet(i, {m}) /\ Good(i, p) /\ OpOK(i, p)
        /\ Same(p, ops[i]) /\ IsOp(p) /\ (m.status = "ok" => Tells(i, p, m.val) /\ Told(i))
    BY <1>1, TakesItsAnswer
  <1>3. ~Proven(p.body) /\ ControlOK(i, p)
    BY <1>1, <1>2 DEF Good, ReleaseOK, ProvenStages
  <1>4. CASE m.status = "not_found"
    <2>1. Allow(i, p)
      BY <1>4 DEF GetOldSet
    <2>2. PICK n : n = [p EXCEPT !.stage = "write_audit"]
      OBVIOUS
    <2>3. n.stage = "write_audit" /\ n.body = p.body /\ n.out = p.out
      BY <1>2, <2>2 DEF IsOp
    <2>4. Good(i, n) /\ Holds(i, n)
      BY <1>3, <2>3 DEF Good, Holds, ControlOK, ControlStages
    <2> QED BY <1>1, <1>2, <2>1, <2>2, <2>4, AllowInv
  <1>5. CASE m.status \notin {"ok", "not_found"}
    <2>1. Finish(i, p, ReadRefusal(m.status))
      BY <1>5 DEF GetOldSet
    <2> QED BY <1>1, <1>2, <2>1, ReadRefuses, RefuseInv
  <1>6. CASE m.status = "ok"
    <2>1. PICK q : q = Delete(SetKey(p.epoch), m.val)
      OBVIOUS
    <2>2. Ask(i, p, "delete_set", q)
      BY <1>6, <2>1 DEF GetOldSet
    <2>3. PICK n : n = [p EXCEPT !.stage = "delete_set"]
      OBVIOUS
    <2>4. n.stage = "delete_set" /\ n.body = p.body /\ n.out = p.out
      BY <1>2, <2>3 DEF IsOp
    <2>5. Good(i, n) /\ Holds(i, n)
      BY <1>3, <2>4 DEF Good, Holds, ControlOK, ControlStages
    <2>6. Asked(i, n, q)
      BY <2>4 DEF Asked
    <2>7. Question([corr |-> i, q |-> q])
      BY <2>1, KeysAreApart DEF Question, Delete
    <2> QED BY <1>1, <1>2, <2>2, <2>3, <2>5, <2>6, <2>7, AskInv DEF CustodianStages
  <1> QED BY <1>4, <1>5, <1>6

(* A release that has its claim, and its ticket if it takes one, is        *)
(* ordered from the custodians.                                            *)
LEMMA OrderReleaseInv ==
    ASSUME IInv, NEW i \in Going, NEW p, p = ops[i], NEW takes,
           p.stage \in {"claim_replay", "consume_ticket"}, IsOp(p), Proven(p.body),
           ReleaseOK(i, p), p.body.code # "renew", p.body.replay \in Atts,
           i \in Claiming, p.body.code = "recover" => i \in Spending,
           OrderRelease(i, p), Rest(takes), Quiet(i, takes)
    PROVE  IInv'
  <1>1. PICK out : out = Released(i, p)
    OBVIOUS
  <1>2. out.kind \in LinkKinds /\ out.by = i /\ out.att = p.body.replay
    BY <1>1 DEF Released, Link, LinkKinds
  <1>3. PICK o : o = [p EXCEPT !.out = out]
    OBVIOUS
  <1>4. /\ IsOp(o) /\ Same(o, ops[i]) /\ o.body = p.body /\ o.out = out /\ o.envs = p.envs
        /\ o.prev = p.prev /\ o.grant = p.grant /\ o.born = p.born /\ o.ticket = p.ticket
    BY <1>3 DEF Same, IsOp
  <1>5. Order(i, o, "custodians", {0, 1})
    BY <1>1, <1>3 DEF OrderRelease
  <1>6. PICK a : a = [o EXCEPT !.stage = "custodians"]
    OBVIOUS
  <1>7. /\ IsOp(a) /\ a.stage = "custodians" /\ a.body = p.body /\ a.out = out
        /\ a.envs = p.envs /\ a.prev = p.prev /\ a.grant = p.grant /\ a.born = p.born
        /\ a.ticket = p.ticket
    BY <1>4, <1>6 DEF IsOp
  <1>8. PICK n : n = [o EXCEPT !.stage = "custodians", !.asked = @ \cup {0, 1}]
    OBVIOUS
  <1>9. n = [a EXCEPT !.asked = @ \cup {0, 1}]
    BY <1>4, <1>6, <1>8 DEF IsOp
  <1>10. /\ n.stage = "custodians" /\ n.body = p.body /\ n.out = out
         /\ n.envs = p.envs /\ n.prev = p.prev /\ n.grant = p.grant /\ n.born = p.born
         /\ n.ticket = p.ticket
    BY <1>7, <1>9 DEF IsOp
  <1>11. p.envs = {} /\ Cardinality({}) = 0
    BY FS_EmptySet DEF ReleaseOK
  <1>12. ReleaseOK(i, n)
    <2>1. /\ GrantVal(p.grant) /\ Since(p.born, p.grant) /\ Admits(p.grant, p.body.epoch)
          /\ p.body.code # "recover" => ~p.grant.revoked /\ p.grant.device = p.body.device
          /\ p.body.code = "recover" =>
                p.ticket = Ticket(p.body.ticket, p.body.epoch, p.body.device, FALSE)
      BY DEF ReleaseOK, LateStages
    <2>2. n.envs \subseteq Custodians /\ Cardinality(n.envs) <= 1
      BY <1>10, <1>11
    <2>3. out.att \in Atts /\ p.body.code # "renew"
      BY <1>2
    <2>4. /\ n.body = p.body /\ n.grant = p.grant /\ n.born = p.born /\ n.ticket = p.ticket
          /\ n.out = out /\ n.stage = "custodians"
      BY <1>10
    <2> QED BY <1>2, <2>1, <2>2, <2>3, <2>4 DEF ReleaseOK, ProvenStages, LateStages
  <1>13. Good(i, n) /\ Holds(i, n)
    BY <1>10, <1>12 DEF Good, Holds
  <1> QED BY <1>4, <1>5, <1>8, <1>13, OrderInv DEF CustodianStages, Custodians

LEMMA ClaimReplayInv == ASSUME IInv, NEW m \in mail, ClaimReplay(m) PROVE IInv'
  <1> PICK i : i = m.corr
    OBVIOUS
  <1> PICK p : p = ops[i]
    OBVIOUS
  <1>1. p.stage = "claim_replay" /\ Rest({m})
    BY TakenRests DEF ClaimReplay, At
  <1>2. /\ i \in Live /\ i \in Going /\ i \in Ids /\ Quiet(i, {m}) /\ Good(i, p) /\ OpOK(i, p)
        /\ Same(p, ops[i]) /\ IsOp(p) /\ (m.status = "ok" => Tells(i, p, m.val) /\ Told(i))
    BY <1>1, TakesItsAnswer
  <1>3. Proven(p.body) /\ ReleaseOK(i, p) /\ p.envs = {}
    BY <1>1, <1>2 DEF Good, ReleaseOK, ControlOK, ControlStages
  <1>4. CASE m.status # "ok"
    <2>1. ReplayClaimResult(m.status) \in {"replayed", "unavailable"}
      BY <1>4 DEF ReplayClaimResult
    <2>2. \E r : r # "none" /\ Finish(i, p, r)
      BY <2>1 DEF ClaimReplay
    <2> QED BY <1>1, <1>2, <2>2, RefuseInv
  <1>5. CASE m.status = "ok"
    <2>1. ReplayClaimResult(m.status) = "fresh" /\ Told(i)
      BY <1>2, <1>5 DEF ReplayClaimResult
    <2>2. i \in Claiming
      BY <1>1, <1>2, <1>3, <2>1 DEF Claiming, Releasing
    <2>3. CASE p.body.code = "recover"
      <3>1. ConsumeTicket(i, p)
        BY <2>1, <2>3 DEF ClaimReplay
      <3>2. PICK q : q = CompareAndSwap(TicketKey(p.body.ticket), p.ticket,
                                        [p.ticket EXCEPT !.consumed = TRUE])
        OBVIOUS
      <3>3. Ask(i, p, "consume_ticket", q)
        BY <3>1, <3>2 DEF ConsumeTicket
      <3>4. PICK n : n = [p EXCEPT !.stage = "consume_ticket"]
        OBVIOUS
      <3>5. /\ n.stage = "consume_ticket" /\ n.body = p.body /\ n.out = p.out
            /\ n.envs = p.envs /\ n.prev = p.prev /\ n.grant = p.grant /\ n.born = p.born
            /\ n.ticket = p.ticket
        BY <1>2, <3>4 DEF IsOp
      <3>6. ReleaseOK(i, n)
        BY <1>1, <1>3, <2>3, <3>5 DEF ReleaseOK, ProvenStages, LateStages
      <3>7. Good(i, n) /\ Holds(i, n)
        BY <1>3, <2>2, <2>3, <3>5, <3>6 DEF Good, Holds
      <3>8. /\ q.op = "cas" /\ q.key = TicketKey(p.body.ticket) /\ q.old = p.ticket
            /\ q.new = [p.ticket EXCEPT !.consumed = TRUE]
        BY <3>2 DEF CompareAndSwap
      <3>9. Asked(i, n, q)
        BY <3>5, <3>8 DEF Asked
      <3>10. p.body.ticket \in Ids
        BY <1>2, <2>3 DEF OpOK
      <3>11. p.ticket = Ticket(p.body.ticket, p.body.epoch, p.body.device, FALSE)
        BY <1>1, <1>3, <2>3 DEF ReleaseOK, LateStages
      <3>12. IsTicket(p.body.ticket, p.ticket) /\ ~p.ticket.consumed
        BY <3>11 DEF IsTicket, Ticket
      <3>13. WritesTicket(p.body.ticket, q)
        BY <3>8, <3>12 DEF WritesTicket
      <3>14. Question([corr |-> i, q |-> q])
        BY <3>8, <3>10, <3>13 DEF Question
      <3> QED BY <1>1, <1>2, <3>3, <3>4, <3>7, <3>9, <3>14, AskInv DEF CustodianStages
    <2>4. CASE p.body.code = "renew"
      <3>1. AdvanceChain(i, p)
        BY <2>1, <2>4 DEF ClaimReplay
      <3>2. PICK q : q = IF p.chain = Nothing
                           THEN PutIfAbsent(ChainKey(p.prev.att), p.out)
                           ELSE CompareAndSwap(ChainKey(p.prev.att), p.chain, p.out)
        OBVIOUS
      <3>3. Ask(i, p, "put_chain", q)
        BY <3>1, <3>2 DEF AdvanceChain
      <3>4. PICK n : n = [p EXCEPT !.stage = "put_chain"]
        OBVIOUS
      <3>5. /\ n.stage = "put_chain" /\ n.body = p.body /\ n.out = p.out
            /\ n.envs = p.envs /\ n.prev = p.prev /\ n.grant = p.grant /\ n.born = p.born
            /\ n.chain = p.chain
        BY <1>2, <3>4 DEF IsOp
      <3>6. ReleaseOK(i, n)
        BY <1>1, <1>3, <2>4, <3>5 DEF ReleaseOK, ProvenStages, LateStages
      <3>7. Good(i, n) /\ Holds(i, n)
        BY <1>3, <2>2, <2>4, <3>5, <3>6 DEF Good, Holds
      <3>8. /\ q.op \in {"put", "cas"} /\ q.key = ChainKey(p.prev.att) /\ q.old = p.chain
            /\ q.new = p.out
        BY <3>2 DEF CompareAndSwap, PutIfAbsent
      <3>9. Asked(i, n, q)
        BY <3>5, <3>8 DEF Asked
      <3>10. p.out = Link("renewal", i, p.body, p.prev.att) /\ p.prev \in Issued
        BY <1>1, <1>3, <2>4 DEF ReleaseOK, LateStages
      <3>11. p.out.kind = "renewal" /\ p.out.by = i
        BY <3>10 DEF Link
      <3>12. p.prev.att \in Atts
        BY <3>10 DEF Issued, IInv, AnswersOK, LinkKinds
      <3>13. Question([corr |-> i, q |-> q])
        BY <3>8, <3>11, <3>12 DEF Question
      <3> QED BY <1>1, <1>2, <3>3, <3>4, <3>7, <3>9, <3>13, AskInv DEF CustodianStages
    <2>5. CASE p.body.code \notin {"recover", "renew"}
      <3>1. OrderRelease(i, p)
        BY <2>1, <2>5 DEF ClaimReplay
      <3>2. p.body.replay \in Atts
        BY <1>2 DEF OpOK
      <3> QED BY <1>1, <1>2, <1>3, <2>2, <2>5, <3>1, <3>2, OrderReleaseInv
    <2> QED BY <2>3, <2>4, <2>5
  <1> QED BY <1>4, <1>5

LEMMA TicketConsumedInv == ASSUME IInv, NEW m \in mail, TicketConsumed(m) PROVE IInv'
  <1> PICK i : i = m.corr
    OBVIOUS
  <1> PICK p : p = ops[i]
    OBVIOUS
  <1>1. p.stage = "consume_ticket" /\ Rest({m})
    BY TakenRests DEF TicketConsumed, At
  <1>2. /\ i \in Live /\ i \in Going /\ i \in Ids /\ Quiet(i, {m}) /\ Good(i, p) /\ OpOK(i, p)
        /\ Same(p, ops[i]) /\ IsOp(p) /\ (m.status = "ok" => Tells(i, p, m.val) /\ Told(i))
    BY <1>1, TakesItsAnswer
  <1>3. Proven(p.body) /\ ReleaseOK(i, p) /\ p.body.code = "recover"
    BY <1>1, <1>2 DEF Good, ReleaseOK, ControlOK, ControlStages
  <1>4. CASE m.status # "ok"
    <2>1. Finish(i, p, WriteRefusal(m.status))
      BY <1>4 DEF TicketConsumed
    <2> QED BY <1>1, <1>2, <1>4, <2>1, WriteRefuses, RefuseInv
  <1>5. CASE m.status = "ok"
    <2>1. OrderRelease(i, p)
      BY <1>5 DEF TicketConsumed
    <2>2. i \in Claiming /\ i \in Spending
      BY <1>1, <1>2, <1>3, <1>5 DEF Claiming, Spending, Releasing, LateStages
    <2>3. p.body.replay \in Atts
      BY <1>2 DEF OpOK
    <2> QED BY <1>1, <1>2, <1>3, <2>1, <2>2, <2>3, OrderReleaseInv
  <1> QED BY <1>4, <1>5

(* An act that is no release ends allowed.                                 *)
LEMMA ControlAllowInv ==
    ASSUME IInv, NEW i \in Going, NEW p, NEW takes, Same(p, ops[i]), ~Proven(p.body),
           ControlOK(i, p), Allow(i, p), Rest(takes), Quiet(i, takes)
    PROVE  IInv'
  <1>1. PICK n : n = [p EXCEPT !.stage = "write_audit"]
    OBVIOUS
  <1>2. n.stage = "write_audit" /\ n.body = p.body /\ n.out = p.out
    BY <1>1 DEF Same, IsOp
  <1>3. Good(i, n) /\ Holds(i, n)
    BY <1>2 DEF Good, Holds, ControlOK, ControlStages
  <1> QED BY <1>1, <1>3, AllowInv

LEMMA PutGrantInv == ASSUME IInv, NEW m \in mail, PutGrant(m) PROVE IInv'
  <1> PICK i : i = m.corr
    OBVIOUS
  <1> PICK p : p = ops[i]
    OBVIOUS
  <1>1. p.stage = "put_grant" /\ Rest({m})
    BY TakenRests DEF PutGrant, At
  <1>2. /\ i \in Live /\ i \in Going /\ i \in Ids /\ Quiet(i, {m}) /\ Good(i, p) /\ OpOK(i, p)
        /\ Same(p, ops[i]) /\ IsOp(p) /\ (m.status = "ok" => Tells(i, p, m.val) /\ Told(i))
    BY <1>1, TakesItsAnswer
  <1>3. ~Proven(p.body) /\ ControlOK(i, p)
    BY <1>1, <1>2 DEF Good, ReleaseOK, ProvenStages
  <1>4. CASE m.status # "ok"
    <2>1. Finish(i, p, WriteRefusal(m.status))
      BY <1>4 DEF PutGrant
    <2> QED BY <1>1, <1>2, <1>4, <2>1, WriteRefuses, RefuseInv
  <1>5. CASE m.status = "ok"
    <2>1. PICK q : q = PutIfAbsent(SetKey(p.epoch), p.out)
      OBVIOUS
    <2>2. Ask(i, p, "put_set", q)
      BY <1>5, <2>1 DEF PutGrant
    <2>3. PICK n : n = [p EXCEPT !.stage = "put_set"]
      OBVIOUS
    <2>4. n.stage = "put_set" /\ n.body = p.body /\ n.out = p.out
      BY <1>2, <2>3 DEF IsOp
    <2>5. Good(i, n) /\ Holds(i, n)
      BY <1>1, <1>3, <2>4 DEF Good, Holds, ControlOK, ControlStages
    <2>6. Asked(i, n, q)
      BY <2>4 DEF Asked
    <2>7. Question([corr |-> i, q |-> q])
      BY <2>1, KeysAreApart DEF Question, PutIfAbsent
    <2> QED BY <1>1, <1>2, <2>2, <2>3, <2>5, <2>6, <2>7, AskInv DEF CustodianStages
  <1> QED BY <1>4, <1>5

LEMMA PutSetInv == ASSUME IInv, NEW m \in mail, PutSet(m) PROVE IInv'
  <1> PICK i : i = m.corr
    OBVIOUS
  <1> PICK p : p = ops[i]
    OBVIOUS
  <1>1. p.stage = "put_set" /\ Rest({m})
    BY TakenRests DEF PutSet, At
  <1>2. /\ i \in Live /\ i \in Going /\ i \in Ids /\ Quiet(i, {m}) /\ Good(i, p) /\ OpOK(i, p)
        /\ Same(p, ops[i]) /\ IsOp(p) /\ (m.status = "ok" => Tells(i, p, m.val) /\ Told(i))
    BY <1>1, TakesItsAnswer
  <1>3. ~Proven(p.body) /\ ControlOK(i, p)
    BY <1>1, <1>2 DEF Good, ReleaseOK, ProvenStages
  <1>4. CASE m.status # "ok"
    <2>1. Finish(i, p, WriteRefusal(m.status))
      BY <1>4 DEF PutSet
    <2> QED BY <1>1, <1>2, <1>4, <2>1, WriteRefuses, RefuseInv
  <1>5. CASE m.status = "ok" /\ p.body.code = "rotate_key"
    <2>1. PICK q : q = CompareAndSwap(GrantKey, p.grant, p.aux)
      OBVIOUS
    <2>2. Ask(i, p, "cas_grant", q)
      BY <1>5, <2>1 DEF PutSet
    <2>3. PICK n : n = [p EXCEPT !.stage = "cas_grant"]
      OBVIOUS
    <2>4. n.stage = "cas_grant" /\ n.body = p.body /\ n.out = p.out
      BY <1>2, <2>3 DEF IsOp
    <2>5. Good(i, n) /\ Holds(i, n)
      BY <1>3, <2>4 DEF Good, Holds, ControlOK, ControlStages
    <2>6. Asked(i, n, q)
      BY <2>4 DEF Asked
    <2>7. q.op = "cas" /\ q.key = GrantKey /\ q.old = p.grant /\ q.new = p.aux
      BY <2>1 DEF CompareAndSwap
    <2>8. WritesGrant(q)
      BY <1>1, <1>3, <1>5, <2>7 DEF WritesGrant, ControlOK
    <2>9. Question([corr |-> i, q |-> q])
      BY <2>7, <2>8 DEF Question
    <2> QED BY <1>1, <1>2, <2>2, <2>3, <2>5, <2>6, <2>9, AskInv DEF CustodianStages
  <1>6. CASE m.status = "ok" /\ p.body.code # "rotate_key"
    <2>1. Allow(i, p)
      BY <1>6 DEF PutSet
    <2> QED BY <1>1, <1>2, <1>3, <2>1, ControlAllowInv
  <1> QED BY <1>4, <1>5, <1>6

LEMMA CasGrantInv == ASSUME IInv, NEW m \in mail, CasGrant(m) PROVE IInv'
  <1> PICK i : i = m.corr
    OBVIOUS
  <1> PICK p : p = ops[i]
    OBVIOUS
  <1>1. p.stage = "cas_grant" /\ Rest({m})
    BY TakenRests DEF CasGrant, At
  <1>2. /\ i \in Live /\ i \in Going /\ i \in Ids /\ Quiet(i, {m}) /\ Good(i, p) /\ OpOK(i, p)
        /\ Same(p, ops[i]) /\ IsOp(p) /\ (m.status = "ok" => Tells(i, p, m.val) /\ Told(i))
    BY <1>1, TakesItsAnswer
  <1>3. ~Proven(p.body) /\ ControlOK(i, p)
    BY <1>1, <1>2 DEF Good, ReleaseOK, ProvenStages
  <1>4. CASE m.status # "ok"
    <2>1. Finish(i, p, WriteRefusal(m.status))
      BY <1>4 DEF CasGrant
    <2> QED BY <1>1, <1>2, <1>4, <2>1, WriteRefuses, RefuseInv
  <1>5. CASE m.status = "ok" /\ p.body.code = "erase"
    <2>1. PICK o : o = [p EXCEPT !.cursor = 1]
      OBVIOUS
    <2>2. EraseNext(i, o)
      BY <1>5, <2>1 DEF CasGrant
    <2>3. Same(o, ops[i]) /\ o.body = p.body /\ o.out = p.out
      BY <1>2, <2>1 DEF Same, IsOp
    <2>4. ~Proven(o.body) /\ o.out.kind \notin LinkKinds
      BY <1>3, <2>3 DEF ControlOK
    <2> QED BY <1>1, <1>2, <2>2, <2>3, <2>4, EraseNextInv
  <1>6. CASE m.status = "ok" /\ p.body.code = "retire"
    <2>1. PICK q : q = Get(SetKey(p.body.epoch))
      OBVIOUS
    <2>2. PICK o : o = [p EXCEPT !.epoch = p.body.epoch]
      OBVIOUS
    <2>3. Same(o, ops[i]) /\ IsOp(o) /\ o.body = p.body /\ o.out = p.out
      BY <1>2, <2>2 DEF Same, IsOp
    <2>4. Ask(i, o, "get_old_set", q)
      BY <1>6, <2>1, <2>2 DEF CasGrant
    <2>5. PICK n : n = [o EXCEPT !.stage = "get_old_set"]
      OBVIOUS
    <2>6. n.stage = "get_old_set" /\ n.body = p.body /\ n.out = p.out
      BY <2>3, <2>5 DEF IsOp
    <2>7. Good(i, n) /\ Holds(i, n)
      BY <1>3, <2>6 DEF Good, Holds, ControlOK, ControlStages
    <2>8. Asked(i, n, q)
      BY <2>6 DEF Asked
    <2>9. Question([corr |-> i, q |-> q])
      BY <2>1 DEF Question, Get
    <2> QED BY <1>1, <1>2, <2>3, <2>4, <2>5, <2>7, <2>8, <2>9, AskInv DEF CustodianStages
  <1>7. CASE m.status = "ok" /\ p.body.code \notin {"erase", "retire"}
    <2>1. Allow(i, p)
      BY <1>7 DEF CasGrant
    <2> QED BY <1>1, <1>2, <1>3, <2>1, ControlAllowInv
  <1> QED BY <1>4, <1>5, <1>6, <1>7

LEMMA LastWriteInv == ASSUME IInv, NEW m \in mail, LastWrite(m) PROVE IInv'
  <1> PICK i : i = m.corr
    OBVIOUS
  <1> PICK p : p = ops[i]
    OBVIOUS
  <1>1. p.stage \in {"cas_set", "put_ticket", "delete_set", "put_chain"} /\ Rest({m})
    BY TakenRests DEF LastWrite, At
  <1>2. /\ i \in Live /\ i \in Going /\ i \in Ids /\ Quiet(i, {m}) /\ Good(i, p) /\ OpOK(i, p)
        /\ Same(p, ops[i]) /\ IsOp(p) /\ (m.status = "ok" => Tells(i, p, m.val) /\ Told(i))
    BY <1>1, TakesItsAnswer
  <1>3. CASE m.status # "ok"
    <2>1. Finish(i, p, WriteRefusal(m.status))
      BY <1>3 DEF LastWrite
    <2> QED BY <1>1, <1>2, <1>3, <2>1, WriteRefuses, RefuseInv
  <1>4. CASE m.status = "ok" /\ ~Proven(p.body)
    <2>1. Allow(i, p) /\ ControlOK(i, p)
      BY <1>2, <1>4 DEF LastWrite, Good
    <2> QED BY <1>1, <1>2, <1>4, <2>1, ControlAllowInv
  <1>5. CASE m.status = "ok" /\ Proven(p.body)
    <2>1. Allow(i, p) /\ ReleaseOK(i, p)
      BY <1>2, <1>5 DEF LastWrite, Good
    <2>2. p.stage = "put_chain" /\ p.body.code = "renew"
      BY <1>1, <2>1 DEF ReleaseOK, ProvenStages
    <2>3. PICK n : n = [p EXCEPT !.stage = "write_audit"]
      OBVIOUS
    <2>4. /\ n.stage = "write_audit" /\ n.body = p.body /\ n.out = p.out
          /\ n.envs = p.envs /\ n.prev = p.prev /\ n.grant = p.grant /\ n.born = p.born
          /\ n.chain = p.chain
      BY <1>2, <2>3 DEF IsOp
    <2>5. ReleaseOK(i, n)
      BY <2>1, <2>2, <2>4 DEF ReleaseOK, ProvenStages, LateStages
    <2>6. i \in Claiming /\ i \in Chaining
      BY <1>2, <1>5, <2>2 DEF Claiming, Chaining, Releasing, LateStages
    <2>7. Good(i, n) /\ Holds(i, n)
      BY <1>5, <2>2, <2>4, <2>5, <2>6 DEF Good, Holds
    <2> QED BY <1>1, <1>2, <2>1, <2>3, <2>7, AllowInv
  <1> QED BY <1>3, <1>4, <1>5

(***************************************************************************)
(* An operation ends: what it holds passes to its answer.                  *)
(***************************************************************************)
Ends(i, audited, takes) ==
    /\ Reply(i, audited) /\ mail' = mail \ takes
    /\ UNCHANGED <<scn, led, next, challenges, issued, restarts, wire, orders, results>>

LEMMA EndsInv ==
    ASSUME IInv, NEW i \in Live, NEW audited \in BOOLEAN, NEW takes, Ends(i, audited, takes),
           ops[i].stage = "write_audit",
           i \in Going /\ audited => /\ led[AuditKey(i)] = Entry(ops[i], "none")
                                     /\ Quiet(i, takes)
    PROVE  IInv'
  <1> PICK o : o = ops[i]
    OBVIOUS
  <1> PICK a : a = Answer(i, o, audited)
    OBVIOUS
  <1>1. i \in Ids /\ OpOK(i, o) /\ IsOp(o) /\ o.stage = "write_audit" /\ i \in Nat /\ i < next
    BY LiveOps DEF Ids, OpOK
  <1>2. /\ led' = led /\ next' = next /\ challenges' = challenges /\ issued' = issued
        /\ restarts' = restarts /\ scn' = scn /\ wire' = wire /\ mail' = mail \ takes
        /\ orders' = orders /\ results' = results /\ replies' = replies \cup {a}
        /\ ops' = [ops EXCEPT ![i] = Free]
    BY DEF Ends, Reply
  <1>3. /\ ops'[i].stage = "free" /\ \A j \in Ids : j # i => ops'[j] = ops[j]
        /\ ops' = [j \in Ids |-> ops'[j]]
    BY <1>1, <1>2 DEF IInv, TypeOK, Free
  <1>4. Live' = Live \ {i} /\ Going' = Going \ {i}
    BY <1>1, <1>3 DEF Live, Going
  <1>5. PICK rel \in BOOLEAN : rel <=> (o.refusal = "none" /\ Proven(o.body) /\ audited)
    OBVIOUS
  <1>6. /\ a.id = i /\ a.body = o.body /\ a.prev = o.prev /\ a.born = o.born /\ a.grant = o.grant
        /\ rel => a.refusal = "none" /\ a.rec = o.out /\ a.envs = o.envs
        /\ ~rel /\ Proven(o.body) => a.refusal # "none" /\ a.rec = Nothing
        /\ ~rel /\ ~Proven(o.body) => a.rec \in {o.out, Nothing}
    BY <1>5 DEF Answer
  <1>7. rel => /\ i \in Releasing /\ i \in Claiming /\ ReleaseOK(i, o)
               /\ o.body.code = "recover" => i \in Spending
               /\ o.body.code = "renew" => i \in Chaining
    BY <1>1, <1>5 DEF Releasing, Claiming, Spending, Chaining, Going, LateStages, OpOK
  <1>8. /\ a \in Releases' <=> rel
        /\ Releases' = Releases \cup (IF rel THEN {a} ELSE {})
    <2>1. Proven(a.body) /\ a.refusal = "none" <=> rel
      BY <1>5, <1>6
    <2> QED BY <1>2, <2>1 DEF Releases, Proven
  <1>9. Issued \subseteq Issued'
    BY <1>2 DEF Issued
  <1>10. TypeOK'
    BY <1>2, <1>3 DEF TypeOK, IInv, GrantVal, IsTicket
  <1>11. OpsOK'
    <2>1. ASSUME NEW j \in Live' PROVE OpOK(j, ops[j])'
      <3> PICK p : p = ops'[j]
        OBVIOUS
      <3>1. OpOK(j, p) /\ j \in Ids
        BY <1>3, <1>4, <2>1 DEF Live, IInv, OpsOK
      <3>2. GrantGrows /\ next \in Nat /\ j \in Nat
        BY <1>2, <3>1 DEF GrantGrows, IInv, TypeOK, Ids
      <3>3. OpOK(j, p)'
        BY <1>2, <3>1, <3>2, OpStays
      <3> QED BY <3>3
    <2> QED BY <1>1, <1>2, <1>4, <1>6, <2>1 DEF OpsOK, IInv
  <1>12. WireOK'
    <2>1. \A w \in wire' : w.corr \in Ids /\ w.corr < next' /\ Question(w)'
      BY <1>2 DEF IInv, WireOK, Question, WritesGrant, WritesTicket, GrantVal, IsTicket
    <2>2. \A m \in mail' : m.corr \in Ids /\ m.corr < next'
      BY <1>2 DEF IInv, WireOK
    <2>3. ASSUME NEW j \in Going'
          PROVE  /\ OneMessage(j)' /\ (ops'[j].stage \in CustodianStages => Silent(j)')
                 /\ \A w \in wire' : w.corr = j => Asked(j, ops'[j], w.q)
                 /\ \A m \in mail' : m.corr = j /\ m.status = "ok" => Tells(j, ops[j], m.val)'
      <3>1. j \in Going /\ ops'[j] = ops[j] /\ j \in Ids
        BY <1>3, <1>4, <2>3 DEF Going, Live
      <3>2. mail' \subseteq mail /\ wire' = wire
        BY <1>2
      <3>3. OneMessage(j) /\ (ops[j].stage \in CustodianStages => Silent(j))
        BY <3>1 DEF IInv, WireOK
      <3>4. OneMessage(j)' /\ (ops'[j].stage \in CustodianStages => Silent(j)')
        BY <3>1, <3>2, <3>3 DEF OneMessage, Silent
      <3>5. \A w \in wire' : w.corr = j => Asked(j, ops'[j], w.q)
        BY <3>1, <3>2 DEF IInv, WireOK
      <3>6. \A m \in mail' : m.corr = j /\ m.status = "ok" => Tells(j, ops[j], m.val)
        BY <3>1, <3>2 DEF IInv, WireOK
      <3>7. \A m \in mail' : m.corr = j /\ m.status = "ok" => Tells(j, ops[j], m.val)'
        BY <1>2, <3>1, <3>6 DEF Tells, GrantVal, Since, IsTicket, Entry
      <3> QED BY <3>4, <3>5, <3>7
    <2>4. \A j \in Going', w \in wire' : w.corr = j => Asked(j, ops[j], w.q)'
      <3> SUFFICES ASSUME NEW j \in Going', NEW w \in wire', w.corr = j
                   PROVE  Asked(j, ops[j], w.q)'
        OBVIOUS
      <3> PICK p : p = ops'[j]
        OBVIOUS
      <3>1. Asked(j, p, w.q)
        BY <2>3
      <3> QED BY <3>1 DEF Asked, Entry
    <2> QED BY <2>1, <2>2, <2>3, <2>4 DEF WireOK
  <1>13. /\ Releasing' \subseteq Releasing \ {i} /\ Claiming' \subseteq Claiming \ {i}
         /\ Spending' \subseteq Spending \ {i} /\ Chaining' \subseteq Chaining \ {i}
    <2>1. \A j \in Going' : j # i /\ ops'[j] = ops[j] /\ j \in Going
      BY <1>3, <1>4 DEF Going, Live
    <2>2. \A j : Told(j)' => Told(j)
      BY <1>2 DEF Told
    <2>3. Releasing' \subseteq Releasing \ {i}
      BY <2>1 DEF Releasing, Proven
    <2>4. Claiming' \subseteq Claiming \ {i}
      BY <2>1, <2>2, <2>3 DEF Claiming, Releasing
    <2>5. Spending' \subseteq Spending \ {i}
      BY <2>1, <2>2, <2>3 DEF Spending, Releasing
    <2>6. Chaining' \subseteq Chaining \ {i}
      BY <2>1, <2>2, <2>3 DEF Chaining, Releasing
    <2> QED BY <2>3, <2>4, <2>5, <2>6
  <1>14. Act(a.id, a) = Act(i, o)
    BY <1>6 DEF Act
  <1>15. Done' = Done \cup (IF rel THEN {Act(i, o)} ELSE {})
    <2>1. CASE rel
      <3>1. Done' = {Act(m.id, m) : m \in Releases \cup {a}}
        BY <1>8, <2>1 DEF Done, Act
      <3> QED BY <1>14, <2>1, <3>1 DEF Done
    <2>2. CASE ~rel
      BY <1>8, <2>2 DEF Done, Act
    <2> QED BY <2>1, <2>2
  <1>16. Act(i, o).body = o.body
    BY DEF Act
  <1>17. /\ Challenged' \subseteq Challenged /\ Claimed' \subseteq Claimed
         /\ Recovered' \subseteq Recovered /\ Renewed' \subseteq Renewed
    <2>1. Claiming \subseteq Releasing /\ Spending \subseteq Releasing /\ Chaining \subseteq Releasing
          /\ Releasing \subseteq Ids
      BY DEF Claiming, Spending, Chaining, Releasing, Going, Live
    <2>2. \A j \in Releasing \ {i} : Act(j, ops[j])' = Act(j, ops[j])
      BY <1>3, <2>1 DEF Act
    <2>3. Challenged' \subseteq Challenged
      BY <1>7, <1>13, <1>15, <2>1, <2>2 DEF Challenged
    <2>4. Claimed' \subseteq Claimed
      BY <1>7, <1>13, <1>15, <2>1, <2>2 DEF Claimed
    <2>5. Recovered' \subseteq Recovered
      BY <1>7, <1>13, <1>15, <1>16, <2>1, <2>2 DEF Recovered
    <2>6. Renewed' \subseteq Renewed
      BY <1>7, <1>13, <1>15, <1>16, <2>1, <2>2 DEF Renewed
    <2> QED BY <2>3, <2>4, <2>5, <2>6
  <1>18. NoncesOnce' /\ ReplaysOnce' /\ TicketsOnce' /\ RenewalsOnce'
    BY <1>2, <1>9, <1>17 DEF NoncesOnce, ReplaysOnce, TicketsOnce, RenewalsOnce, IInv
  <1>19. AnswersOK'
    <2>1. \A m \in Releases : ReleasedOK(m)'
      <3>1. \A m \in Releases : Silent(m.id)'
        BY <1>2 DEF IInv, AnswersOK, ReleasedOK, Silent
      <3> QED BY <1>2, <3>1 DEF IInv, AnswersOK, ReleasedOK, Admits
    <2>2. ASSUME rel PROVE ReleasedOK(a)'
      <3>1. /\ GrantVal(o.grant) /\ Since(o.born, o.grant) /\ Admits(o.grant, o.body.epoch)
            /\ o.body.code # "recover" => ~o.grant.revoked /\ o.grant.device = o.body.device
            /\ o.body.code # "renew" => Cardinality(o.envs) = 2
        BY <1>1, <1>7, <2>2 DEF ReleaseOK, LateStages
      <3>2. o.grant.kind = "grant" /\ Nothing.kind = "none"
        BY <3>1 DEF Admits, Nothing
      <3>3. o.born.kind # "erasure" /\ (o.born.kind = "grant" => o.grant.gen >= o.born.gen)
        BY <3>1, <3>2 DEF Since
      <3>4. i \in Going /\ audited
        BY <1>5, <1>7, <2>2 DEF Releasing
      <3>5. led[AuditKey(i)] = Entry(o, "none") /\ Silent(i)'
        BY <1>2, <3>4 DEF Quiet, Silent
      <3>6. led'[AuditKey(i)] = [kind |-> "audit", code |-> o.body.code, refusal |-> "none"]
        BY <1>2, <3>5 DEF Entry
      <3> QED BY <1>6, <2>2, <3>1, <3>3, <3>5, <3>6 DEF ReleasedOK, Admits
    <2>3. a.rec.kind \in LinkKinds => rel /\ a.rec.by = i /\ a.rec.att \in Atts
      <3>1. CASE rel
        BY <1>6, <1>7, <3>1 DEF ReleaseOK
      <3>2. CASE ~rel
        <4>1. Nothing.kind \notin LinkKinds
          BY DEF Nothing, LinkKinds
        <4>2. ~Proven(o.body) => o.out.kind \notin LinkKinds
          BY <1>1, <4>1 DEF OpOK, ControlOK
        <4> QED BY <1>6, <3>2, <4>1, <4>2
      <3> QED BY <3>1, <3>2
    <2>4. \A m \in replies : m.id # i
      BY DEF IInv, OpsOK
    <2>5. \A m, n \in replies' : m.id = n.id => m = n
      BY <1>2, <1>6, <2>4 DEF IInv, AnswersOK
    <2>6. \A m \in replies' : m.rec.kind \in LinkKinds =>
             m \in Releases' /\ m.rec.by = m.id /\ m.rec.att \in Atts
      BY <1>2, <1>6, <1>8, <2>3 DEF IInv, AnswersOK
    <2>7. \A m \in Releases' : ReleasedOK(m)'
      BY <1>8, <2>1, <2>2
    <2> QED BY <2>5, <2>6, <2>7 DEF AnswersOK
  <1> QED BY <1>10, <1>11, <1>12, <1>18, <1>19 DEF IInv

LEMMA WriteAuditInv == ASSUME IInv, NEW m \in mail, WriteAudit(m) PROVE IInv'
  <1> PICK i : i = m.corr
    OBVIOUS
  <1> PICK audited : audited = (m.status = "ok")
    OBVIOUS
  <1>1. i \in Ids /\ i \in Live /\ ops[i].stage = "write_audit" /\ audited \in BOOLEAN
    BY DEF IInv, WireOK, Live, WriteAudit, At
  <1>2. Ends(i, audited, {m})
    BY DEF Ends, WriteAudit, Taken, count
  <1>3. ASSUME i \in Going, audited
        PROVE  led[AuditKey(i)] = Entry(ops[i], "none") /\ Quiet(i, {m})
    <2>1. OneMessage(i) /\ Tells(i, ops[i], m.val)
      BY <1>3 DEF IInv, WireOK
    <2>2. ops[i].refusal = "none"
      BY <1>3 DEF Going
    <2> QED BY <1>1, <2>1, <2>2 DEF OneMessage, Quiet, Tells
  <1> QED BY <1>1, <1>2, <1>3, EndsInv

LEMMA TickInv == ASSUME IInv, NEW i \in Ids, Tick(i) PROVE IInv'
  <1> PICK p : p = ops[i]
    OBVIOUS
  <1>1. i \in Live
    BY DEF Tick
  <1>2. OpOK(i, p) /\ IsOp(p)
    BY <1>1, LiveOps
  <1>3. CASE p.stage = "write_audit"
    <2>1. Ends(i, FALSE, {})
      BY <1>3 DEF Tick, Ends
    <2> QED BY <1>1, <1>3, <2>1, EndsInv
  <1>4. CASE p.stage # "write_audit"
    <2>1. PICK r : r = IF p.stage \in CustodianStages
                         THEN "custodian_refused" ELSE "ledger_unavailable"
      OBVIOUS
    <2>2. r # "none"
      BY <2>1
    <2>3. Finish(i, p, r) /\ Rest({})
      BY <1>4, <2>1 DEF Tick, Rest
    <2>4. Same(p, ops[i])
      BY <1>2 DEF Same
    <2> QED BY <1>1, <2>2, <2>3, <2>4, RefuseInv
  <1> QED BY <1>3, <1>4

(***************************************************************************)
(* Steps that leave the operations alone.                                  *)
(***************************************************************************)
Drifts(new) ==
    /\ UNCHANGED <<scn, ops, wire, restarts>>
    /\ mail' \subseteq mail
    /\ led' = [k \in Keys |-> led'[k]] /\ \A k \in Keys : k[1] # "device" => led'[k] = led[k]
    /\ next' \in {next, next + 1} /\ issued' \in {issued, issued + 1}
    /\ \A c \in challenges' : c \in challenges \/ (c.nonce = issued + 1 /\ issued' = issued + 1)
    /\ (\A q \in orders' : q.corr \in Ids) /\ (\A r \in results' : r.corr \in Ids)
    /\ replies' = replies \cup new
    /\ \A a \in new : /\ a.id = next /\ next' = next + 1 /\ next \in Ids
                      /\ a.refusal # "none" /\ a.rec = Nothing
    /\ \A a, b \in new : a = b

LEMMA DriftsInv == ASSUME IInv, NEW new, Drifts(new) PROVE IInv'
  <1>1. /\ led'[GrantKey] = led[GrantKey]
        /\ \A t \in Ids : /\ led'[TicketKey(t)] = led[TicketKey(t)]
                          /\ led'[AuditKey(t)] = led[AuditKey(t)]
        /\ \A a \in Atts : /\ led'[ReplayKey(a)] = led[ReplayKey(a)]
                           /\ led'[ChainKey(a)] = led[ChainKey(a)]
    BY KeysAreKeys, KeysAreApart DEF Drifts
  <1>2. /\ scn' = scn /\ ops' = ops /\ wire' = wire /\ restarts' = restarts /\ mail' \subseteq mail
        /\ replies' = replies \cup new /\ next' \in {next, next + 1}
        /\ next \in Nat \ {0} /\ issued \in Nat /\ issued' \in {issued, issued + 1}
    BY DEF Drifts, IInv, TypeOK
  <1>3. Live' = Live /\ Going' = Going
    BY <1>2 DEF Live, Going
  <1>4. Releases' = Releases /\ Issued \subseteq Issued' /\ Done' = Done
    <2>1. Releases' = Releases
      BY <1>2 DEF Releases, Proven, Drifts
    <2> QED BY <1>2, <2>1 DEF Issued, Done, Act
  <1>5. TypeOK'
    <2>1. \A c \in challenges' : c.nonce \in 1 .. issued'
      BY <1>2 DEF Drifts, IInv, TypeOK
    <2> QED BY <1>1, <1>2, <2>1 DEF Drifts, IInv, TypeOK, GrantVal, IsTicket
  <1>6. OpsOK'
    <2>1. ASSUME NEW j \in Live' PROVE OpOK(j, ops[j])'
      <3> PICK p : p = ops'[j]
        OBVIOUS
      <3>1. OpOK(j, p) /\ j \in Ids
        BY <1>2, <1>3, <2>1 DEF Live, IInv, OpsOK
      <3>2. GrantGrows /\ next \in Nat /\ j \in Nat
        BY <1>1, <1>2, <3>1 DEF GrantGrows, Ids
      <3>3. OpOK(j, p)'
        BY <1>2, <3>1, <3>2, OpStays
      <3> QED BY <3>3
    <2>2. \A j \in Live : j < next /\ j \in Nat
      BY DEF IInv, OpsOK, OpOK, Live, Ids
    <2>3. ASSUME NEW m \in replies' PROVE m.id \in Ids /\ m.id < next' /\ m.id \notin Live
      <3>1. CASE m \in replies
        BY <1>2, <3>1 DEF IInv, OpsOK, Ids
      <3>2. CASE m \in new
        BY <1>2, <2>2, <3>2 DEF Drifts
      <3> QED BY <1>2, <3>1, <3>2
    <2> QED BY <1>3, <2>1, <2>3 DEF OpsOK
  <1>7. WireOK'
    <2>1. \A w \in wire' : w.corr \in Ids /\ w.corr < next' /\ Question(w)'
      BY <1>2 DEF IInv, WireOK, Question, WritesGrant, WritesTicket, GrantVal, IsTicket, Ids
    <2>2. \A m \in mail' : m.corr \in Ids /\ m.corr < next'
      BY <1>2 DEF IInv, WireOK, Ids
    <2>3. ASSUME NEW j \in Going'
          PROVE  /\ OneMessage(j)' /\ (ops'[j].stage \in CustodianStages => Silent(j)')
                 /\ \A w \in wire' : w.corr = j => Asked(j, ops'[j], w.q)
                 /\ \A m \in mail' : m.corr = j /\ m.status = "ok" => Tells(j, ops[j], m.val)'
      <3>1. j \in Going /\ ops'[j] = ops[j] /\ j \in Ids
        BY <1>2, <1>3, <2>3 DEF Going, Live
      <3>2. OneMessage(j) /\ (ops[j].stage \in CustodianStages => Silent(j))
        BY <3>1 DEF IInv, WireOK
      <3>3. OneMessage(j)' /\ (ops'[j].stage \in CustodianStages => Silent(j)')
        BY <1>2, <3>1, <3>2 DEF OneMessage, Silent
      <3>4. \A w \in wire' : w.corr = j => Asked(j, ops'[j], w.q)
        BY <1>2, <3>1 DEF IInv, WireOK
      <3>5. \A m \in mail' : m.corr = j /\ m.status = "ok" => Tells(j, ops[j], m.val)
        BY <1>2, <3>1 DEF IInv, WireOK
      <3>6. \A m \in mail' : m.corr = j /\ m.status = "ok" => Tells(j, ops[j], m.val)'
        BY <1>1, <1>2, <3>1, <3>5 DEF Tells, GrantVal, Since, IsTicket, Entry
      <3> QED BY <3>3, <3>4, <3>6
    <2>4. \A j \in Going', w \in wire' : w.corr = j => Asked(j, ops[j], w.q)'
      <3> SUFFICES ASSUME NEW j \in Going', NEW w \in wire', w.corr = j
                   PROVE  Asked(j, ops[j], w.q)'
        OBVIOUS
      <3> PICK p : p = ops'[j]
        OBVIOUS
      <3>1. Asked(j, p, w.q)
        BY <2>3
      <3> QED BY <3>1 DEF Asked, Entry
    <2> QED BY <2>1, <2>2, <2>3, <2>4 DEF WireOK
  <1>8. /\ Releasing' = Releasing /\ Claiming' \subseteq Claiming
        /\ Spending' \subseteq Spending /\ Chaining' \subseteq Chaining
    <2>1. \A j : Told(j)' => Told(j)
      BY <1>2 DEF Told
    <2>2. Releasing' = Releasing
      BY <1>2, <1>3 DEF Releasing, Proven
    <2> QED BY <1>2, <2>1, <2>2 DEF Claiming, Spending, Chaining
  <1>9. /\ Challenged' \subseteq Challenged /\ Claimed' \subseteq Claimed
        /\ Recovered' \subseteq Recovered /\ Renewed' \subseteq Renewed
    BY <1>2, <1>4, <1>8 DEF Challenged, Claimed, Recovered, Renewed, Act
  <1>10. NoncesOnce'
    <2>1. ASSUME NEW x \in Challenged
          PROVE  /\ x.body.nonce \in 1 .. issued'
                 /\ \A c \in challenges' : c.nonce # x.body.nonce
      <3>1. x.body.nonce \in 1 .. issued /\ \A c \in challenges : c.nonce # x.body.nonce
        BY <2>1 DEF IInv, NoncesOnce
      <3>2. \A c \in challenges' : c \in challenges \/ c.nonce = issued + 1
        BY DEF Drifts
      <3> QED BY <1>2, <3>1, <3>2
    <2> QED BY <1>9, <2>1 DEF NoncesOnce, IInv
  <1>11. \A x \in Issued : x.att \in Atts
    BY DEF Issued, IInv, AnswersOK, LinkKinds
  <1>12. ReplaysOnce' /\ TicketsOnce' /\ RenewalsOnce'
    BY <1>1, <1>2, <1>4, <1>9, <1>11 DEF ReplaysOnce, TicketsOnce, RenewalsOnce, IInv
  <1>13. AnswersOK'
    <2>1. \A m \in Releases : ReleasedOK(m)'
      <3>1. \A m \in Releases : Silent(m.id)' /\ m.id \in Ids
        BY <1>2 DEF IInv, AnswersOK, ReleasedOK, Silent, OpsOK, Releases
      <3> QED BY <1>1, <3>1 DEF IInv, AnswersOK, ReleasedOK, Admits
    <2>2. \A m \in replies : m.id < next /\ m.id \in Nat
      BY DEF IInv, OpsOK, Ids
    <2>3. \A m, n \in replies' : m.id = n.id => m = n
      <3>1. \A m \in replies, n \in new : m.id # n.id
        BY <1>2, <2>2 DEF Drifts
      <3> QED BY <1>2, <3>1 DEF IInv, AnswersOK, Drifts
    <2>4. \A m \in replies' : m.rec.kind \in LinkKinds =>
             m \in Releases' /\ m.rec.by = m.id /\ m.rec.att \in Atts
      <3>1. Nothing.kind \notin LinkKinds
        BY DEF Nothing, LinkKinds
      <3>2. \A m \in new : m.rec.kind \notin LinkKinds
        BY <3>1 DEF Drifts
      <3> QED BY <1>2, <1>4, <3>2 DEF IInv, AnswersOK
    <2> QED BY <1>4, <2>1, <2>3, <2>4 DEF AnswersOK
  <1> QED BY <1>5, <1>6, <1>7, <1>10, <1>12, <1>13 DEF IInv

LEMMA IgnoreAnswerDrifts == ASSUME IInv, NEW m \in mail, IgnoreAnswer(m) PROVE Drifts({})
  BY DEF IgnoreAnswer, Taken, count, Drifts, IInv, TypeOK

LEMMA IssueChallengeDrifts == ASSUME IInv, NEW d, IssueChallenge(d) PROVE Drifts({})
  <1>1. /\ issued' = issued + 1
        /\ \A c \in challenges' : c \in challenges \/ c = [nonce |-> issued + 1, device |-> d]
        /\ UNCHANGED <<scn, led, ops, next, lane, cust, replies, count>>
    BY DEF IssueChallenge
  <1> QED BY <1>1 DEF lane, cust, count, Drifts, IInv, TypeOK

LEMMA ExpireChallengeDrifts == ASSUME IInv, NEW c, ExpireChallenge(c) PROVE Drifts({})
  BY DEF ExpireChallenge, lane, cust, count, Drifts, IInv, TypeOK

LEMMA HandleOrderDrifts == ASSUME IInv, NEW q \in orders, HandleOrder(q) PROVE Drifts({})
  <1>1. q.corr \in Ids
    BY DEF IInv, TypeOK
  <1>2. \A r \in results' : r.corr \in Ids
    <2>1. \A r \in results' : r \in results \/ r.corr = q.corr
      BY DEF HandleOrder
    <2> QED BY <1>1, <2>1 DEF IInv, TypeOK
  <1>3. /\ orders' \subseteq orders
        /\ UNCHANGED <<scn, led, ops, next, challenges, issued, lane, replies, timeouts, restarts>>
    BY DEF HandleOrder
  <1> QED BY <1>2, <1>3 DEF lane, Drifts, IInv, TypeOK

LEMMA DirectoryRevokeDrifts == ASSUME IInv, NEW d, DirectoryRevoke(d) PROVE Drifts({})
  <1>1. PICK v : v = [kind |-> "device", active |-> FALSE]
    OBVIOUS
  <1>2. PICK x : x = DeviceKey(d)
    OBVIOUS
  <1>3. /\ led' = [led EXCEPT ![x] = v]
        /\ UNCHANGED <<scn, ops, next, challenges, issued, lane, cust, replies, count>>
    BY <1>1, <1>2 DEF DirectoryRevoke
  <1>4. x[1] = "device"
    BY <1>2, KeysAreApart
  <1>5. led' = [k \in Keys |-> led'[k]] /\ \A k \in Keys : k[1] # "device" => led'[k] = led[k]
    BY <1>3, <1>4 DEF IInv, TypeOK
  <1> QED BY <1>3, <1>5 DEF lane, cust, count, Drifts, IInv, TypeOK

LEMMA RefuseNowDrifts == ASSUME IInv, NEW b, RefuseNow(b) PROVE \E new : Drifts(new)
  <1>1. PICK o : o = [NewOp(b, Nothing) EXCEPT !.refusal = "busy"]
    OBVIOUS
  <1>2. o.refusal = "busy"
    BY <1>1 DEF NewOp
  <1>3. PICK a : a = Answer(next, o, FALSE)
    OBVIOUS
  <1>4. a.id = next /\ a.refusal # "none" /\ a.rec = Nothing
    BY <1>2, <1>3 DEF Answer
  <1>5. next \in Ids
    BY SkBounds DEF RefuseNow, IInv, TypeOK, Ids
  <1>6. Drifts({a})
    BY <1>1, <1>3, <1>4, <1>5 DEF RefuseNow, lane, cust, count, Drifts, IInv, TypeOK
  <1> QED BY <1>6

(***************************************************************************)
(* A request takes a slot.                                                 *)
(***************************************************************************)
Starts(n, w) ==
    /\ next \in Ids /\ next' = next + 1
    /\ ops' = [ops EXCEPT ![next] = n] /\ wire' = wire \cup {w}
    /\ challenges' \subseteq challenges
    /\ UNCHANGED <<scn, led, issued, mail, orders, results, replies, restarts>>
    /\ IsOp(n) /\ n.stage \notin {"free"} \cup CustodianStages /\ n.born = led[GrantKey]
    /\ n.body.replay \in Atts /\ (n.body.code = "recover" => n.body.ticket \in Ids)
    /\ n.refusal # "none" => n.stage = "write_audit" /\ n.out = Nothing
    /\ w.corr = next /\ Question(w)
    /\ n.refusal = "none" =>
          /\ Good(next, n) /\ Asked(next, n, w.q)
          /\ Proven(n.body) => /\ n.stage = "get_grant"
                               /\ \E c \in challenges : c.nonce = n.body.nonce
                               /\ \A c \in challenges' : c.nonce # n.body.nonce

LEMMA StartsInv == ASSUME IInv, NEW n, NEW w, Starts(n, w) PROVE IInv'
  <1> PICK i : i = next
    OBVIOUS
  <1>1. /\ i \in Ids /\ i \in Nat /\ next' = i + 1 /\ next \in Nat
        /\ ops' = [ops EXCEPT ![i] = n] /\ n.stage # "free"
        /\ led' = led /\ issued' = issued /\ replies' = replies /\ restarts' = restarts
        /\ scn' = scn /\ mail' = mail /\ wire' = wire \cup {w} /\ w.corr = i
        /\ challenges' \subseteq challenges /\ orders' = orders /\ results' = results
    BY DEF Starts, Ids
  <1>2. /\ ops'[i] = n /\ \A j \in Ids : j # i => ops'[j] = ops[j]
        /\ ops' = [j \in Ids |-> ops'[j]]
    BY <1>1 DEF IInv, TypeOK
  <1>3. i \notin Live /\ (\A j \in Live : j \in Ids /\ j < i /\ j \in Nat)
    BY DEF IInv, OpsOK, OpOK, Live, Ids
  <1>4. Silent(i) /\ (\A m \in replies : m.id < i /\ m.id \in Nat)
    BY DEF IInv, WireOK, Silent, OpsOK, Ids
  <1>5. Live' = Live \cup {i} /\ Going' = Going \cup (IF n.refusal = "none" THEN {i} ELSE {})
    BY <1>1, <1>2, <1>3 DEF Live, Going
  <1>6. TypeOK'
    <2>1. next' \in Nat \ {0} /\ \A c \in challenges' : c.nonce \in 1 .. issued'
      BY <1>1 DEF IInv, TypeOK
    <2> QED BY <1>1, <1>2, <2>1 DEF TypeOK, IInv, GrantVal, IsTicket
  <1>7. GrantGrows /\ next' \in {next, next + 1}
    BY <1>1 DEF GrantGrows
  <1>8. OpsOK'
    <2>1. ASSUME NEW j \in Live' PROVE OpOK(j, ops[j])'
      <3>1. CASE j # i
        <4> PICK p : p = ops'[j]
          OBVIOUS
        <4>1. OpOK(j, p) /\ j \in Ids /\ j \in Nat
          BY <1>2, <1>3, <1>5, <2>1, <3>1 DEF IInv, OpsOK
        <4>2. OpOK(j, p)'
          BY <1>1, <1>7, <4>1, OpStays
        <4> QED BY <4>2
      <3>2. CASE j = i
        <4>1. Nothing.kind = "none"
          BY DEF Nothing
        <4>2. led[GrantKey] = Nothing \/ (GrantVal(led[GrantKey]) /\ led[GrantKey] # Nothing)
          BY <4>1 DEF IInv, TypeOK
        <4>3. Since(n.born, led[GrantKey])' /\ (n.born # Nothing => GrantVal(led[GrantKey])')
          <5> PICK g : g = led[GrantKey]
            OBVIOUS
          <5>1. n.born = g /\ led'[GrantKey] = g /\ (g = Nothing \/ GrantVal(g))
            BY <1>1, <4>2 DEF Starts
          <5>2. GrantVal(g) => g.gen >= g.gen
            BY DEF GrantVal
          <5> QED BY <5>1, <5>2 DEF Since
        <4>4. Good(i, n)' <=> Good(i, n)
          <5>1. Issued' = Issued
            BY <1>1 DEF Issued
          <5> QED BY <5>1 DEF Good, ReleaseOK, ControlOK, GrantVal, Since, Admits, IsTicket, Proven
        <4>5. OpOK(i, n)'
          BY <1>1, <4>3, <4>4 DEF OpOK, Starts, Good, IsOp
        <4> QED BY <1>2, <3>2, <4>5
      <3> QED BY <3>1, <3>2
    <2>2. \A m \in replies' : m.id \in Ids /\ m.id < next' /\ m.id \notin Live'
      BY <1>1, <1>4, <1>5 DEF IInv, OpsOK
    <2> QED BY <2>1, <2>2 DEF OpsOK
  <1>9. WireOK'
    <2>1. \A x \in wire' : x.corr \in Ids /\ x.corr < next' /\ Question(x)'
      <3>1. \A x \in wire' : Question(x)
        BY <1>1 DEF Starts, IInv, WireOK
      <3>2. \A x \in wire : x.corr \in Ids /\ x.corr \in Nat /\ x.corr < i
        BY DEF IInv, WireOK, Ids
      <3>3. \A x \in wire' : x.corr \in Ids /\ x.corr < next'
        BY <1>1, <3>2
      <3> QED BY <1>1, <3>1, <3>3 DEF Question, WritesGrant, WritesTicket, GrantVal, IsTicket
    <2>2. \A m \in mail' : m.corr \in Ids /\ m.corr < next'
      BY <1>1 DEF IInv, WireOK, Ids
    <2>3. ASSUME NEW j \in Going', j # i
          PROVE  /\ OneMessage(j)' /\ (ops'[j].stage \in CustodianStages => Silent(j)')
                 /\ \A x \in wire' : x.corr = j => Asked(j, ops'[j], x.q)
                 /\ \A m \in mail' : m.corr = j /\ m.status = "ok" => Tells(j, ops[j], m.val)'
      <3>1. j \in Going /\ ops'[j] = ops[j] /\ j \in Ids
        BY <1>2, <1>5, <2>3 DEF Going, Live
      <3>2. mail' = mail /\ \A x \in wire' : x.corr = j => x \in wire
        BY <1>1, <2>3
      <3>3. OneMessage(j) /\ (ops[j].stage \in CustodianStages => Silent(j))
        BY <3>1 DEF IInv, WireOK
      <3>4. OneMessage(j)' /\ (ops'[j].stage \in CustodianStages => Silent(j)')
        BY <3>1, <3>2, <3>3 DEF OneMessage, Silent
      <3>5. \A x \in wire' : x.corr = j => Asked(j, ops'[j], x.q)
        BY <3>1, <3>2 DEF IInv, WireOK
      <3>6. \A m \in mail' : m.corr = j /\ m.status = "ok" => Tells(j, ops[j], m.val)
        BY <3>1, <3>2 DEF IInv, WireOK
      <3>7. \A m \in mail' : m.corr = j /\ m.status = "ok" => Tells(j, ops[j], m.val)'
        BY <1>1, <3>1, <3>6 DEF Tells, GrantVal, Since, IsTicket, Entry
      <3> QED BY <3>4, <3>5, <3>7
    <2>4. ASSUME i \in Going'
          PROVE  /\ OneMessage(i)' /\ (ops'[i].stage \in CustodianStages => Silent(i)')
                 /\ \A x \in wire' : x.corr = i => Asked(i, ops'[i], x.q)
                 /\ \A m \in mail' : m.corr # i
      <3>1. n.refusal = "none"
        BY <1>2, <2>4 DEF Going
      <3>2. Asked(i, n, w.q) /\ n.stage \notin CustodianStages
        BY <3>1 DEF Starts
      <3> QED BY <1>1, <1>2, <1>4, <3>2 DEF OneMessage, Silent
    <2>5. \A j \in Going', x \in wire' : x.corr = j => Asked(j, ops[j], x.q)'
      <3> SUFFICES ASSUME NEW j \in Going', NEW x \in wire', x.corr = j
                   PROVE  Asked(j, ops[j], x.q)'
        OBVIOUS
      <3> PICK p : p = ops'[j]
        OBVIOUS
      <3>1. Asked(j, p, x.q)
        BY <2>3, <2>4
      <3> QED BY <3>1 DEF Asked, Entry
    <2> QED BY <2>1, <2>2, <2>3, <2>4, <2>5 DEF WireOK
  <1>10. Releases' = Releases /\ Issued' = Issued /\ Done' = Done
    BY <1>1 DEF Releases, Issued, Done, Act, Proven
  <1>11. i \in Releasing' => n.refusal = "none" /\ Proven(n.body) /\ n.stage = "get_grant"
    BY <1>2 DEF Releasing, Going, Starts, Proven
  <1>12. /\ Releasing' \subseteq Releasing \cup {i} /\ Claiming' \subseteq Claiming
         /\ Spending' \subseteq Spending /\ Chaining' \subseteq Chaining
    <2>1. \A j \in Going' : j # i => ops'[j] = ops[j] /\ j \in Going
      BY <1>2, <1>5 DEF Going, Live
    <2>2. \A j : Told(j)' = Told(j)
      BY <1>1 DEF Told
    <2>3. Releasing' \subseteq Releasing \cup {i}
      BY <2>1 DEF Releasing, Proven
    <2>4. Claiming' \subseteq Claiming
      BY <1>2, <1>11, <2>1, <2>2, <2>3 DEF Claiming, Releasing, LateStages
    <2>5. Spending' \subseteq Spending
      BY <1>2, <1>11, <2>1, <2>2, <2>3 DEF Spending, Releasing
    <2>6. Chaining' \subseteq Chaining
      BY <1>2, <1>11, <2>1, <2>2, <2>3 DEF Chaining, Releasing
    <2> QED BY <2>3, <2>4, <2>5, <2>6
  <1>13. \A j \in Releasing : Act(j, ops[j])' = Act(j, ops[j]) /\ j # i
    BY <1>2, <1>3 DEF Releasing, Going, Live, Act
  <1>14. /\ Claimed' \subseteq Claimed /\ Recovered' \subseteq Recovered
         /\ Renewed' \subseteq Renewed
    <2>1. Claiming \subseteq Releasing /\ Spending \subseteq Releasing /\ Chaining \subseteq Releasing
      BY DEF Claiming, Spending, Chaining
    <2> QED BY <1>10, <1>12, <1>13, <2>1 DEF Claimed, Recovered, Renewed
  <1>15. ReplaysOnce' /\ TicketsOnce' /\ RenewalsOnce'
    BY <1>1, <1>10, <1>14 DEF ReplaysOnce, TicketsOnce, RenewalsOnce, IInv
  <1>16. NoncesOnce'
    <2> PICK y : y = Act(i, n)
      OBVIOUS
    <2>1. y.id = i /\ y.body = n.body
      BY DEF Act
    <2>2. \A x \in Challenged' : x \in Challenged \/ (x = y /\ i \in Releasing')
      <3>1. Act(i, ops[i])' = y
        BY <1>2 DEF Act
      <3> QED BY <1>10, <1>12, <1>13, <3>1 DEF Challenged
    <2>3. \A x \in Challenged : /\ x.body.nonce \in 1 .. issued
                                /\ \A c \in challenges : c.nonce # x.body.nonce
      BY DEF IInv, NoncesOnce
    <2>4. ASSUME i \in Releasing'
          PROVE  /\ y.body.nonce \in 1 .. issued
                 /\ \A c \in challenges' : c.nonce # y.body.nonce
                 /\ \A x \in Challenged : x.body.nonce # y.body.nonce
      <3>1. /\ \E c \in challenges : c.nonce = n.body.nonce
            /\ \A c \in challenges' : c.nonce # n.body.nonce
        BY <1>11, <2>4 DEF Starts
      <3>2. \A c \in challenges : c.nonce \in 1 .. issued
        BY DEF IInv, TypeOK
      <3> QED BY <2>1, <2>3, <3>1, <3>2
    <2>5. \A x \in Challenged' : /\ x.body.nonce \in 1 .. issued'
                                 /\ \A c \in challenges' : c.nonce # x.body.nonce
      BY <1>1, <2>2, <2>3, <2>4
    <2>6. \A x, z \in Challenged' : x.body.nonce = z.body.nonce => x.id = z.id
      BY <2>2, <2>4 DEF IInv, NoncesOnce
    <2> QED BY <2>5, <2>6 DEF NoncesOnce
  <1>17. AnswersOK'
    <2>1. \A m \in Releases : Silent(m.id)'
      <3>1. \A m \in replies : m.id # i
        BY <1>1, <1>4
      <3>2. \A m \in Releases : Silent(m.id) /\ m.id # i
        BY <3>1 DEF IInv, AnswersOK, ReleasedOK, Releases
      <3> QED BY <1>1, <3>2 DEF Silent
    <2>2. \A m \in Releases : ReleasedOK(m)'
      BY <1>1, <2>1 DEF IInv, AnswersOK, ReleasedOK, Admits
    <2> QED BY <1>1, <1>10, <2>2 DEF IInv, AnswersOK
  <1> QED BY <1>6, <1>8, <1>9, <1>15, <1>16, <1>17 DEF IInv

LEMMA SubmitInv ==
    ASSUME IInv, NEW b, NEW p, Submit(b, p), b.replay \in Atts,
           b.code = "recover" => b.ticket \in Ids,
           b.code = "renew" => p \in Issued
    PROVE  IInv'
  <1> PICK o : o = NewOp(b, p)
    OBVIOUS
  <1> PICK i : i = next
    OBVIOUS
  <1>1. /\ IsOp(o) /\ o.body = b /\ o.prev = p /\ o.born = led[GrantKey] /\ o.refusal = "none"
        /\ o.out = Nothing /\ o.envs = {}
    BY DEF NewOp, IsOp
  <1>2. next \in Ids /\ next' = next + 1
    BY SkBounds DEF Submit, IInv, TypeOK, Ids
  <1>3. UNCHANGED <<scn, led, issued, mail, results, replies, restarts>>
    BY DEF Submit, count
  <1>4. Nothing.kind \notin LinkKinds
    BY DEF Nothing, LinkKinds
  <1>5. ASSUME Finish(i, o, "challenge_unknown"), challenges' \subseteq challenges
        PROVE  IInv'
    <2>1. PICK e : e = [o EXCEPT !.refusal = "challenge_unknown"]
      OBVIOUS
    <2>2. IsOp(e) /\ e.body = b /\ e.born = led[GrantKey] /\ e.refusal = "challenge_unknown"
      BY <1>1, <2>1 DEF IsOp
    <2>3. PICK f : f = [e EXCEPT !.out = Nothing]
      OBVIOUS
    <2>4. IsOp(f) /\ f.body = b /\ f.born = led[GrantKey] /\ f.refusal = "challenge_unknown"
          /\ f.out = Nothing
      BY <2>2, <2>3 DEF IsOp
    <2>5. PICK h : h = [f EXCEPT !.envs = {}]
      OBVIOUS
    <2>6. IsOp(h) /\ h.body = b /\ h.born = led[GrantKey] /\ h.refusal = "challenge_unknown"
          /\ h.out = Nothing
      BY <2>4, <2>5 DEF IsOp
    <2>7. PICK n : n = [h EXCEPT !.stage = "write_audit"]
      OBVIOUS
    <2>8. IsOp(n) /\ n.body = b /\ n.born = led[GrantKey] /\ n.refusal = "challenge_unknown"
          /\ n.out = Nothing /\ n.stage = "write_audit"
      BY <2>6, <2>7 DEF IsOp
    <2>9. PICK w : w = [corr |-> i, q |-> PutIfAbsent(AuditKey(i), Entry(o, "challenge_unknown"))]
      OBVIOUS
    <2>10. [o EXCEPT !.refusal = "challenge_unknown", !.out = Nothing, !.envs = {}] = h
      BY <2>1, <2>3, <2>5
    <2>11. Ask(i, h, "write_audit", w.q)
      <3>1. [o EXCEPT !.refusal = "challenge_unknown",
                      !.out = IF "challenge_unknown" = "none" THEN @ ELSE Nothing,
                      !.envs = IF "challenge_unknown" = "none" THEN @ ELSE {}] = h
        BY <2>10
      <3> QED BY <1>5, <2>9, <3>1 DEF Finish
    <2>12. ops' = [ops EXCEPT ![i] = n] /\ wire' = wire \cup {w} /\ orders' = orders
      BY <2>7, <2>9, <2>11 DEF Ask
    <2>13. w.corr = i /\ Question(w)
      BY <2>9 DEF Question, PutIfAbsent, Entry
    <2>14. Starts(n, w)
      BY <1>2, <1>3, <1>5, <2>8, <2>12, <2>13 DEF Starts, CustodianStages
    <2> QED BY <2>14, StartsInv
  <1>6. ASSUME Ask(i, o, "get_grant", Get(GrantKey)), challenges' \subseteq challenges,
               Proven(b) => /\ \E c \in challenges : c.nonce = b.nonce
                            /\ \A c \in challenges' : c.nonce # b.nonce
        PROVE  IInv'
    <2>1. PICK n : n = [o EXCEPT !.stage = "get_grant"]
      OBVIOUS
    <2>2. IsOp(n) /\ n.body = b /\ n.born = led[GrantKey] /\ n.refusal = "none"
          /\ n.out = Nothing /\ n.stage = "get_grant" /\ n.prev = p /\ n.envs = {}
      BY <1>1, <2>1 DEF IsOp
    <2>3. PICK w : w = [corr |-> i, q |-> Get(GrantKey)]
      OBVIOUS
    <2>4. w.corr = i /\ w.q = Get(GrantKey) /\ Question(w)
      BY <2>3 DEF Question, Get
    <2>5. ops' = [ops EXCEPT ![i] = n] /\ wire' = wire \cup {w} /\ orders' = orders
      BY <1>6, <2>1, <2>3 DEF Ask
    <2>6. Asked(i, n, w.q)
      BY <2>2, <2>4 DEF Asked
    <2>7. Good(i, n)
      BY <1>4, <2>2 DEF Good, ReleaseOK, ControlOK, ProvenStages, ControlStages, LateStages
    <2>8. Starts(n, w)
      BY <1>2, <1>3, <1>6, <2>2, <2>4, <2>5, <2>6, <2>7 DEF Starts, CustodianStages
    <2> QED BY <2>8, StartsInv
  <1>7. ASSUME ~Proven(b), b.code = "create", UNCHANGED challenges PROVE IInv'
    <2>1. PICK g : g = GrantRec(1, 1, NoDevice, FALSE, {}, i)
      OBVIOUS
    <2>2. g.kind = "grant" /\ g.gen = 1 /\ g.epoch = 1 /\ g.retained = {}
      BY <2>1 DEF GrantRec
    <2>3. PICK c : c = Creation(i)
      OBVIOUS
    <2>4. c.kind = "creation"
      BY <2>3 DEF Creation, SetRec
    <2>5. Ask(i, [o EXCEPT !.out = c, !.aux = g, !.epoch = 1], "put_grant",
              PutIfAbsent(GrantKey, g))
      BY <1>7, <2>1, <2>3 DEF Submit
    <2>6. PICK e : e = [o EXCEPT !.out = c]
      OBVIOUS
    <2>7. IsOp(e) /\ e.body = b /\ e.born = led[GrantKey] /\ e.refusal = "none" /\ e.out = c
      BY <1>1, <2>6 DEF IsOp
    <2>8. PICK f : f = [e EXCEPT !.aux = g]
      OBVIOUS
    <2>9. IsOp(f) /\ f.body = b /\ f.born = led[GrantKey] /\ f.refusal = "none" /\ f.out = c
      BY <2>7, <2>8 DEF IsOp
    <2>10. PICK h : h = [f EXCEPT !.epoch = 1]
      OBVIOUS
    <2>11. IsOp(h) /\ h.body = b /\ h.born = led[GrantKey] /\ h.refusal = "none" /\ h.out = c
      BY <2>9, <2>10 DEF IsOp
    <2>12. [o EXCEPT !.out = c, !.aux = g, !.epoch = 1] = h
      BY <2>6, <2>8, <2>10
    <2>13. PICK n : n = [h EXCEPT !.stage = "put_grant"]
      OBVIOUS
    <2>14. IsOp(n) /\ n.body = b /\ n.born = led[GrantKey] /\ n.refusal = "none" /\ n.out = c
           /\ n.stage = "put_grant"
      BY <2>11, <2>13 DEF IsOp
    <2>15. PICK w : w = [corr |-> i, q |-> PutIfAbsent(GrantKey, g)]
      OBVIOUS
    <2>16. w.corr = i /\ w.q.op = "put" /\ w.q.key = GrantKey /\ w.q.old = Nothing /\ w.q.new = g
      BY <2>15 DEF PutIfAbsent
    <2>17. GrantVal(g)
      BY <2>2, FirstVal
    <2>18. WritesGrant(w.q)
      BY <2>16, <2>17 DEF WritesGrant
    <2>19. Question(w)
      BY <2>16, <2>18 DEF Question
    <2>20. ops' = [ops EXCEPT ![i] = n] /\ wire' = wire \cup {w} /\ orders' = orders
      BY <2>5, <2>12, <2>13, <2>15 DEF Ask
    <2>21. Asked(i, n, w.q)
      BY <2>14 DEF Asked
    <2>22. Good(i, n)
      BY <1>7, <2>4, <2>14 DEF Good, ControlOK, ControlStages, LinkKinds
    <2>23. Starts(n, w)
      BY <1>2, <1>3, <1>7, <2>14, <2>16, <2>19, <2>20, <2>21, <2>22 DEF Starts, CustodianStages
    <2> QED BY <2>23, StartsInv
  <1>8. CASE Proven(b)
    <2>1. challenges' = challenges \ Spent(b)
      BY <1>8 DEF Submit
    <2>2. challenges' \subseteq challenges /\ \A c \in challenges' : c.nonce # b.nonce
      BY <2>1 DEF Spent
    <2>3. CASE \E c \in challenges : c.nonce = b.nonce /\ c.device = b.device
      <3>1. Ask(i, o, "get_grant", Get(GrantKey))
        BY <1>8, <2>3 DEF Submit
      <3> QED BY <1>6, <2>2, <2>3, <3>1
    <2>4. CASE ~ \E c \in challenges : c.nonce = b.nonce /\ c.device = b.device
      <3>1. Finish(i, o, "challenge_unknown")
        BY <1>8, <2>4 DEF Submit
      <3> QED BY <1>5, <2>2, <3>1
    <2> QED BY <2>3, <2>4
  <1>9. CASE ~Proven(b)
    <2>1. UNCHANGED challenges
      BY <1>9 DEF Submit
    <2>2. CASE b.code = "create"
      BY <1>7, <1>9, <2>1, <2>2
    <2>3. CASE b.code # "create"
      <3>1. Ask(i, o, "get_grant", Get(GrantKey))
        BY <1>9, <2>3 DEF Submit
      <3> QED BY <1>6, <1>9, <2>1, <3>1
    <2> QED BY <2>2, <2>3
  <1> QED BY <1>8, <1>9

(* A renewal's body is the one presented, at the epoch of its record.      *)
LEMMA SubmitAnyInv == ASSUME IInv, NEW b \in scn.bodies, SubmitAny(b) PROVE IInv'
  <1>1. b \in Bodies /\ b.replay \in Atts
    BY DEF IInv, TypeOK, Bodies, Atts
  <1>2. b.code = "recover" => b.ticket \in Ids
    BY <1>1, SkBounds DEF Ids
  <1>3. CASE b.code # "renew"
    <2>1. Submit(b, Nothing)
      BY <1>3 DEF SubmitAny
    <2> QED BY <1>1, <1>2, <1>3, <2>1, SubmitInv
  <1>4. CASE b.code = "renew"
    <2>1. PICK p \in Issued : Submit([b EXCEPT !.epoch = p.epoch], p)
      BY <1>4 DEF SubmitAny
    <2>2. PICK c : c = [b EXCEPT !.epoch = p.epoch]
      OBVIOUS
    <2>3. c.code = b.code /\ c.replay = b.replay
      BY <2>2
    <2> QED BY <1>1, <1>4, <2>1, <2>2, <2>3, SubmitInv
  <1> QED BY <1>3, <1>4

(***************************************************************************)
(* A restart: only the ledger and what was answered are left.              *)
(***************************************************************************)
LEMMA RestartInv == ASSUME IInv, Restart PROVE IInv'
  <1>1. /\ restarts' = restarts + 1 /\ ops' = [i \in Ids |-> Free]
        /\ challenges' = {} /\ wire' = {} /\ mail' = {} /\ orders' = {} /\ results' = {}
        /\ scn' = scn /\ next' = next /\ issued' = issued /\ replies' = replies
        /\ restarts \in Nat
    BY DEF Restart, IInv, TypeOK
  <1>2. led' = [k \in Keys |-> led'[k]] /\ \A k \in Keys : k[1] # "replay" => led'[k] = led[k]
    BY DEF Restart, IInv, TypeOK
  <1>3. /\ led'[GrantKey] = led[GrantKey]
        /\ \A t \in Ids : /\ led'[TicketKey(t)] = led[TicketKey(t)]
                          /\ led'[AuditKey(t)] = led[AuditKey(t)]
        /\ \A a \in Atts : led'[ChainKey(a)] = led[ChainKey(a)]
    BY <1>2, KeysAreKeys, KeysAreApart
  <1>4. Live' = {} /\ Going' = {}
    BY <1>1 DEF Live, Going, Free
  <1>5. Releasing' = {} /\ Claiming' = {} /\ Spending' = {} /\ Chaining' = {}
    BY <1>4 DEF Releasing, Claiming, Spending, Chaining
  <1>6. Releases' = Releases /\ Issued' = Issued /\ Done' = Done
    BY <1>1 DEF Releases, Issued, Done, Act, Proven
  <1>7. /\ Challenged' \subseteq Challenged /\ Recovered' \subseteq Recovered
        /\ Renewed' \subseteq Renewed
    BY <1>5, <1>6 DEF Challenged, Recovered, Renewed
  <1>8. TypeOK'
    <2>1. ops' = [i \in Ids |-> ops'[i]]
      BY <1>1
    <2>2. restarts' \in Nat
      BY <1>1
    <2>3. led'[GrantKey] = Nothing \/ GrantVal(led[GrantKey])'
      BY <1>3 DEF IInv, TypeOK, GrantVal
    <2>4. \A t \in Ids : led'[TicketKey(t)] = Nothing \/ IsTicket(t, led[TicketKey(t)])'
      BY <1>3 DEF IInv, TypeOK, IsTicket
    <2>5. scn' \in Scenarios /\ next' \in Nat \ {0} /\ issued' \in Nat
      BY <1>1 DEF IInv, TypeOK
    <2> QED BY <1>1, <1>2, <2>1, <2>2, <2>3, <2>4, <2>5 DEF TypeOK
  <1>9. OpsOK'
    BY <1>1, <1>4 DEF IInv, OpsOK
  <1>10. WireOK'
    BY <1>1, <1>4 DEF WireOK
  <1>11. NoncesOnce'
    BY <1>1, <1>7 DEF IInv, NoncesOnce
  <1>12. ReplaysOnce'
    BY <1>1 DEF ReplaysOnce
  <1>13. TicketsOnce'
    BY <1>3, <1>7 DEF IInv, TicketsOnce
  <1>14. RenewalsOnce'
    <2>1. \A x \in Issued : x.att \in Atts
      BY DEF Issued, IInv, AnswersOK, LinkKinds
    <2> QED BY <1>3, <1>6, <1>7, <2>1 DEF IInv, RenewalsOnce
  <1>15. AnswersOK'
    <2>1. \A m \in Releases : m.id \in Ids /\ Silent(m.id)'
      BY <1>1 DEF IInv, OpsOK, Releases, Silent
    <2>2. \A m \in Releases : ReleasedOK(m)'
      BY <1>3, <2>1 DEF IInv, AnswersOK, ReleasedOK, Admits
    <2> QED BY <1>1, <1>6, <2>2 DEF IInv, AnswersOK
  <1> QED BY <1>8, <1>9, <1>10, <1>11, <1>12, <1>13, <1>14, <1>15 DEF IInv

(***************************************************************************)
(* The custodians' answers.                                                *)
(***************************************************************************)
LEMMA StayInv ==
    ASSUME IInv, NEW i \in Going, NEW o, Same(o, ops[i]), o.stage = ops[i].stage,
           o.stage \in CustodianStages, ops' = [ops EXCEPT ![i] = o],
           UNCHANGED <<wire, orders>>, Rest({}), Quiet(i, {}), Good(i, o), Holds(i, o)
    PROVE  IInv'
  <1>1. i \in Live /\ o.refusal = "none" /\ o.stage # "free"
    BY DEF Going, Same, CustodianStages
  <1>2. OpOK(i, o)
    BY <1>1, LiveOps DEF OpOK, Same, Good, CustodianStages
  <1>3. Moves(i, o, {}, {})
    BY <1>1, <1>2 DEF Moves, Same, Rest, Quiet, Holds, IInv, TypeOK
  <1> QED BY <1>3, MovesInv

LEMMA SpareIsOne ==
    ASSUME NEW spare, spare \subseteq Custodians, spare # {}
    PROVE  Min(spare) \in spare
  <1>1. \E x \in spare : \A y \in spare : x <= y
    <2>1. CASE 0 \in spare
      BY <2>1 DEF Custodians
    <2>2. CASE 0 \notin spare /\ 1 \in spare
      BY <2>2 DEF Custodians
    <2>3. CASE 0 \notin spare /\ 1 \notin spare
      <3>1. spare = {2}
        BY <2>3 DEF Custodians
      <3> QED BY <3>1
    <2> QED BY <2>1, <2>2, <2>3
  <1> QED BY <1>1 DEF Min

LEMMA CustodianResultInv ==
    ASSUME IInv, NEW r, NEW i \in Going, i = r.corr, NEW p, p = ops[i],
           p.stage = "custodians", r.from \in p.asked \ p.answered, CustodianResult(r),
           Rest({}), Quiet(i, {}), IsOp(p), ReleaseOK(i, p), Proven(p.body)
    PROVE  IInv'
  <1>1. PICK envs : envs = IF r.ok THEN p.envs \cup {r.from} ELSE p.envs
    OBVIOUS
  <1>2. PICK a : a = [p EXCEPT !.answered = @ \cup {r.from}]
    OBVIOUS
  <1>3. /\ IsOp(a) /\ a.stage = p.stage /\ a.body = p.body /\ a.prev = p.prev /\ a.born = p.born
        /\ a.refusal = p.refusal /\ a.grant = p.grant /\ a.ticket = p.ticket /\ a.out = p.out
        /\ a.chain = p.chain /\ a.envs = p.envs /\ a.asked = p.asked
    BY <1>2 DEF IsOp
  <1>4. PICK o : o = [a EXCEPT !.envs = envs]
    OBVIOUS
  <1>5. /\ IsOp(o) /\ o.stage = p.stage /\ o.body = p.body /\ o.prev = p.prev /\ o.born = p.born
        /\ o.refusal = p.refusal /\ o.grant = p.grant /\ o.ticket = p.ticket /\ o.out = p.out
        /\ o.chain = p.chain /\ o.envs = envs /\ o.asked = p.asked
    BY <1>3, <1>4 DEF IsOp
  <1>6. o = Heard(p, r)
    BY <1>1, <1>2, <1>3, <1>4 DEF Heard
  <1>7. Same(o, ops[i])
    BY <1>5 DEF Same
  <1>8. r.from \in Custodians /\ p.envs \subseteq Custodians /\ Cardinality(p.envs) <= 1
    BY DEF IsOp, ReleaseOK
  <1>9. IsFiniteSet(p.envs) /\ Cardinality(p.envs) \in Nat
    <2>1. IsFiniteSet(Custodians)
      <3>1. \A S, x : IsFiniteSet(S) => IsFiniteSet(S \cup {x})
        BY FS_AddElement
      <3>2. PICK S : S = {0}
        OBVIOUS
      <3>3. PICK T : T = S \cup {1}
        OBVIOUS
      <3>4. IsFiniteSet(S) /\ IsFiniteSet(T) /\ IsFiniteSet(T \cup {2})
        BY <3>1, <3>2, <3>3, FS_Singleton, Zenon
      <3>5. Custodians = T \cup {2}
        BY <3>2, <3>3 DEF Custodians
      <3> QED BY <3>4, <3>5
    <2> QED BY <1>8, <2>1, FS_Subset, FS_CardinalityType
  <1>10. envs \subseteq Custodians /\ Cardinality(envs) \in Nat /\ Cardinality(envs) <= 2
         /\ (~r.ok => envs = p.envs)
    <2>1. CASE ~r.ok
      BY <1>1, <1>8, <1>9, <2>1
    <2>2. CASE r.ok /\ r.from \in p.envs
      <3>1. envs = p.envs
        BY <1>1, <2>2
      <3> QED BY <1>8, <1>9, <2>2, <3>1
    <2>3. CASE r.ok /\ r.from \notin p.envs
      <3>1. envs = p.envs \cup {r.from}
        BY <1>1, <2>3
      <3>2. Cardinality(envs) = Cardinality(p.envs) + 1
        BY <1>9, <2>3, <3>1, FS_AddElement
      <3> QED BY <1>8, <1>9, <2>3, <3>1, <3>2
    <2> QED BY <2>1, <2>2, <2>3
  <1>11. i \in Claiming /\ (p.body.code = "recover" => i \in Spending)
    BY DEF Claiming, Spending, Releasing, LateStages
  <1>12. /\ GrantVal(p.grant) /\ Since(p.born, p.grant) /\ Admits(p.grant, p.body.epoch)
         /\ p.body.code # "recover" => ~p.grant.revoked /\ p.grant.device = p.body.device
         /\ p.body.code = "recover" =>
               p.ticket = Ticket(p.body.ticket, p.body.epoch, p.body.device, FALSE)
         /\ p.body.code # "renew"
         /\ p.out.kind \in LinkKinds => p.out.by = i /\ p.out.att \in Atts
    BY DEF ReleaseOK, LateStages
  <1>13. CASE r.ok /\ Cardinality(envs) < 2
    <2>1. ops' = [ops EXCEPT ![i] = o] /\ UNCHANGED <<wire, orders>>
      <3>1. r.ok /\ Cardinality(o.envs) < 2 /\ ~(Cardinality(o.envs) >= 2)
        BY <1>5, <1>10, <1>13
      <3> QED BY <1>6, <3>1 DEF CustodianResult
    <2>2. Cardinality(o.envs) <= 1 /\ o.envs \subseteq Custodians
      BY <1>5, <1>10, <1>13
    <2>3. ReleaseOK(i, o)
      BY <1>5, <1>12, <2>2 DEF ReleaseOK, ProvenStages, LateStages
    <2>4. Good(i, o) /\ Holds(i, o)
      BY <1>5, <1>11, <1>12, <2>3 DEF Good, Holds
    <2> QED BY <1>5, <1>7, <2>1, <2>4, StayInv DEF CustodianStages
  <1>14. CASE r.ok /\ Cardinality(envs) >= 2
    <2>1. Allow(i, o)
      <3>1. ~(Cardinality(envs) < 2)
        BY <1>10, <1>14
      <3> QED BY <1>5, <1>6, <1>14, <3>1 DEF CustodianResult
    <2>2. PICK n : n = [o EXCEPT !.stage = "write_audit"]
      OBVIOUS
    <2>3. /\ n.stage = "write_audit" /\ n.body = p.body /\ n.prev = p.prev /\ n.born = p.born
          /\ n.grant = p.grant /\ n.ticket = p.ticket /\ n.out = p.out /\ n.envs = envs
      BY <1>5, <2>2 DEF IsOp
    <2>4. Cardinality(n.envs) = 2
      BY <1>10, <1>14, <2>3
    <2>5. ReleaseOK(i, n)
      BY <1>12, <2>3, <2>4 DEF ReleaseOK, ProvenStages, LateStages
    <2>6. Good(i, n) /\ Holds(i, n)
      BY <1>11, <1>12, <2>3, <2>5 DEF Good, Holds
    <2> QED BY <1>7, <2>1, <2>2, <2>6, AllowInv
  <1>15. CASE ~r.ok /\ Custodians \ p.asked # {}
    <2>1. PICK c : c = Min(Custodians \ p.asked)
      OBVIOUS
    <2>2. c \in Custodians
      BY <1>15, <2>1, SpareIsOne
    <2>3. Order(i, o, "custodians", {c})
      BY <1>5, <1>6, <1>15, <2>1 DEF CustodianResult
    <2>4. PICK d : d = [o EXCEPT !.stage = "custodians"]
      OBVIOUS
    <2>5. /\ IsOp(d) /\ d.stage = "custodians" /\ d.body = p.body /\ d.prev = p.prev
          /\ d.born = p.born /\ d.asked = p.asked
          /\ d.grant = p.grant /\ d.ticket = p.ticket /\ d.out = p.out /\ d.envs = p.envs
      BY <1>5, <1>10, <1>15, <2>4 DEF IsOp
    <2>6. PICK n : n = [o EXCEPT !.stage = "custodians", !.asked = @ \cup {c}]
      OBVIOUS
    <2>7. n = [d EXCEPT !.asked = @ \cup {c}]
      BY <1>5, <2>4, <2>6
    <2>8. /\ n.stage = "custodians" /\ n.body = p.body /\ n.prev = p.prev /\ n.born = p.born
          /\ n.grant = p.grant /\ n.ticket = p.ticket /\ n.out = p.out /\ n.envs = p.envs
      BY <2>5, <2>7 DEF IsOp
    <2>9. ReleaseOK(i, n)
      BY <1>8, <1>12, <2>8 DEF ReleaseOK, ProvenStages, LateStages
    <2>10. Good(i, n) /\ Holds(i, n)
      BY <1>11, <1>12, <2>8, <2>9 DEF Good, Holds
    <2> QED BY <1>7, <2>2, <2>3, <2>6, <2>10, OrderInv DEF CustodianStages
  <1>16. CASE ~r.ok /\ Custodians \ p.asked = {}
    <2>1. Finish(i, o, "custodian_refused")
      BY <1>5, <1>6, <1>16 DEF CustodianResult
    <2>2. i \in Live
      BY DEF Going
    <2> QED BY <1>7, <2>1, <2>2, RefuseInv
  <1>17. Cardinality(envs) < 2 \/ Cardinality(envs) >= 2
    BY <1>10
  <1> QED BY <1>13, <1>14, <1>15, <1>16, <1>17

LEMMA EraseResultInv ==
    ASSUME IInv, NEW r, NEW i \in Going, i = r.corr, NEW p, p = ops[i],
           p.stage = "erase_custodians", EraseResult(r),
           Rest({}), Quiet(i, {}), IsOp(p), ControlOK(i, p), ~Proven(p.body)
    PROVE  IInv'
  <1>1. PICK o : o = [p EXCEPT !.answered = @ \cup {r.from}]
    OBVIOUS
  <1>2. /\ IsOp(o) /\ o.stage = p.stage /\ o.body = p.body /\ o.prev = p.prev /\ o.born = p.born
        /\ o.refusal = p.refusal /\ o.out = p.out
    BY <1>1 DEF IsOp
  <1>3. Same(o, ops[i])
    BY <1>2 DEF Same
  <1>4. ControlOK(i, o) /\ ~Proven(o.body)
    BY <1>2 DEF ControlOK
  <1>5. CASE ~r.ok
    <2>1. Finish(i, o, "custodian_refused")
      BY <1>1, <1>5 DEF EraseResult
    <2>2. i \in Live
      BY DEF Going
    <2> QED BY <1>3, <2>1, <2>2, RefuseInv
  <1>6. CASE r.ok /\ o.answered = Custodians
    <2>1. Allow(i, o)
      BY <1>1, <1>6 DEF EraseResult
    <2> QED BY <1>3, <1>4, <2>1, ControlAllowInv
  <1>7. CASE r.ok /\ o.answered # Custodians
    <2>1. ops' = [ops EXCEPT ![i] = o] /\ UNCHANGED <<wire, orders>>
      BY <1>1, <1>7 DEF EraseResult
    <2>2. Good(i, o) /\ Holds(i, o)
      BY <1>4 DEF Good, Holds
    <2> QED BY <1>2, <1>3, <2>1, <2>2, StayInv DEF CustodianStages
  <1> QED BY <1>5, <1>6, <1>7

LEMMA OnCustodianInv == ASSUME IInv, NEW r \in results, OnCustodian(r) PROVE IInv'
  <1> PICK i : i = r.corr
    OBVIOUS
  <1> PICK p : p = ops[i]
    OBVIOUS
  <1>1. /\ results' \subseteq results
        /\ UNCHANGED <<scn, led, next, challenges, issued, mail, seen, erased, replies, count>>
    BY DEF OnCustodian
  <1>2. Rest({})
    BY <1>1 DEF Rest, count
  <1>3. CASE p.stage \notin CustodianStages
    <2>1. UNCHANGED <<ops, wire, orders>>
      BY <1>3 DEF OnCustodian
    <2>2. Drifts({})
      BY <1>1, <2>1 DEF count, Drifts, IInv, TypeOK
    <2> QED BY <2>2, DriftsInv
  <1>4. CASE p.stage \in CustodianStages
    <2>1. i \in Ids /\ i \in Live
      BY <1>4 DEF IInv, TypeOK, Live, CustodianStages
    <2>2. OpOK(i, p) /\ IsOp(p)
      BY <2>1, LiveOps
    <2>3. p.refusal = "none" /\ i \in Going
      BY <1>4, <2>1, <2>2 DEF OpOK, Going, CustodianStages
    <2>4. Quiet(i, {})
      BY <1>4, <2>3 DEF IInv, WireOK, Silent, Quiet
    <2>5. CASE p.stage = "custodians"
      <3>1. ReleaseOK(i, p) /\ Proven(p.body)
        BY <2>2, <2>3, <2>5 DEF OpOK, ControlOK, ControlStages
      <3>2. r.from \in p.asked \ p.answered /\ CustodianResult(r)
        BY <1>4, <2>5 DEF OnCustodian
      <3> QED BY <1>2, <2>2, <2>3, <2>4, <2>5, <3>1, <3>2, CustodianResultInv
    <2>6. CASE p.stage = "erase_custodians"
      <3>1. ControlOK(i, p) /\ ~Proven(p.body)
        BY <2>2, <2>3, <2>6 DEF OpOK, ReleaseOK, ProvenStages
      <3>2. EraseResult(r)
        BY <1>4, <2>6 DEF OnCustodian
      <3> QED BY <1>2, <2>2, <2>3, <2>4, <2>6, <3>1, <3>2, EraseResultInv
    <2> QED BY <1>4, <2>5, <2>6 DEF CustodianStages
  <1> QED BY <1>3, <1>4

(***************************************************************************)
(* The ledger decides a request, or fails it.                              *)
(***************************************************************************)
(* It leaves the records alone, and says ok only to a read; or it applies  *)
(* the request, to the record the request expects unless it is a delete.   *)
Decision(q, out) ==
    \/ /\ out.led = led
       /\ out.status = "ok" => q.op = "get" /\ led[q.key] # Nothing /\ out.val = led[q.key]
    \/ /\ out.led = Applied(led, q) /\ q.op # "get"
       /\ q.op # "delete" => led[q.key] = q.old

LEMMA DecidedIs ==
    ASSUME NEW q, q.op = "delete" => q.new = Nothing, NEW out \in Decided(led, q)
    PROVE  Decision(q, out)
  <1> PICK cur : cur = led[q.key]
    OBVIOUS
  <1>1. CASE q.op = "get" /\ cur # Nothing
    BY <1>1 DEF Decided, Decision, Outcome
  <1>2. CASE q.op = "get" /\ cur = Nothing
    BY <1>2 DEF Decided, Decision, Outcome
  <1>3. CASE /\ q.op # "get" /\ cur = q.old /\ q.old # q.new
             /\ ~(q.op = "delete" /\ cur = Nothing)
    <2>1. out = Outcome("ok", Nothing, Applied(led, q))
      BY <1>3 DEF Decided
    <2> QED BY <1>3, <2>1 DEF Decision, Outcome
  <1>4. CASE q.op = "delete" /\ cur = Nothing
    <2>1. out = Outcome("not_found", Nothing, led)
      BY <1>4 DEF Decided
    <2> QED BY <2>1 DEF Decision, Outcome
  <1>5. CASE q.op = "delete" /\ cur \notin {q.old, Nothing}
    <2>1. out \in {Outcome("conflict", Nothing, led), Outcome("ok", Nothing, Applied(led, q))}
      BY <1>5 DEF Decided
    <2> QED BY <1>5, <2>1 DEF Decision, Outcome
  <1>6. CASE q.op # "get" /\ ~(cur = q.old /\ q.old # q.new)
             /\ ~(q.op = "delete" /\ (cur = Nothing \/ cur \notin {q.old, Nothing}))
    <2>1. out = Outcome("conflict", Nothing, led)
      BY <1>6 DEF Decided
    <2> QED BY <2>1 DEF Decision, Outcome
  <1> QED BY <1>1, <1>2, <1>3, <1>4, <1>5, <1>6

LEMMA FailedIs ==
    ASSUME NEW w, NEW out \in Failed(led, w.q) \cup Aged(w)
    PROVE  Decision(w.q, out)
  <1>1. \/ out = Outcome("unavailable", Nothing, led)
        \/ /\ w.q.op # "get" /\ led[w.q.key] = w.q.old
           /\ out = Outcome("unavailable", Nothing, Applied(led, w.q))
        \/ out = Outcome("retained", Nothing, led)
        \/ out = Outcome("not_found", Nothing, led)
    BY DEF Failed, Aged
  <1> QED BY <1>1 DEF Decision, Outcome

(* How a step of the ledger changes it: no more than this.                 *)
TicketGrows(t) ==
    LET x == led[TicketKey(t)]
        y == led'[TicketKey(t)]
    IN \/ y = x
       \/ x = Nothing /\ IsTicket(t, y)
       \/ IsTicket(t, x) /\ ~x.consumed /\ y = [x EXCEPT !.consumed = TRUE]

LedgerGrows(w) ==
    /\ led' = [k \in Keys |-> led'[k]]
    /\ GrantGrows
    /\ \A t \in Ids : TicketGrows(t)
    /\ \A i \in Ids : led[AuditKey(i)] # Nothing => led'[AuditKey(i)] = led[AuditKey(i)]
    /\ \A a \in Atts : \/ led'[ReplayKey(a)] = led[ReplayKey(a)]
                       \/ led'[ReplayKey(a)].kind = "claim"
    /\ \A a \in Atts : \/ led'[ChainKey(a)] = led[ChainKey(a)]
                       \/ led'[ChainKey(a)].kind = "renewal" /\ led'[ChainKey(a)].by = w.corr

LEMMA LedgerStep ==
    ASSUME IInv, NEW w \in wire, NEW out, Decision(w.q, out), led' = out.led
    PROVE  LedgerGrows(w)
  <1> PICK q : q = w.q
    OBVIOUS
  <1>1. Question(w) /\ w.corr \in Ids /\ led = [k \in Keys |-> led[k]]
    BY DEF IInv, WireOK, TypeOK
  <1>2. CASE led' = led
    BY <1>1, <1>2 DEF LedgerGrows, GrantGrows, TicketGrows
  <1>3. CASE led' # led
    <2>1. led' = Applied(led, q) /\ q.op # "get" /\ (q.op # "delete" => led[q.key] = q.old)
      BY <1>3 DEF Decision
    <2>2. PICK key : key = q.key
      OBVIOUS
    <2>3. /\ led' = [k \in Keys |-> led'[k]]
          /\ \A k \in Keys : k # key => led'[k] = led[k]
          /\ key \in Keys => led'[key] = q.new
      BY <1>1, <2>1, <2>2 DEF Applied
    <2>4. /\ key[1] # "grant" => led'[GrantKey] = led[GrantKey]
          /\ \A t \in Ids : key # TicketKey(t) => led'[TicketKey(t)] = led[TicketKey(t)]
          /\ \A i \in Ids : key # AuditKey(i) => led'[AuditKey(i)] = led[AuditKey(i)]
          /\ \A a \in Atts : key # ReplayKey(a) => led'[ReplayKey(a)] = led[ReplayKey(a)]
          /\ \A a \in Atts : key # ChainKey(a) => led'[ChainKey(a)] = led[ChainKey(a)]
      BY <2>3, KeysAreKeys, KeysAreApart
    <2>5. CASE key = GrantKey /\ WritesGrant(q)
      <3>1. led[GrantKey] = q.old /\ led'[GrantKey] = q.new
        BY <2>1, <2>2, <2>3, <2>5, KeysAreKeys DEF WritesGrant
      <3>2. GrantGrows
        BY <2>5, <3>1 DEF GrantGrows, WritesGrant
      <3>3. key[1] = "grant"
        BY <2>5, KeysAreApart
      <3> QED BY <2>3, <2>4, <3>2, <3>3, KeysAreApart DEF LedgerGrows, TicketGrows
    <2>6. CASE \E t \in Ids : key = TicketKey(t) /\ WritesTicket(t, q)
      <3>1. PICK t \in Ids : key = TicketKey(t) /\ WritesTicket(t, q)
        BY <2>6
      <3>2. led[TicketKey(t)] = q.old /\ led'[TicketKey(t)] = q.new
        BY <2>1, <2>2, <2>3, <3>1, KeysAreKeys DEF WritesTicket
      <3>3. TicketGrows(t)
        BY <3>1, <3>2 DEF TicketGrows, WritesTicket
      <3>4. key[1] = "ticket" /\ key[2] = t
        BY <3>1, KeysAreApart
      <3>5. ASSUME NEW s \in Ids PROVE TicketGrows(s)
        <4>1. CASE s = t
          BY <3>3, <4>1
        <4>2. CASE s # t
          <5>1. key # TicketKey(s)
            BY <3>4, <4>2, KeysAreApart
          <5> QED BY <2>4, <5>1 DEF TicketGrows
        <4> QED BY <4>1, <4>2
      <3> QED BY <2>3, <2>4, <3>4, <3>5, KeysAreApart DEF LedgerGrows, GrantGrows
    <2>7. CASE key = AuditKey(w.corr) /\ q.op = "put" /\ q.old = Nothing
      <3>1. led[AuditKey(w.corr)] = Nothing /\ key[1] = "audit" /\ key[2] = w.corr
        BY <2>1, <2>2, <2>7, KeysAreApart
      <3>2. \A i \in Ids : led[AuditKey(i)] # Nothing => led'[AuditKey(i)] = led[AuditKey(i)]
        BY <2>4, <3>1, KeysAreApart
      <3> QED BY <2>3, <2>4, <3>1, <3>2, KeysAreApart DEF LedgerGrows, GrantGrows, TicketGrows
    <2>8. CASE \E a \in Atts : key = ReplayKey(a) /\ q.new.kind = "claim"
      <3>1. PICK a \in Atts : key = ReplayKey(a) /\ q.new.kind = "claim"
        BY <2>8
      <3>2. led'[ReplayKey(a)].kind = "claim" /\ key[1] = "replay" /\ key[2] = a
        BY <2>3, <3>1, KeysAreKeys, KeysAreApart
      <3>3. \A x \in Atts : \/ led'[ReplayKey(x)] = led[ReplayKey(x)]
                            \/ led'[ReplayKey(x)].kind = "claim"
        BY <2>4, <3>1, <3>2, KeysAreApart
      <3> QED BY <2>3, <2>4, <3>2, <3>3, KeysAreApart DEF LedgerGrows, GrantGrows, TicketGrows
    <2>9. CASE \E a \in Atts : key = ChainKey(a) /\ q.new.kind = "renewal" /\ q.new.by = w.corr
      <3>1. PICK a \in Atts : key = ChainKey(a) /\ q.new.kind = "renewal" /\ q.new.by = w.corr
        BY <2>9
      <3>2. /\ led'[ChainKey(a)].kind = "renewal" /\ led'[ChainKey(a)].by = w.corr
            /\ key[1] = "chain" /\ key[2] = a
        BY <2>3, <3>1, KeysAreKeys, KeysAreApart
      <3>3. \A x \in Atts : \/ led'[ChainKey(x)] = led[ChainKey(x)]
                            \/ led'[ChainKey(x)].kind = "renewal" /\ led'[ChainKey(x)].by = w.corr
        BY <2>4, <3>1, <3>2, KeysAreApart
      <3> QED BY <2>3, <2>4, <3>2, <3>3, KeysAreApart DEF LedgerGrows, GrantGrows, TicketGrows
    <2>10. CASE key[1] = "set"
      BY <2>3, <2>4, <2>10, KeysAreApart DEF LedgerGrows, GrantGrows, TicketGrows
    <2> QED BY <1>1, <2>1, <2>2, <2>5, <2>6, <2>7, <2>8, <2>9, <2>10 DEF Question
  <1> QED BY <1>2, <1>3

LEMMA TicketFields ==
    /\ \A t, e, d, u : Ticket(t, e, d, u).kind = "ticket" /\ Ticket(t, e, d, u).consumed = u
    /\ \A t, e, d, u, v : [Ticket(t, e, d, u) EXCEPT !.consumed = v] = Ticket(t, e, d, v)
  <1>1. \A t, e, d, u : Ticket(t, e, d, u).kind = "ticket" /\ Ticket(t, e, d, u).consumed = u
    BY DEF Ticket
  <1>2. ASSUME NEW t, NEW e, NEW d, NEW u, NEW v
        PROVE  [Ticket(t, e, d, u) EXCEPT !.consumed = v] = Ticket(t, e, d, v)
    BY DEF Ticket
  <1> QED BY <1>1, <1>2

LEMMA SettleInv ==
    ASSUME IInv, NEW w \in wire, NEW out, Decision(w.q, out), Settle(w, out)
    PROVE  IInv'
  <1> PICK i : i = w.corr
    OBVIOUS
  <1> PICK q : q = w.q
    OBVIOUS
  <1> PICK y : y = [corr |-> w.corr, status |-> out.status, val |-> out.val]
    OBVIOUS
  <1>1. /\ led' = out.led /\ wire' = wire \ {w} /\ mail' = mail \cup {y}
        /\ scn' = scn /\ ops' = ops /\ next' = next /\ challenges' = challenges
        /\ issued' = issued /\ replies' = replies /\ restarts' = restarts
        /\ orders' = orders /\ results' = results
    BY DEF Settle, cust
  <1>2. y.corr = i /\ y.status = out.status /\ y.val = out.val
    OBVIOUS
  <1>3. LedgerGrows(w) /\ i \in Ids /\ i < next /\ i \in Nat /\ next \in Nat \ {0}
    <2>1. LedgerGrows(w)
      BY <1>1, LedgerStep
    <2> QED BY <2>1 DEF IInv, WireOK, TypeOK, Ids
  <1>4. Live' = Live /\ Going' = Going /\ Releasing' = Releasing
    BY <1>1 DEF Live, Going, Releasing, Proven
  <1>5. Releases' = Releases /\ Issued' = Issued /\ Done' = Done
    BY <1>1 DEF Releases, Issued, Done, Act, Proven
  <1>6. Nothing.kind = "none"
    BY DEF Nothing
  <1>7. \A j : Told(j)' <=> (Told(j) \/ (j = i /\ y.status = "ok"))
    BY <1>1, <1>2 DEF Told
  <1>8. y.status = "ok" /\ q.op # "get" =>
           led' = Applied(led, q) /\ (q.op # "delete" => led[q.key] = q.old)
    BY <1>1, <1>2 DEF Decision
  <1>9. y.status = "ok" /\ q.op = "get" => y.val = led[q.key] /\ led[q.key] # Nothing
    BY <1>2 DEF Decision
  <1>10. i \in Going => /\ Asked(i, ops[i], q) /\ OpOK(i, ops[i]) /\ IsOp(ops[i])
                        /\ ops[i].refusal = "none" /\ i \in Live
    BY LiveOps DEF Going, IInv, WireOK
  <1>11. \A k \in Keys : led' = Applied(led, q) /\ q.key = k => led'[k] = q.new
    BY DEF Applied, IInv, TypeOK
  <1>12. TypeOK'
    <2>1. led'[GrantKey] = Nothing \/ GrantVal(led'[GrantKey])
      BY <1>3 DEF LedgerGrows, GrantGrows, IInv, TypeOK
    <2>2. ASSUME NEW t \in Ids
          PROVE  led'[TicketKey(t)] = Nothing \/ IsTicket(t, led'[TicketKey(t)])
      <3> PICK x : x = led[TicketKey(t)]
        OBVIOUS
      <3> PICK z : z = led'[TicketKey(t)]
        OBVIOUS
      <3>1. \/ z = x \/ IsTicket(t, z)
            \/ IsTicket(t, x) /\ z = [x EXCEPT !.consumed = TRUE]
        BY <1>3, <2>2 DEF LedgerGrows, TicketGrows
      <3>2. x = Nothing \/ IsTicket(t, x)
        BY <2>2 DEF IInv, TypeOK
      <3>3. ASSUME IsTicket(t, x), z = [x EXCEPT !.consumed = TRUE] PROVE IsTicket(t, z)
        <4>1. PICK e, d, u : x = Ticket(t, e, d, u)
          BY <3>3 DEF IsTicket
        <4>2. PICK v : v = TRUE
          OBVIOUS
        <4>3. z = [x EXCEPT !.consumed = v]
          BY <3>3, <4>2
        <4>4. z = Ticket(t, e, d, v)
          BY <4>1, <4>3, TicketFields
        <4>5. z = Ticket(t, z.epoch, z.device, z.consumed) /\ z.consumed = v
          BY <4>4 DEF Ticket
        <4> QED BY <4>2, <4>5 DEF IsTicket
      <3> QED BY <3>1, <3>2, <3>3
    <2>3. led' = [k \in Keys |-> led'[k]]
      BY <1>3 DEF LedgerGrows
    <2> QED BY <1>1, <2>1, <2>2, <2>3 DEF IInv, TypeOK, GrantVal, IsTicket
  <1>13. OpsOK'
    <2>1. ASSUME NEW j \in Live' PROVE OpOK(j, ops[j])'
      <3> PICK p : p = ops'[j]
        OBVIOUS
      <3>1. OpOK(j, p) /\ j \in Ids
        BY <1>1, <1>4, <2>1 DEF Live, IInv, OpsOK
      <3>2. GrantGrows /\ j \in Nat
        BY <1>3, <3>1 DEF LedgerGrows, Ids
      <3>3. OpOK(j, p)'
        BY <1>1, <1>3, <3>1, <3>2, OpStays
      <3> QED BY <3>3
    <2> QED BY <1>1, <1>4, <2>1 DEF OpsOK, IInv
  <1>14. ASSUME i \in Going, y.status = "ok" PROVE Tells(i, ops[i], y.val)'
    <2> PICK p : p = ops[i]
      OBVIOUS
    <2>1. Asked(i, p, q) /\ OpOK(i, p) /\ p.refusal = "none"
      BY <1>10, <1>14
    <2>2. ASSUME p.stage = "get_grant" PROVE GrantVal(y.val) /\ Since(p.born, y.val)
      <3>1. q.op = "get" /\ q.key = GrantKey
        BY <2>1, <2>2 DEF Asked, Get
      <3> QED BY <1>9, <1>14, <2>1, <3>1 DEF OpOK, IInv, TypeOK
    <2>3. ASSUME p.stage = "get_ticket" PROVE IsTicket(p.body.ticket, y.val)
      <3>1. q.op = "get" /\ q.key = TicketKey(p.body.ticket)
        BY <2>1, <2>3 DEF Asked, Get
      <3>2. p.body.ticket \in Ids
        BY <2>1, <2>3 DEF OpOK, ReleaseOK, ControlOK, ControlStages
      <3> QED BY <1>9, <1>14, <3>1, <3>2 DEF IInv, TypeOK
    <2>4. ASSUME p.stage = "write_audit" PROVE led'[AuditKey(i)] = Entry(p, p.refusal)
      <3>1. q.op = "put" /\ q.key = AuditKey(i) /\ q.new = Entry(p, p.refusal)
        BY <2>1, <2>4 DEF Asked, PutIfAbsent
      <3> QED BY <1>3, <1>8, <1>11, <1>14, <3>1, KeysAreKeys
    <2>5. Tells(i, p, y.val)'
      BY <2>2, <2>3, <2>4 DEF Tells, GrantVal, Since, IsTicket, Entry
    <2> QED BY <1>1, <2>5
  <1>15. WireOK'
    <2>1. \A x \in wire' : x.corr \in Ids /\ x.corr < next' /\ Question(x)'
      BY <1>1 DEF IInv, WireOK, Question, WritesGrant, WritesTicket, GrantVal, IsTicket
    <2>2. \A m \in mail' : m.corr \in Ids /\ m.corr < next'
      BY <1>1, <1>2, <1>3 DEF IInv, WireOK
    <2>3. ASSUME NEW j \in Going'
          PROVE  /\ OneMessage(j)' /\ (ops'[j].stage \in CustodianStages => Silent(j)')
                 /\ \A x \in wire' : x.corr = j => Asked(j, ops'[j], x.q)
                 /\ \A m \in mail' : m.corr = j /\ m.status = "ok" => Tells(j, ops[j], m.val)'
      <3>1. j \in Going /\ ops'[j] = ops[j] /\ j \in Ids
        BY <1>1, <1>4, <2>3 DEF Going, Live
      <3>2. OneMessage(j) /\ (ops[j].stage \in CustodianStages => Silent(j))
        BY <3>1 DEF IInv, WireOK
      <3>3. OneMessage(j)'
        BY <1>1, <1>2, <3>2 DEF OneMessage
      <3>4. ops'[j].stage \in CustodianStages => Silent(j)'
        BY <1>1, <1>2, <3>1, <3>2 DEF Silent
      <3>5. \A x \in wire' : x.corr = j => Asked(j, ops'[j], x.q)
        BY <1>1, <3>1 DEF IInv, WireOK
      <3>6. ASSUME NEW m \in mail', m.corr = j, m.status = "ok" PROVE Tells(j, ops[j], m.val)'
        <4>1. CASE m \in mail
          <5> PICK p : p = ops[j]
            OBVIOUS
          <5>1. Tells(j, p, m.val)
            BY <3>1, <3>6, <4>1 DEF IInv, WireOK
          <5>2. \A e : led[AuditKey(j)] = Entry(p, e) => led'[AuditKey(j)] = Entry(p, e)
            <6>1. \A e : Entry(p, e).kind = "audit"
              BY DEF Entry
            <6>2. \A e : Entry(p, e) # Nothing
              BY <1>6, <6>1
            <6> QED BY <1>3, <3>1, <6>2 DEF LedgerGrows
          <5>3. Tells(j, p, m.val)'
            BY <5>1, <5>2 DEF Tells, GrantVal, Since, IsTicket, Entry
          <5> QED BY <3>1, <5>3
        <4>2. CASE m = y
          BY <1>2, <1>14, <3>1, <3>6, <4>2
        <4> QED BY <1>1, <3>6, <4>1, <4>2
      <3> QED BY <3>3, <3>4, <3>5, <3>6
    <2>4. \A j \in Going', x \in wire' : x.corr = j => Asked(j, ops[j], x.q)'
      <3> SUFFICES ASSUME NEW j \in Going', NEW x \in wire', x.corr = j
                   PROVE  Asked(j, ops[j], x.q)'
        OBVIOUS
      <3> PICK p : p = ops'[j]
        OBVIOUS
      <3>1. Asked(j, p, x.q)
        BY <2>3
      <3> QED BY <3>1 DEF Asked, Entry
    <2> QED BY <2>1, <2>2, <2>3, <2>4 DEF WireOK
  <1>16. NoncesOnce'
    <2>1. Challenged' = Challenged
      BY <1>1, <1>4, <1>5 DEF Challenged, Act
    <2> QED BY <1>1, <2>1 DEF IInv, NoncesOnce
  <1> PICK z : z = Act(i, ops[i])
    OBVIOUS
  <1>17. z.id = i /\ z.body = ops[i].body /\ z.prev = ops[i].prev
    BY DEF Act
  <1>18. ReplaysOnce'
    <2>1. SUFFICES ASSUME restarts = 0
                   PROVE  /\ \A x \in Claimed' : x.body.replay \in Atts
                                 /\ led'[ReplayKey(x.body.replay)] # Nothing
                          /\ \A x, v \in Claimed' : x.body.replay = v.body.replay => x.id = v.id
      BY <1>1 DEF ReplaysOnce
    <2>2. \A x \in Claimed' : \/ x \in Claimed
                              \/ /\ x = z /\ i \in Going /\ y.status = "ok"
                                 /\ ops[i].stage = "claim_replay"
      <3>1. \A j \in Claiming' : \/ j \in Claiming
                                 \/ /\ j = i /\ i \in Going /\ y.status = "ok"
                                    /\ ops[i].stage = "claim_replay"
        BY <1>1, <1>4, <1>7 DEF Claiming, Releasing
      <3> QED BY <1>1, <1>5, <3>1 DEF Claimed, Act
    <2>3. \A x \in Claimed : x.body.replay \in Atts /\ led[ReplayKey(x.body.replay)] # Nothing
      BY <2>1 DEF IInv, ReplaysOnce
    <2>4. ASSUME i \in Going, y.status = "ok", ops[i].stage = "claim_replay"
          PROVE  /\ z.body.replay \in Atts /\ led[ReplayKey(z.body.replay)] = Nothing
                 /\ led'[ReplayKey(z.body.replay)] # Nothing
      <3>1. /\ q.op = "put" /\ q.key = ReplayKey(z.body.replay) /\ q.old = Nothing
            /\ q.new.kind = "claim" /\ z.body.replay \in Atts
        BY <1>10, <1>17, <2>4 DEF Asked, OpOK
      <3>2. led[ReplayKey(z.body.replay)] = Nothing /\ led' = Applied(led, q)
        BY <1>8, <2>4, <3>1
      <3>3. led'[ReplayKey(z.body.replay)] = q.new
        BY <1>11, <3>1, <3>2, KeysAreKeys
      <3> QED BY <1>6, <3>1, <3>2, <3>3
    <2>5. \A x \in Claimed : led'[ReplayKey(x.body.replay)] # Nothing
      <3>1. \A a \in Atts : led[ReplayKey(a)] # Nothing => led'[ReplayKey(a)] # Nothing
        BY <1>3, <1>6 DEF LedgerGrows
      <3> QED BY <2>3, <3>1
    <2>6. \A x \in Claimed' : x.body.replay \in Atts /\ led'[ReplayKey(x.body.replay)] # Nothing
      BY <2>2, <2>3, <2>4, <2>5
    <2>7. \A x, v \in Claimed : x.body.replay = v.body.replay => x.id = v.id
      BY <2>1 DEF IInv, ReplaysOnce
    <2>8. \A x, v \in Claimed' : x.body.replay = v.body.replay => x.id = v.id
      BY <2>2, <2>3, <2>4, <2>7
    <2> QED BY <2>6, <2>8
  <1>19. TicketsOnce'
    <2>1. \A x \in Recovered' : \/ x \in Recovered
                                \/ /\ x = z /\ i \in Releasing /\ y.status = "ok"
                                   /\ ops[i].stage = "consume_ticket"
                                   /\ ops[i].body.code = "recover"
      <3>1. \A j \in Spending' : \/ j \in Spending
                                 \/ /\ j = i /\ i \in Releasing /\ y.status = "ok"
                                    /\ ops[i].stage = "consume_ticket"
                                    /\ ops[i].body.code = "recover"
        BY <1>1, <1>4, <1>7 DEF Spending
      <3> QED BY <1>1, <1>5, <3>1 DEF Recovered, Act
    <2>2. \A x \in Recovered :
             /\ x.body.ticket \in Ids
             /\ led[TicketKey(x.body.ticket)]
                  = Ticket(x.body.ticket, x.body.epoch, x.body.device, TRUE)
      BY DEF IInv, TicketsOnce
    <2>3. \A a, b, c : Ticket(a, b, c, TRUE).consumed = TRUE
      BY DEF Ticket
    <2>4. \A x \in Recovered : led'[TicketKey(x.body.ticket)] = led[TicketKey(x.body.ticket)]
      <3> SUFFICES ASSUME NEW x \in Recovered
                   PROVE  led'[TicketKey(x.body.ticket)] = led[TicketKey(x.body.ticket)]
        OBVIOUS
      <3> PICK u : u = led[TicketKey(x.body.ticket)]
        OBVIOUS
      <3>1. u.kind = "ticket" /\ u.consumed = TRUE /\ x.body.ticket \in Ids
        <4>1. PICK v : v = TRUE
          OBVIOUS
        <4>2. u = Ticket(x.body.ticket, x.body.epoch, x.body.device, v) /\ x.body.ticket \in Ids
          BY <2>2, <4>1
        <4>3. u.kind = "ticket" /\ u.consumed = v
          BY <4>2, TicketFields
        <4> QED BY <4>1, <4>2, <4>3
      <3>2. u # Nothing
        BY <1>6, <3>1
      <3> QED BY <1>3, <3>1, <3>2 DEF LedgerGrows, TicketGrows
    <2>5. ASSUME i \in Releasing, y.status = "ok", ops[i].stage = "consume_ticket",
                 ops[i].body.code = "recover"
          PROVE  /\ z.body.ticket \in Ids
                 /\ led[TicketKey(z.body.ticket)].consumed = FALSE
                 /\ led'[TicketKey(z.body.ticket)]
                      = Ticket(z.body.ticket, z.body.epoch, z.body.device, TRUE)
      <3> PICK p : p = ops[i]
        OBVIOUS
      <3>1. i \in Going /\ Proven(p.body)
        BY <2>5 DEF Releasing
      <3>2. Asked(i, p, q) /\ OpOK(i, p) /\ p.refusal = "none"
        BY <1>10, <3>1
      <3>3. ReleaseOK(i, p) /\ p.body.ticket \in Ids
        BY <2>5, <3>1, <3>2 DEF OpOK
      <3>4. p.ticket = Ticket(p.body.ticket, p.body.epoch, p.body.device, FALSE)
        BY <2>5, <3>3 DEF ReleaseOK, LateStages
      <3>5. /\ q.op = "cas" /\ q.key = TicketKey(p.body.ticket) /\ q.old = p.ticket
            /\ q.new = [p.ticket EXCEPT !.consumed = TRUE]
        BY <2>5, <3>2 DEF Asked
      <3>6. led[TicketKey(p.body.ticket)] = p.ticket /\ led'[TicketKey(p.body.ticket)] = q.new
        BY <1>8, <1>11, <2>5, <3>3, <3>5, KeysAreKeys
      <3>7. q.new = Ticket(p.body.ticket, p.body.epoch, p.body.device, TRUE)
        <4>1. PICK v : v = TRUE
          OBVIOUS
        <4>2. PICK u : u = FALSE
          OBVIOUS
        <4>3. p.ticket = Ticket(p.body.ticket, p.body.epoch, p.body.device, u)
          BY <3>4, <4>2
        <4>4. q.new = [p.ticket EXCEPT !.consumed = v]
          BY <3>5, <4>1
        <4>5. q.new = Ticket(p.body.ticket, p.body.epoch, p.body.device, v)
          BY <4>3, <4>4, TicketFields
        <4> QED BY <4>1, <4>5
      <3>8. p.ticket.consumed = FALSE
        BY <3>4 DEF Ticket
      <3> QED BY <1>17, <3>3, <3>6, <3>7, <3>8
    <2>6. \A x \in Recovered : led[TicketKey(x.body.ticket)].consumed = TRUE
      BY <2>2, <2>3
    <2>7. \A x \in Recovered' :
             /\ x.body.ticket \in Ids
             /\ led'[TicketKey(x.body.ticket)]
                  = Ticket(x.body.ticket, x.body.epoch, x.body.device, TRUE)
      BY <2>1, <2>2, <2>4, <2>5
    <2>8. \A x, v \in Recovered : x.body.ticket = v.body.ticket => x.id = v.id
      BY DEF IInv, TicketsOnce
    <2>9. \A x, v \in Recovered' : x.body.ticket = v.body.ticket => x.id = v.id
      BY <2>1, <2>5, <2>6, <2>8
    <2> QED BY <2>7, <2>9 DEF TicketsOnce, Ticket
  <1>20. RenewalsOnce'
    <2>1. \A x \in Renewed' : \/ x \in Renewed
                              \/ /\ x = z /\ i \in Releasing /\ y.status = "ok"
                                 /\ ops[i].stage = "put_chain" /\ ops[i].body.code = "renew"
      <3>1. \A j \in Chaining' : \/ j \in Chaining
                                 \/ /\ j = i /\ i \in Releasing /\ y.status = "ok"
                                    /\ ops[i].stage = "put_chain" /\ ops[i].body.code = "renew"
        BY <1>1, <1>4, <1>7 DEF Chaining
      <3> QED BY <1>1, <1>5, <3>1 DEF Renewed, Act
    <2>2. \A x \in Issued : x.att \in Atts /\ x.by # i
      <3>1. \A m \in replies : m.rec.kind \in LinkKinds =>
               m.rec.att \in Atts /\ m.rec.by = m.id /\ Silent(m.id)
        BY DEF IInv, AnswersOK, ReleasedOK
      <3>2. \A m \in replies : m.rec.kind \in LinkKinds => m.rec.att \in Atts /\ m.rec.by # i
        BY <3>1 DEF Silent
      <3> QED BY <3>2 DEF Issued, LinkKinds
    <2>3. \A x \in Renewed : x.prev \in Issued /\ led[ChainKey(x.prev.att)] \notin {Nothing, x.prev}
      BY DEF IInv, RenewalsOnce
    <2>4. ASSUME NEW x \in Renewed PROVE led'[ChainKey(x.prev.att)] \notin {Nothing, x.prev}
      <3>1. x.prev.att \in Atts /\ x.prev.by # i
        BY <2>2, <2>3, <2>4
      <3>2. \/ led'[ChainKey(x.prev.att)] = led[ChainKey(x.prev.att)]
            \/ led'[ChainKey(x.prev.att)].kind = "renewal" /\ led'[ChainKey(x.prev.att)].by = i
        BY <1>3, <3>1 DEF LedgerGrows
      <3> QED BY <1>6, <2>3, <2>4, <3>1, <3>2
    <2>5. ASSUME i \in Releasing, y.status = "ok", ops[i].stage = "put_chain",
                 ops[i].body.code = "renew"
          PROVE  /\ z.prev \in Issued /\ led[ChainKey(z.prev.att)] \in {Nothing, z.prev}
                 /\ led'[ChainKey(z.prev.att)] \notin {Nothing, z.prev}
      <3> PICK p : p = ops[i]
        OBVIOUS
      <3>1. i \in Going /\ Proven(p.body)
        BY <2>5 DEF Releasing
      <3>2. Asked(i, p, q) /\ OpOK(i, p) /\ p.refusal = "none"
        BY <1>10, <3>1
      <3>3. ReleaseOK(i, p)
        BY <3>1, <3>2 DEF OpOK
      <3>4. /\ p.prev \in Issued /\ p.out = Link("renewal", i, p.body, p.prev.att)
            /\ p.chain = Nothing \/ p.chain = p.prev
        BY <2>5, <3>3 DEF ReleaseOK, LateStages
      <3>5. p.out.kind = "renewal" /\ p.out.by = i
        BY <3>4 DEF Link
      <3>6. /\ q.op \in {"put", "cas"} /\ q.key = ChainKey(p.prev.att) /\ q.old = p.chain
            /\ q.new = p.out
        BY <2>5, <3>2 DEF Asked
      <3>7. p.prev.att \in Atts /\ p.prev.by # i
        BY <2>2, <3>4
      <3>8. led[ChainKey(p.prev.att)] = p.chain /\ led'[ChainKey(p.prev.att)] = p.out
        BY <1>8, <1>11, <2>5, <3>6, <3>7, KeysAreKeys
      <3> QED BY <1>6, <1>17, <3>4, <3>5, <3>7, <3>8
    <2>6. \A x, v \in Renewed : x.prev = v.prev => x.id = v.id
      BY DEF IInv, RenewalsOnce
    <2>7. \A x, v \in Renewed' : x.prev = v.prev => x.id = v.id
      BY <2>1, <2>3, <2>5, <2>6
    <2>8. \A x \in Renewed' : x.prev \in Issued /\ led'[ChainKey(x.prev.att)] \notin {Nothing, x.prev}
      BY <2>1, <2>3, <2>4, <2>5
    <2> QED BY <1>5, <2>7, <2>8 DEF RenewalsOnce
  <1>21. AnswersOK'
    <2>1. \A m \in Releases : ReleasedOK(m) /\ m.id \in Ids
      BY DEF IInv, AnswersOK, OpsOK, Releases
    <2>2. \A m \in Releases : led'[AuditKey(m.id)] = led[AuditKey(m.id)] /\ Silent(m.id)'
      <3> SUFFICES ASSUME NEW m \in Releases
                   PROVE  led'[AuditKey(m.id)] = led[AuditKey(m.id)] /\ Silent(m.id)'
        OBVIOUS
      <3>1. m.id \in Ids /\ Silent(m.id) /\ led[AuditKey(m.id)].kind = "audit"
        <4>1. m.id \in Ids /\ ReleasedOK(m)
          BY <2>1
        <4>2. /\ Silent(m.id)
              /\ led[AuditKey(m.id)]
                   = [kind |-> "audit", code |-> m.body.code, refusal |-> "none"]
          BY <4>1, Zenon DEF ReleasedOK
        <4> QED BY <4>1, <4>2
      <3>2. led[AuditKey(m.id)] # Nothing /\ m.id # i
        BY <1>6, <3>1 DEF Silent
      <3> QED BY <1>1, <1>2, <1>3, <3>1, <3>2 DEF LedgerGrows, Silent
    <2>3. \A m \in Releases : ReleasedOK(m)'
      BY <2>1, <2>2 DEF ReleasedOK, Admits
    <2> QED BY <1>1, <1>5, <2>3 DEF IInv, AnswersOK
  <1> QED BY <1>12, <1>13, <1>15, <1>16, <1>18, <1>19, <1>20, <1>21 DEF IInv

LEMMA LedgerInv == ASSUME IInv, NEW w \in wire, LedgerDecides(w) \/ LedgerFails(w) PROVE IInv'
  <1>1. w.q.op = "delete" => w.q.new = Nothing
    BY DEF IInv, WireOK, Question, WritesGrant, WritesTicket
  <1>2. CASE LedgerDecides(w)
    <2>1. PICK out \in Decided(led, w.q) : Settle(w, out)
      BY <1>2 DEF LedgerDecides
    <2>2. Decision(w.q, out)
      BY <1>1, <2>1, DecidedIs
    <2> QED BY <2>1, <2>2, SettleInv
  <1>3. CASE LedgerFails(w)
    <2>1. PICK out \in Failed(led, w.q) \cup Aged(w) : Settle(w, out)
      BY <1>3 DEF LedgerFails
    <2>2. Decision(w.q, out)
      BY <2>1, FailedIs
    <2> QED BY <2>1, <2>2, SettleInv
  <1> QED BY <1>2, <1>3

-----------------------------------------------------------------------------
LEMMA ProvisionedVal == ASSUME NEW g, g.kind = "grant", g.gen = 3, g.epoch = 2, g.retained = {1}
                        PROVE  GrantVal(g)
  <1>1. g.kind = "grant" /\ g.gen = 3 /\ g.epoch = 2 /\ g.retained = {1}
    OBVIOUS
  <1>2. Cardinality(g.retained) = 1
    BY <1>1, FS_Singleton, Zenon
  <1>3. Cardinality(g.retained) <= MaxRetained
    BY <1>2, SkBounds
  <1>4. g.retained \subseteq 1 .. (g.epoch - 1)
    BY <1>1
  <1> QED BY <1>1, <1>3, <1>4 DEF GrantVal

LEMMA InitInv == Init => IInv
  <1> SUFFICES ASSUME Init PROVE IInv
    OBVIOUS
  <1>1. /\ scn \in Scenarios /\ ops = [i \in Ids |-> Free] /\ next = 1
        /\ challenges = {} /\ issued = 0 /\ wire = {} /\ mail = {} /\ orders = {}
        /\ results = {} /\ replies = {} /\ restarts = 0
    BY DEF Init
  <1>2. Live = {} /\ Going = {}
    BY <1>1 DEF Live, Going, Free
  <1>3. Releases = {} /\ Releasing = {} /\ Claiming = {} /\ Spending = {} /\ Chaining = {}
    BY <1>1, <1>2 DEF Releases, Releasing, Claiming, Spending, Chaining
  <1>4. Done = {}
    BY <1>3 DEF Done
  <1>5. Challenged = {} /\ Claimed = {} /\ Recovered = {} /\ Renewed = {}
    BY <1>3, <1>4 DEF Challenged, Claimed, Recovered, Renewed
  <1>6. led = [k \in Keys |-> led[k]]
    <2> DEFINE First(k) == CASE k = GrantKey  -> GrantRec(2, 3, scn.owner, FALSE, {1}, 0)
                             [] k \in {SetKey(1), SetKey(2)} -> SetRec("set", k[2], 0)
                             [] k[1] = "device" -> [kind |-> "device", active |-> TRUE]
                             [] OTHER -> Nothing
               Empty(k) == IF k[1] = "device" THEN [kind |-> "device", active |-> TRUE]
                                              ELSE Nothing
    <2>1. led = [k \in Keys |-> First(k)] \/ led = [k \in Keys |-> Empty(k)]
      BY Zenon DEF Init, Provisioned
    <2> HIDE DEF First, Empty
    <2> QED BY <2>1
  <1>7. led[GrantKey] = Nothing \/ GrantVal(led[GrantKey])
    <2>1. CASE scn.start = "provisioned"
      <3>1. PICK g : g = GrantRec(2, 3, scn.owner, FALSE, {1}, 0)
        OBVIOUS
      <3>2. led[GrantKey] = g
        BY <2>1, <3>1, KeysAreKeys, KeysAreApart DEF Init, Provisioned
      <3>3. g.kind = "grant" /\ g.gen = 3 /\ g.epoch = 2 /\ g.retained = {1}
        BY <3>1 DEF GrantRec
      <3> QED BY <3>2, <3>3, ProvisionedVal
    <2>2. CASE scn.start # "provisioned"
      BY <2>2, KeysAreKeys, KeysAreApart DEF Init
    <2> QED BY <2>1, <2>2
  <1>8. ASSUME NEW t \in Ids PROVE led[TicketKey(t)] = Nothing
    <2>1. TicketKey(t) \in Keys /\ TicketKey(t)[1] = "ticket"
      BY <1>8, KeysAreKeys, KeysAreApart
    <2>2. TicketKey(t) # GrantKey /\ TicketKey(t) \notin {SetKey(1), SetKey(2)}
      BY <2>1, KeysAreApart
    <2> QED BY <2>1, <2>2 DEF Init, Provisioned
  <1>9. TypeOK
    BY <1>1, <1>6, <1>7, <1>8 DEF TypeOK
  <1>10. OpsOK /\ WireOK
    BY <1>1, <1>2 DEF OpsOK, WireOK
  <1>11. NoncesOnce /\ ReplaysOnce /\ TicketsOnce /\ RenewalsOnce
    BY <1>5 DEF NoncesOnce, ReplaysOnce, TicketsOnce, RenewalsOnce
  <1>12. AnswersOK
    BY <1>1, <1>3 DEF AnswersOK
  <1> QED BY <1>9, <1>10, <1>11, <1>12 DEF IInv

LEMMA OnLedgerInv == ASSUME IInv, NEW m \in mail, OnLedger(m) PROVE IInv'
  BY IgnoreAnswerDrifts, DriftsInv, GetGrantInv, GetCurrentSetInv, EraseGetSetInv,
     EraseDeleteSetInv, GetDeviceInv, GetTicketInv, GetSetInv, GetChainInv, GetOldSetInv, ClaimReplayInv,
     TicketConsumedInv, PutGrantInv, PutSetInv, CasGrantInv, LastWriteInv, WriteAuditInv
     DEF OnLedger

LEMMA NextInv == IInv /\ [Next]_vars => IInv'
  <1> SUFFICES ASSUME IInv, [Next]_vars PROVE IInv'
    OBVIOUS
  <1>1. CASE UNCHANGED vars
    <2>1. Drifts({})
      BY <1>1 DEF vars, lane, cust, count, Drifts, IInv, TypeOK
    <2> QED BY <2>1, DriftsInv
  <1>2. CASE Next
    <2>1. ASSUME NEW d \in Devices, IssueChallenge(d) \/ DirectoryRevoke(d) PROVE IInv'
      BY <2>1, IssueChallengeDrifts, DirectoryRevokeDrifts, DriftsInv
    <2>2. ASSUME NEW c \in challenges, ExpireChallenge(c) PROVE IInv'
      BY <2>2, ExpireChallengeDrifts, DriftsInv
    <2>3. ASSUME NEW b \in scn.bodies, SubmitAny(b) \/ RefuseNow(b) PROVE IInv'
      BY <2>3, SubmitAnyInv, RefuseNowDrifts, DriftsInv
    <2>4. ASSUME NEW m \in mail, OnLedger(m) PROVE IInv'
      BY <2>4, OnLedgerInv
    <2>5. ASSUME NEW i \in Ids, Tick(i) PROVE IInv'
      BY <2>5, TickInv
    <2>6. ASSUME NEW q \in orders, HandleOrder(q) PROVE IInv'
      BY <2>6, HandleOrderDrifts, DriftsInv
    <2>7. ASSUME NEW r \in results, OnCustodian(r) PROVE IInv'
      BY <2>7, OnCustodianInv
    <2>8. ASSUME NEW w \in wire, LedgerDecides(w) \/ LedgerFails(w) PROVE IInv'
      BY <2>8, LedgerInv
    <2> QED BY <1>2, <2>1, <2>2, <2>3, <2>4, <2>5, <2>6, <2>7, <2>8, RestartInv DEF Next
  <1> QED BY <1>1, <1>2

(* The inductive invariant holds of the storage-key service, whatever the  *)
(* scenarios and bounds.                                                   *)
THEOREM StorageKeyInvariant == Spec => []IInv
  BY InitInv, NextInv, PTL DEF Spec

(* What is used once.                                                      *)
LEMMA InvSingleUse == IInv => SingleUse
  <1> SUFFICES ASSUME IInv PROVE SingleUse
    OBVIOUS
  <1>1. ASSUME NEW m \in Releases, NEW n \in Releases, m.id # n.id
        PROVE  /\ m.body.nonce # n.body.nonce
               /\ restarts = 0 => m.body.replay # n.body.replay
               /\ m.body.code = "recover" /\ n.body.code = "recover" =>
                     m.body.ticket # n.body.ticket
               /\ m.body.code = "renew" /\ n.body.code = "renew" => m.prev # n.prev
    <2> PICK x : x = Act(m.id, m)
      OBVIOUS
    <2> PICK y : y = Act(n.id, n)
      OBVIOUS
    <2>1. /\ x.id = m.id /\ x.body = m.body /\ x.prev = m.prev
          /\ y.id = n.id /\ y.body = n.body /\ y.prev = n.prev
      BY DEF Act
    <2>2. x \in Done /\ y \in Done
      BY <1>1 DEF Done
    <2>3. x \in Challenged /\ y \in Challenged /\ x \in Claimed /\ y \in Claimed
      BY <2>2 DEF Challenged, Claimed
    <2>4. /\ m.body.code = "recover" => x \in Recovered
          /\ n.body.code = "recover" => y \in Recovered
          /\ m.body.code = "renew" => x \in Renewed
          /\ n.body.code = "renew" => y \in Renewed
      BY <2>1, <2>2 DEF Recovered, Renewed
    <2> QED BY <1>1, <2>1, <2>3, <2>4
            DEF IInv, NoncesOnce, ReplaysOnce, TicketsOnce, RenewalsOnce
  <1>2. \A m, n \in replies : m.id = n.id => m = n
    BY DEF IInv, AnswersOK
  <1> QED BY <1>1, <1>2 DEF SingleUse

LEMMA InvAuthorised == IInv => ReleaseIsAuthorised
  <1> SUFFICES ASSUME IInv, NEW m \in Releases
               PROVE  /\ ReleasedOK(m)
                      /\ m.body.code = "recover" =>
                            led[TicketKey(m.body.ticket)]
                              = Ticket(m.body.ticket, m.body.epoch, m.body.device, TRUE)
    BY DEF ReleaseIsAuthorised, ReleasedOK
  <1>1. ReleasedOK(m)
    BY DEF IInv, AnswersOK
  <1>2. ASSUME m.body.code = "recover"
        PROVE  led[TicketKey(m.body.ticket)]
                 = Ticket(m.body.ticket, m.body.epoch, m.body.device, TRUE)
    <2> PICK x : x = Act(m.id, m)
      OBVIOUS
    <2>1. x.body = m.body
      BY DEF Act
    <2>2. x \in Recovered
      BY <1>2, <2>1 DEF Done, Recovered
    <2> QED BY <2>1, <2>2 DEF IInv, TicketsOnce
  <1> QED BY <1>1, <1>2

LEMMA InvAudited == IInv => ReleaseIsAudited
  BY DEF IInv, AnswersOK, ReleasedOK, ReleaseIsAudited

(* SingleUse: no challenge, anti-replay id, ticket or attachment record is *)
(* used for two releases or renewals, and no request is answered twice     *)
(* (spend_challenge, CLAIM_REPLAY, CONSUME_TICKET, advance_chain), for any *)
(* number of overlapping operations, lost answers, expiries and restarts.  *)
THEOREM NothingIsUsedTwice == Spec => []SingleUse
  BY StorageKeyInvariant, InvSingleUse, PTL

(* ReleaseIsAuthorised: every release answered rests on a grant that stood *)
(* after the request came and admits its epoch; an attachment or a renewal *)
(* on one that is not revoked and is its device's, a recovery on a ticket  *)
(* of its own, spent (decide_release, decide_renewal).                     *)
THEOREM ReleasesAreAuthorised == Spec => []ReleaseIsAuthorised
  BY StorageKeyInvariant, InvAuthorised, PTL

(* ReleaseIsAudited: every release and renewal answered is in the audit    *)
(* trail, as allowed (finish, reply).                                      *)
THEOREM ReleasesAreAudited == Spec => []ReleaseIsAudited
  BY StorageKeyInvariant, InvAudited, PTL

LEMMA GrantStep == IInv /\ [Next]_vars => GrantGrows
  <1> SUFFICES ASSUME IInv, [Next]_vars PROVE GrantGrows
    OBVIOUS
  <1>1. CASE UNCHANGED led
    BY <1>1 DEF GrantGrows
  <1>2. CASE \E w \in wire : LedgerDecides(w) \/ LedgerFails(w)
    <2>1. PICK w \in wire : LedgerDecides(w) \/ LedgerFails(w)
      BY <1>2
    <2>2. w.q.op = "delete" => w.q.new = Nothing
      BY <2>1 DEF IInv, WireOK, Question, WritesGrant, WritesTicket
    <2>3. PICK out \in Decided(led, w.q) \cup Failed(led, w.q) \cup Aged(w) : Settle(w, out)
      BY <2>1 DEF LedgerDecides, LedgerFails
    <2>4. Decision(w.q, out)
      BY <2>2, <2>3, DecidedIs, FailedIs
    <2>5. led' = out.led
      BY <2>3 DEF Settle
    <2>6. LedgerGrows(w)
      BY <2>1, <2>4, <2>5, LedgerStep
    <2> QED BY <2>6 DEF LedgerGrows
  <1>3. ASSUME NEW d, DirectoryRevoke(d) PROVE GrantGrows
    <2>1. PICK v : v = [kind |-> "device", active |-> FALSE]
      OBVIOUS
    <2>2. led' = [led EXCEPT ![DeviceKey(d)] = v]
      BY <1>3, <2>1 DEF DirectoryRevoke
    <2>3. DeviceKey(d) # GrantKey
      BY KeysAreApart
    <2> QED BY <2>2, <2>3, KeysAreKeys DEF GrantGrows, IInv, TypeOK
  <1>4. ASSUME Restart PROVE GrantGrows
    <2>1. led'[GrantKey] = led[GrantKey]
      BY <1>4, KeysAreKeys, KeysAreApart DEF Restart
    <2> QED BY <2>1 DEF GrantGrows
  <1>5. ASSUME NEW m \in mail, OnLedger(m) PROVE UNCHANGED led
    BY <1>5 DEF OnLedger, Taken, IgnoreAnswer, GetGrant, GetCurrentSet, EraseGetSet,
       EraseDeleteSet, GetDevice, GetTicket, GetSet, GetChain, GetOldSet, ClaimReplay,
       TicketConsumed, PutGrant, PutSet, CasGrant, LastWrite, WriteAudit
  <1>6. ASSUME NEW b, SubmitAny(b) \/ RefuseNow(b) PROVE UNCHANGED led
    BY <1>6 DEF SubmitAny, Submit, RefuseNow
  <1>7. CASE Next
    <2>1. \A d : IssueChallenge(d) => UNCHANGED led
      BY DEF IssueChallenge
    <2>2. \A c : ExpireChallenge(c) => UNCHANGED led
      BY DEF ExpireChallenge
    <2>3. \A i : Tick(i) => UNCHANGED led
      BY DEF Tick
    <2>4. \A q : HandleOrder(q) => UNCHANGED led
      BY DEF HandleOrder
    <2>5. \A r : OnCustodian(r) => UNCHANGED led
      BY DEF OnCustodian
    <2> QED BY <1>1, <1>2, <1>3, <1>4, <1>5, <1>6, <1>7, <2>1, <2>2, <2>3, <2>4, <2>5 DEF Next
  <1> QED BY <1>1, <1>7 DEF vars

(* GrantMovesForward: the grant moves by one generation at a time, its     *)
(* epoch never goes back, and an erasure stands for ever, whatever is      *)
(* applied late or twice (CAS_GRANT, PUT_GRANT, erase).                    *)
THEOREM TheGrantMovesForward == Spec => GrantMovesForward
  <1>1. IInv /\ [Next]_vars => (LET g == led[GrantKey]
                                    h == led'[GrantKey]
                                IN g # h => \/ g = Nothing
                                            \/ /\ g.kind = "grant" /\ h # Nothing
                                               /\ h.gen = g.gen + 1
                                               /\ h.epoch \in {g.epoch, g.epoch + 1})
    <2> SUFFICES ASSUME IInv, [Next]_vars, NEW g, g = led[GrantKey], NEW h, h = led'[GrantKey],
                        g # h, g # Nothing
                 PROVE  /\ g.kind = "grant" /\ h # Nothing /\ h.gen = g.gen + 1
                        /\ h.epoch \in {g.epoch, g.epoch + 1}
      OBVIOUS
    <2>1. /\ g.kind = "grant" /\ GrantVal(h) /\ h.gen = g.gen + 1
          /\ h.epoch \in {g.epoch, g.epoch + 1}
      BY GrantStep DEF GrantGrows
    <2>2. h # Nothing
      BY <2>1 DEF GrantVal, Nothing
    <2> QED BY <2>1, <2>2
  <1> QED BY <1>1, StorageKeyInvariant, PTL DEF Spec, GrantMovesForward

-----------------------------------------------------------------------------
(***************************************************************************)
(* Custody.  What the grant and the sets are to each other, over IInv.     *)
(***************************************************************************)
Grant  == led[GrantKey]
Rec(e) == led[SetKey(e)]

(* The set of the last key a rotation made is not there.                   *)
Gone ==
    /\ Grant.kind = "erasure"
    /\ Grant.epoch > 1 => Rec(Grant.epoch) = Nothing \/ Rec(Grant.epoch).setid # Grant.setid

(* The grant was g once.                                                   *)
Behind(g) ==
    /\ GrantVal(g) /\ Grant # Nothing /\ GrantVal(Grant)
    /\ g = Grant \/ g.gen < Grant.gen
    /\ g.epoch <= Grant.epoch /\ (g.kind = "erasure" => g = Grant)

(* The set of epoch e may be deleted.                                      *)
Doomed(e) ==
    /\ e \in Nat /\ Grant # Nothing
    /\ Grant.kind = "erasure" \/ (e < Grant.epoch /\ e \notin Grant.retained)

Recoverable(g) == Grant = g => Rec(g.epoch).kind = "set"
Created(g, i) ==
    Grant = g => Rec(g.epoch + 1) # Nothing /\ Rec(g.epoch + 1).setid = i

(* While epoch 1 stands it is i's creation.                                *)
FirstBy(i) == IF Grant.epoch = 1 THEN Grant.setid = i ELSE Grant.setid # i
Fresh(i)   == Grant = Nothing \/ Grant.setid # i

PutsSet(q)  == q.op = "put" /\ q.key[1] = "set"
Rotates(q) == q.op = "cas" /\ q.key = GrantKey /\ q.new.epoch # q.old.epoch

CreationOK(i, q) ==
    /\ Grant # Nothing
    /\ \E e \in 1 .. LastEpoch :
          /\ q = PutIfAbsent(SetKey(e), SetRec("creation", e, i))
          /\ IF e = 1 THEN FirstBy(i) ELSE Fresh(i)

RotationOK(i, q) ==
    /\ q.new.kind = "grant" /\ q.new.setid = i
    /\ q.new.retained = q.old.retained \cup {q.old.epoch}
    /\ Recoverable(q.old) /\ Created(q.old, i)

WriteOK(i, q) ==
    /\ PutsSet(q) => CreationOK(i, q)
    /\ q.op = "cas" /\ q.key[1] = "set" =>
          q.old # Nothing /\ q.new.kind = "set" /\ q.new.setid = q.old.setid
    /\ q.op = "delete" => q.key = SetKey(q.key[2]) /\ Doomed(q.key[2])
    /\ q.op = "put" /\ q.key = GrantKey =>
          q.new.kind = "grant" /\ q.new.epoch = 1 /\ q.new.retained = {} /\ q.new.setid = i
    /\ q.op = "cas" /\ q.key = GrantKey =>
          /\ Behind(q.old)
          /\ IF Rotates(q) THEN RotationOK(i, q)
             ELSE q.new.setid = q.old.setid /\ q.new.retained \subseteq q.old.retained

WritesOK ==
    /\ \A w \in wire : WriteOK(w.corr, w.q)
    /\ \A v, w \in wire : v.corr = w.corr /\ Rotates(v.q) =>
          ~PutsSet(w.q) /\ (Rotates(w.q) => v = w)

(* Who may still move the grant to a new epoch.                            *)
Early(o) == o.body.code = "rotate_key" /\ o.stage \in {"get_grant", "get_current_set", "put_set"}
Able ==
    {i \in Ids : \/ i >= next \/ \E w \in wire : w.corr = i /\ Rotates(w.q)
                 \/ i \in Going /\ Early(ops[i])}

SetsOK ==
    /\ Grant = Nothing => \A e \in 1 .. LastEpoch : Rec(e) = Nothing
    /\ Grant # Nothing => /\ Grant.setid \in Nat /\ Grant.setid < next
                          /\ Grant.epoch + Cardinality(Able) <= MaxReqs + 2
    /\ Grant.kind = "grant" =>
          /\ \A e \in Grant.retained : Rec(e).kind = "set"
          /\ Rec(Grant.epoch) = Nothing => Grant.epoch = 1
          /\ Rec(Grant.epoch) # Nothing => Rec(Grant.epoch).setid = Grant.setid

Sweeping == {"erase_get_set", "erase_delete_set"}
Erasing(o) ==
    /\ Grant.kind = "erasure" /\ o.epoch = Grant.epoch
    /\ Gone \/ (o.stage \in Sweeping /\ o.cursor <= Grant.epoch)

Follows(i, o) ==
    LET code == o.body.code IN
    /\ Early(o) => Fresh(i)
    /\ o.stage = "get_current_set" => code = "rotate_key" /\ Behind(o.grant)
    /\ o.stage = "put_grant" => o.out = Creation(i) /\ o.epoch = 1
    /\ o.stage = "put_set" => code \in {"create", "rotate_key"}
    /\ o.stage = "put_set" /\ code = "rotate_key" =>
          /\ Behind(o.grant) /\ Recoverable(o.grant)
          /\ o.aux.setid = i /\ o.aux.retained = o.grant.retained \cup {o.grant.epoch}
    /\ o.stage \in {"get_old_set", "delete_set"} => code = "retire" /\ Doomed(o.epoch)
    /\ o.stage = "cas_set" => code = "record_set"
    /\ o.stage = "put_ticket" => code = "authorise"
    /\ o.stage \in Sweeping \cup {"erase_custodians"} => code = "erase" /\ o.cursor \in Nat
    /\ code = "erase" /\ o.stage \in Sweeping \cup {"erase_custodians", "write_audit"} => Erasing(o)

Requests(o, q) ==
    LET code == o.body.code IN
    /\ o.stage = "get_current_set" => q = Get(SetKey(o.grant.epoch))
    /\ o.stage = "put_grant" => q.op = "put" /\ q.key = GrantKey
    /\ o.stage = "put_set" => PutsSet(q)
    /\ o.stage = "put_set" /\ code = "rotate_key" => q.key = SetKey(o.grant.epoch + 1)
    /\ o.stage = "cas_grant" =>
          /\ q.op = "cas" /\ q.key = GrantKey
          /\ code = "retire" => o.body.epoch \in 1 .. (q.new.epoch - 1) \ q.new.retained
          /\ code = "erase"  => q.new.kind = "erasure" /\ q.new.epoch = o.epoch
    /\ o.stage = "erase_get_set" => q = Get(SetKey(o.cursor))
    /\ o.stage = "erase_delete_set" => q.op = "delete" /\ q.key = SetKey(o.cursor)

Learns(i, o, m) ==
    LET code == o.body.code IN
    /\ o.stage = "get_grant" /\ m.status = "ok" => Behind(m.val)
    /\ o.stage = "get_current_set" /\ m.status = "ok" /\ m.val.kind = "set" => Recoverable(o.grant)
    /\ o.stage = "put_grant" /\ m.status = "ok" => Grant # Nothing /\ FirstBy(i)
    /\ o.stage = "put_set" /\ code = "rotate_key" /\ m.status = "ok" => Created(o.grant, i)
    /\ o.stage = "cas_grant" /\ m.status = "ok" =>
          /\ code = "retire" => Doomed(o.body.epoch)
          /\ code = "erase"  => Grant.kind = "erasure" /\ Grant.epoch = o.epoch
    /\ o.stage = "erase_get_set" /\ m.status = "not_found" /\ o.cursor = Grant.epoch => Gone
    /\ o.stage = "erase_delete_set" /\ m.status \in {"ok", "not_found"} /\ o.cursor = Grant.epoch => Gone

FollowsOK ==
    /\ \A i \in Going : Follows(i, ops[i])
    /\ \A i \in Going, w \in wire : w.corr = i => Requests(ops[i], w.q)
    /\ \A i \in Going, m \in mail : m.corr = i => Learns(i, ops[i], m)

CInv == SetsOK /\ WritesOK /\ FollowsOK /\ (Erasures # {} => Gone)

(***************************************************************************)
(* Where the grant and the sets stay as they are.                          *)
(***************************************************************************)
CustodyStays == Grant' = Grant /\ \A e \in 1 .. LastEpoch : Rec(e)' = Rec(e)

LEMMA GrantIsVal ==
    ASSUME IInv, Grant # Nothing
    PROVE  GrantVal(Grant)
  BY DEF IInv, TypeOK, Grant

LEMMA FewAreAble ==
    IsFiniteSet(Able) /\ Cardinality(Able) \in Nat /\ Able \subseteq Ids
  <1>1. IsFiniteSet(Ids) /\ Able \subseteq Ids
    BY FS_Interval, SkBounds DEF Ids, Able
  <1> QED BY <1>1, FS_Subset, FS_CardinalityType

(* There is a key for the set of the next epoch.                           *)
LEMMA EpochsInReach ==
    ASSUME IInv, SetsOK, Grant # Nothing
    PROVE  Grant.epoch \in 1 .. LastEpoch /\ Grant.epoch + 1 \in 1 .. LastEpoch
  <1>1. Grant.epoch \in Nat \ {0} /\ Grant.epoch + Cardinality(Able) <= MaxReqs + 2
    BY GrantIsVal DEF GrantVal, SetsOK
  <1>2. Cardinality(Able) \in Nat
    BY FewAreAble
  <1> QED BY <1>1, <1>2, SkBounds DEF LastEpoch

LEMMA CustodySame ==
    ASSUME IInv, SetsOK, CustodyStays
    PROVE  /\ (Gone' <=> Gone)
           /\ \A i, q : WriteOK(i, q) => WriteOK(i, q)'
           /\ \A i, o : Follows(i, o) => Follows(i, o)'
           /\ \A i, o, m : Follows(i, o) /\ Learns(i, o, m) => Learns(i, o, m)'
  <1>1. Grant' = Grant /\ \A e \in 1 .. LastEpoch : Rec(e)' = Rec(e)
    BY DEF CustodyStays
  <1>0. Grant # Nothing => Rec(Grant.epoch)' = Rec(Grant.epoch)
                           /\ Rec(Grant.epoch + 1)' = Rec(Grant.epoch + 1)
    BY <1>1, EpochsInReach
  <1>2. Gone' <=> Gone
    <2>1. Grant.kind = "erasure" => Grant # Nothing
      BY DEF Nothing
    <2> QED BY <1>0, <1>1, <2>1 DEF Gone
  <1>3. \A g : (Behind(g)' <=> Behind(g))
    BY <1>1 DEF Behind, GrantVal
  <1>4. \A g : Behind(g) => /\ Recoverable(g) => Recoverable(g)'
                            /\ \A i : Created(g, i) => Created(g, i)'
    BY <1>0, <1>1 DEF Recoverable, Created, Behind
  <1>5. \A e : Doomed(e)' <=> Doomed(e)
    BY <1>1 DEF Doomed
  <1>6. \A i : (FirstBy(i)' <=> FirstBy(i)) /\ (Fresh(i)' <=> Fresh(i))
    BY <1>1 DEF FirstBy, Fresh
  <1>7. ASSUME NEW i, NEW q, WriteOK(i, q) PROVE WriteOK(i, q)'
    <2>1. PutsSet(q) => CreationOK(i, q)'
      BY <1>1, <1>6, <1>7 DEF WriteOK, CreationOK
    <2>2. Rotates(q) /\ Behind(q.old) /\ RotationOK(i, q) => RotationOK(i, q)'
      BY <1>4 DEF RotationOK
    <2> QED BY <1>3, <1>5, <1>7, <2>1, <2>2 DEF WriteOK, PutsSet, Rotates
  <1>8. ASSUME NEW i, NEW o, Follows(i, o) PROVE Follows(i, o)'
    <2>1. Erasing(o) => Erasing(o)'
      BY <1>1, <1>2 DEF Erasing
    <2> QED BY <1>3, <1>4, <1>5, <1>6, <1>8, <2>1 DEF Follows, Early
  <1>9. ASSUME NEW i, NEW o, NEW m, Follows(i, o), Learns(i, o, m) PROVE Learns(i, o, m)'
    <2>1. o.stage = "get_current_set" => Behind(o.grant)
      BY <1>9 DEF Follows
    <2>2. o.stage = "put_set" /\ o.body.code = "rotate_key" => Behind(o.grant)
      BY <1>9 DEF Follows
    <2>3. o.stage = "get_current_set" /\ Recoverable(o.grant) => Recoverable(o.grant)'
      BY <1>4, <2>1
    <2>4. o.stage = "put_set" /\ o.body.code = "rotate_key" /\ Created(o.grant, i)
             => Created(o.grant, i)'
      BY <1>4, <2>2
    <2>5. m.status = "ok" /\ Behind(m.val) => Behind(m.val)'
      BY <1>3
    <2> QED BY <1>1, <1>2, <1>5, <1>6, <1>9, <2>3, <2>4, <2>5 DEF Learns
  <1> QED BY <1>2, <1>7, <1>8, <1>9

LEMMA SetsStay ==
    ASSUME IInv, SetsOK, CustodyStays, next' \in {next, next + 1}, next \in Nat,
           Able' \subseteq Able
    PROVE  SetsOK'
  <1>1. Grant' = Grant /\ \A e \in 1 .. LastEpoch : Rec(e)' = Rec(e)
    BY DEF CustodyStays
  <1>2. Cardinality(Able') <= Cardinality(Able) /\ Cardinality(Able) \in Nat
        /\ Cardinality(Able') \in Nat
    BY FewAreAble, FS_Subset, FS_CardinalityType
  <1>3. Grant # Nothing => GrantVal(Grant) /\ Grant.epoch \in 1 .. LastEpoch
    BY GrantIsVal, EpochsInReach
  <1>4. Grant # Nothing => Grant.epoch + Cardinality(Able') <= MaxReqs + 2
    BY <1>2, <1>3, SkBounds DEF SetsOK
  <1>5. Grant # Nothing => Grant.setid \in Nat /\ Grant.setid < next'
    BY DEF SetsOK
  <1>6. ASSUME Grant.kind = "grant"
        PROVE  /\ \A e \in Grant.retained : Rec(e)' = Rec(e)
               /\ Rec(Grant.epoch)' = Rec(Grant.epoch)
    <2>1. Grant # Nothing
      BY <1>6 DEF Nothing
    <2>2. Grant.retained \subseteq 1 .. LastEpoch
      BY <1>3, <2>1, SkBounds DEF GrantVal, LastEpoch
    <2> PICK x : x = Grant.epoch
      OBVIOUS
    <2>3. x \in 1 .. LastEpoch /\ Grant'.epoch = x
      BY <1>1, <1>3, <2>1
    <2>4. Rec(x)' = Rec(x)
      BY <1>1, <2>3
    <2>5. Rec(Grant.epoch)' = Rec(Grant.epoch)
      BY <2>3, <2>4 DEF Rec, Grant
    <2>6. \A e \in Grant.retained : Rec(e)' = Rec(e)
      BY <1>1, <2>2
    <2> QED BY <2>5, <2>6
  <1> QED BY <1>1, <1>4, <1>5, <1>6 DEF SetsOK

(***************************************************************************)
(* The shapes a step takes, as far as custody goes.                        *)
(***************************************************************************)
Harmless(q) == ~PutsSet(q) /\ ~Rotates(q)

(* An operation goes on, or is refused.                                    *)
Turns(i, n, asks, takes) ==
    /\ i \in Live /\ ops' = [ops EXCEPT ![i] = n] /\ n.stage # "free"
    /\ UNCHANGED <<led, next, replies>>
    /\ wire' = wire \cup asks /\ mail' = mail \ takes
    /\ \A v, w \in asks : v = w
    /\ \A w \in asks : w.corr = i /\ WriteOK(i, w.q)
    /\ n.refusal # "none" => \A w \in asks : Harmless(w.q)
    /\ n.refusal = "none" =>
          /\ i \in Going /\ Quiet(i, takes) /\ Follows(i, n)
          /\ \A w \in asks : Requests(n, w.q)
          /\ Early(n) => Early(ops[i])
          /\ \A w \in asks : Rotates(w.q) => Early(ops[i])

LEMMA TurnsKeeps ==
    ASSUME IInv, CInv, NEW i, NEW n, NEW asks, NEW takes, Turns(i, n, asks, takes)
    PROVE  CInv'
  <1>1. /\ i \in Ids /\ i \in Live /\ ops' = [ops EXCEPT ![i] = n] /\ n.stage # "free"
        /\ led' = led /\ next' = next /\ replies' = replies
        /\ wire' = wire \cup asks /\ mail' = mail \ takes
    BY DEF Turns, Live
  <1>2. ops'[i] = n /\ \A j \in Ids : j # i => ops'[j] = ops[j]
    BY <1>1 DEF IInv, TypeOK
  <1>3. Going' \subseteq Ids /\ (\A j \in Going' : j # i => j \in Going)
        /\ (i \in Going' => n.refusal = "none" /\ i \in Going)
    BY <1>1, <1>2 DEF Going, Live, Turns
  <1>4. \A w \in asks : PutsSet(w.q) \/ Rotates(w.q) => n.refusal = "none"
    BY DEF Turns, Harmless
  <1>5. \A v \in asks, w \in wire : PutsSet(v.q) \/ Rotates(v.q) => w.corr # v.corr
    BY <1>4 DEF Turns, Quiet
  <1>6. Able' \subseteq Able
    <2> SUFFICES ASSUME NEW x \in Able' PROVE x \in Able
      OBVIOUS
    <2>1. x \in Ids /\ (x >= next \/ (\E w \in wire' : w.corr = x /\ Rotates(w.q))
                      \/ (x \in Going' /\ Early(ops'[x])))
      BY <1>1 DEF Able, Early, Rotates
    <2>2. CASE x >= next
      BY <2>1, <2>2 DEF Able
    <2>3. CASE \E w \in wire' : w.corr = x /\ Rotates(w.q)
      <3>1. PICK w \in wire' : w.corr = x /\ Rotates(w.q)
        BY <2>3
      <3>2. CASE w \in wire
        BY <2>1, <3>1, <3>2 DEF Able
      <3>3. CASE w \in asks
        <4>1. x = i /\ i \in Going /\ Early(ops[i])
          BY <1>4, <3>1, <3>3 DEF Turns
        <4> QED BY <2>1, <4>1 DEF Able
      <3> QED BY <1>1, <3>2, <3>3
    <2>4. CASE x \in Going' /\ Early(ops'[x])
      <3>1. CASE x = i
        <4>1. i \in Going /\ Early(ops[i])
          BY <1>2, <1>3, <2>4, <3>1 DEF Turns
        <4> QED BY <2>1, <3>1, <4>1 DEF Able
      <3>2. CASE x # i
        BY <1>2, <1>3, <2>1, <2>4, <3>2 DEF Able
      <3> QED BY <3>1, <3>2
    <2> QED BY <2>1, <2>2, <2>3, <2>4
  <1>0. CustodyStays /\ SetsOK
    BY <1>1 DEF CustodyStays, Grant, Rec, CInv
  <1>7. SetsOK'
    BY <1>0, <1>1, <1>6, SetsStay DEF IInv, TypeOK
  <1>8. WritesOK'
    <2>1. \A w \in wire' : WriteOK(w.corr, w.q)
      BY <1>1 DEF Turns, CInv, WritesOK
    <2>2. \A w \in wire' : WriteOK(w.corr, w.q)'
      BY <1>0, <2>1, CustodySame
    <2>3. ASSUME NEW v \in wire', NEW w \in wire', v.corr = w.corr, Rotates(v.q)
          PROVE  ~PutsSet(w.q) /\ (Rotates(w.q) => v = w)
      <3>1. CASE v \in wire /\ w \in wire
        BY <2>3, <3>1 DEF CInv, WritesOK
      <3>2. CASE v \in asks /\ w \in asks
        BY <2>3, <3>2 DEF Turns, Rotates, PutsSet
      <3>3. CASE v \in asks /\ w \in wire
        BY <1>5, <2>3, <3>3
      <3>4. CASE v \in wire /\ w \in asks
        BY <1>5, <2>3, <3>4
      <3> QED BY <1>1, <3>1, <3>2, <3>3, <3>4
    <2> QED BY <2>2, <2>3 DEF WritesOK, PutsSet, Rotates
  <1>9. FollowsOK'
    <2>1. ASSUME NEW j \in Going'
          PROVE  /\ Follows(j, ops'[j])
                 /\ \A w \in wire' : w.corr = j => Requests(ops'[j], w.q)
                 /\ \A m \in mail' : m.corr = j => Learns(j, ops'[j], m)
      <3>1. CASE j = i
        <4>1. n.refusal = "none" /\ ops'[j] = n
          BY <1>2, <1>3, <2>1, <3>1
        <4>2. \A w \in wire' : w.corr = j => w \in asks
          BY <1>1, <3>1, <4>1 DEF Turns, Quiet
        <4>3. \A m \in mail' : m.corr # j
          BY <1>1, <3>1, <4>1 DEF Turns, Quiet
        <4> QED BY <3>1, <4>1, <4>2, <4>3 DEF Turns
      <3>2. CASE j # i
        <4>1. j \in Going /\ ops'[j] = ops[j]
          BY <1>2, <1>3, <2>1, <3>2
        <4>2. \A w \in wire' : w.corr = j => w \in wire
          BY <1>1, <3>2 DEF Turns
        <4> QED BY <1>1, <4>1, <4>2 DEF CInv, FollowsOK
      <3> QED BY <3>1, <3>2
    <2>2. ASSUME NEW j \in Going' PROVE Follows(j, ops[j])'
      <3> PICK o : o = ops'[j]
        OBVIOUS
      <3>1. Follows(j, o)'
        BY <1>0, <2>1, CustodySame
      <3> QED BY <3>1
    <2>3. ASSUME NEW j \in Going', NEW m \in mail', m.corr = j PROVE Learns(j, ops[j], m)'
      <3> PICK o : o = ops'[j]
        OBVIOUS
      <3>1. Learns(j, o, m)'
        BY <1>0, <2>1, <2>3, CustodySame
      <3> QED BY <3>1
    <2>4. ASSUME NEW j \in Going', NEW w \in wire', w.corr = j PROVE Requests(ops[j], w.q)'
      <3> PICK o : o = ops'[j]
        OBVIOUS
      <3>1. Requests(o, w.q)
        BY <2>1, <2>4
      <3> QED BY <3>1 DEF Requests, PutsSet
    <2> QED BY <2>2, <2>3, <2>4 DEF FollowsOK
  <1>10. (Erasures # {} => Gone)'
    BY <1>0, <1>1, CustodySame DEF CInv, Erasures
  <1> QED BY <1>7, <1>8, <1>9, <1>10 DEF CInv

(* A request that touches neither the grant nor a set.                     *)
Mild(q) == q.op = "get" \/ (q.op \in {"put", "cas"} /\ q.key[1] \notin {"grant", "set"})

LEMMA MildIsHarmless ==
    ASSUME NEW q, Mild(q)
    PROVE  Harmless(q) /\ \A i : WriteOK(i, q)
  <1>1. ~PutsSet(q) /\ ~Rotates(q)
    BY KeysAreApart DEF Mild, PutsSet, Rotates
  <1> QED BY <1>1, KeysAreApart DEF Mild, Harmless, WriteOK

LEMMA RefuseC ==
    ASSUME IInv, CInv, NEW i \in Live, NEW o, NEW refusal, NEW takes, Same(o, ops[i]),
           refusal # "none", Finish(i, o, refusal), Rest(takes)
    PROVE  CInv'
  <1>1. PICK p : p = [o EXCEPT !.refusal = refusal,
                               !.out = IF refusal = "none" THEN @ ELSE Nothing,
                               !.envs = IF refusal = "none" THEN @ ELSE {}]
    OBVIOUS
  <1>2. PICK q : q = PutIfAbsent(AuditKey(i), Entry(o, refusal))
    OBVIOUS
  <1>3. Ask(i, p, "write_audit", q)
    BY <1>1, <1>2 DEF Finish
  <1>4. PICK a : a = [o EXCEPT !.refusal = refusal]
    OBVIOUS
  <1>5. PICK b : b = [a EXCEPT !.out = Nothing]
    OBVIOUS
  <1>6. p = [b EXCEPT !.envs = {}]
    BY <1>1, <1>4, <1>5
  <1>7. IsOp(a) /\ a.refusal = refusal
    BY <1>4 DEF Same, IsOp
  <1>8. IsOp(b) /\ b.refusal = refusal
    BY <1>5, <1>7 DEF IsOp
  <1>9. IsOp(p) /\ p.refusal = refusal
    BY <1>6, <1>8 DEF IsOp
  <1>10. PICK n : n = [p EXCEPT !.stage = "write_audit"]
    OBVIOUS
  <1>11. n.stage = "write_audit" /\ n.refusal = refusal
    BY <1>9, <1>10 DEF IsOp
  <1>12. PICK w : w = [corr |-> i, q |-> q]
    OBVIOUS
  <1>13. Mild(q) /\ w.corr = i /\ w.q = q
    BY <1>2, <1>12, KeysAreApart DEF Mild, PutIfAbsent
  <1>14. Harmless(q) /\ WriteOK(i, q)
    BY <1>13, MildIsHarmless
  <1>15. ops' = [ops EXCEPT ![i] = n] /\ wire' = wire \cup {w}
    BY <1>3, <1>10, <1>12 DEF Ask
  <1>16. Turns(i, n, {w}, takes)
    BY <1>11, <1>13, <1>14, <1>15 DEF Turns, Rest
  <1> QED BY <1>16, TurnsKeeps

LEMMA AskC ==
    ASSUME IInv, CInv, NEW i \in Going, NEW o, NEW stage, NEW q, NEW n, NEW takes,
           Same(o, ops[i]), n = [o EXCEPT !.stage = stage], stage # "free",
           Ask(i, o, stage, q), Rest(takes), Quiet(i, takes),
           Follows(i, n), Requests(n, q), WriteOK(i, q),
           Early(n) \/ Rotates(q) => Early(ops[i])
    PROVE  CInv'
  <1>1. n.stage = stage /\ n.refusal = "none" /\ i \in Live
    BY DEF Same, IsOp, Going
  <1>2. PICK w : w = [corr |-> i, q |-> q]
    OBVIOUS
  <1>3. w.corr = i /\ w.q = q
    BY <1>2
  <1>4. ops' = [ops EXCEPT ![i] = n] /\ wire' = wire \cup {w}
    BY <1>2 DEF Ask
  <1>5. Turns(i, n, {w}, takes)
    BY <1>1, <1>3, <1>4 DEF Turns, Rest
  <1> QED BY <1>5, TurnsKeeps

MildStages == {"get_device", "get_ticket", "get_chain", "get_set", "claim_replay",
               "consume_ticket", "put_chain"}

LEMMA MildC ==
    ASSUME IInv, CInv, NEW i \in Going, NEW o, NEW stage, NEW q, NEW takes,
           Same(o, ops[i]), stage \in MildStages,
           Ask(i, o, stage, q), Rest(takes), Quiet(i, takes), Mild(q)
    PROVE  CInv'
  <1>1. PICK n : n = [o EXCEPT !.stage = stage]
    OBVIOUS
  <1>2. n.stage \in MildStages
    BY <1>1 DEF Same, IsOp
  <1>3. ~Early(n) /\ Follows(i, n) /\ Requests(n, q)
    BY <1>2 DEF MildStages, Early, Follows, Requests, Sweeping
  <1>4. ~Rotates(q) /\ WriteOK(i, q)
    BY MildIsHarmless DEF Harmless
  <1> QED BY <1>1, <1>3, <1>4, AskC DEF MildStages

(* An act that is allowed, an erasure only with the last key gone.         *)
LEMMA AllowC ==
    ASSUME IInv, CInv, NEW i \in Going, NEW o, NEW takes, Same(o, ops[i]),
           Allow(i, o), Rest(takes), Quiet(i, takes),
           o.body.code = "erase" => Grant.kind = "erasure" /\ o.epoch = Grant.epoch /\ Gone
    PROVE  CInv'
  <1>1. o.refusal = "none"
    BY DEF Going, Same
  <1>2. [o EXCEPT !.refusal = "none", !.out = IF "none" = "none" THEN @ ELSE Nothing,
                  !.envs = IF "none" = "none" THEN @ ELSE {}] = o
    BY <1>1 DEF Same, IsOp
  <1>3. PICK q : q = PutIfAbsent(AuditKey(i), Entry(o, "none"))
    OBVIOUS
  <1>4. Ask(i, o, "write_audit", q)
    BY <1>2, <1>3 DEF Allow, Finish
  <1>5. PICK n : n = [o EXCEPT !.stage = "write_audit"]
    OBVIOUS
  <1>6. n.body = o.body /\ n.stage = "write_audit" /\ n.epoch = o.epoch
    BY <1>5 DEF Same, IsOp
  <1>7. Mild(q)
    BY <1>3, KeysAreApart DEF Mild, PutIfAbsent
  <1>8. ~Rotates(q) /\ WriteOK(i, q)
    BY <1>7, MildIsHarmless DEF Harmless
  <1>9. ~Early(n) /\ Requests(n, q)
    BY <1>6 DEF Early, Requests
  <1>10. Follows(i, n)
    BY <1>6 DEF Early, Follows, Erasing, Sweeping
  <1> QED BY <1>4, <1>5, <1>8, <1>9, <1>10, AskC

LEMMA OrderC ==
    ASSUME IInv, CInv, NEW i \in Going, NEW o, NEW stage, NEW cs, NEW takes,
           Same(o, ops[i]), stage \in CustodianStages, cs \subseteq Custodians,
           Order(i, o, stage, cs), Rest(takes), Quiet(i, takes),
           stage = "erase_custodians" =>
              /\ o.body.code = "erase" /\ o.cursor \in Nat
              /\ Grant.kind = "erasure" /\ o.epoch = Grant.epoch /\ Gone
    PROVE  CInv'
  <1>1. PICK a : a = [o EXCEPT !.stage = stage]
    OBVIOUS
  <1>2. /\ IsOp(a) /\ a.stage = stage /\ a.body = o.body /\ a.epoch = o.epoch
        /\ a.cursor = o.cursor /\ a.refusal = "none"
    BY <1>1 DEF Same, IsOp, Going
  <1>3. PICK n : n = [o EXCEPT !.stage = stage, !.asked = @ \cup cs]
    OBVIOUS
  <1>4. n = [a EXCEPT !.asked = @ \cup cs]
    BY <1>1, <1>3 DEF Same, IsOp
  <1>5. /\ n.stage = stage /\ n.body = o.body /\ n.epoch = o.epoch
        /\ n.cursor = o.cursor /\ n.refusal = "none"
    BY <1>2, <1>4 DEF IsOp
  <1>6. ~Early(n) /\ stage # "free" /\ i \in Live
    BY <1>5 DEF Early, CustodianStages, Going
  <1>7. Follows(i, n)
    BY <1>5, <1>6 DEF Follows, Erasing, Sweeping, CustodianStages
  <1>8. ops' = [ops EXCEPT ![i] = n] /\ wire' = wire \cup {}
    BY <1>3 DEF Order
  <1>9. Turns(i, n, {}, takes)
    BY <1>5, <1>6, <1>7, <1>8 DEF Turns, Rest
  <1> QED BY <1>9, TurnsKeeps

(* What an operation that asks for nothing of custody does.                *)
Milds(i, takes) ==
    \/ \E o, r : Same(o, ops[i]) /\ r # "none" /\ Finish(i, o, r)
    \/ \E o, stage, q : /\ Same(o, ops[i]) /\ stage \in MildStages /\ Mild(q)
                        /\ Ask(i, o, stage, q)
    \/ \E o : Same(o, ops[i]) /\ o.body.code # "erase" /\ Allow(i, o)
    \/ \E o, cs : Same(o, ops[i]) /\ cs \subseteq Custodians /\ Order(i, o, "custodians", cs)

LEMMA MildsC ==
    ASSUME IInv, CInv, NEW i \in Going, NEW takes, Rest(takes), Quiet(i, takes), Milds(i, takes)
    PROVE  CInv'
  <1>0. i \in Live
    BY DEF Going
  <1>1. CASE \E o, r : Same(o, ops[i]) /\ r # "none" /\ Finish(i, o, r)
    BY <1>0, <1>1, RefuseC
  <1>2. CASE \E o, stage, q : /\ Same(o, ops[i]) /\ stage \in MildStages /\ Mild(q)
                              /\ Ask(i, o, stage, q)
    BY <1>2, MildC
  <1>3. CASE \E o : Same(o, ops[i]) /\ o.body.code # "erase" /\ Allow(i, o)
    BY <1>3, AllowC
  <1>4. CASE \E o, cs : Same(o, ops[i]) /\ cs \subseteq Custodians /\ Order(i, o, "custodians", cs)
    BY <1>4, OrderC DEF CustodianStages
  <1> QED BY <1>1, <1>2, <1>3, <1>4 DEF Milds

(***************************************************************************)
(* One handler after another, as far as custody goes.                      *)
(***************************************************************************)
LEMMA EraseNextC ==
    ASSUME IInv, CInv, NEW i \in Going, NEW o, NEW takes, Same(o, ops[i]),
           o.body.code = "erase", o.cursor \in Nat,
           Grant.kind = "erasure", o.epoch = Grant.epoch, Gone \/ o.cursor <= Grant.epoch,
           EraseNext(i, o), Rest(takes), Quiet(i, takes)
    PROVE  CInv'
  <1>0. Grant.epoch \in Nat
    <2>1. Grant # Nothing
      BY DEF Nothing
    <2> QED BY <2>1, GrantIsVal DEF GrantVal
  <1>1. CASE o.cursor <= o.epoch + 1
    <2>1. PICK q : q = Get(SetKey(o.cursor))
      OBVIOUS
    <2>2. Ask(i, o, "erase_get_set", q)
      BY <1>1, <2>1 DEF EraseNext
    <2>3. PICK n : n = [o EXCEPT !.stage = "erase_get_set"]
      OBVIOUS
    <2>4. /\ n.stage = "erase_get_set" /\ n.body = o.body /\ n.epoch = o.epoch
          /\ n.cursor = o.cursor
      BY <2>3 DEF Same, IsOp
    <2>5. Erasing(n)
      BY <2>4 DEF Erasing, Sweeping
    <2>6. ~Early(n) /\ Follows(i, n)
      BY <2>4, <2>5 DEF Follows, Early, Sweeping
    <2>7. Requests(n, q)
      BY <2>1, <2>4 DEF Requests
    <2>8. Mild(q)
      BY <2>1 DEF Mild, Get
    <2>9. ~Rotates(q) /\ WriteOK(i, q)
      BY <2>8, MildIsHarmless DEF Harmless
    <2> QED BY <2>2, <2>3, <2>6, <2>7, <2>9, AskC
  <1>2. CASE ~(o.cursor <= o.epoch + 1)
    <2>1. PICK p : p = [o EXCEPT !.asked = {}, !.answered = {}]
      OBVIOUS
    <2>2. PICK a : a = [o EXCEPT !.asked = {}]
      OBVIOUS
    <2>3. IsOp(a) /\ a.body = o.body /\ a.prev = o.prev /\ a.born = o.born
          /\ a.refusal = o.refusal /\ a.epoch = o.epoch /\ a.cursor = o.cursor
      BY <2>2 DEF Same, IsOp
    <2>4. p = [a EXCEPT !.answered = {}]
      BY <2>1, <2>2
    <2>5. IsOp(p) /\ p.body = a.body /\ p.prev = a.prev /\ p.born = a.born
          /\ p.refusal = a.refusal /\ p.epoch = a.epoch /\ p.cursor = a.cursor
      BY <2>3, <2>4 DEF IsOp
    <2>6. Order(i, p, "erase_custodians", Custodians)
      BY <1>2, <2>1 DEF EraseNext
    <2>7. Same(p, ops[i])
      BY <2>3, <2>5 DEF Same
    <2>8. Gone
      BY <1>0, <1>2
    <2> QED BY <2>3, <2>5, <2>6, <2>7, <2>8, OrderC DEF CustodianStages
  <1> QED BY <1>1, <1>2

LEMMA StartEraseC ==
    ASSUME IInv, CInv, NEW i \in Going, NEW o, NEW takes, Same(o, ops[i]), o.body.code = "erase",
           Behind(o.grant), StartErase(i, o), Rest(takes), Quiet(i, takes)
    PROVE  CInv'
  <1>0. i \in Live
    BY DEF Going
  <1> DEFINE g == o.grant
             out == IF g.kind = "erasure" THEN g ELSE Erasure(g)
  <1>1. CASE o.body.pins # 0 \/ o.body.epoch # g.epoch
    <2>1. \E r : r # "none" /\ Finish(i, o, r)
      BY <1>1 DEF StartErase
    <2> QED BY <1>0, <2>1, RefuseC
  <1>3. PICK a : a = [o EXCEPT !.epoch = g.epoch]
    OBVIOUS
  <1>4. PICK e : e = [a EXCEPT !.out = out]
    OBVIOUS
  <1>5. IsOp(a) /\ a.body = o.body /\ a.prev = o.prev /\ a.born = o.born /\ a.refusal = o.refusal
        /\ a.grant = o.grant /\ a.epoch = g.epoch
    BY <1>3 DEF Same, IsOp
  <1>6. IsOp(e) /\ e.body = a.body /\ e.prev = a.prev /\ e.born = a.born
        /\ e.refusal = a.refusal /\ e.grant = a.grant /\ e.out = out /\ e.epoch = a.epoch
    BY <1>4, <1>5 DEF IsOp
  <1>7. e = [o EXCEPT !.epoch = g.epoch, !.out = out]
    BY <1>3, <1>4
  <1>9. CASE o.body.pins = 0 /\ o.body.epoch = g.epoch /\ g.kind = "erasure"
    <2>1. PICK x : x = [e EXCEPT !.cursor = 1]
      OBVIOUS
    <2>2. IsOp(x) /\ x.body = e.body /\ x.prev = e.prev /\ x.born = e.born
          /\ x.refusal = e.refusal /\ x.epoch = e.epoch /\ x.cursor = 1
      BY <1>6, <2>1 DEF IsOp
    <2>3. EraseNext(i, x)
      BY <1>7, <1>9, <2>1 DEF StartErase
    <2>4. Same(x, ops[i])
      BY <1>5, <1>6, <2>2 DEF Same
    <2>5. Grant = g /\ GrantVal(g)
      BY <1>9 DEF Behind
    <2>6. Grant.kind = "erasure" /\ x.epoch = Grant.epoch /\ x.cursor <= Grant.epoch
      BY <1>5, <1>6, <1>9, <2>2, <2>5 DEF GrantVal
    <2> QED BY <1>5, <1>6, <2>2, <2>3, <2>4, <2>6, EraseNextC
  <1>10. CASE o.body.pins = 0 /\ o.body.epoch = g.epoch /\ g.kind # "erasure"
    <2>1. PICK q : q = CompareAndSwap(GrantKey, g, e.out)
      OBVIOUS
    <2>2. Ask(i, e, "cas_grant", q)
      BY <1>7, <1>10, <2>1 DEF StartErase
    <2>3. PICK n : n = [e EXCEPT !.stage = "cas_grant"]
      OBVIOUS
    <2>4. n.stage = "cas_grant" /\ n.body = e.body /\ n.out = e.out /\ n.epoch = e.epoch
      BY <1>6, <2>3 DEF IsOp
    <2>5. q.op = "cas" /\ q.key = GrantKey /\ q.old = g /\ q.new = Erasure(g)
      BY <1>6, <1>10, <2>1 DEF CompareAndSwap
    <2>6. /\ q.new.kind = "erasure" /\ q.new.epoch = g.epoch /\ q.new.setid = g.setid
          /\ q.new.retained = {}
      BY <2>5 DEF Erasure
    <2>7. ~Early(n) /\ Follows(i, n)
      BY <2>4 DEF Early, Follows, Sweeping
    <2>8. n.body.code = "erase"
      BY <1>5, <1>6, <2>4
    <2>9. Requests(n, q)
      BY <1>5, <1>6, <2>4, <2>5, <2>6, <2>8 DEF Requests
    <2>10. ~Rotates(q) /\ ~PutsSet(q)
      BY <2>5, <2>6 DEF Rotates, PutsSet
    <2>11. WriteOK(i, q)
      BY <2>5, <2>6, <2>10, KeysAreApart DEF WriteOK
    <2>12. Same(e, ops[i])
      BY <1>5, <1>6 DEF Same
    <2> QED BY <2>2, <2>3, <2>7, <2>9, <2>10, <2>11, <2>12, AskC
  <1> QED BY <1>1, <1>9, <1>10

LEMMA AfterGrantC ==
    ASSUME IInv, CInv, NEW i \in Going, NEW o, NEW takes, Same(o, ops[i]),
           Behind(o.grant), AfterGrant(i, o), Rest(takes), Quiet(i, takes),
           o.body.code = "rotate_key" => Fresh(i) /\ Early(ops[i])
    PROVE  CInv'
  <1> DEFINE b == o.body
             g == o.grant
  <1>0. i \in Live
    BY DEF Going
  <1>1. CASE Proven(b) \/ b.code = "record_set"
    <2>1. \/ \E r : r # "none" /\ Finish(i, o, r)
          \/ \E stage, q : stage \in {"get_device", "get_set"} /\ q.op = "get" /\ Ask(i, o, stage, q)
      BY <1>1 DEF AfterGrant, Get, Proven
    <2>2. Milds(i, takes)
      BY <2>1 DEF Milds, MildStages, Mild
    <2> QED BY <2>2, MildsC
  <1>2. CASE b.code = "erase"
    <2>1. StartErase(i, o)
      BY <1>2 DEF AfterGrant, Proven
    <2> QED BY <1>2, <2>1, StartEraseC
  <1>3. CASE b.code = "rotate_key"
    <2>1. CASE Cardinality(g.retained) >= MaxRetained
      <3>1. Finish(i, o, "retained_full")
        BY <1>3, <2>1 DEF AfterGrant, Proven
      <3> QED BY <1>0, <3>1, RefuseC
    <2>2. CASE ~(Cardinality(g.retained) >= MaxRetained)
      <3>1. PICK q : q = Get(SetKey(g.epoch))
        OBVIOUS
      <3>2. Ask(i, o, "get_current_set", q)
        BY <1>3, <2>2, <3>1 DEF AfterGrant, Proven
      <3>3. PICK n : n = [o EXCEPT !.stage = "get_current_set"]
        OBVIOUS
      <3>4. n.stage = "get_current_set" /\ n.body = b /\ n.grant = g
        BY <3>3 DEF Same, IsOp
      <3>5. Follows(i, n)
        BY <1>3, <3>4 DEF Follows, Sweeping
      <3>6. Requests(n, q)
        BY <3>1, <3>4 DEF Requests
      <3>7. Mild(q)
        BY <3>1 DEF Mild, Get
      <3>8. ~Rotates(q) /\ WriteOK(i, q)
        BY <3>7, MildIsHarmless DEF Harmless
      <3> QED BY <1>3, <3>2, <3>3, <3>5, <3>6, <3>8, AskC
    <2> QED BY <2>1, <2>2
  <1>4. CASE b.code = "authorise"
    <2>1. CASE Admits(g, b.epoch)
      <3>1. PICK t : t = Ticket(i, b.epoch, b.device, FALSE)
        OBVIOUS
      <3>2. PICK x : x = [o EXCEPT !.out = t]
        OBVIOUS
      <3>3. IsOp(x) /\ Same(x, ops[i]) /\ x.body = b
        BY <3>2 DEF Same, IsOp
      <3>4. PICK q : q = PutIfAbsent(TicketKey(i), t)
        OBVIOUS
      <3>5. Ask(i, x, "put_ticket", q)
        BY <1>4, <2>1, <3>1, <3>2, <3>4 DEF AfterGrant, Proven
      <3>6. PICK n : n = [x EXCEPT !.stage = "put_ticket"]
        OBVIOUS
      <3>7. n.stage = "put_ticket" /\ n.body = b
        BY <3>3, <3>6 DEF IsOp
      <3>8. ~Early(n) /\ Follows(i, n) /\ Requests(n, q)
        BY <1>4, <3>7 DEF Early, Follows, Requests, Sweeping
      <3>9. Mild(q)
        BY <3>4, KeysAreApart DEF Mild, PutIfAbsent
      <3>10. ~Rotates(q) /\ WriteOK(i, q)
        BY <3>9, MildIsHarmless DEF Harmless
      <3> QED BY <3>3, <3>5, <3>6, <3>8, <3>10, AskC
    <2>2. CASE ~Admits(g, b.epoch)
      <3>1. Finish(i, o, "wrong_epoch")
        BY <1>4, <2>2 DEF AfterGrant, Proven
      <3> QED BY <1>0, <3>1, RefuseC
    <2> QED BY <2>1, <2>2
  <1>5. CASE ~Proven(b) /\ b.code \notin {"erase", "record_set", "rotate_key", "authorise"}
    <2>1. CASE ChangeRefusal(b, g) # "none"
      <3>1. Finish(i, o, ChangeRefusal(b, g))
        BY <1>5, <2>1 DEF AfterGrant
      <3> QED BY <1>0, <2>1, <3>1, RefuseC
    <2>2. CASE ChangeRefusal(b, g) = "none"
      <3>1. PICK new : new = Changed(b, g)
        OBVIOUS
      <3>2. PICK x : x = [o EXCEPT !.out = new]
        OBVIOUS
      <3>3. IsOp(x) /\ Same(x, ops[i]) /\ x.body = b
        BY <3>2 DEF Same, IsOp
      <3>4. PICK q : q = CompareAndSwap(GrantKey, g, new)
        OBVIOUS
      <3>5. Ask(i, x, "cas_grant", q)
        BY <1>5, <2>2, <3>1, <3>2, <3>4 DEF AfterGrant
      <3>6. PICK n : n = [x EXCEPT !.stage = "cas_grant"]
        OBVIOUS
      <3>7. n.stage = "cas_grant" /\ n.body = b
        BY <3>3, <3>6 DEF IsOp
      <3>8. /\ new.kind = "grant" /\ new.epoch = g.epoch /\ new.setid = g.setid
            /\ new.retained = IF b.code = "retire" THEN g.retained \ {b.epoch} ELSE g.retained
        BY <3>1 DEF Changed, GrantRec
      <3>9. q.op = "cas" /\ q.key = GrantKey /\ q.old = g /\ q.new = new
        BY <3>4 DEF CompareAndSwap
      <3>10. b.code = "retire" => b.epoch \in 1 .. (new.epoch - 1) \ new.retained
        <4> HAVE b.code = "retire"
        <4>1. b.epoch \in g.retained
          BY <2>2 DEF ChangeRefusal
        <4>2. g.retained \subseteq 1 .. (g.epoch - 1) /\ g.epoch \in Nat
          BY DEF Behind, GrantVal
        <4> QED BY <3>8, <4>1, <4>2
      <3>11. ~Early(n) /\ Follows(i, n)
        BY <3>7 DEF Early, Follows, Sweeping
      <3>12. Requests(n, q)
        BY <1>5, <3>7, <3>9, <3>10 DEF Requests
      <3>13. ~Rotates(q) /\ ~PutsSet(q)
        BY <3>8, <3>9 DEF Rotates, PutsSet
      <3>14. WriteOK(i, q)
        BY <3>8, <3>9, <3>13, KeysAreApart DEF WriteOK
      <3> QED BY <3>3, <3>5, <3>6, <3>11, <3>12, <3>13, <3>14, AskC
    <2> QED BY <2>1, <2>2
  <1> QED BY <1>1, <1>2, <1>3, <1>4, <1>5

(* What an operation that takes its answer is known to be.                 *)
LEMMA TakesC ==
    ASSUME IInv, CInv, NEW m \in mail, NEW i, i = m.corr, NEW o, o = ops[i],
           o.stage \notin {"free", "write_audit"}
    PROVE  Follows(i, o) /\ Learns(i, o, m)
  <1>1. i \in Going
    BY TakesItsAnswer
  <1> QED BY <1>1 DEF CInv, FollowsOK

LEMMA GetGrantC == ASSUME IInv, CInv, NEW m \in mail, GetGrant(m) PROVE CInv'
  <1> PICK i : i = m.corr
    OBVIOUS
  <1> PICK p : p = ops[i]
    OBVIOUS
  <1>1. p.stage = "get_grant" /\ Rest({m})
    BY TakenRests DEF GetGrant, At
  <1>2. /\ i \in Live /\ i \in Going /\ Quiet(i, {m}) /\ Same(p, ops[i]) /\ IsOp(p)
    BY <1>1, TakesItsAnswer
  <1>3. Follows(i, p) /\ Learns(i, p, m)
    BY <1>1, TakesC
  <1>4. PICK o : o = [p EXCEPT !.grant = m.val]
    OBVIOUS
  <1>5. IsOp(o) /\ Same(o, ops[i]) /\ o.grant = m.val /\ o.body = p.body
    BY <1>2, <1>4 DEF Same, IsOp
  <1>6. CASE m.status # "ok"
    <2>1. Finish(i, p, ReadRefusal(m.status))
      BY <1>6 DEF GetGrant
    <2> QED BY <1>1, <1>2, <2>1, ReadRefuses, RefuseC
  <1>7. CASE m.status = "ok" /\ m.val.kind = "erasure" /\ o.body.code # "erase"
    <2>1. Finish(i, o, "erased")
      BY <1>4, <1>7 DEF GetGrant
    <2> QED BY <1>1, <1>2, <1>5, <2>1, RefuseC
  <1>8. CASE m.status = "ok" /\ ~(m.val.kind = "erasure" /\ o.body.code # "erase")
    <2>1. AfterGrant(i, o)
      BY <1>4, <1>8 DEF GetGrant
    <2>2. Behind(o.grant)
      BY <1>1, <1>3, <1>5, <1>8 DEF Learns
    <2>3. o.body.code = "rotate_key" => Fresh(i) /\ Early(p)
      BY <1>1, <1>3, <1>5 DEF Follows, Early
    <2> QED BY <1>1, <1>2, <1>5, <2>1, <2>2, <2>3, AfterGrantC
  <1> QED BY <1>6, <1>7, <1>8

LEMMA GetCurrentSetC == ASSUME IInv, CInv, NEW m \in mail, GetCurrentSet(m) PROVE CInv'
  <1> PICK i : i = m.corr
    OBVIOUS
  <1> PICK p : p = ops[i]
    OBVIOUS
  <1>1. p.stage = "get_current_set" /\ Rest({m})
    BY TakenRests DEF GetCurrentSet, At
  <1>2. /\ i \in Live /\ i \in Going /\ Quiet(i, {m}) /\ Same(p, ops[i]) /\ IsOp(p)
    BY <1>1, TakesItsAnswer
  <1>3. Follows(i, p) /\ Learns(i, p, m)
    BY <1>1, TakesC
  <1>4. CASE ~(m.status = "ok" /\ m.val.kind = "set")
    <2>1. \E r : r # "none" /\ Finish(i, p, r)
      <3>1. CASE m.status = "not_found" \/ m.status = "ok"
        BY <1>4, <3>1 DEF GetCurrentSet
      <3>2. CASE m.status \notin {"ok", "not_found"}
        BY <3>2, ReadRefuses DEF GetCurrentSet
      <3> QED BY <3>1, <3>2
    <2> QED BY <1>1, <1>2, <2>1, RefuseC
  <1>5. CASE m.status = "ok" /\ m.val.kind = "set"
    <2> PICK g : g = p.grant
      OBVIOUS
    <2>1. PICK e : e = g.epoch + 1
      OBVIOUS
    <2>2. PICK c : c = SetRec("creation", e, i)
      OBVIOUS
    <2>3. PICK h : h = GrantRec(e, g.gen + 1, g.device, g.revoked, g.retained \cup {g.epoch}, i)
      OBVIOUS
    <2>4. PICK q : q = PutIfAbsent(SetKey(e), c)
      OBVIOUS
    <2>5. PICK o : o = [p EXCEPT !.out = c, !.aux = h, !.epoch = e]
      OBVIOUS
    <2>6. Ask(i, o, "put_set", q)
      BY <1>5, <2>1, <2>2, <2>3, <2>4, <2>5 DEF GetCurrentSet
    <2>7. PICK a : a = [p EXCEPT !.out = c]
      OBVIOUS
    <2>8. PICK b : b = [a EXCEPT !.aux = h]
      OBVIOUS
    <2>9. o = [b EXCEPT !.epoch = e]
      BY <2>5, <2>7, <2>8
    <2>10. /\ IsOp(a) /\ a.body = p.body /\ a.prev = p.prev /\ a.born = p.born
           /\ a.refusal = p.refusal /\ a.grant = g
      BY <1>2, <2>7 DEF IsOp
    <2>11. /\ IsOp(b) /\ b.body = a.body /\ b.prev = a.prev /\ b.born = a.born
           /\ b.refusal = a.refusal /\ b.grant = a.grant /\ b.aux = h
      BY <2>8, <2>10 DEF IsOp
    <2>12. /\ IsOp(o) /\ o.body = b.body /\ o.prev = b.prev /\ o.born = b.born
           /\ o.refusal = b.refusal /\ o.grant = b.grant /\ o.aux = b.aux
      BY <2>9, <2>11 DEF IsOp
    <2>13. PICK n : n = [o EXCEPT !.stage = "put_set"]
      OBVIOUS
    <2>14. n.stage = "put_set" /\ n.body = p.body /\ n.grant = g /\ n.aux = h
      BY <2>10, <2>11, <2>12, <2>13 DEF IsOp
    <2>15. Early(p) /\ Fresh(i) /\ p.body.code = "rotate_key" /\ Behind(g) /\ Recoverable(g)
      BY <1>1, <1>3, <1>5 DEF Follows, Learns, Early
    <2>16. h.setid = i /\ h.retained = g.retained \cup {g.epoch}
      BY <2>3 DEF GrantRec
    <2>17. Follows(i, n)
      BY <2>14, <2>15, <2>16 DEF Follows, Early, Sweeping
    <2>18. q.op = "put" /\ q.key = SetKey(e) /\ PutsSet(q) /\ ~Rotates(q)
      BY <2>4, KeysAreApart DEF PutIfAbsent, PutsSet, Rotates
    <2>19. Requests(n, q)
      BY <2>1, <2>14, <2>18 DEF Requests
    <2>20. e \in 1 .. LastEpoch /\ e # 1 /\ Grant # Nothing
      <3>1. GrantVal(g) /\ GrantVal(Grant) /\ Grant # Nothing /\ g.epoch <= Grant.epoch
        BY <2>15 DEF Behind
      <3>2. Grant.epoch + Cardinality(Able) <= MaxReqs + 2
        BY <3>1 DEF CInv, SetsOK
      <3>3. Cardinality(Able) \in Nat
        <4>1. IsFiniteSet(Ids) /\ Able \subseteq Ids
          BY FS_Interval, SkBounds DEF Ids, Able
        <4> QED BY <4>1, FS_Subset, FS_CardinalityType
      <3>4. g.epoch \in Nat \ {0} /\ Grant.epoch \in Nat
        BY <3>1 DEF GrantVal
      <3> QED BY <2>1, <3>1, <3>2, <3>3, <3>4, SkBounds DEF LastEpoch
    <2>21. CreationOK(i, q)
      BY <2>2, <2>4, <2>15, <2>20 DEF CreationOK
    <2>22. WriteOK(i, q)
      BY <2>18, <2>21, KeysAreApart DEF WriteOK
    <2>23. Same(o, ops[i])
      BY <2>10, <2>11, <2>12 DEF Same
    <2> QED BY <1>1, <1>2, <2>6, <2>13, <2>15, <2>17, <2>18, <2>19, <2>22, <2>23, AskC
  <1> QED BY <1>4, <1>5

LEMMA EraseGetSetC == ASSUME IInv, CInv, NEW m \in mail, EraseGetSet(m) PROVE CInv'
  <1> PICK i : i = m.corr
    OBVIOUS
  <1> PICK p : p = ops[i]
    OBVIOUS
  <1>1. p.stage = "erase_get_set" /\ Rest({m})
    BY TakenRests DEF EraseGetSet, At
  <1>2. /\ i \in Live /\ i \in Going /\ Quiet(i, {m}) /\ Same(p, ops[i]) /\ IsOp(p)
    BY <1>1, TakesItsAnswer
  <1>3. Follows(i, p) /\ Learns(i, p, m)
    BY <1>1, TakesC
  <1>4. p.body.code = "erase" /\ p.cursor \in Nat /\ Erasing(p)
    BY <1>1, <1>3 DEF Follows, Sweeping
  <1>5. Grant.kind = "erasure" /\ p.epoch = Grant.epoch /\ Grant.epoch \in Nat
        /\ (Gone \/ p.cursor <= Grant.epoch)
    <2>1. Grant # Nothing
      BY <1>4 DEF Erasing, Nothing
    <2> QED BY <1>4, <2>1, GrantIsVal DEF Erasing, GrantVal
  <1>6. CASE m.status = "not_found"
    <2>1. PICK o : o = [p EXCEPT !.cursor = @ + 1]
      OBVIOUS
    <2>2. IsOp(o) /\ Same(o, ops[i]) /\ o.body = p.body /\ o.cursor = p.cursor + 1
          /\ o.epoch = p.epoch
      BY <1>2, <2>1 DEF Same, IsOp
    <2>3. EraseNext(i, o)
      BY <1>6, <2>1 DEF EraseGetSet
    <2>4. p.cursor = Grant.epoch => Gone
      BY <1>1, <1>3, <1>6 DEF Learns
    <2>5. Gone \/ o.cursor <= Grant.epoch
      BY <1>4, <1>5, <2>2, <2>4
    <2> QED BY <1>1, <1>2, <1>4, <1>5, <2>2, <2>3, <2>5, EraseNextC
  <1>7. CASE m.status \notin {"ok", "not_found"}
    <2>1. Finish(i, p, ReadRefusal(m.status))
      BY <1>7 DEF EraseGetSet
    <2> QED BY <1>1, <1>2, <2>1, ReadRefuses, RefuseC
  <1>8. CASE m.status = "ok"
    <2>1. PICK o : o = [p EXCEPT !.set = m.val]
      OBVIOUS
    <2>2. IsOp(o) /\ Same(o, ops[i]) /\ o.body = p.body /\ o.cursor = p.cursor
          /\ o.epoch = p.epoch
      BY <1>2, <2>1 DEF Same, IsOp
    <2>3. PICK q : q = Delete(SetKey(p.cursor), m.val)
      OBVIOUS
    <2>4. Ask(i, o, "erase_delete_set", q)
      BY <1>8, <2>1, <2>3 DEF EraseGetSet
    <2>5. PICK n : n = [o EXCEPT !.stage = "erase_delete_set"]
      OBVIOUS
    <2>6. /\ n.stage = "erase_delete_set" /\ n.body = p.body /\ n.cursor = p.cursor
          /\ n.epoch = p.epoch
      BY <2>2, <2>5 DEF IsOp
    <2>7. Erasing(n)
      BY <1>5, <2>6 DEF Erasing, Sweeping
    <2>8. ~Early(n) /\ Follows(i, n)
      BY <1>4, <2>6, <2>7 DEF Follows, Early, Sweeping
    <2>9. q.op = "delete" /\ q.key = SetKey(p.cursor)
      BY <2>3 DEF Delete
    <2>10. Requests(n, q)
      BY <2>6, <2>9 DEF Requests
    <2>11. Doomed(q.key[2]) /\ q.key = SetKey(q.key[2])
      BY <1>4, <1>5, <2>9, KeysAreApart DEF Doomed, Nothing
    <2>12. ~Rotates(q) /\ WriteOK(i, q)
      BY <2>9, <2>11 DEF Rotates, WriteOK, PutsSet
    <2> QED BY <1>1, <1>2, <2>2, <2>4, <2>5, <2>8, <2>10, <2>12, AskC
  <1> QED BY <1>6, <1>7, <1>8

LEMMA EraseDeleteSetC == ASSUME IInv, CInv, NEW m \in mail, EraseDeleteSet(m) PROVE CInv'
  <1> PICK i : i = m.corr
    OBVIOUS
  <1> PICK p : p = ops[i]
    OBVIOUS
  <1>1. p.stage = "erase_delete_set" /\ Rest({m})
    BY TakenRests DEF EraseDeleteSet, At
  <1>2. /\ i \in Live /\ i \in Going /\ Quiet(i, {m}) /\ Same(p, ops[i]) /\ IsOp(p)
    BY <1>1, TakesItsAnswer
  <1>3. Follows(i, p) /\ Learns(i, p, m)
    BY <1>1, TakesC
  <1>4. p.body.code = "erase" /\ p.cursor \in Nat /\ Erasing(p)
    BY <1>1, <1>3 DEF Follows, Sweeping
  <1>5. Grant.kind = "erasure" /\ p.epoch = Grant.epoch /\ Grant.epoch \in Nat
        /\ (Gone \/ p.cursor <= Grant.epoch)
    <2>1. Grant # Nothing
      BY <1>4 DEF Erasing, Nothing
    <2> QED BY <1>4, <2>1, GrantIsVal DEF Erasing, GrantVal
  <1>6. CASE m.status \in {"ok", "not_found"}
    <2>1. PICK o : o = [p EXCEPT !.cursor = @ + 1]
      OBVIOUS
    <2>2. IsOp(o) /\ Same(o, ops[i]) /\ o.body = p.body /\ o.cursor = p.cursor + 1
          /\ o.epoch = p.epoch
      BY <1>2, <2>1 DEF Same, IsOp
    <2>3. EraseNext(i, o)
      BY <1>6, <2>1 DEF EraseDeleteSet
    <2>4. p.cursor = Grant.epoch => Gone
      BY <1>1, <1>3, <1>6 DEF Learns
    <2>5. Gone \/ o.cursor <= Grant.epoch
      BY <1>4, <1>5, <2>2, <2>4
    <2> QED BY <1>1, <1>2, <1>4, <1>5, <2>2, <2>3, <2>5, EraseNextC
  <1>7. CASE m.status \notin {"ok", "not_found"}
    <2>1. Finish(i, p, WriteRefusal(m.status))
      BY <1>7 DEF EraseDeleteSet
    <2> QED BY <1>1, <1>2, <1>7, <2>1, WriteRefuses, RefuseC
  <1> QED BY <1>6, <1>7

LEMMA GetDeviceC == ASSUME IInv, CInv, NEW m \in mail, GetDevice(m) PROVE CInv'
  <1> PICK i : i = m.corr
    OBVIOUS
  <1> PICK p : p = ops[i]
    OBVIOUS
  <1>1. p.stage = "get_device" /\ Rest({m})
    BY TakenRests DEF GetDevice, At
  <1>2. i \in Going /\ Quiet(i, {m}) /\ Same(p, ops[i]) /\ IsOp(p)
    BY <1>1, TakesItsAnswer
  <1>3. PICK o : o = [p EXCEPT !.active = m.val.active]
    OBVIOUS
  <1>4. Same(o, ops[i]) /\ o.prev = p.prev
    BY <1>2, <1>3 DEF Same, IsOp
  <1>5. CASE m.status # "ok"
    <2>1. \E r : r # "none" /\ Finish(i, p, r)
      BY <1>5, ReadRefuses DEF GetDevice
    <2> QED BY <1>1, <1>2, <2>1, MildsC DEF Milds
  <1>6. CASE m.status = "ok"
    <2>1. \E stage, q : stage \in MildStages /\ q.op = "get" /\ Ask(i, o, stage, q)
      <3>1. CASE p.body.code = "recover"
        BY <1>3, <1>6, <3>1 DEF GetDevice, Get, MildStages
      <3>2. CASE p.body.code = "renew"
        BY <1>3, <1>6, <3>2 DEF GetDevice, Get, MildStages
      <3>3. CASE p.body.code \notin {"recover", "renew"}
        BY <1>3, <1>6, <3>3 DEF GetDevice, Get, MildStages
      <3> QED BY <3>1, <3>2, <3>3
    <2>2. Milds(i, {m})
      BY <1>4, <2>1 DEF Milds, Mild
    <2> QED BY <1>1, <1>2, <2>2, MildsC
  <1> QED BY <1>5, <1>6

LEMMA GetTicketC == ASSUME IInv, CInv, NEW m \in mail, GetTicket(m) PROVE CInv'
  <1> PICK i : i = m.corr
    OBVIOUS
  <1> PICK p : p = ops[i]
    OBVIOUS
  <1>1. p.stage = "get_ticket" /\ Rest({m})
    BY TakenRests DEF GetTicket, At
  <1>2. i \in Going /\ Quiet(i, {m}) /\ Same(p, ops[i]) /\ IsOp(p)
    BY <1>1, TakesItsAnswer
  <1>3. PICK o : o = [p EXCEPT !.ticket = m.val]
    OBVIOUS
  <1>4. Same(o, ops[i])
    BY <1>2, <1>3 DEF Same, IsOp
  <1>5. CASE m.status # "ok"
    <2>1. \E r : r # "none" /\ Finish(i, p, r)
      BY <1>5, ReadRefuses DEF GetTicket
    <2> QED BY <1>1, <1>2, <2>1, MildsC DEF Milds
  <1>6. CASE m.status = "ok"
    <2>1. \E stage, q : stage \in MildStages /\ q.op = "get" /\ Ask(i, o, stage, q)
      BY <1>3, <1>6 DEF GetTicket, Get, MildStages
    <2>2. Milds(i, {m})
      BY <1>4, <2>1 DEF Milds, Mild
    <2> QED BY <1>1, <1>2, <2>2, MildsC
  <1> QED BY <1>5, <1>6

LEMMA GetSetC == ASSUME IInv, CInv, NEW m \in mail, GetSet(m) PROVE CInv'
  <1> PICK i : i = m.corr
    OBVIOUS
  <1> PICK p : p = ops[i]
    OBVIOUS
  <1>1. p.stage = "get_set" /\ Rest({m})
    BY TakenRests DEF GetSet, At
  <1>2. i \in Going /\ Quiet(i, {m}) /\ Same(p, ops[i]) /\ IsOp(p)
    BY <1>1, TakesItsAnswer
  <1>3. PICK o : o = [p EXCEPT !.set = m.val]
    OBVIOUS
  <1>4. IsOp(o) /\ Same(o, ops[i]) /\ o.body = p.body
    BY <1>2, <1>3 DEF Same, IsOp
  <1>5. CASE m.status # "ok"
    <2>1. \E r : r # "none" /\ Finish(i, p, r)
      <3>1. CASE m.status = "not_found"
        BY <3>1 DEF GetSet
      <3>2. CASE m.status \notin {"ok", "not_found"}
        BY <3>2, ReadRefuses DEF GetSet
      <3> QED BY <1>5, <3>1, <3>2
    <2> QED BY <1>1, <1>2, <2>1, MildsC DEF Milds
  <1>6. CASE m.status = "ok" /\ p.body.code = "record_set"
    <2>1. RecordSet(i, o)
      BY <1>3, <1>4, <1>6 DEF GetSet
    <2>2. CASE o.set.kind # "creation" \/ ~o.body.proof
      <3>1. Finish(i, o, "malformed")
        BY <2>1, <2>2 DEF RecordSet
      <3> QED BY <1>1, <1>2, <1>4, <3>1, MildsC DEF Milds
    <2>3. CASE ~(o.set.kind # "creation" \/ ~o.body.proof)
      <3>1. PICK new : new = SetRec("set", o.set.epoch, o.set.setid)
        OBVIOUS
      <3>2. PICK x : x = [o EXCEPT !.out = new]
        OBVIOUS
      <3>3. IsOp(x) /\ Same(x, ops[i]) /\ x.body = p.body
        BY <1>4, <3>2 DEF Same, IsOp
      <3>4. PICK q : q = CompareAndSwap(SetKey(o.body.epoch), o.set, new)
        OBVIOUS
      <3>5. Ask(i, x, "cas_set", q)
        BY <2>1, <2>3, <3>1, <3>2, <3>4 DEF RecordSet
      <3>6. PICK n : n = [x EXCEPT !.stage = "cas_set"]
        OBVIOUS
      <3>7. n.stage = "cas_set" /\ n.body = p.body
        BY <3>3, <3>6 DEF IsOp
      <3>8. ~Early(n) /\ Follows(i, n) /\ Requests(n, q)
        BY <1>6, <3>7 DEF Early, Follows, Requests, Sweeping
      <3>9. q.op = "cas" /\ q.key[1] = "set" /\ q.old = o.set /\ q.new = new /\ q.key # GrantKey
        BY <3>4, KeysAreApart DEF CompareAndSwap
      <3>10. o.set # Nothing /\ new.kind = "set" /\ new.setid = o.set.setid
        BY <2>3, <3>1 DEF Nothing, SetRec
      <3>11. ~Rotates(q) /\ WriteOK(i, q)
        BY <3>9, <3>10 DEF Rotates, WriteOK, PutsSet
      <3> QED BY <1>1, <1>2, <3>3, <3>5, <3>6, <3>8, <3>11, AskC
    <2> QED BY <2>2, <2>3
  <1>7. CASE m.status = "ok" /\ p.body.code # "record_set"
    <2>1. Decide(i, o)
      BY <1>3, <1>4, <1>7 DEF GetSet
    <2>2. PICK q : q = PutIfAbsent(ReplayKey(o.body.replay), [kind |-> "claim"])
      OBVIOUS
    <2>3. Mild(q)
      BY <2>2, KeysAreApart DEF Mild, PutIfAbsent
    <2>4. \/ \E r : r # "none" /\ Finish(i, o, r)
          \/ Ask(i, o, "claim_replay", q)
      BY <2>1, <2>2 DEF Decide, Claim
    <2>5. Milds(i, {m})
      BY <1>4, <2>3, <2>4 DEF Milds, MildStages
    <2> QED BY <1>1, <1>2, <2>5, MildsC
  <1> QED BY <1>5, <1>6, <1>7

LEMMA GetChainC == ASSUME IInv, CInv, NEW m \in mail, GetChain(m) PROVE CInv'
  <1> PICK i : i = m.corr
    OBVIOUS
  <1> PICK p : p = ops[i]
    OBVIOUS
  <1>1. p.stage = "get_chain" /\ Rest({m})
    BY TakenRests DEF GetChain, At
  <1>2. i \in Going /\ Quiet(i, {m}) /\ Same(p, ops[i]) /\ IsOp(p)
    BY <1>1, TakesItsAnswer
  <1>3. PICK o : o = [p EXCEPT !.chain = m.val]
    OBVIOUS
  <1>4. IsOp(o) /\ Same(o, ops[i]) /\ o.body = p.body /\ o.prev = p.prev
    BY <1>2, <1>3 DEF Same, IsOp
  <1>5. CASE m.status \notin {"ok", "not_found"} \/ RenewalRefusal(o) # "none"
    <2>1. \E r : r # "none" /\ Finish(i, o, r)
      <3>1. CASE m.status \notin {"ok", "not_found"}
        BY <1>3, <3>1, ReadRefuses DEF GetChain
      <3>2. CASE m.status \in {"ok", "not_found"} /\ RenewalRefusal(o) # "none"
        BY <1>3, <3>2 DEF GetChain
      <3> QED BY <1>5, <3>1, <3>2
    <2> QED BY <1>1, <1>2, <1>4, <2>1, MildsC DEF Milds
  <1>6. CASE m.status \in {"ok", "not_found"} /\ RenewalRefusal(o) = "none"
    <2>1. PICK x : x = [o EXCEPT !.out = Link("renewal", i, o.body, o.prev.att)]
      OBVIOUS
    <2>2. Claim(i, x)
      BY <1>3, <1>6, <2>1 DEF GetChain
    <2>3. Same(x, ops[i])
      BY <1>4, <2>1 DEF Same, IsOp
    <2>4. PICK q : q = PutIfAbsent(ReplayKey(x.body.replay), [kind |-> "claim"])
      OBVIOUS
    <2>5. Mild(q)
      BY <2>4, KeysAreApart DEF Mild, PutIfAbsent
    <2>6. Ask(i, x, "claim_replay", q)
      BY <2>2, <2>4 DEF Claim
    <2>7. Milds(i, {m})
      BY <2>3, <2>5, <2>6 DEF Milds, MildStages
    <2> QED BY <1>1, <1>2, <2>7, MildsC
  <1> QED BY <1>5, <1>6

LEMMA GetOldSetC == ASSUME IInv, CInv, NEW m \in mail, GetOldSet(m) PROVE CInv'
  <1> PICK i : i = m.corr
    OBVIOUS
  <1> PICK p : p = ops[i]
    OBVIOUS
  <1>1. p.stage = "get_old_set" /\ Rest({m})
    BY TakenRests DEF GetOldSet, At
  <1>2. i \in Going /\ Quiet(i, {m}) /\ Same(p, ops[i]) /\ IsOp(p)
    BY <1>1, TakesItsAnswer
  <1>3. p.body.code = "retire" /\ Doomed(p.epoch)
    BY <1>1, TakesC DEF Follows
  <1>4. CASE m.status = "not_found"
    <2>1. Allow(i, p)
      BY <1>4 DEF GetOldSet
    <2> QED BY <1>1, <1>2, <1>3, <2>1, AllowC
  <1>5. CASE m.status \notin {"ok", "not_found"}
    <2>1. Finish(i, p, ReadRefusal(m.status))
      BY <1>5 DEF GetOldSet
    <2> QED BY <1>1, <1>2, <2>1, ReadRefuses, MildsC DEF Milds
  <1>6. CASE m.status = "ok"
    <2>1. PICK q : q = Delete(SetKey(p.epoch), m.val)
      OBVIOUS
    <2>2. Ask(i, p, "delete_set", q)
      BY <1>6, <2>1 DEF GetOldSet
    <2>3. PICK n : n = [p EXCEPT !.stage = "delete_set"]
      OBVIOUS
    <2>4. n.stage = "delete_set" /\ n.body = p.body /\ n.epoch = p.epoch
      BY <1>2, <2>3 DEF IsOp
    <2>5. ~Early(n) /\ Follows(i, n) /\ Requests(n, q)
      BY <1>3, <2>4 DEF Early, Follows, Requests, Sweeping
    <2>6. q.op = "delete" /\ q.key = SetKey(p.epoch)
      BY <2>1 DEF Delete
    <2>7. Doomed(q.key[2]) /\ q.key = SetKey(q.key[2])
      BY <1>3, <2>6, KeysAreApart
    <2>8. ~Rotates(q) /\ WriteOK(i, q)
      BY <2>6, <2>7 DEF Rotates, WriteOK, PutsSet
    <2> QED BY <1>1, <1>2, <2>2, <2>3, <2>5, <2>8, AskC
  <1> QED BY <1>4, <1>5, <1>6

LEMMA OrdersRelease ==
    ASSUME NEW i, NEW p, IsOp(p), Same(p, ops[i]), OrderRelease(i, p), NEW takes
    PROVE  Milds(i, takes)
  <1>1. PICK o : o = [p EXCEPT !.out = Released(i, p)]
    OBVIOUS
  <1>2. Same(o, ops[i])
    BY <1>1 DEF Same, IsOp
  <1>3. Order(i, o, "custodians", {0, 1}) /\ {0, 1} \subseteq Custodians
    BY <1>1 DEF OrderRelease, Custodians
  <1> QED BY <1>2, <1>3 DEF Milds

LEMMA ClaimReplayC == ASSUME IInv, CInv, NEW m \in mail, ClaimReplay(m) PROVE CInv'
  <1> PICK i : i = m.corr
    OBVIOUS
  <1> PICK p : p = ops[i]
    OBVIOUS
  <1>1. p.stage = "claim_replay" /\ Rest({m})
    BY TakenRests DEF ClaimReplay, At
  <1>2. i \in Going /\ Quiet(i, {m}) /\ Same(p, ops[i]) /\ IsOp(p)
    BY <1>1, TakesItsAnswer
  <1>3. PICK c : c = ReplayClaimResult(m.status)
    OBVIOUS
  <1>4. CASE c \in {"replayed", "unavailable"}
    <2>1. \E r : r # "none" /\ Finish(i, p, r)
      BY <1>3, <1>4 DEF ClaimReplay
    <2> QED BY <1>1, <1>2, <2>1, MildsC DEF Milds
  <1>5. CASE c = "fresh" /\ p.body.code = "recover"
    <2>1. ConsumeTicket(i, p)
      BY <1>3, <1>5 DEF ClaimReplay
    <2>2. PICK q : q = CompareAndSwap(TicketKey(p.body.ticket), p.ticket,
                                      [p.ticket EXCEPT !.consumed = TRUE])
      OBVIOUS
    <2>3. Mild(q)
      BY <2>2, KeysAreApart DEF Mild, CompareAndSwap
    <2>4. Ask(i, p, "consume_ticket", q)
      BY <2>1, <2>2 DEF ConsumeTicket
    <2>5. Milds(i, {m})
      BY <1>2, <2>3, <2>4 DEF Milds, MildStages
    <2> QED BY <1>1, <1>2, <2>5, MildsC
  <1>6. CASE c = "fresh" /\ p.body.code = "renew"
    <2>1. AdvanceChain(i, p)
      BY <1>3, <1>6 DEF ClaimReplay
    <2>2. PICK q : q = IF p.chain = Nothing THEN PutIfAbsent(ChainKey(p.prev.att), p.out)
                       ELSE CompareAndSwap(ChainKey(p.prev.att), p.chain, p.out)
      OBVIOUS
    <2>3. Mild(q)
      BY <2>2, KeysAreApart DEF Mild, CompareAndSwap, PutIfAbsent
    <2>4. Ask(i, p, "put_chain", q)
      BY <2>1, <2>2 DEF AdvanceChain
    <2>5. Milds(i, {m})
      BY <1>2, <2>3, <2>4 DEF Milds, MildStages
    <2> QED BY <1>1, <1>2, <2>5, MildsC
  <1>7. CASE /\ c \notin {"replayed", "unavailable"}
             /\ ~(c = "fresh" /\ p.body.code \in {"recover", "renew"})
    <2>1. OrderRelease(i, p)
      BY <1>3, <1>7 DEF ClaimReplay
    <2> QED BY <1>1, <1>2, <2>1, OrdersRelease, MildsC
  <1> QED BY <1>4, <1>5, <1>6, <1>7

LEMMA TicketConsumedC == ASSUME IInv, CInv, NEW m \in mail, TicketConsumed(m) PROVE CInv'
  <1> PICK i : i = m.corr
    OBVIOUS
  <1> PICK p : p = ops[i]
    OBVIOUS
  <1>1. p.stage = "consume_ticket" /\ Rest({m})
    BY TakenRests DEF TicketConsumed, At
  <1>2. i \in Going /\ Quiet(i, {m}) /\ Same(p, ops[i]) /\ IsOp(p)
    BY <1>1, TakesItsAnswer
  <1>3. CASE m.status = "ok"
    <2>1. OrderRelease(i, p)
      BY <1>3 DEF TicketConsumed
    <2> QED BY <1>1, <1>2, <2>1, OrdersRelease, MildsC
  <1>4. CASE m.status # "ok"
    <2>1. Finish(i, p, WriteRefusal(m.status))
      BY <1>4 DEF TicketConsumed
    <2> QED BY <1>1, <1>2, <1>4, <2>1, WriteRefuses, MildsC DEF Milds
  <1> QED BY <1>3, <1>4

LEMMA PutGrantC == ASSUME IInv, CInv, NEW m \in mail, PutGrant(m) PROVE CInv'
  <1> PICK i : i = m.corr
    OBVIOUS
  <1> PICK p : p = ops[i]
    OBVIOUS
  <1>1. p.stage = "put_grant" /\ Rest({m})
    BY TakenRests DEF PutGrant, At
  <1>2. i \in Going /\ Quiet(i, {m}) /\ Same(p, ops[i]) /\ IsOp(p) /\ Good(i, p)
    BY <1>1, TakesItsAnswer
  <1>3. Follows(i, p) /\ Learns(i, p, m)
    BY <1>1, TakesC
  <1>4. p.body.code = "create" /\ p.out = Creation(i) /\ p.epoch = 1
    BY <1>1, <1>2, <1>3 DEF Good, ReleaseOK, ProvenStages, ControlOK, Follows
  <1>5. CASE m.status = "ok"
    <2>1. PICK q : q = PutIfAbsent(SetKey(1), Creation(i))
      OBVIOUS
    <2>2. Ask(i, p, "put_set", q)
      BY <1>4, <1>5, <2>1 DEF PutGrant
    <2>3. PICK n : n = [p EXCEPT !.stage = "put_set"]
      OBVIOUS
    <2>4. n.stage = "put_set" /\ n.body = p.body
      BY <1>2, <2>3 DEF IsOp
    <2>5. ~Early(n) /\ Follows(i, n)
      BY <1>4, <2>4 DEF Early, Follows, Sweeping
    <2>6. q.op = "put" /\ q.key = SetKey(1) /\ PutsSet(q) /\ ~Rotates(q)
      BY <2>1, KeysAreApart DEF PutIfAbsent, PutsSet, Rotates
    <2>7. Requests(n, q)
      BY <1>4, <2>4, <2>6 DEF Requests
    <2>8. Grant # Nothing /\ FirstBy(i)
      BY <1>1, <1>3, <1>5 DEF Learns
    <2>9. 1 \in 1 .. LastEpoch
      BY SkBounds DEF LastEpoch
    <2>10. CreationOK(i, q)
      BY <2>1, <2>8, <2>9 DEF CreationOK, Creation
    <2>11. WriteOK(i, q)
      BY <2>6, <2>10, KeysAreApart DEF WriteOK
    <2> QED BY <1>1, <1>2, <2>2, <2>3, <2>5, <2>6, <2>7, <2>11, AskC
  <1>6. CASE m.status # "ok"
    <2>1. Finish(i, p, WriteRefusal(m.status))
      BY <1>6 DEF PutGrant
    <2> QED BY <1>1, <1>2, <1>6, <2>1, WriteRefuses, MildsC DEF Milds
  <1> QED BY <1>5, <1>6

LEMMA PutSetC == ASSUME IInv, CInv, NEW m \in mail, PutSet(m) PROVE CInv'
  <1> PICK i : i = m.corr
    OBVIOUS
  <1> PICK p : p = ops[i]
    OBVIOUS
  <1>1. p.stage = "put_set" /\ Rest({m})
    BY TakenRests DEF PutSet, At
  <1>2. i \in Going /\ Quiet(i, {m}) /\ Same(p, ops[i]) /\ IsOp(p) /\ Good(i, p)
    BY <1>1, TakesItsAnswer
  <1>3. Follows(i, p) /\ Learns(i, p, m)
    BY <1>1, TakesC
  <1>4. CASE m.status # "ok"
    <2>1. Finish(i, p, WriteRefusal(m.status))
      BY <1>4 DEF PutSet
    <2> QED BY <1>1, <1>2, <1>4, <2>1, WriteRefuses, MildsC DEF Milds
  <1>5. CASE m.status = "ok" /\ p.body.code # "rotate_key"
    <2>1. Allow(i, p) /\ p.body.code = "create"
      BY <1>1, <1>3, <1>5 DEF PutSet, Follows
    <2> QED BY <1>1, <1>2, <2>1, AllowC
  <1>6. CASE m.status = "ok" /\ p.body.code = "rotate_key"
    <2>1. PICK q : q = CompareAndSwap(GrantKey, p.grant, p.aux)
      OBVIOUS
    <2>2. Ask(i, p, "cas_grant", q)
      BY <1>6, <2>1 DEF PutSet
    <2>3. PICK n : n = [p EXCEPT !.stage = "cas_grant"]
      OBVIOUS
    <2>4. n.stage = "cas_grant" /\ n.body = p.body
      BY <1>2, <2>3 DEF IsOp
    <2>5. ~Early(n) /\ Follows(i, n)
      BY <1>6, <2>4 DEF Early, Follows, Sweeping
    <2>6. q.op = "cas" /\ q.key = GrantKey /\ q.old = p.grant /\ q.new = p.aux
      BY <2>1 DEF CompareAndSwap
    <2>7. Requests(n, q)
      BY <1>6, <2>4, <2>6 DEF Requests
    <2>8. /\ Behind(p.grant) /\ Recoverable(p.grant) /\ Created(p.grant, i)
          /\ p.aux.setid = i /\ p.aux.retained = p.grant.retained \cup {p.grant.epoch}
      BY <1>1, <1>3, <1>6 DEF Follows, Learns
    <2>9. p.aux.kind = "grant" /\ p.aux.epoch = p.grant.epoch + 1
      BY <1>1, <1>2, <1>6 DEF Good, ReleaseOK, ProvenStages, ControlOK
    <2>10. p.aux.epoch # p.grant.epoch
      BY <2>8, <2>9 DEF Behind, GrantVal
    <2>11. RotationOK(i, q) /\ Rotates(q) /\ ~PutsSet(q)
      BY <2>6, <2>8, <2>9, <2>10 DEF RotationOK, Rotates, PutsSet
    <2>12. WriteOK(i, q)
      BY <2>6, <2>8, <2>11, KeysAreApart DEF WriteOK
    <2>13. Early(ops[i])
      BY <1>1, <1>6 DEF Early
    <2> QED BY <1>1, <1>2, <2>2, <2>3, <2>5, <2>7, <2>12, <2>13, AskC
  <1> QED BY <1>4, <1>5, <1>6

LEMMA CasGrantC == ASSUME IInv, CInv, NEW m \in mail, CasGrant(m) PROVE CInv'
  <1> PICK i : i = m.corr
    OBVIOUS
  <1> PICK p : p = ops[i]
    OBVIOUS
  <1>1. p.stage = "cas_grant" /\ Rest({m})
    BY TakenRests DEF CasGrant, At
  <1>2. i \in Going /\ Quiet(i, {m}) /\ Same(p, ops[i]) /\ IsOp(p)
    BY <1>1, TakesItsAnswer
  <1>3. Learns(i, p, m)
    BY <1>1, TakesC
  <1>4. CASE m.status # "ok"
    <2>1. Finish(i, p, WriteRefusal(m.status))
      BY <1>4 DEF CasGrant
    <2> QED BY <1>1, <1>2, <1>4, <2>1, WriteRefuses, MildsC DEF Milds
  <1>5. CASE m.status = "ok" /\ p.body.code = "erase"
    <2>1. PICK o : o = [p EXCEPT !.cursor = 1]
      OBVIOUS
    <2>2. IsOp(o) /\ Same(o, ops[i]) /\ o.body = p.body /\ o.cursor = 1 /\ o.epoch = p.epoch
      BY <1>2, <2>1 DEF Same, IsOp
    <2>3. EraseNext(i, o)
      BY <1>5, <2>1 DEF CasGrant
    <2>4. Grant.kind = "erasure" /\ Grant.epoch = o.epoch
      BY <1>1, <1>3, <1>5, <2>2 DEF Learns
    <2>5. o.cursor <= Grant.epoch
      <3>1. Grant # Nothing
        BY <2>4 DEF Nothing
      <3> QED BY <2>2, <3>1, GrantIsVal DEF GrantVal
    <2> QED BY <1>1, <1>2, <1>5, <2>2, <2>3, <2>4, <2>5, EraseNextC
  <1>6. CASE m.status = "ok" /\ p.body.code = "retire"
    <2>1. PICK q : q = Get(SetKey(p.body.epoch))
      OBVIOUS
    <2>2. PICK o : o = [p EXCEPT !.epoch = p.body.epoch]
      OBVIOUS
    <2>3. IsOp(o) /\ Same(o, ops[i]) /\ o.body = p.body /\ o.epoch = p.body.epoch
      BY <1>2, <2>2 DEF Same, IsOp
    <2>4. Ask(i, o, "get_old_set", q)
      BY <1>6, <2>1, <2>2 DEF CasGrant
    <2>5. PICK n : n = [o EXCEPT !.stage = "get_old_set"]
      OBVIOUS
    <2>6. n.stage = "get_old_set" /\ n.body = p.body /\ n.epoch = p.body.epoch
      BY <2>3, <2>5 DEF IsOp
    <2>7. Doomed(n.epoch)
      BY <1>1, <1>3, <1>6, <2>6 DEF Learns
    <2>8. ~Early(n) /\ Follows(i, n) /\ Requests(n, q)
      BY <1>6, <2>6, <2>7 DEF Early, Follows, Requests, Sweeping
    <2>9. Mild(q)
      BY <2>1 DEF Mild, Get
    <2>10. ~Rotates(q) /\ WriteOK(i, q)
      BY <2>9, MildIsHarmless DEF Harmless
    <2> QED BY <1>1, <1>2, <2>3, <2>4, <2>5, <2>8, <2>10, AskC
  <1>7. CASE m.status = "ok" /\ p.body.code \notin {"erase", "retire"}
    <2>1. Allow(i, p)
      BY <1>7 DEF CasGrant
    <2> QED BY <1>1, <1>2, <1>7, <2>1, AllowC
  <1> QED BY <1>4, <1>5, <1>6, <1>7

LEMMA LastWriteC == ASSUME IInv, CInv, NEW m \in mail, LastWrite(m) PROVE CInv'
  <1> PICK i : i = m.corr
    OBVIOUS
  <1> PICK p : p = ops[i]
    OBVIOUS
  <1>1. p.stage \in {"cas_set", "put_ticket", "delete_set", "put_chain"} /\ Rest({m})
    BY TakenRests DEF LastWrite, At
  <1>2. i \in Going /\ Quiet(i, {m}) /\ Same(p, ops[i]) /\ IsOp(p) /\ Good(i, p)
    BY <1>1, TakesItsAnswer
  <1>3. p.body.code # "erase"
    <2>1. CASE p.stage = "put_chain"
      BY <1>2, <2>1 DEF Good, ControlOK, ControlStages, Proven
    <2>2. CASE p.stage # "put_chain"
      BY <1>1, <2>2, TakesC DEF Follows
    <2> QED BY <2>1, <2>2
  <1>4. CASE m.status = "ok"
    <2>1. Allow(i, p)
      BY <1>4 DEF LastWrite
    <2> QED BY <1>1, <1>2, <1>3, <2>1, AllowC
  <1>5. CASE m.status # "ok"
    <2>1. Finish(i, p, WriteRefusal(m.status))
      BY <1>5 DEF LastWrite
    <2> QED BY <1>1, <1>2, <1>5, <2>1, WriteRefuses, MildsC DEF Milds
  <1> QED BY <1>4, <1>5

(***************************************************************************)
(* Steps that ask nothing of custody.                                      *)
(***************************************************************************)
Idles ==
    /\ CustodyStays
    /\ next' \in {next, next + 1} /\ wire' \subseteq wire /\ mail' \subseteq mail
    /\ \A i \in Going' : i \in Going /\ ops'[i] = ops[i]
    /\ Erasures' # {} => Gone

LEMMA IdlesC == ASSUME IInv, CInv, Idles PROVE CInv'
  <1>1. /\ CustodyStays /\ SetsOK /\ next \in Nat
        /\ next' \in {next, next + 1} /\ wire' \subseteq wire /\ mail' \subseteq mail
        /\ \A i \in Going' : i \in Going /\ ops'[i] = ops[i]
    BY DEF Idles, CInv, IInv, TypeOK
  <1>2. Able' \subseteq Able
    <2> SUFFICES ASSUME NEW x \in Able' PROVE x \in Able
      OBVIOUS
    <2>1. x \in Ids /\ (x >= next' \/ (\E w \in wire' : w.corr = x /\ Rotates(w.q))
                      \/ (x \in Going' /\ Early(ops'[x])))
      BY DEF Able, Early, Rotates
    <2>2. x >= next' => x >= next
      BY <1>1, <2>1 DEF Ids
    <2> QED BY <1>1, <2>1, <2>2 DEF Able
  <1>3. SetsOK'
    BY <1>1, <1>2, SetsStay
  <1>4. WritesOK'
    <2>1. \A w \in wire' : WriteOK(w.corr, w.q)'
      BY <1>1, CustodySame DEF CInv, WritesOK
    <2> QED BY <1>1, <2>1 DEF CInv, WritesOK, PutsSet, Rotates
  <1>5. FollowsOK'
    <2>1. ASSUME NEW j \in Going'
          PROVE  /\ Follows(j, ops'[j])
                 /\ \A w \in wire' : w.corr = j => Requests(ops'[j], w.q)
                 /\ \A m \in mail' : m.corr = j => Learns(j, ops'[j], m)
      BY <1>1 DEF CInv, FollowsOK
    <2>2. ASSUME NEW j \in Going' PROVE Follows(j, ops[j])'
      <3> PICK o : o = ops'[j]
        OBVIOUS
      <3>1. Follows(j, o)'
        BY <1>1, <2>1, CustodySame
      <3> QED BY <3>1
    <2>3. ASSUME NEW j \in Going', NEW m \in mail', m.corr = j PROVE Learns(j, ops[j], m)'
      <3> PICK o : o = ops'[j]
        OBVIOUS
      <3>1. Learns(j, o, m)'
        BY <1>1, <2>1, <2>3, CustodySame
      <3> QED BY <3>1
    <2>4. ASSUME NEW j \in Going', NEW w \in wire', w.corr = j PROVE Requests(ops[j], w.q)'
      <3> PICK o : o = ops'[j]
        OBVIOUS
      <3>1. Requests(o, w.q)
        BY <2>1, <2>4
      <3> QED BY <3>1 DEF Requests, PutsSet
    <2> QED BY <2>2, <2>3, <2>4 DEF FollowsOK
  <1>6. (Erasures # {} => Gone)'
    BY <1>1, CustodySame DEF Idles
  <1> QED BY <1>3, <1>4, <1>5, <1>6 DEF CInv

LEMMA KeysStay ==
    ASSUME \A k \in Keys : k[1] \notin {"device", "replay"} => led'[k] = led[k]
    PROVE  CustodyStays
  <1>1. GrantKey \in Keys /\ \A e \in 1 .. LastEpoch : SetKey(e) \in Keys
    BY DEF Keys
  <1> QED BY <1>1, KeysAreApart DEF CustodyStays, Grant, Rec

LEMMA DriftsC ==
    ASSUME IInv, CInv, NEW new, Drifts(new)
    PROVE  CInv'
  <1>1. CustodyStays
    BY KeysStay DEF Drifts
  <1>2. Going' = Going /\ ops' = ops /\ wire' = wire
    BY DEF Drifts, Going, Live
  <1>3. Erasures' = Erasures
    BY DEF Drifts, Erasures
  <1>4. Idles
    BY <1>1, <1>2, <1>3 DEF Idles, Drifts, CInv
  <1> QED BY <1>4, IdlesC

LEMMA RestartC == ASSUME IInv, CInv, Restart PROVE CInv'
  <1>1. /\ ops' = [i \in Ids |-> Free] /\ wire' = {} /\ mail' = {}
        /\ next' = next /\ replies' = replies
    BY DEF Restart
  <1>2. CustodyStays
    <2>1. \A k \in Keys : k[1] \notin {"device", "replay"} => led'[k] = led[k]
      BY DEF Restart
    <2> QED BY <2>1, KeysStay
  <1>3. Going' = {}
    BY <1>1 DEF Going, Live, Free
  <1>4. Idles
    BY <1>1, <1>2, <1>3 DEF Idles, Erasures, CInv
  <1> QED BY <1>4, IdlesC

(* An erasure is answered with the last key gone.                          *)
LEMMA EndsC ==
    ASSUME IInv, CInv, NEW i \in Live, NEW audited \in BOOLEAN, NEW takes,
           Ends(i, audited, takes), ops[i].stage = "write_audit"
    PROVE  CInv'
  <1> PICK o : o = ops[i]
    OBVIOUS
  <1> PICK a : a = Answer(i, o, audited)
    OBVIOUS
  <1>1. /\ i \in Ids /\ o.stage = "write_audit"
        /\ led' = led /\ next' = next /\ wire' = wire /\ mail' = mail \ takes
        /\ ops' = [ops EXCEPT ![i] = Free] /\ replies' = replies \cup {a}
    BY LiveOps DEF Ends, Reply
  <1>2. /\ ops'[i].stage = "free" /\ \A j \in Ids : j # i => ops'[j] = ops[j]
    BY <1>1 DEF IInv, TypeOK, Free
  <1>3. \A j \in Going' : j \in Going /\ ops'[j] = ops[j]
    BY <1>2 DEF Going, Live
  <1>4. CustodyStays
    BY <1>1 DEF CustodyStays, Grant, Rec
  <1>5. ASSUME a.body.code = "erase", a.refusal = "none" PROVE Gone
    <2>1. a.body = o.body /\ ~Proven(o.body) /\ o.refusal = "none"
      BY <1>5 DEF Answer, Proven
    <2>2. i \in Going
      BY <2>1 DEF Going
    <2>3. Follows(i, o)
      BY <2>2 DEF CInv, FollowsOK
    <2> QED BY <1>1, <1>5, <2>1, <2>3 DEF Follows, Erasing, Sweeping
  <1>6. Erasures' # {} => Gone
    BY <1>1, <1>5 DEF Erasures, CInv
  <1>7. Idles
    BY <1>1, <1>3, <1>4, <1>6 DEF Idles
  <1> QED BY <1>7, IdlesC

LEMMA WriteAuditC == ASSUME IInv, CInv, NEW m \in mail, WriteAudit(m) PROVE CInv'
  <1> PICK i : i = m.corr
    OBVIOUS
  <1> PICK audited : audited = (m.status = "ok")
    OBVIOUS
  <1>1. i \in Ids /\ i \in Live /\ ops[i].stage = "write_audit" /\ audited \in BOOLEAN
    BY DEF IInv, WireOK, Live, WriteAudit, At
  <1>2. Ends(i, audited, {m})
    BY DEF Ends, WriteAudit, Taken, count
  <1> QED BY <1>1, <1>2, EndsC

LEMMA TickC == ASSUME IInv, CInv, NEW i \in Ids, Tick(i) PROVE CInv'
  <1> PICK p : p = ops[i]
    OBVIOUS
  <1>1. i \in Live
    BY DEF Tick
  <1>2. OpOK(i, p) /\ IsOp(p)
    BY <1>1, LiveOps
  <1>3. CASE p.stage = "write_audit"
    <2>1. Ends(i, FALSE, {})
      BY <1>3 DEF Tick, Ends
    <2> QED BY <1>1, <1>3, <2>1, EndsC
  <1>4. CASE p.stage # "write_audit"
    <2>1. PICK r : r = IF p.stage \in CustodianStages
                         THEN "custodian_refused" ELSE "ledger_unavailable"
      OBVIOUS
    <2>2. r # "none"
      BY <2>1
    <2>3. Finish(i, p, r) /\ Rest({})
      BY <1>4, <2>1 DEF Tick, Rest
    <2>4. Same(p, ops[i])
      BY <1>2 DEF Same
    <2> QED BY <1>1, <2>2, <2>3, <2>4, RefuseC
  <1> QED BY <1>3, <1>4

(***************************************************************************)
(* The custodians' answers.                                                *)
(***************************************************************************)
LEMMA StayC ==
    ASSUME IInv, CInv, NEW i \in Going, NEW o, Same(o, ops[i]), o.stage \in CustodianStages,
           ops' = [ops EXCEPT ![i] = o], UNCHANGED wire, Rest({}), Quiet(i, {}), Follows(i, o)
    PROVE  CInv'
  <1>1. i \in Live /\ o.refusal = "none" /\ o.stage # "free" /\ ~Early(o)
    BY DEF Going, Same, CustodianStages, Early
  <1>2. Turns(i, o, {}, {})
    BY <1>1 DEF Turns, Rest
  <1> QED BY <1>2, TurnsKeeps

LEMMA CustodianResultC ==
    ASSUME IInv, CInv, NEW r, NEW i \in Going, i = r.corr, NEW p, p = ops[i],
           p.stage = "custodians", CustodianResult(r), Rest({}), Quiet(i, {}), IsOp(p),
           Proven(p.body)
    PROVE  CInv'
  <1>1. PICK envs : envs = IF r.ok THEN p.envs \cup {r.from} ELSE p.envs
    OBVIOUS
  <1>2. PICK a : a = [p EXCEPT !.answered = @ \cup {r.from}]
    OBVIOUS
  <1>3. /\ IsOp(a) /\ a.stage = p.stage /\ a.body = p.body /\ a.prev = p.prev
        /\ a.born = p.born /\ a.refusal = p.refusal /\ a.envs = p.envs /\ a.asked = p.asked
    BY <1>2, SMTT(20) DEF IsOp
  <1>4. PICK o : o = [a EXCEPT !.envs = envs]
    OBVIOUS
  <1>5. /\ IsOp(o) /\ o.stage = p.stage /\ o.body = p.body /\ o.prev = p.prev
        /\ o.born = p.born /\ o.refusal = p.refusal /\ o.asked = p.asked
    BY <1>3, <1>4 DEF IsOp
  <1>6. o = Heard(p, r)
    BY <1>1, <1>2, <1>3, <1>4 DEF Heard
  <1>7. Same(o, ops[i]) /\ o.body.code # "erase"
    BY <1>5 DEF Same, Proven
  <1>8. Follows(i, o)
    BY <1>5 DEF Follows, Early, Sweeping
  <1>9. CASE ops' = [ops EXCEPT ![i] = o] /\ UNCHANGED <<wire, orders>>
    BY <1>5, <1>7, <1>8, <1>9, StayC DEF CustodianStages
  <1>10. CASE Allow(i, o)
    BY <1>7, <1>10, MildsC DEF Milds
  <1>11. CASE Custodians \ p.asked # {} /\ Order(i, o, "custodians", {Min(Custodians \ p.asked)})
    <2>1. PICK c : c = Min(Custodians \ p.asked)
      OBVIOUS
    <2>2. {c} \subseteq Custodians
      BY <1>11, <2>1, SpareIsOne
    <2> QED BY <1>7, <1>11, <2>1, <2>2, MildsC DEF Milds
  <1>12. CASE Finish(i, o, "custodian_refused")
    BY <1>7, <1>12, MildsC DEF Milds
  <1> QED BY <1>5, <1>6, <1>9, <1>10, <1>11, <1>12 DEF CustodianResult

LEMMA EraseResultC ==
    ASSUME IInv, CInv, NEW r, NEW i \in Going, i = r.corr, NEW p, p = ops[i],
           p.stage = "erase_custodians", EraseResult(r), Rest({}), Quiet(i, {}), IsOp(p)
    PROVE  CInv'
  <1>1. PICK o : o = [p EXCEPT !.answered = @ \cup {r.from}]
    OBVIOUS
  <1>2. /\ IsOp(o) /\ o.stage = p.stage /\ o.body = p.body /\ o.prev = p.prev
        /\ o.born = p.born /\ o.refusal = p.refusal /\ o.epoch = p.epoch /\ o.cursor = p.cursor
    BY <1>1, SMTT(20) DEF IsOp
  <1>3. Same(o, ops[i])
    BY <1>2 DEF Same
  <1>4. Follows(i, p)
    BY DEF CInv, FollowsOK
  <1>5. p.body.code = "erase" /\ p.cursor \in Nat /\ Erasing(p)
    BY <1>4 DEF Follows
  <1>6. Grant.kind = "erasure" /\ o.epoch = Grant.epoch /\ Gone
    BY <1>2, <1>5 DEF Erasing, Sweeping
  <1>7. CASE ~r.ok
    <2>1. Finish(i, o, "custodian_refused")
      BY <1>1, <1>7 DEF EraseResult
    <2> QED BY <1>3, <2>1, MildsC DEF Milds
  <1>8. CASE r.ok /\ o.answered = Custodians
    <2>1. Allow(i, o)
      BY <1>1, <1>8 DEF EraseResult
    <2> QED BY <1>3, <1>6, <2>1, AllowC
  <1>9. CASE r.ok /\ o.answered # Custodians
    <2>1. ops' = [ops EXCEPT ![i] = o] /\ UNCHANGED <<wire, orders>>
      BY <1>1, <1>9 DEF EraseResult
    <2>2. Follows(i, o)
      BY <1>2, <1>5, <1>6 DEF Follows, Early, Erasing, Sweeping
    <2> QED BY <1>2, <1>3, <2>1, <2>2, StayC DEF CustodianStages
  <1> QED BY <1>7, <1>8, <1>9

LEMMA OnCustodianC == ASSUME IInv, CInv, NEW r \in results, OnCustodian(r) PROVE CInv'
  <1> PICK i : i = r.corr
    OBVIOUS
  <1> PICK p : p = ops[i]
    OBVIOUS
  <1>1. /\ results' \subseteq results
        /\ UNCHANGED <<scn, led, next, challenges, issued, mail, seen, erased, replies, count>>
    BY DEF OnCustodian
  <1>2. Rest({})
    BY <1>1 DEF Rest, count
  <1>3. CASE p.stage \notin CustodianStages
    <2>1. UNCHANGED <<ops, wire, orders>>
      BY <1>3 DEF OnCustodian
    <2>2. Drifts({})
      BY <1>1, <2>1 DEF count, Drifts, IInv, TypeOK
    <2> QED BY <2>2, DriftsC
  <1>4. CASE p.stage \in CustodianStages
    <2>1. i \in Ids /\ i \in Live
      BY <1>4 DEF IInv, TypeOK, Live, CustodianStages
    <2>2. OpOK(i, p) /\ IsOp(p)
      BY <2>1, LiveOps
    <2>3. p.refusal = "none" /\ i \in Going
      BY <1>4, <2>1, <2>2 DEF OpOK, Going, CustodianStages
    <2>4. Quiet(i, {})
      BY <1>4, <2>3 DEF IInv, WireOK, Silent, Quiet
    <2>5. CASE p.stage = "custodians"
      <3>1. Proven(p.body)
        BY <2>2, <2>3, <2>5 DEF OpOK, ControlOK, ControlStages
      <3>2. CustodianResult(r)
        BY <1>4, <2>5 DEF OnCustodian
      <3> QED BY <1>2, <2>2, <2>3, <2>4, <2>5, <3>1, <3>2, CustodianResultC
    <2>6. CASE p.stage = "erase_custodians"
      <3>1. EraseResult(r)
        BY <1>4, <2>6 DEF OnCustodian
      <3> QED BY <1>2, <2>2, <2>3, <2>4, <2>6, <3>1, EraseResultC
    <2> QED BY <1>4, <2>5, <2>6 DEF CustodianStages
  <1> QED BY <1>3, <1>4

(***************************************************************************)
(* A request takes a slot.                                                 *)
(***************************************************************************)
Begins(n, w) ==
    /\ next \in Ids /\ next' = next + 1
    /\ ops' = [ops EXCEPT ![next] = n] /\ wire' = wire \cup {w}
    /\ UNCHANGED <<led, mail, replies>>
    /\ n.stage # "free" /\ w.corr = next
    /\ WriteOK(next, w.q) /\ ~Rotates(w.q)
    /\ n.refusal = "none" => Follows(next, n) /\ Requests(n, w.q)

LEMMA BeginsC == ASSUME IInv, CInv, NEW n, NEW w, Begins(n, w) PROVE CInv'
  <1> PICK i : i = next
    OBVIOUS
  <1>1. /\ i \in Ids /\ i \in Nat /\ next \in Nat /\ next' = i + 1
        /\ ops' = [ops EXCEPT ![i] = n] /\ n.stage # "free"
        /\ led' = led /\ replies' = replies /\ mail' = mail
        /\ wire' = wire \cup {w} /\ w.corr = i
    BY DEF Begins, Ids
  <1>2. ops'[i] = n /\ \A j \in Ids : j # i => ops'[j] = ops[j]
    BY <1>1 DEF IInv, TypeOK
  <1>3. Going' \subseteq Ids /\ (\A j \in Going' : j # i => j \in Going)
        /\ (i \in Going' => n.refusal = "none")
    BY <1>1, <1>2 DEF Going, Live
  <1>4. (\A v \in wire : v.corr # i) /\ (\A m \in mail : m.corr # i)
    BY <1>1 DEF IInv, WireOK, Ids
  <1>5. CustodyStays /\ SetsOK
    BY <1>1 DEF CustodyStays, Grant, Rec, CInv
  <1>6. Able' \subseteq Able
    <2> SUFFICES ASSUME NEW x \in Able' PROVE x \in Able
      OBVIOUS
    <2>1. x \in Ids /\ (x >= next' \/ (\E v \in wire' : v.corr = x /\ Rotates(v.q))
                      \/ (x \in Going' /\ Early(ops'[x])))
      BY DEF Able, Early, Rotates
    <2>2. x >= next' => x >= next
      BY <1>1, <2>1 DEF Ids
    <2>3. \A v \in wire' : Rotates(v.q) => v \in wire
      BY <1>1 DEF Begins
    <2>4. x = i => x \in Able
      BY <1>1, <2>1 DEF Able
    <2>5. x # i /\ x \in Going' /\ Early(ops'[x]) => x \in Able
      BY <1>2, <1>3, <2>1 DEF Able
    <2> QED BY <2>1, <2>2, <2>3, <2>4, <2>5 DEF Able
  <1>7. SetsOK'
    BY <1>1, <1>5, <1>6, SetsStay
  <1>8. WritesOK'
    <2>1. \A v \in wire' : WriteOK(v.corr, v.q)
      BY <1>1 DEF Begins, CInv, WritesOK
    <2>2. \A v \in wire' : WriteOK(v.corr, v.q)'
      BY <1>5, <2>1, CustodySame
    <2>3. ASSUME NEW v \in wire', NEW u \in wire', v.corr = u.corr, Rotates(v.q)
          PROVE  ~PutsSet(u.q) /\ (Rotates(u.q) => v = u)
      <3>1. v \in wire
        BY <1>1, <2>3 DEF Begins
      <3>2. u \in wire
        BY <1>1, <1>4, <2>3, <3>1
      <3> QED BY <2>3, <3>1, <3>2 DEF CInv, WritesOK
    <2> QED BY <2>2, <2>3 DEF WritesOK, PutsSet, Rotates
  <1>9. FollowsOK'
    <2>1. ASSUME NEW j \in Going'
          PROVE  /\ Follows(j, ops'[j])
                 /\ \A v \in wire' : v.corr = j => Requests(ops'[j], v.q)
                 /\ \A m \in mail' : m.corr = j => Learns(j, ops'[j], m)
      <3>1. CASE j = i
        <4>1. n.refusal = "none" /\ ops'[j] = n
          BY <1>2, <1>3, <2>1, <3>1
        <4>2. \A v \in wire' : v.corr = j => v = w
          BY <1>1, <1>4, <3>1
        <4>3. \A m \in mail' : m.corr # j
          BY <1>1, <1>4, <3>1
        <4> QED BY <3>1, <4>1, <4>2, <4>3 DEF Begins
      <3>2. CASE j # i
        <4>1. j \in Going /\ ops'[j] = ops[j]
          BY <1>2, <1>3, <2>1, <3>2
        <4>2. \A v \in wire' : v.corr = j => v \in wire
          BY <1>1, <3>2
        <4> QED BY <1>1, <4>1, <4>2 DEF CInv, FollowsOK
      <3> QED BY <3>1, <3>2
    <2>2. ASSUME NEW j \in Going' PROVE Follows(j, ops[j])'
      <3> PICK o : o = ops'[j]
        OBVIOUS
      <3>1. Follows(j, o)'
        BY <1>5, <2>1, CustodySame
      <3> QED BY <3>1
    <2>3. ASSUME NEW j \in Going', NEW m \in mail', m.corr = j PROVE Learns(j, ops[j], m)'
      <3> PICK o : o = ops'[j]
        OBVIOUS
      <3>1. Learns(j, o, m)'
        BY <1>5, <2>1, <2>3, CustodySame
      <3> QED BY <3>1
    <2>4. ASSUME NEW j \in Going', NEW v \in wire', v.corr = j PROVE Requests(ops[j], v.q)'
      <3> PICK o : o = ops'[j]
        OBVIOUS
      <3>1. Requests(o, v.q)
        BY <2>1, <2>4
      <3> QED BY <3>1 DEF Requests, PutsSet
    <2> QED BY <2>2, <2>3, <2>4 DEF FollowsOK
  <1>10. (Erasures # {} => Gone)'
    BY <1>1, <1>5, CustodySame DEF CInv, Erasures
  <1> QED BY <1>7, <1>8, <1>9, <1>10 DEF CInv

LEMMA SubmitC == ASSUME IInv, CInv, NEW b, NEW p, Submit(b, p) PROVE CInv'
  <1> PICK o : o = NewOp(b, p)
    OBVIOUS
  <1> PICK i : i = next
    OBVIOUS
  <1>1. IsOp(o) /\ o.body = b /\ o.refusal = "none"
    BY DEF NewOp, IsOp
  <1>2. next \in Ids /\ next' = next + 1
    BY SkBounds DEF Submit, IInv, TypeOK, Ids
  <1>3. UNCHANGED <<led, mail, replies>>
    BY DEF Submit
  <1>4. Fresh(i)
    BY <1>2 DEF Fresh, CInv, SetsOK, Ids
  <1>5. ASSUME Finish(i, o, "challenge_unknown") PROVE CInv'
    <2>1. PICK e : e = [o EXCEPT !.refusal = "challenge_unknown"]
      OBVIOUS
    <2>2. IsOp(e) /\ e.refusal = "challenge_unknown"
      BY <1>1, <2>1 DEF IsOp
    <2>3. PICK f : f = [e EXCEPT !.out = Nothing]
      OBVIOUS
    <2>4. IsOp(f) /\ f.refusal = "challenge_unknown"
      BY <2>2, <2>3 DEF IsOp
    <2>5. PICK h : h = [f EXCEPT !.envs = {}]
      OBVIOUS
    <2>6. IsOp(h) /\ h.refusal = "challenge_unknown"
      BY <2>4, <2>5 DEF IsOp
    <2>7. PICK n : n = [h EXCEPT !.stage = "write_audit"]
      OBVIOUS
    <2>8. n.refusal = "challenge_unknown" /\ n.stage = "write_audit"
      BY <2>6, <2>7 DEF IsOp
    <2>9. PICK w : w = [corr |-> i, q |-> PutIfAbsent(AuditKey(i), Entry(o, "challenge_unknown"))]
      OBVIOUS
    <2>10. [o EXCEPT !.refusal = "challenge_unknown", !.out = Nothing, !.envs = {}] = h
      BY <2>1, <2>3, <2>5
    <2>11. Ask(i, h, "write_audit", w.q)
      <3>1. [o EXCEPT !.refusal = "challenge_unknown",
                      !.out = IF "challenge_unknown" = "none" THEN @ ELSE Nothing,
                      !.envs = IF "challenge_unknown" = "none" THEN @ ELSE {}] = h
        BY <2>10
      <3> QED BY <1>5, <2>9, <3>1 DEF Finish
    <2>12. ops' = [ops EXCEPT ![i] = n] /\ wire' = wire \cup {w}
      BY <2>7, <2>9, <2>11 DEF Ask
    <2>13. w.corr = i /\ Mild(w.q)
      BY <2>9, KeysAreApart DEF Mild, PutIfAbsent
    <2>14. Begins(n, w)
      BY <1>2, <1>3, <2>8, <2>12, <2>13, MildIsHarmless DEF Begins, Harmless
    <2> QED BY <2>14, BeginsC
  <1>6. ASSUME Ask(i, o, "get_grant", Get(GrantKey)) PROVE CInv'
    <2>1. PICK n : n = [o EXCEPT !.stage = "get_grant"]
      OBVIOUS
    <2>2. n.stage = "get_grant"
      BY <1>1, <2>1 DEF IsOp
    <2>3. PICK w : w = [corr |-> i, q |-> Get(GrantKey)]
      OBVIOUS
    <2>4. w.corr = i /\ Mild(w.q)
      BY <2>3 DEF Mild, Get
    <2>5. ops' = [ops EXCEPT ![i] = n] /\ wire' = wire \cup {w}
      BY <1>6, <2>1, <2>3 DEF Ask
    <2>6. Follows(i, n) /\ Requests(n, w.q)
      BY <1>4, <2>2 DEF Follows, Requests, Sweeping
    <2>7. Begins(n, w)
      BY <1>2, <1>3, <2>2, <2>4, <2>5, <2>6, MildIsHarmless DEF Begins, Harmless
    <2> QED BY <2>7, BeginsC
  <1>7. ASSUME ~Proven(b), b.code = "create" PROVE CInv'
    <2>1. PICK g : g = GrantRec(1, 1, NoDevice, FALSE, {}, i)
      OBVIOUS
    <2>2. g.kind = "grant" /\ g.epoch = 1 /\ g.retained = {} /\ g.setid = i
      BY <2>1 DEF GrantRec
    <2>3. PICK c : c = Creation(i)
      OBVIOUS
    <2>5. Ask(i, [o EXCEPT !.out = c, !.aux = g, !.epoch = 1], "put_grant",
              PutIfAbsent(GrantKey, g))
      BY <1>7, <2>1, <2>3 DEF Submit
    <2>6. PICK e : e = [o EXCEPT !.out = c]
      OBVIOUS
    <2>7. IsOp(e) /\ e.body = b /\ e.out = c
      BY <1>1, <2>6 DEF IsOp
    <2>8. PICK f : f = [e EXCEPT !.aux = g]
      OBVIOUS
    <2>9. IsOp(f) /\ f.body = b /\ f.out = c
      BY <2>7, <2>8 DEF IsOp
    <2>10. PICK h : h = [f EXCEPT !.epoch = 1]
      OBVIOUS
    <2>11. IsOp(h) /\ h.body = b /\ h.out = c /\ h.epoch = 1
      BY <2>9, <2>10 DEF IsOp
    <2>12. [o EXCEPT !.out = c, !.aux = g, !.epoch = 1] = h
      BY <2>6, <2>8, <2>10
    <2>13. PICK n : n = [h EXCEPT !.stage = "put_grant"]
      OBVIOUS
    <2>14. n.body = b /\ n.out = c /\ n.epoch = 1 /\ n.stage = "put_grant"
      BY <2>11, <2>13 DEF IsOp
    <2>15. PICK w : w = [corr |-> i, q |-> PutIfAbsent(GrantKey, g)]
      OBVIOUS
    <2>16. w.corr = i /\ w.q.op = "put" /\ w.q.key = GrantKey /\ w.q.new = g
      BY <2>15 DEF PutIfAbsent
    <2>17. ops' = [ops EXCEPT ![i] = n] /\ wire' = wire \cup {w}
      BY <2>5, <2>12, <2>13, <2>15 DEF Ask
    <2>18. ~Rotates(w.q) /\ WriteOK(i, w.q)
      BY <2>2, <2>16, KeysAreApart DEF Rotates, PutsSet, WriteOK
    <2>19. Follows(i, n) /\ Requests(n, w.q)
      BY <1>7, <2>3, <2>14, <2>16 DEF Follows, Requests, Early, Sweeping
    <2>20. Begins(n, w)
      BY <1>2, <1>3, <2>14, <2>16, <2>17, <2>18, <2>19 DEF Begins
    <2> QED BY <2>20, BeginsC
  <1> QED BY <1>5, <1>6, <1>7 DEF Submit

LEMMA SubmitAnyC == ASSUME IInv, CInv, NEW b, SubmitAny(b) PROVE CInv'
  BY SubmitC DEF SubmitAny

(***************************************************************************)
(* How a decision of the ledger moves the grant, or one set.               *)
(***************************************************************************)
SetsStill      == \A e \in 1 .. LastEpoch : Rec(e)' = Rec(e)
OthersStill(e) == \A f \in 1 .. LastEpoch : f # e => Rec(f)' = Rec(f)

FirstGrant(w) ==
    /\ w.q.op = "put" /\ w.q.key = GrantKey /\ ~Rotates(w.q)
    /\ Grant = Nothing /\ GrantVal(Grant') /\ Grant'.kind = "grant" /\ Grant'.epoch = 1
    /\ Grant'.retained = {} /\ Grant'.setid = w.corr

GrantChange ==
    /\ GrantVal(Grant) /\ GrantVal(Grant') /\ Grant.kind = "grant"
    /\ Grant'.gen = Grant.gen + 1 /\ Grant'.epoch = Grant.epoch
    /\ Grant'.setid = Grant.setid /\ Grant'.retained \subseteq Grant.retained

Rotation(w) ==
    /\ Rotates(w.q) /\ Rec(Grant.epoch).kind = "set"
    /\ Rec(Grant.epoch + 1) # Nothing /\ Rec(Grant.epoch + 1).setid = w.corr
    /\ GrantVal(Grant) /\ GrantVal(Grant') /\ Grant.kind = "grant" /\ Grant'.kind = "grant"
    /\ Grant'.gen = Grant.gen + 1 /\ Grant'.epoch = Grant.epoch + 1
    /\ Grant'.setid = w.corr /\ Grant'.retained = Grant.retained \cup {Grant.epoch}

SetPut(w, e) ==
    /\ Grant # Nothing /\ Rec(e) = Nothing
    /\ Rec(e)'.kind = "creation" /\ Rec(e)'.setid = w.corr
    /\ IF e = 1 THEN FirstBy(w.corr) ELSE Fresh(w.corr)
SetChange(e) == Rec(e) # Nothing /\ Rec(e)'.kind = "set" /\ Rec(e)'.setid = Rec(e).setid
SetDelete(e) == Doomed(e) /\ Rec(e)' = Nothing

GrantMoves(w) == FirstGrant(w) \/ GrantChange \/ Rotation(w)
SetMoves(w) ==
    \E e \in 1 .. LastEpoch : OthersStill(e) /\ (SetPut(w, e) \/ SetChange(e) \/ SetDelete(e))

CustodyMoves(w) ==
    /\ Grant' = Grant \/ GrantMoves(w)
    /\ SetsStill \/ (Grant' = Grant /\ SetMoves(w))

LEMMA DecisionMoves ==
    ASSUME IInv, CInv, NEW w \in wire, NEW out, Decision(w.q, out), led' = out.led
    PROVE  CustodyMoves(w)
  <1> PICK q : q = w.q
    OBVIOUS
  <1> PICK i : i = w.corr
    OBVIOUS
  <1>1. Question(w) /\ WriteOK(i, q) /\ led = [k \in Keys |-> led[k]]
    BY DEF IInv, WireOK, TypeOK, CInv, WritesOK
  <1>2. CASE led' = led
    BY <1>2 DEF CustodyMoves, SetsStill, Grant, Rec
  <1>3. CASE led' # led
    <2>1. led' = Applied(led, q) /\ q.op # "get" /\ (q.op # "delete" => led[q.key] = q.old)
      BY <1>3 DEF Decision
    <2>2. PICK key : key = q.key
      OBVIOUS
    <2>3. /\ \A k \in Keys : k # key => led'[k] = led[k]
          /\ key \in Keys => led'[key] = q.new
      BY <1>1, <2>1, <2>2 DEF Applied
    <2>4. GrantKey \in Keys /\ \A e \in 1 .. LastEpoch : SetKey(e) \in Keys
      BY DEF Keys
    <2>5. CASE key[1] \notin {"grant", "set"}
      <3>1. Grant' = Grant /\ SetsStill
        BY <2>3, <2>4, <2>5, KeysAreApart DEF Grant, Rec, SetsStill
      <3> QED BY <3>1 DEF CustodyMoves
    <2>6. CASE key = GrantKey /\ WritesGrant(q)
      <3>1. SetsStill
        BY <2>3, <2>4, <2>6, KeysAreApart DEF Rec, SetsStill
      <3>2. Grant = q.old /\ Grant' = q.new
        BY <2>1, <2>2, <2>3, <2>4, <2>6 DEF Grant, WritesGrant
      <3>3. CASE q.op = "put"
        <4>1. FirstGrant(w)
          BY <1>1, <2>2, <2>6, <3>2, <3>3 DEF FirstGrant, WritesGrant, WriteOK, Rotates
        <4> QED BY <3>1, <4>1 DEF CustodyMoves, GrantMoves
      <3>4. CASE q.op = "cas" /\ ~Rotates(q)
        <4>1. q.new.epoch = q.old.epoch
          BY <2>2, <2>6, <3>4 DEF Rotates
        <4>2. GrantChange
          BY <1>1, <2>2, <2>6, <3>2, <3>4, <4>1 DEF GrantChange, WritesGrant, WriteOK
        <4> QED BY <3>1, <4>2 DEF CustodyMoves, GrantMoves
      <3>5. CASE q.op = "cas" /\ Rotates(q)
        <4>1. RotationOK(i, q)
          BY <1>1, <2>2, <2>6, <3>5 DEF WriteOK
        <4>2. q.new.epoch = q.old.epoch + 1
          BY <2>6, <3>5 DEF WritesGrant, Rotates
        <4>3. Rec(Grant.epoch).kind = "set" /\ Rec(Grant.epoch + 1) # Nothing
              /\ Rec(Grant.epoch + 1).setid = i
          BY <3>2, <4>1 DEF RotationOK, Recoverable, Created
        <4>4. Rotation(w)
          BY <2>6, <3>2, <3>5, <4>1, <4>2, <4>3 DEF Rotation, WritesGrant, RotationOK
        <4> QED BY <3>1, <4>4 DEF CustodyMoves, GrantMoves
      <3> QED BY <2>6, <3>3, <3>4, <3>5 DEF WritesGrant
    <2>7. CASE key[1] = "set"
      <3>1. Grant' = Grant
        BY <2>3, <2>4, <2>7, KeysAreApart DEF Grant
      <3>2. CASE key \notin Keys
        <4>1. SetsStill
          BY <2>3, <2>4, <3>2 DEF Rec, SetsStill
        <4> QED BY <3>1, <4>1 DEF CustodyMoves
      <3>3. CASE key \in Keys
        <4>1. PICK e \in 1 .. LastEpoch : key = SetKey(e)
          BY <2>7, <3>3, KeysAreApart DEF Keys
        <4>2. OthersStill(e) /\ Rec(e)' = q.new /\ (q.op # "delete" => Rec(e) = q.old)
          BY <2>1, <2>2, <2>3, <2>4, <4>1, KeysAreApart DEF Rec, OthersStill
        <4>3. q.op \in {"put", "cas", "delete"} /\ (q.op = "delete" => q.new = Nothing)
          BY <1>1, <2>1, <2>2, <2>7, KeysAreApart DEF Question, WritesGrant, WritesTicket
        <4>4. CASE q.op = "put"
          <5>1. CreationOK(i, q)
            BY <1>1, <2>2, <2>7, <4>4 DEF WriteOK, PutsSet
          <5>2. PICK f \in 1 .. LastEpoch :
                     /\ q = PutIfAbsent(SetKey(f), SetRec("creation", f, i))
                     /\ IF f = 1 THEN FirstBy(i) ELSE Fresh(i)
            BY <5>1 DEF CreationOK
          <5>3. q.old = Nothing /\ q.new = SetRec("creation", f, i) /\ f = e
            <6>1. q.old = Nothing /\ q.new = SetRec("creation", f, i) /\ q.key = SetKey(f)
              BY <5>2 DEF PutIfAbsent
            <6>2. SetKey(f)[2] = f /\ SetKey(e)[2] = e
              BY KeysAreApart
            <6> QED BY <2>2, <4>1, <6>1, <6>2
          <5>4. SetPut(w, e)
            <6>1. Grant # Nothing
              BY <5>1 DEF CreationOK
            <6>2. Rec(e) = Nothing
              BY <4>2, <4>4, <5>3
            <6>3. Rec(e)'.kind = "creation" /\ Rec(e)'.setid = i
              BY <4>2, <5>3 DEF SetRec
            <6> QED BY <5>2, <5>3, <6>1, <6>2, <6>3 DEF SetPut
          <5> QED BY <3>1, <4>2, <5>4 DEF CustodyMoves, SetMoves
        <4>5. CASE q.op = "cas"
          <5>1. SetChange(e)
            BY <1>1, <2>2, <2>7, <4>2, <4>5 DEF SetChange, WriteOK
          <5> QED BY <3>1, <4>2, <5>1 DEF CustodyMoves, SetMoves
        <4>6. CASE q.op = "delete"
          <5>1. Doomed(e)
            BY <1>1, <2>2, <4>1, <4>6, KeysAreApart DEF WriteOK
          <5>2. SetDelete(e)
            BY <4>2, <4>3, <4>6, <5>1 DEF SetDelete
          <5> QED BY <3>1, <4>2, <5>2 DEF CustodyMoves, SetMoves
        <4> QED BY <4>3, <4>4, <4>5, <4>6
      <3> QED BY <3>2, <3>3
    <2> QED BY <1>1, <2>1, <2>2, <2>5, <2>6, <2>7, KeysAreApart DEF Question
  <1> QED BY <1>2, <1>3

(* What stays as it is when the ledger decides.                            *)
LEMMA GrantKept ==
    ASSUME NEW w, CustodyMoves(w)
    PROVE  /\ Grant.kind = "erasure" => Grant' = Grant
           /\ \/ Grant' = Grant
              \/ Grant = Nothing /\ FirstGrant(w)
              \/ /\ GrantVal(Grant) /\ GrantVal(Grant') /\ Grant.kind = "grant"
                 /\ Grant'.gen = Grant.gen + 1 /\ Grant' # Nothing
                 /\ GrantChange \/ Rotation(w)
  <1>1. Grant' = Grant \/ FirstGrant(w) \/ GrantChange \/ Rotation(w)
    BY DEF CustodyMoves, GrantMoves
  <1>2. FirstGrant(w) => Grant = Nothing /\ Grant.kind # "erasure"
    BY DEF FirstGrant, Nothing
  <1>3. GrantChange \/ Rotation(w) =>
           /\ GrantVal(Grant) /\ GrantVal(Grant') /\ Grant.kind = "grant"
           /\ Grant'.gen = Grant.gen + 1 /\ Grant' # Nothing
    BY DEF GrantChange, Rotation, GrantVal, Nothing
  <1> QED BY <1>1, <1>2, <1>3

LEMMA SetKept ==
    ASSUME NEW w, CustodyMoves(w), NEW e \in 1 .. LastEpoch, ~Doomed(e), Rec(e) # Nothing
    PROVE  /\ Rec(e)' # Nothing /\ Rec(e)'.setid = Rec(e).setid
           /\ Rec(e).kind = "set" => Rec(e)'.kind = "set"
  <1>1. CASE SetsStill
    <2>1. Rec(e)' = Rec(e)
      BY <1>1 DEF SetsStill
    <2> QED BY <2>1
  <1>2. CASE SetMoves(w)
    <2>1. PICK f \in 1 .. LastEpoch : /\ OthersStill(f)
                                      /\ SetPut(w, f) \/ SetChange(f) \/ SetDelete(f)
      BY <1>2 DEF SetMoves
    <2>2. CASE f # e
      <3>1. Rec(e)' = Rec(e)
        BY <2>1, <2>2 DEF OthersStill
      <3> QED BY <3>1
    <2>3. CASE f = e
      <3>1. SetChange(e)
        BY <2>1, <2>3 DEF SetPut, SetDelete
      <3> QED BY <3>1 DEF SetChange, Nothing
    <2> QED BY <2>2, <2>3
  <1> QED BY <1>1, <1>2 DEF CustodyMoves

LEMMA BehindKept ==
    ASSUME NEW w, CustodyMoves(w), NEW g, Behind(g)
    PROVE  Behind(g)' /\ (Grant' = g => Grant = g /\ Grant' = Grant)
  <1> PICK f : f = Grant
    OBVIOUS
  <1> PICK h : h = Grant'
    OBVIOUS
  <1>1. /\ GrantVal(g) /\ GrantVal(f) /\ f # Nothing /\ (g = f \/ g.gen < f.gen)
        /\ g.epoch <= f.epoch /\ (g.kind = "erasure" => g = f)
    BY DEF Behind
  <1>2. CASE h = f
    <2>1. GrantVal(h) /\ (g = h \/ g.gen < h.gen) /\ g.epoch <= h.epoch /\ h # Nothing
          /\ (g.kind = "erasure" => g = h)
      BY <1>1, <1>2
    <2> QED BY <1>1, <1>2, <2>1 DEF Behind, GrantVal
  <1>3. CASE h # f
    <2>1. /\ GrantVal(h) /\ f.kind = "grant" /\ h.gen = f.gen + 1 /\ h # Nothing
          /\ h.epoch = f.epoch \/ h.epoch = f.epoch + 1
      BY <1>1, <1>3, GrantKept DEF GrantChange, Rotation
    <2>2. g.gen \in Nat /\ f.gen \in Nat /\ g.epoch \in Nat /\ f.epoch \in Nat
      BY <1>1 DEF GrantVal
    <2>3. g.gen < h.gen /\ g.epoch <= h.epoch /\ g.kind # "erasure"
      BY <1>1, <2>1, <2>2
    <2>4. g # h
      BY <2>1, <2>2, <2>3
    <2> QED BY <1>1, <2>1, <2>3, <2>4 DEF Behind, GrantVal
  <1> QED BY <1>2, <1>3

LEMMA CustodyKept ==
    ASSUME IInv, SetsOK, NEW w, CustodyMoves(w), NEW g, g.kind = "grant", Behind(g)
    PROVE  /\ Recoverable(g) => Recoverable(g)'
           /\ \A i : Created(g, i) => Created(g, i)'
  <1> SUFFICES ASSUME Grant' = g
               PROVE  /\ Rec(g.epoch).kind = "set" => Rec(g.epoch)'.kind = "set"
                      /\ Rec(g.epoch + 1) # Nothing =>
                            Rec(g.epoch + 1)' # Nothing
                            /\ Rec(g.epoch + 1)'.setid = Rec(g.epoch + 1).setid
    <2>1. Grant' = g => Grant = g
      BY BehindKept
    <2> QED BY <2>1 DEF Recoverable, Created
  <1>1. Grant = g /\ Grant # Nothing
    BY BehindKept DEF Behind
  <1>2. g.epoch \in 1 .. LastEpoch /\ g.epoch + 1 \in 1 .. LastEpoch /\ g.epoch \in Nat
    BY <1>1, EpochsInReach DEF Behind, GrantVal
  <1>3. ~Doomed(g.epoch) /\ ~Doomed(g.epoch + 1)
    BY <1>1, <1>2 DEF Doomed
  <1>4. Rec(g.epoch).kind = "set" => Rec(g.epoch) # Nothing
    BY DEF Nothing
  <1> QED BY <1>2, <1>3, <1>4, SetKept

LEMMA DoomedKept ==
    ASSUME NEW w, CustodyMoves(w), NEW e, Doomed(e)
    PROVE  Doomed(e)'
  <1> PICK f : f = Grant
    OBVIOUS
  <1> PICK h : h = Grant'
    OBVIOUS
  <1>1. e \in Nat /\ f # Nothing /\ (f.kind = "erasure" \/ (e < f.epoch /\ e \notin f.retained))
    BY DEF Doomed
  <1>2. h # Nothing /\ (h.kind = "erasure" \/ (e < h.epoch /\ e \notin h.retained))
    <2>1. CASE h = f
      BY <1>1, <2>1
    <2>2. CASE h # f
      <3>1. /\ f.kind = "grant" /\ h # Nothing /\ f.epoch \in Nat
            /\ \/ h.epoch = f.epoch /\ h.retained \subseteq f.retained
               \/ h.epoch = f.epoch + 1 /\ h.retained = f.retained \cup {f.epoch}
        BY <1>1, <2>2, GrantKept DEF GrantChange, Rotation, GrantVal
      <3>2. e < f.epoch /\ e # f.epoch /\ e \notin f.retained
        BY <1>1, <3>1
      <3> QED BY <1>1, <3>1, <3>2
    <2> QED BY <2>1, <2>2
  <1> QED BY <1>1, <1>2 DEF Doomed

LEMMA SetidKept ==
    ASSUME NEW w, CustodyMoves(w), NEW i
    PROVE  /\ FirstBy(i) /\ Grant # Nothing /\ (Rotates(w.q) => i # w.corr) => FirstBy(i)'
           /\ /\ Fresh(i)
              /\ Rotates(w.q) \/ (w.q.op = "put" /\ w.q.key = GrantKey) => i # w.corr
              => Fresh(i)'
  <1> PICK f : f = Grant
    OBVIOUS
  <1> PICK h : h = Grant'
    OBVIOUS
  <1>1. CASE h = f
    BY <1>1 DEF FirstBy, Fresh
  <1>2. CASE GrantChange
    <2>1. h.epoch = f.epoch /\ h.setid = f.setid /\ f # Nothing
      BY <1>2 DEF GrantChange, GrantVal, Nothing
    <2> QED BY <2>1 DEF FirstBy, Fresh
  <1>3. CASE Rotation(w)
    <2>1. h.epoch # 1 /\ h.setid = w.corr /\ Rotates(w.q)
      BY <1>3 DEF Rotation, GrantVal
    <2> QED BY <2>1 DEF FirstBy, Fresh
  <1>4. CASE FirstGrant(w)
    <2>1. f = Nothing /\ h.setid = w.corr /\ w.q.op = "put" /\ w.q.key = GrantKey
      BY <1>4 DEF FirstGrant
    <2> QED BY <2>1 DEF Fresh
  <1> QED BY <1>1, <1>2, <1>3, <1>4, GrantKept

LEMMA GoneKept ==
    ASSUME IInv, SetsOK, NEW w, CustodyMoves(w), Gone
    PROVE  Gone'
  <1> PICK g : g = Grant
    OBVIOUS
  <1>1. g.kind = "erasure" /\ g # Nothing /\ Grant' = g
    BY GrantKept DEF Gone, Nothing
  <1>2. g.epoch \in 1 .. LastEpoch
    BY <1>1, EpochsInReach
  <1>3. ASSUME g.epoch > 1 PROVE Rec(g.epoch)' = Nothing \/ Rec(g.epoch)'.setid # g.setid
    <2> PICK e \in 1 .. LastEpoch : e = g.epoch
      BY <1>2
    <2>0. e # 1 /\ (Rec(e) = Nothing \/ Rec(e).setid # g.setid)
      BY <1>2, <1>3 DEF Gone
    <2>1. CASE SetsStill
      BY <2>0, <2>1 DEF SetsStill
    <2>2. CASE SetMoves(w)
      <3>1. PICK f \in 1 .. LastEpoch : /\ OthersStill(f)
                                        /\ SetPut(w, f) \/ SetChange(f) \/ SetDelete(f)
        BY <2>2 DEF SetMoves
      <3>2. CASE f # e
        BY <2>0, <3>1, <3>2 DEF OthersStill
      <3>3. CASE f = e /\ SetPut(w, e)
        BY <1>1, <2>0, <3>3 DEF SetPut, Fresh
      <3>4. CASE f = e /\ SetChange(e)
        BY <2>0, <3>4 DEF SetChange
      <3>5. CASE f = e /\ SetDelete(e)
        BY <3>5 DEF SetDelete
      <3> QED BY <3>1, <3>2, <3>3, <3>4, <3>5
    <2> QED BY <2>1, <2>2 DEF CustodyMoves
  <1> QED BY <1>1, <1>3 DEF Gone

(* An answer that a record is not there is true, but for a chain head's.   *)
Truthful(q, out) ==
    out.status = "not_found" /\ q.key[1] # "chain" => out.led = led /\ led[q.key] = Nothing

LEMMA AnswersAreTrue ==
    ASSUME IInv, NEW w \in wire, NEW out \in Decided(led, w.q) \cup Failed(led, w.q) \cup Aged(w)
    PROVE  Decision(w.q, out) /\ Truthful(w.q, out)
  <1> PICK q : q = w.q
    OBVIOUS
  <1> PICK cur : cur = led[q.key]
    OBVIOUS
  <1>1. q.op = "delete" => q.new = Nothing
    BY DEF IInv, WireOK, Question, WritesGrant, WritesTicket
  <1>2. Decision(q, out)
    BY <1>1, DecidedIs, FailedIs
  <1>3. CASE out \in Decided(led, q)
    <2>1. CASE cur = Nothing /\ q.op \in {"get", "delete"}
      <3>1. out = Outcome("not_found", Nothing, led) \/ out = Outcome("ok", Nothing, Applied(led, q))
        BY <1>3, <2>1 DEF Decided
      <3> QED BY <1>2, <2>1, <3>1 DEF Truthful, Outcome
    <2>2. CASE ~(cur = Nothing /\ q.op \in {"get", "delete"})
      <3>1. \/ out = Outcome("ok", cur, led) \/ out = Outcome("ok", Nothing, Applied(led, q))
            \/ out = Outcome("conflict", Nothing, led)
        BY <1>3, <2>2 DEF Decided
      <3> QED BY <1>2, <3>1 DEF Truthful, Outcome
    <2> QED BY <2>1, <2>2
  <1>4. CASE out \in Failed(led, q)
    <2>1. \E x, l : out = Outcome("unavailable", x, l) \/ out = Outcome("retained", x, l)
      BY <1>4 DEF Failed
    <2> QED BY <1>2, <2>1 DEF Truthful, Outcome
  <1>5. CASE out \in Aged(w)
    BY <1>2, <1>5 DEF Aged, Truthful
  <1> QED BY <1>2, <1>3, <1>4, <1>5

LEMMA NotEarly ==
    ASSUME IInv, CInv, NEW w \in wire, w.corr \in Going,
           Rotates(w.q) \/ (w.q.op = "put" /\ w.q.key = GrantKey)
    PROVE  ~Early(ops[w.corr])
  <1> PICK i : i = w.corr
    OBVIOUS
  <1> PICK o : o = ops[i]
    OBVIOUS
  <1> PICK q : q = w.q
    OBVIOUS
  <1>1. Asked(i, o, q) /\ Requests(o, q)
    BY DEF IInv, WireOK, CInv, FollowsOK
  <1>2. q.op # "get" /\ ~PutsSet(q)
    BY KeysAreApart DEF Rotates, PutsSet
  <1>3. o.stage \notin {"get_grant", "get_current_set", "put_set"}
    BY <1>1, <1>2 DEF Asked, Requests, Get
  <1> QED BY <1>3 DEF Early

(* A rotation of the grant is one of those that could still be.            *)
LEMMA FewerAreAble ==
    ASSUME IInv, CInv, NEW w \in wire, wire' = wire \ {w}, next' = next, ops' = ops
    PROVE  /\ Able' \subseteq Able /\ Cardinality(Able') \in Nat
           /\ Cardinality(Able') <= Cardinality(Able)
           /\ Rotates(w.q) => Cardinality(Able') + 1 <= Cardinality(Able)
  <1> PICK i : i = w.corr
    OBVIOUS
  <1>1. Going' = Going
    BY DEF Going, Live
  <1>2. Able' \subseteq Able
    BY <1>1 DEF Able, Early, Rotates
  <1>3. IsFiniteSet(Able) /\ Cardinality(Able) \in Nat
    BY FewAreAble
  <1>4. IsFiniteSet(Able') /\ Cardinality(Able') \in Nat /\ Cardinality(Able') <= Cardinality(Able)
    BY <1>2, <1>3, FS_Subset, FS_CardinalityType
  <1>5. ASSUME Rotates(w.q) PROVE Cardinality(Able') + 1 <= Cardinality(Able)
    <2>1. i \in Ids /\ i < next /\ next \in Nat /\ i \in Nat
      BY DEF IInv, WireOK, TypeOK, Ids
    <2>2. i \in Able
      BY <1>5, <2>1 DEF Able
    <2>3. i \notin Able'
      <3> SUFFICES ASSUME i \in Able' PROVE FALSE
        OBVIOUS
      <3>1. \/ \E v \in wire' : v.corr = i /\ Rotates(v.q)
            \/ i \in Going /\ Early(ops[i])
        BY <1>1, <2>1 DEF Able, Early, Rotates
      <3>2. CASE \E v \in wire' : v.corr = i /\ Rotates(v.q)
        BY <1>5, <3>2 DEF CInv, WritesOK
      <3>3. CASE i \in Going /\ Early(ops[i])
        BY <1>5, <3>3, NotEarly
      <3> QED BY <3>1, <3>2, <3>3
    <2>4. PICK S : S = Able \ {i}
      OBVIOUS
    <2>5. IsFiniteSet(S) /\ Cardinality(S) = Cardinality(Able) - 1
      BY <1>3, <2>2, <2>4, FS_RemoveElement
    <2>6. Able' \subseteq S
      BY <1>2, <2>3, <2>4
    <2>7. Cardinality(Able') <= Cardinality(S)
      BY <2>5, <2>6, FS_Subset
    <2> QED BY <1>3, <1>4, <2>5, <2>7
  <1> QED BY <1>2, <1>4, <1>5

LEMMA FewIds == \A S \in SUBSET Ids : Cardinality(S) <= MaxReqs
  <1>1. IsFiniteSet(Ids) /\ Cardinality(Ids) = MaxReqs
    BY FS_Interval, SkBounds DEF Ids
  <1> QED BY <1>1, FS_Subset

LEMMA SettleSets ==
    ASSUME IInv, CInv, NEW w \in wire, CustodyMoves(w), next' = next,
           Able' \subseteq Able, Cardinality(Able') \in Nat,
           Cardinality(Able') <= Cardinality(Able),
           Rotates(w.q) => Cardinality(Able') + 1 <= Cardinality(Able)
    PROVE  SetsOK'
  <1> PICK i : i = w.corr
    OBVIOUS
  <1> PICK g : g = Grant
    OBVIOUS
  <1> PICK h : h = Grant'
    OBVIOUS
  <1>0. CInv /\ SetsOK /\ next \in Nat /\ i \in Ids /\ i \in Nat /\ i < next
    BY DEF CInv, IInv, TypeOK, WireOK, Ids
  <1>1. CASE SetsStill /\ h = g
    BY <1>0, <1>1, SetsStay DEF CustodyStays, SetsStill
  <1>2. CASE SetsStill /\ FirstGrant(w)
    <2>1. /\ g = Nothing /\ h.kind = "grant" /\ h.epoch = 1 /\ h.retained = {} /\ h.setid = i
          /\ h # Nothing
      BY <1>2 DEF FirstGrant, Nothing
    <2>2. \A e \in 1 .. LastEpoch : Rec(e)' = Nothing
      BY <1>0, <1>2, <2>1 DEF SetsStill, SetsOK
    <2>3. Cardinality(Able') <= MaxReqs
      BY FewIds DEF Able
    <2>4. 1 + Cardinality(Able') <= MaxReqs + 2
      BY <2>3, SkBounds
    <2>5. 1 \in 1 .. LastEpoch
      BY SkBounds DEF LastEpoch
    <2>6. Rec(1)' = Nothing
      BY <2>2, <2>5
    <2>7. Rec(Grant.epoch)' = Nothing
      BY <2>1, <2>6 DEF Rec
    <2> QED BY <1>0, <2>1, <2>4, <2>7 DEF SetsOK
  <1>3. CASE SetsStill /\ GrantChange
    <2>1. /\ GrantVal(g) /\ g.kind = "grant" /\ g # Nothing /\ h.epoch = g.epoch
          /\ h.setid = g.setid /\ h.retained \subseteq g.retained /\ h # Nothing
      BY <1>3 DEF GrantChange, GrantVal, Nothing
    <2>2. g.epoch \in 1 .. LastEpoch /\ g.retained \subseteq 1 .. LastEpoch
          /\ g.epoch + Cardinality(Able) <= MaxReqs + 2 /\ g.epoch \in Nat
      BY <1>0, <2>1, EpochsInReach, SkBounds DEF GrantVal, LastEpoch, SetsOK
    <2>3. PICK e \in 1 .. LastEpoch : e = g.epoch
      BY <2>2
    <2>4. Rec(e)' = Rec(e)
      BY <1>3 DEF SetsStill
    <2>5. Rec(Grant.epoch)' = Rec(g.epoch)
      BY <2>1, <2>3, <2>4 DEF Rec
    <2>6. \A x \in h.retained : Rec(x)'.kind = "set"
      BY <1>0, <1>3, <2>1, <2>2 DEF SetsStill, SetsOK
    <2>7. h.epoch + Cardinality(Able') <= MaxReqs + 2
      BY <2>1, <2>2, SkBounds, FewAreAble
    <2> QED BY <1>0, <2>1, <2>5, <2>6, <2>7 DEF SetsOK
  <1>4. CASE SetsStill /\ Rotation(w)
    <2>1. /\ GrantVal(g) /\ g.kind = "grant" /\ g # Nothing /\ h.epoch = g.epoch + 1
          /\ h.setid = i /\ h.retained = g.retained \cup {g.epoch} /\ Rotates(w.q)
          /\ Rec(g.epoch).kind = "set" /\ Rec(g.epoch + 1) # Nothing
          /\ Rec(g.epoch + 1).setid = i /\ h # Nothing
      BY <1>4 DEF Rotation, Nothing
    <2>2. g.epoch \in 1 .. LastEpoch /\ g.retained \subseteq 1 .. LastEpoch
          /\ g.epoch + 1 \in 1 .. LastEpoch
          /\ g.epoch + Cardinality(Able) <= MaxReqs + 2 /\ g.epoch \in Nat
      BY <1>0, <2>1, EpochsInReach, SkBounds DEF GrantVal, LastEpoch, SetsOK
    <2>3. PICK e \in 1 .. LastEpoch : e = g.epoch + 1
      BY <2>2
    <2>4. Rec(e)' = Rec(e)
      BY <1>4 DEF SetsStill
    <2>5. Rec(Grant.epoch)' = Rec(g.epoch + 1)
      BY <2>1, <2>3, <2>4 DEF Rec
    <2>6. \A x \in h.retained : Rec(x)'.kind = "set"
      BY <1>0, <1>4, <2>1, <2>2 DEF SetsStill, SetsOK
    <2>7. h.epoch + Cardinality(Able') <= MaxReqs + 2
      BY <2>1, <2>2, SkBounds, FewAreAble
    <2> QED BY <1>0, <2>1, <2>5, <2>6, <2>7 DEF SetsOK
  <1>5. CASE h = g /\ SetMoves(w)
    <2>1. PICK e \in 1 .. LastEpoch : /\ OthersStill(e)
                                      /\ SetPut(w, e) \/ SetChange(e) \/ SetDelete(e)
      BY <1>5 DEF SetMoves
    <2>2. g # Nothing
      BY <1>0, <2>1 DEF SetPut, SetChange, SetDelete, Doomed, SetsOK
    <2>3. GrantVal(g) /\ g.epoch \in 1 .. LastEpoch /\ g.retained \subseteq 1 .. LastEpoch
          /\ g.epoch + Cardinality(Able) <= MaxReqs + 2 /\ g.epoch \in Nat
      BY <1>0, <2>2, GrantIsVal, EpochsInReach, SkBounds DEF GrantVal, LastEpoch, SetsOK
    <2>4. g.epoch + Cardinality(Able') <= MaxReqs + 2
      BY <2>3, SkBounds, FewAreAble
    <2>5. ASSUME g.kind = "grant", NEW x \in g.retained PROVE Rec(x)'.kind = "set"
      <3>1. Rec(x).kind = "set" /\ x \in 1 .. LastEpoch /\ Rec(x) # Nothing
        BY <1>0, <2>3, <2>5 DEF SetsOK, Nothing
      <3>2. ~Doomed(x)
        BY <2>5 DEF Doomed
      <3> QED BY <3>1, <3>2, SetKept
    <2>6. ASSUME g.kind = "grant"
          PROVE  /\ Rec(g.epoch)' = Nothing => g.epoch = 1
                 /\ Rec(g.epoch)' # Nothing => Rec(g.epoch)'.setid = g.setid
      <3> PICK f \in 1 .. LastEpoch : f = g.epoch
        BY <2>3
      <3>1. /\ Rec(f) = Nothing => f = 1
            /\ Rec(f) # Nothing => Rec(f).setid = g.setid
        BY <1>0, <2>6 DEF SetsOK
      <3>2. CASE f # e
        BY <2>1, <3>1, <3>2 DEF OthersStill
      <3>3. CASE f = e /\ SetPut(w, e)
        <4>1. f = 1 /\ Rec(f)'.setid = i /\ Rec(f)' # Nothing /\ FirstBy(i)
          BY <3>1, <3>3 DEF SetPut, Nothing
        <4> QED BY <4>1 DEF FirstBy
      <3>4. CASE f = e /\ SetChange(e)
        BY <3>1, <3>4 DEF SetChange, Nothing
      <3>5. CASE f = e /\ SetDelete(e)
        BY <2>3, <2>6, <3>5 DEF SetDelete, Doomed
      <3> QED BY <2>1, <3>2, <3>3, <3>4, <3>5
    <2>7. Rec(Grant.epoch)' = Rec(g.epoch)'
      BY <1>5 DEF Rec
    <2> QED BY <1>0, <1>5, <2>2, <2>4, <2>5, <2>6, <2>7 DEF SetsOK
  <1> QED BY <1>1, <1>2, <1>3, <1>4, <1>5 DEF CustodyMoves, GrantMoves

LEMMA GrantStands ==
    ASSUME NEW w, CustodyMoves(w), Grant # Nothing
    PROVE  Grant' # Nothing
           /\ \A i : Fresh(i) /\ (Rotates(w.q) => i # w.corr) => Fresh(i)'
  <1> PICK g : g = Grant
    OBVIOUS
  <1> PICK h : h = Grant'
    OBVIOUS
  <1>1. h = g \/ (h # Nothing /\ (GrantChange \/ Rotation(w)))
    BY GrantKept
  <1>2. GrantChange => h.setid = g.setid
    BY DEF GrantChange
  <1>3. Rotation(w) => h.setid = w.corr /\ Rotates(w.q)
    BY DEF Rotation
  <1> QED BY <1>1, <1>2, <1>3 DEF Fresh

LEMMA SettleWrites ==
    ASSUME IInv, CInv, NEW w \in wire, CustodyMoves(w), wire' = wire \ {w}
    PROVE  WritesOK'
  <1>1. ASSUME NEW v \in wire' PROVE WriteOK(v.corr, v.q)'
    <2> PICK i : i = v.corr
      OBVIOUS
    <2> PICK q : q = v.q
      OBVIOUS
    <2>1. SetsOK /\ Question(v) /\ WriteOK(i, q)
      BY <1>1 DEF IInv, WireOK, CInv, WritesOK
    <2>2. ASSUME PutsSet(q) PROVE CreationOK(i, q)'
      <3>1. CreationOK(i, q)
        BY <2>1, <2>2 DEF WriteOK
      <3>2. Rotates(w.q) => i # w.corr
        BY <1>1, <2>2 DEF CInv, WritesOK
      <3>3. PICK e \in 1 .. LastEpoch :
                 /\ q = PutIfAbsent(SetKey(e), SetRec("creation", e, i))
                 /\ IF e = 1 THEN FirstBy(i) ELSE Fresh(i)
        BY <3>1 DEF CreationOK
      <3>4. Grant # Nothing
        BY <3>1 DEF CreationOK
      <3>5. Grant' # Nothing /\ IF e = 1 THEN FirstBy(i)' ELSE Fresh(i)'
        BY <3>2, <3>3, <3>4, GrantStands, SetidKept
      <3> QED BY <3>3, <3>5 DEF CreationOK
    <2>3. q.op = "delete" => q.key = SetKey(q.key[2]) /\ Doomed(q.key[2])'
      BY <2>1, DoomedKept DEF WriteOK
    <2>4. ASSUME q.op = "cas", q.key = GrantKey
          PROVE  /\ Behind(q.old)'
                 /\ IF Rotates(q) THEN RotationOK(i, q)'
                    ELSE q.new.setid = q.old.setid /\ q.new.retained \subseteq q.old.retained
      <3>1. /\ Behind(q.old)
            /\ IF Rotates(q) THEN RotationOK(i, q)
               ELSE q.new.setid = q.old.setid /\ q.new.retained \subseteq q.old.retained
        BY <2>1, <2>4 DEF WriteOK
      <3>2. q.old.kind = "grant"
        BY <2>1, <2>4, KeysAreApart DEF Question, WritesGrant
      <3>3. Behind(q.old)'
        BY <3>1, BehindKept
      <3>4. RotationOK(i, q) => RotationOK(i, q)'
        BY <2>1, <3>1, <3>2, CustodyKept DEF RotationOK
      <3> QED BY <3>1, <3>3, <3>4
    <2>5. WriteOK(i, q)'
      BY <2>1, <2>2, <2>3, <2>4 DEF WriteOK, PutsSet, Rotates
    <2> QED BY <2>5
  <1>2. \A u, v \in wire' : u.corr = v.corr /\ Rotates(u.q) =>
           ~PutsSet(v.q) /\ (Rotates(v.q) => u = v)
    BY DEF CInv, WritesOK
  <1> QED BY <1>1, <1>2 DEF WritesOK, PutsSet, Rotates

LEMMA FollowsKept ==
    ASSUME IInv, CInv, NEW w \in wire, CustodyMoves(w), NEW i \in Going, NEW o, o = ops[i]
    PROVE  Follows(i, o)'
  <1>1. SetsOK /\ Follows(i, o) /\ OpOK(i, o) /\ i \in Live /\ o.refusal = "none"
    BY LiveOps DEF CInv, FollowsOK, Going
  <1>2. Early(o) => Fresh(i)'
    BY <1>1, NotEarly, SetidKept DEF Follows
  <1>3. o.stage = "get_current_set" => o.body.code = "rotate_key" /\ Behind(o.grant)'
    BY <1>1, BehindKept DEF Follows
  <1>4. ASSUME o.stage = "put_set", o.body.code = "rotate_key"
        PROVE  Behind(o.grant)' /\ Recoverable(o.grant)'
    <2>1. o.grant.kind = "grant"
      BY <1>1, <1>4 DEF OpOK, ControlOK, Proven
    <2>2. Behind(o.grant) /\ Recoverable(o.grant)
      BY <1>1, <1>4 DEF Follows
    <2> QED BY <1>1, <2>1, <2>2, BehindKept, CustodyKept
  <1>5. o.stage \in {"get_old_set", "delete_set"} => o.body.code = "retire" /\ Doomed(o.epoch)'
    BY <1>1, DoomedKept DEF Follows
  <1>6. ASSUME Erasing(o) PROVE Erasing(o)'
    <2>1. Grant' = Grant
      BY <1>6, GrantKept DEF Erasing
    <2>2. Gone => Gone'
      BY <1>1, GoneKept
    <2> QED BY <1>6, <2>1, <2>2 DEF Erasing
  <1> QED BY <1>1, <1>2, <1>3, <1>4, <1>5, <1>6 DEF Follows, Early

LEMMA LearnsKept ==
    ASSUME IInv, CInv, NEW w \in wire, CustodyMoves(w), NEW i \in Going, NEW o, o = ops[i],
           NEW m \in mail, m.corr = i
    PROVE  Learns(i, o, m)'
  <1>1. /\ SetsOK /\ Follows(i, o) /\ Learns(i, o, m) /\ OpOK(i, o) /\ i \in Live
        /\ o.refusal = "none" /\ w.corr # i
    BY LiveOps DEF CInv, FollowsOK, Going, IInv, WireOK, OneMessage
  <1>2. o.stage = "get_grant" /\ m.status = "ok" => Behind(m.val)'
    BY <1>1, BehindKept DEF Learns
  <1>3. ASSUME o.stage = "get_current_set", m.status = "ok", m.val.kind = "set"
        PROVE  Recoverable(o.grant)'
    <2>1. o.grant.kind = "grant" /\ Behind(o.grant) /\ Recoverable(o.grant)
      BY <1>1, <1>3 DEF OpOK, ControlOK, Proven, Follows, Learns
    <2> QED BY <1>1, <2>1, CustodyKept
  <1>4. o.stage = "put_grant" /\ m.status = "ok" => Grant' # Nothing /\ FirstBy(i)'
    BY <1>1, GrantStands, SetidKept DEF Learns
  <1>5. ASSUME o.stage = "put_set", o.body.code = "rotate_key", m.status = "ok"
        PROVE  Created(o.grant, i)'
    <2>1. o.grant.kind = "grant" /\ Behind(o.grant) /\ Created(o.grant, i)
      BY <1>1, <1>5 DEF OpOK, ControlOK, Proven, Follows, Learns
    <2> QED BY <1>1, <2>1, CustodyKept
  <1>6. o.stage = "cas_grant" /\ m.status = "ok" =>
           /\ o.body.code = "retire" => Doomed(o.body.epoch)'
           /\ o.body.code = "erase"  => Grant'.kind = "erasure" /\ Grant'.epoch = o.epoch
    BY <1>1, DoomedKept, GrantKept DEF Learns
  <1>7. ASSUME o.stage \in Sweeping, o.cursor = Grant'.epoch,
               \/ o.stage = "erase_get_set" /\ m.status = "not_found"
               \/ o.stage = "erase_delete_set" /\ m.status \in {"ok", "not_found"}
        PROVE  Gone'
    <2>1. Erasing(o)
      BY <1>1, <1>7 DEF Follows
    <2>2. Grant' = Grant
      BY <2>1, GrantKept DEF Erasing
    <2>3. Gone
      BY <1>1, <1>7, <2>2 DEF Learns
    <2> QED BY <1>1, <2>3, GoneKept
  <1> QED BY <1>2, <1>3, <1>4, <1>5, <1>6, <1>7 DEF Learns, Sweeping

(* What an operation learns from the decision it asked for.                *)
LEMMA DecisionTells ==
    ASSUME IInv, CInv, NEW w \in wire, NEW out, Decision(w.q, out), Truthful(w.q, out),
           led' = out.led, CustodyMoves(w),
           NEW i \in Going, i = w.corr, NEW o, o = ops[i],
           NEW y, y.status = out.status, y.val = out.val
    PROVE  Learns(i, o, y)'
  <1> PICK q : q = w.q
    OBVIOUS
  <1> PICK g : g = Grant
    OBVIOUS
  <1> PICK h : h = Grant'
    OBVIOUS
  <1>1. /\ SetsOK /\ Follows(i, o) /\ Requests(o, q) /\ Asked(i, o, q) /\ WriteOK(i, q)
        /\ Question(w) /\ led = [k \in Keys |-> led[k]]
    BY DEF CInv, FollowsOK, WritesOK, IInv, WireOK, TypeOK
  <1>2. /\ y.status = "ok" /\ q.op = "get" =>
              led' = led /\ led[q.key] # Nothing /\ y.val = led[q.key]
        /\ y.status = "ok" /\ q.op # "get" =>
              led' = Applied(led, q) /\ (q.op # "delete" => led[q.key] = q.old)
        /\ y.status = "not_found" /\ q.key[1] # "chain" => led' = led /\ led[q.key] = Nothing
    BY DEF Decision, Truthful
  <1>3. GrantKey \in Keys /\ \A e \in 1 .. LastEpoch : SetKey(e) \in Keys
    BY DEF Keys
  <1>4. \A k \in Keys : led' = Applied(led, q) /\ q.key = k => led'[k] = q.new
    BY <1>1 DEF Applied
  <1>5. ASSUME o.stage = "get_grant", y.status = "ok" PROVE Behind(y.val)'
    <2>1. q = Get(GrantKey)
      BY <1>1, <1>5 DEF Asked
    <2>2. q.op = "get" /\ q.key = GrantKey
      BY <2>1 DEF Get
    <2>3. led' = led /\ g # Nothing /\ y.val = g
      BY <1>2, <1>5, <2>2 DEF Grant
    <2>4. h = g /\ GrantVal(g)
      BY <2>3, GrantIsVal DEF Grant
    <2>5. g.epoch <= g.epoch
      BY <2>4 DEF GrantVal
    <2> QED BY <2>3, <2>4, <2>5 DEF Behind, GrantVal
  <1>6. ASSUME o.stage = "get_current_set", y.status = "ok", y.val.kind = "set"
        PROVE  Recoverable(o.grant)'
    <2> PICK e : e = o.grant.epoch
      OBVIOUS
    <2>1. q = Get(SetKey(e))
      BY <1>1, <1>6 DEF Requests
    <2>2. q.op = "get" /\ q.key = SetKey(e)
      BY <2>1 DEF Get
    <2>3. led' = led /\ led[SetKey(e)].kind = "set"
      BY <1>2, <1>6, <2>2
    <2> QED BY <2>3 DEF Recoverable, Rec
  <1>7. ASSUME o.stage = "put_grant", y.status = "ok" PROVE h # Nothing /\ FirstBy(i)'
    <2>1. q.op = "put" /\ q.key = GrantKey
      BY <1>1, <1>7 DEF Requests
    <2>2. h = q.new
      BY <1>2, <1>3, <1>4, <1>7, <2>1 DEF Grant
    <2>3. q.new.kind = "grant" /\ q.new.epoch = 1 /\ q.new.setid = i
      BY <1>1, <2>1 DEF WriteOK
    <2> QED BY <2>2, <2>3 DEF FirstBy, Nothing
  <1>8. ASSUME o.stage = "put_set", o.body.code = "rotate_key", y.status = "ok"
        PROVE  Created(o.grant, i)'
    <2>1. PutsSet(q) /\ q.key = SetKey(o.grant.epoch + 1)
      BY <1>1, <1>8 DEF Requests
    <2>2. CreationOK(i, q)
      BY <1>1, <2>1 DEF WriteOK
    <2>3. PICK e \in 1 .. LastEpoch : q = PutIfAbsent(SetKey(e), SetRec("creation", e, i))
      BY <2>2 DEF CreationOK
    <2>4. q.key = SetKey(e) /\ q.new = SetRec("creation", e, i)
      BY <2>3 DEF PutIfAbsent
    <2>5. SetKey(o.grant.epoch + 1)[2] = o.grant.epoch + 1 /\ SetKey(e)[2] = e
      BY KeysAreApart
    <2>6. o.grant.epoch + 1 = e
      BY <2>1, <2>4, <2>5
    <2>7. led'[SetKey(e)] = q.new
      BY <1>2, <1>3, <1>4, <1>8, <2>1, <2>4 DEF PutsSet
    <2>8. Rec(e)' # Nothing /\ Rec(e)'.setid = i
      BY <2>4, <2>7 DEF Rec, SetRec, Nothing
    <2> QED BY <2>6, <2>8 DEF Created
  <1>9. ASSUME o.stage = "cas_grant", y.status = "ok"
        PROVE  /\ o.body.code = "retire" => Doomed(o.body.epoch)'
               /\ o.body.code = "erase"  => h.kind = "erasure" /\ h.epoch = o.epoch
    <2>1. q.op = "cas" /\ q.key = GrantKey
      BY <1>1, <1>9 DEF Requests
    <2>2. h = q.new
      BY <1>2, <1>3, <1>4, <1>9, <2>1 DEF Grant
    <2>3. GrantVal(h)
      BY <1>1, <2>1, <2>2, KeysAreApart DEF Question, WritesGrant
    <2>4. ASSUME o.body.code = "retire" PROVE Doomed(o.body.epoch)'
      <3>1. o.body.epoch \in 1 .. (h.epoch - 1) \ h.retained
        BY <1>1, <1>9, <2>2, <2>4 DEF Requests
      <3>2. h.epoch \in Nat /\ h # Nothing
        BY <2>3 DEF GrantVal, Nothing
      <3>3. o.body.epoch \in Nat /\ o.body.epoch < h.epoch /\ o.body.epoch \notin h.retained
        BY <3>1, <3>2
      <3> QED BY <3>2, <3>3 DEF Doomed
    <2>5. o.body.code = "erase" => h.kind = "erasure" /\ h.epoch = o.epoch
      BY <1>1, <1>9, <2>2 DEF Requests
    <2> QED BY <2>4, <2>5
  <1>10. ASSUME o.stage \in Sweeping, o.cursor = h.epoch,
                \/ o.stage = "erase_get_set" /\ y.status = "not_found"
                \/ o.stage = "erase_delete_set" /\ y.status \in {"ok", "not_found"}
         PROVE  Gone'
    <2>1. Erasing(o)
      BY <1>1, <1>10 DEF Follows
    <2>2. g.kind = "erasure" /\ h = g /\ g # Nothing
      BY <2>1, GrantKept DEF Erasing, Nothing
    <2>3. PICK e \in 1 .. LastEpoch : e = g.epoch
      BY <1>1, <2>2, EpochsInReach
    <2>4. q.key = SetKey(e)
      <3>1. o.cursor = e
        BY <1>10, <2>2, <2>3
      <3>2. CASE o.stage = "erase_get_set"
        BY <1>1, <3>1, <3>2 DEF Requests, Get
      <3>3. CASE o.stage = "erase_delete_set"
        BY <1>1, <3>1, <3>3 DEF Requests
      <3> QED BY <1>10, <3>2, <3>3
    <2>5. Rec(e)' = Nothing
      <3>1. CASE y.status = "not_found"
        BY <1>2, <2>4, <3>1, KeysAreApart DEF Rec
      <3>2. CASE y.status = "ok"
        <4>1. q.op = "delete"
          BY <1>1, <1>10, <3>2 DEF Requests
        <4>2. q.new = Nothing
          BY <1>1, <4>1 DEF Question, WritesGrant, WritesTicket
        <4>3. led'[SetKey(e)] = Nothing
          BY <1>2, <1>3, <1>4, <2>4, <3>2, <4>1, <4>2
        <4> QED BY <4>3 DEF Rec
      <3> QED BY <1>10, <3>1, <3>2
    <2>6. Rec(Grant.epoch)' = Nothing
      BY <2>2, <2>3, <2>5 DEF Rec
    <2> QED BY <2>2, <2>6 DEF Gone
  <1> QED BY <1>5, <1>6, <1>7, <1>8, <1>9, <1>10 DEF Learns, Sweeping

LEMMA SettleC ==
    ASSUME IInv, CInv, NEW w \in wire, NEW out, Decision(w.q, out), Truthful(w.q, out),
           Settle(w, out)
    PROVE  CInv'
  <1> PICK y : y = [corr |-> w.corr, status |-> out.status, val |-> out.val]
    OBVIOUS
  <1>1. /\ led' = out.led /\ wire' = wire \ {w} /\ mail' = mail \cup {y}
        /\ ops' = ops /\ next' = next /\ replies' = replies
    BY DEF Settle
  <1>2. y.corr = w.corr /\ y.status = out.status /\ y.val = out.val
    OBVIOUS
  <1>3. CustodyMoves(w)
    BY <1>1, DecisionMoves
  <1>4. SetsOK'
    BY <1>1, <1>3, FewerAreAble, SettleSets
  <1>5. WritesOK'
    BY <1>1, <1>3, SettleWrites
  <1>6. Going' = Going
    BY <1>1 DEF Going, Live
  <1>7. FollowsOK'
    <2>1. ASSUME NEW i \in Going' PROVE Follows(i, ops[i])'
      <3> PICK o : o = ops[i]
        OBVIOUS
      <3>1. Follows(i, o)'
        BY <1>3, <1>6, <2>1, FollowsKept
      <3> QED BY <1>1, <3>1
    <2>2. ASSUME NEW i \in Going', NEW v \in wire', v.corr = i PROVE Requests(ops[i], v.q)'
      <3> PICK o : o = ops[i]
        OBVIOUS
      <3>1. Requests(o, v.q)
        BY <1>1, <1>6, <2>2 DEF CInv, FollowsOK
      <3> QED BY <1>1, <3>1 DEF Requests, PutsSet
    <2>3. ASSUME NEW i \in Going', NEW m \in mail', m.corr = i PROVE Learns(i, ops[i], m)'
      <3> PICK o : o = ops[i]
        OBVIOUS
      <3>1. CASE m \in mail
        <4>1. Learns(i, o, m)'
          BY <1>3, <1>6, <2>3, <3>1, LearnsKept
        <4> QED BY <1>1, <4>1
      <3>2. CASE m = y
        <4>1. m.status = out.status /\ m.val = out.val /\ i = w.corr
          BY <1>2, <2>3, <3>2
        <4>2. Learns(i, o, m)'
          BY <1>1, <1>3, <1>6, <2>3, <4>1, DecisionTells
        <4> QED BY <1>1, <4>2
      <3> QED BY <1>1, <3>1, <3>2
    <2> QED BY <2>1, <2>2, <2>3 DEF FollowsOK
  <1>8. (Erasures # {} => Gone)'
    BY <1>1, <1>3, GoneKept DEF CInv, Erasures
  <1> QED BY <1>4, <1>5, <1>7, <1>8 DEF CInv

LEMMA LedgerC ==
    ASSUME IInv, CInv, NEW w \in wire, LedgerDecides(w) \/ LedgerFails(w)
    PROVE  CInv'
  <1>1. PICK out \in Decided(led, w.q) \cup Failed(led, w.q) \cup Aged(w) : Settle(w, out)
    BY DEF LedgerDecides, LedgerFails
  <1>2. Decision(w.q, out) /\ Truthful(w.q, out)
    BY <1>1, AnswersAreTrue
  <1> QED BY <1>1, <1>2, SettleC

LEMMA InitC == Init => CInv
  <1> SUFFICES ASSUME Init PROVE CInv
    OBVIOUS
  <1>1. /\ ops = [i \in Ids |-> Free] /\ next = 1 /\ wire = {} /\ mail = {} /\ replies = {}
    BY DEF Init
  <1>2. Going = {} /\ Erasures = {}
    BY <1>1 DEF Going, Live, Free, Erasures
  <1>3. WritesOK /\ FollowsOK
    BY <1>1, <1>2 DEF WritesOK, FollowsOK
  <1>4. GrantKey \in Keys /\ \A e \in 1 .. LastEpoch : SetKey(e) \in Keys
    BY DEF Keys
  <1>5. Able \subseteq Ids /\ Cardinality(Able) <= MaxReqs /\ Cardinality(Able) \in Nat
    BY FewIds, FewAreAble
  <1>6. CASE scn.start = "provisioned"
    <2>1. PICK g : g = GrantRec(2, 3, scn.owner, FALSE, {1}, 0)
      OBVIOUS
    <2>2. Grant = g
      BY <1>4, <1>6, <2>1, KeysAreApart DEF Init, Provisioned, Grant
    <2>3. g.kind = "grant" /\ g.epoch = 2 /\ g.retained = {1} /\ g.setid = 0 /\ g # Nothing
      BY <2>1 DEF GrantRec, Nothing
    <2>4. 1 \in 1 .. LastEpoch /\ 2 \in 1 .. LastEpoch
      BY SkBounds DEF LastEpoch
    <2>5. ASSUME NEW e \in {1, 2} PROVE Rec(e) = SetRec("set", e, 0)
      <3> PICK k : k = SetKey(e)
        OBVIOUS
      <3>1. k \in Keys /\ k # GrantKey /\ k[1] = "set" /\ k[2] = e /\ k \in {SetKey(1), SetKey(2)}
        BY <1>4, <2>4, <2>5, KeysAreApart
      <3>2. led[k] = SetRec("set", k[2], 0)
        BY <1>6, <3>1 DEF Init, Provisioned
      <3> QED BY <3>1, <3>2 DEF Rec
    <2>6. Rec(1).kind = "set" /\ Rec(2).kind = "set" /\ Rec(2).setid = 0 /\ Rec(2) # Nothing
      BY <2>5 DEF SetRec, Nothing
    <2>7. 2 + Cardinality(Able) <= MaxReqs + 2
      BY <1>5, SkBounds
    <2>8. SetsOK
      BY <1>1, <2>2, <2>3, <2>6, <2>7 DEF SetsOK
    <2> QED BY <1>2, <1>3, <2>8 DEF CInv
  <1>7. CASE scn.start # "provisioned"
    <2>1. Grant = Nothing /\ \A e \in 1 .. LastEpoch : Rec(e) = Nothing
      BY <1>4, <1>7, KeysAreApart DEF Init, Grant, Rec
    <2>2. SetsOK
      BY <2>1 DEF SetsOK, Nothing
    <2> QED BY <1>2, <1>3, <2>2 DEF CInv
  <1> QED BY <1>6, <1>7

LEMMA OnLedgerC == ASSUME IInv, CInv, NEW m \in mail, OnLedger(m) PROVE CInv'
  BY IgnoreAnswerDrifts, DriftsC, GetGrantC, GetCurrentSetC, EraseGetSetC, EraseDeleteSetC,
     GetDeviceC, GetTicketC, GetSetC, GetChainC, GetOldSetC, ClaimReplayC, TicketConsumedC,
     PutGrantC, PutSetC, CasGrantC, LastWriteC, WriteAuditC
     DEF OnLedger

LEMMA NextC == IInv /\ CInv /\ [Next]_vars => CInv'
  <1> SUFFICES ASSUME IInv, CInv, [Next]_vars PROVE CInv'
    OBVIOUS
  <1>1. CASE UNCHANGED vars
    <2>1. Drifts({})
      BY <1>1 DEF vars, lane, cust, count, Drifts, IInv, TypeOK
    <2> QED BY <2>1, DriftsC
  <1>2. CASE Next
    <2>1. ASSUME NEW d \in Devices, IssueChallenge(d) \/ DirectoryRevoke(d) PROVE CInv'
      BY <2>1, IssueChallengeDrifts, DirectoryRevokeDrifts, DriftsC
    <2>2. ASSUME NEW c \in challenges, ExpireChallenge(c) PROVE CInv'
      BY <2>2, ExpireChallengeDrifts, DriftsC
    <2>3. ASSUME NEW b \in scn.bodies, SubmitAny(b) \/ RefuseNow(b) PROVE CInv'
      BY <2>3, SubmitAnyC, RefuseNowDrifts, DriftsC
    <2>4. ASSUME NEW m \in mail, OnLedger(m) PROVE CInv'
      BY <2>4, OnLedgerC
    <2>5. ASSUME NEW i \in Ids, Tick(i) PROVE CInv'
      BY <2>5, TickC
    <2>6. ASSUME NEW q \in orders, HandleOrder(q) PROVE CInv'
      BY <2>6, HandleOrderDrifts, DriftsC
    <2>7. ASSUME NEW r \in results, OnCustodian(r) PROVE CInv'
      BY <2>7, OnCustodianC
    <2>8. ASSUME NEW w \in wire, LedgerDecides(w) \/ LedgerFails(w) PROVE CInv'
      BY <2>8, LedgerC
    <2> QED BY <1>2, <2>1, <2>2, <2>3, <2>4, <2>5, <2>6, <2>7, <2>8, RestartC DEF Next
  <1> QED BY <1>1, <1>2

LEMMA InvCustody == IInv /\ CInv => CustodyFollowsTheGrant
  <1> SUFFICES ASSUME IInv, CInv PROVE CustodyFollowsTheGrant
    OBVIOUS
  <1>1. SetsOK /\ (Erasures # {} => Gone)
    BY DEF CInv
  <1>2. ASSUME Grant.kind = "grant"
        PROVE  /\ \A e \in Grant.retained : e < Grant.epoch /\ Rec(e).kind = "set"
               /\ Cardinality(Grant.retained) <= MaxRetained
               /\ Rec(Grant.epoch) = Nothing \/ Rec(Grant.epoch).setid = Grant.setid
    <2>1. GrantVal(Grant)
      BY <1>2, GrantIsVal DEF Nothing
    <2>2. \A e \in Grant.retained : e < Grant.epoch
      BY <2>1 DEF GrantVal
    <2> QED BY <1>1, <1>2, <2>1, <2>2 DEF SetsOK, GrantVal
  <1> QED BY <1>1, <1>2 DEF CustodyFollowsTheGrant, Gone, Grant, Rec

(* CustodyFollowsTheGrant: every epoch a grant retains has its set, the    *)
(* grant names the set of its current epoch, and an answered erasure       *)
(* leaves the last key a rotation made without its set, for any number of  *)
(* overlapping rotations, retirements and erasures, lost answers, expiries *)
(* and restarts (GET_CURRENT_SET before PUT_SET before CAS_GRANT,          *)
(* CAS_GRANT before DELETE_SET, PUT_SET as create-if-absent, erase_next).  *)
THEOREM CustodyIsKept == Spec => []CustodyFollowsTheGrant
  <1>1. Init => CInv
    BY InitC
  <1>2. IInv /\ CInv /\ [Next]_vars => CInv'
    BY NextC
  <1>3. IInv /\ CInv => CustodyFollowsTheGrant
    BY InvCustody
  <1> QED BY <1>1, <1>2, <1>3, StorageKeyInvariant, PTL DEF Spec
=============================================================================
