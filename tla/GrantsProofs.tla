---------------------------- MODULE GrantsProofs ----------------------------
(***************************************************************************)
(* For every number of acts, slots, hosts, scopes, faults and restarts: a  *)
(* grant is consumed once, a generation that was advanced stays advanced,  *)
(* and a grant keeps within its publication.                               *)
(***************************************************************************)
EXTENDS Grants, FiniteSetTheorems, WellFoundedInduction, TLAPS

(***************************************************************************)
(* Shapes.                                                                 *)
(***************************************************************************)
On(port) == {port[n] : n \in DOMAIN port}

IsPort(port) == port \in Seq(On(port))

IsGrant(g) ==
    /\ g = [flow |-> g.flow, src |-> g.src, dst |-> g.dst, nonce |-> g.nonce,
            custody |-> g.custody, issued |-> g.issued, expiry |-> g.expiry, gen |-> g.gen,
            key |-> g.key]
    /\ g.flow \in Flows /\ g.nonce \in Nonces /\ g.expiry \in Nat

IsPublication(p) ==
    /\ p = [sort |-> p.sort, scope |-> p.scope, tenants |-> p.tenants, domains |-> p.domains,
            quota |-> p.quota, issued |-> p.issued, expiry |-> p.expiry, gen |-> p.gen,
            key |-> p.key, id |-> p.id, to |-> p.to]
    /\ p.expiry \in Nat

IsAct(e) ==
    /\ e = [stage |-> e.stage, id |-> e.id, req |-> e.req, deadline |-> e.deadline,
            gen |-> e.gen, asof |-> e.asof, doc |-> e.doc, end |-> e.end]
    /\ e.asof \in Nat

Operations == {"issue", "consume", "invalidate", "check", "publish", "request", "revoke"}
Advances   == {"invalidate", "revoke"}

IsRequest(r) ==
    /\ r.scope \in Scopes /\ r.op \in Operations
    /\ r.svc = "attach" <=> r.op \in {"publish", "request", "revoke"}
    /\ r.op = "check" => r.chal \in Challenges
    /\ r.op = "request" => r.ttl \in Nat
    /\ r.op \in Advances => r.target \in Nat

TypeOK ==
    /\ scn \in Scenarios
    /\ next \in Nat /\ 1 <= next /\ next <= scn.reqs + 1
    /\ now \in Nat
    /\ led = [k \in LedgerKeys |-> led[k]]
    /\ pend = [k \in Slots |-> pend[k]]
    /\ acked \in [Scopes -> Nat]
    /\ IsPort(outq)

(***************************************************************************)
(* The ledger.                                                             *)
(***************************************************************************)
IsGeneration(g) == g = Generation(g.n) /\ g.n \in Nat \ {0}

IsState(x) ==
    /\ x = State(x.state, x.doc) /\ IsGrant(x.doc)
    /\ x.doc.nonce \in Ids => x.state \in {"issued", "consumed", "expired"}
    /\ x.doc.nonce \in Challenges => x.state = "consumed"

LedgerOK ==
    /\ \A s \in Scopes :
          /\ led[GenKey(s)] = Nothing \/ IsGeneration(led[GenKey(s)])
          /\ acked[s] # 0 => led[GenKey(s)] # Nothing /\ led[GenKey(s)].n >= acked[s]
    /\ \A k \in GrantKeys :
          led[k] = Nothing \/ (IsState(led[k]) /\ GrantKey(led[k].doc) = k)

(***************************************************************************)
(* Acts, and what was decided.                                             *)
(***************************************************************************)
(* The grants that were issued.                                            *)
IssuedDocs == {d.body.doc : d \in {x \in done : x.status = "ok" /\ x.req.op = "issue"}}

ActOK(e) ==
    /\ IsAct(e) /\ e.id \in Ids /\ e.id < next /\ IsRequest(e.req)
    /\ e.stage \in {"generation", "claim", "state", "mark", "set"}
    /\ e.req.op \in {"issue", "check"} => IsGrant(e.doc)
    /\ e.req.op = "issue" => e.doc.nonce = e.id
    /\ e.req.op = "check" => e.doc.nonce \in Challenges
    /\ e.req.op = "consume" => e.doc = e.req.grant /\ e.doc \in IssuedDocs
    /\ e.req.op \in {"publish", "request"} => IsPublication(e.doc)
    /\ e.stage = "claim" => e.req.op \in {"issue", "check"} /\ e.doc.gen >= e.asof
    /\ e.stage \in {"state", "mark"} => e.req.op = "consume" /\ e.doc.gen >= e.asof
    /\ e.stage = "mark" => e.end \in {"ok", "expired"}
    /\ e.stage = "set" => e.req.op \in Advances /\ e.gen \in Nat \ {0}

ActsOK ==
    /\ \A k \in Live : ActOK(pend[k]) /\ pend[k].asof <= acked[pend[k].req.scope]
    /\ \A j, k \in Live : pend[j].id = pend[k].id => j = k

WithinItsPublication(d) ==
    LET g == d.body.doc  p == d.body.under IN
    /\ d.body.at < g.expiry /\ g.expiry <= p.expiry
    /\ g.gen = p.gen /\ g.quota <= p.quota
    /\ g.to.tenant \in p.tenants /\ g.to.domain \in p.domains

VerdictOK(d) ==
    /\ d.id \in Ids /\ d.id < next /\ d.req.op \in Operations
    /\ Moved(d) \/ Issued(d) => d.body.doc.gen >= d.body.asof
    /\ d.status = "ok" /\ d.req.op = "issue" => IsGrant(d.body.doc) /\ d.body.doc.nonce = d.id
    /\ d.status = "ok" /\ d.req.op = "publish" => IsPublication(d.body.doc)
    /\ d.status = "ok" /\ d.req.op = "request" => WithinItsPublication(d)
    /\ d.status = "ok" /\ d.req.op = "consume" => d.body.doc = d.req.grant
    /\ d.status \in {"ok", "expired"} /\ d.req.op = "consume" => d.req.grant \in IssuedDocs
    /\ d.status = "ok" /\ d.req.op = "check" =>
          IsGrant(d.body.doc) /\ d.body.doc.nonce \in Challenges /\ d.body.at \in Nat

VerdictsOK ==
    /\ \A d \in done : VerdictOK(d)
    /\ \A d \in done, k \in Live : pend[k].id # d.id
    /\ \A a \in Answered : a.status = "ok" /\ a.req.op \in {"issue", "publish"} =>
          \E d \in done : d.status = "ok" /\ d.req.op = a.req.op /\ a.body = d.body.doc

(***************************************************************************)
(* Messages.  An act has one at a time, and it is its stage's; one that is *)
(* left when the act ended may still be applied.                           *)
(***************************************************************************)
Corr(x) == x = <<x[1], x[2]>> /\ x[1] \in Ids /\ x[1] < next

OneMessage ==
    /\ \A w \in wire : Corr(w.corr)
    /\ \A m \in mail : Corr(m.corr)
    /\ \A v, w \in wire : v.corr[1] = w.corr[1] => v = w
    /\ \A m, n \in mail : m.corr[1] = n.corr[1] => m = n
    /\ \A w \in wire, m \in mail : w.corr[1] # m.corr[1]
    /\ \A w \in wire, k \in Live : w.corr[1] = pend[k].id => w.corr[2] = pend[k].stage
    /\ \A m \in mail, k \in Live : m.corr[1] = pend[k].id => m.corr[2] = pend[k].stage

(* What a request does, whatever became of its act.                        *)
Question(w) ==
    \/ w.q.op = "get" /\ w.q.key \in LedgerKeys /\ w.corr[2] \in {"generation", "state"}
    \/ \E s \in Scopes, n \in Nat \ {0} :
          /\ w.corr[2] = "set"
          /\ \/ w.q = PutIfAbsent(GenKey(s), Generation(n))
             \/ \E o \in Nat : o < n /\ w.q = CompareAndSwap(GenKey(s), Generation(o), Generation(n))
    \/ \E g : /\ IsGrant(g) /\ w.corr[2] = "claim"
              /\ \/ g.nonce = w.corr[1] /\ w.q = PutIfAbsent(GrantKey(g), State("issued", g))
                 \/ g.nonce \in Challenges
                    /\ w.q = PutIfAbsent(GrantKey(g), State("consumed", g))
    \/ \E g \in IssuedDocs, st \in {"consumed", "expired"} :
          /\ w.corr[2] = "mark"
          /\ w.q = CompareAndSwap(GrantKey(g), State("issued", g), State(st, g))

(* What an act has asked.                                                  *)
Asked(e, q) ==
    /\ e.stage = "generation" => q = Get(GenKey(e.req.scope))
    /\ e.stage = "claim" =>
          q = PutIfAbsent(GrantKey(e.doc),
                          State(IF e.req.op = "issue" THEN "issued" ELSE "consumed", e.doc))
    /\ e.stage = "state" => q = Get(GrantKey(e.doc))
    /\ e.stage = "mark" =>
          q = CompareAndSwap(GrantKey(e.doc), State("issued", e.doc),
                             State(IF e.end = "ok" THEN "consumed" ELSE "expired", e.doc))
    /\ e.stage = "set" => q.op # "get" /\ q.key = GenKey(e.req.scope) /\ q.new = Generation(e.gen)

(* What it was told.                                                       *)
Tells(e, m) ==
    /\ e.stage = "generation" /\ m.status = "ok" => IsGeneration(m.val) /\ m.val.n >= e.asof
    /\ e.stage = "generation" /\ m.status = "not_found" => e.asof = 0
    /\ e.stage = "state" /\ m.status = "ok" => IsState(m.val) /\ GrantKey(m.val.doc) = GrantKey(e.doc)
    /\ e.stage = "set" /\ m.status = "ok" =>
          /\ led[GenKey(e.req.scope)] # Nothing
          /\ led[GenKey(e.req.scope)].n >= e.gen

WireOK ==
    /\ \A w \in wire : Question(w)
    /\ \A w \in wire, k \in Live : w.corr[1] = pend[k].id => Asked(pend[k], w.q)
    /\ \A m \in mail, k \in Live : m.corr[1] = pend[k].id => Tells(pend[k], m)

(***************************************************************************)
(* A grant's nonce is written once.                                        *)
(***************************************************************************)
(* Its claim is still to come.                                             *)
Unborn(n) ==
    \/ n >= next
    \/ \E k \in Live : pend[k].id = n /\ pend[k].stage = "generation"
    \/ \E w \in wire : w.corr = <<n, "claim">>

BirthsOK ==
    \A n \in Ids : Unborn(n) =>
        /\ \A f \in Flows : led[<<"grant", f, n>>] = Nothing
        /\ \A d \in done : d.status = "ok" /\ d.req.op = "issue" => d.id # n

(* The act in slot k was told, or is to be, that its mark or claim stands. *)
ToldOk(k) == \E m \in mail : m.corr[1] = pend[k].id /\ m.status = "ok"

(* Who consumed the grant under a key, and whether it is known to have     *)
(* expired.                                                                *)
Consumers(x) ==
    {pend[k].id : k \in {j \in Live : /\ pend[j].stage = "mark" /\ pend[j].end = "ok"
                                      /\ GrantKey(pend[j].doc) = x /\ ToldOk(j)}}
    \cup {d.id : d \in {c \in done : /\ c.status = "ok" /\ c.req.op = "consume"
                                     /\ GrantKey(c.req.grant) = x}}

Lapsed(x) ==
    \/ \E k \in Live : /\ pend[k].stage = "mark" /\ pend[k].end = "expired"
                       /\ GrantKey(pend[k].doc) = x /\ ToldOk(k)
    \/ \E k \in Live : /\ pend[k].stage = "state" /\ GrantKey(pend[k].doc) = x
                       /\ \E m \in mail : /\ m.corr[1] = pend[k].id /\ m.status = "ok"
                                          /\ m.val.state = "expired"
    \/ \E d \in done : /\ d.status = "expired" /\ d.req.op = "consume"
                       /\ GrantKey(d.req.grant) = x

EndsOK ==
    \A x \in GrantKeys :
        /\ Consumers(x) # {} => /\ led[x] = Nothing \/ led[x].state = "consumed"
                                /\ ~Lapsed(x)
        /\ Lapsed(x) => led[x] = Nothing \/ led[x].state = "expired"
        /\ \A i, j \in Consumers(x) : i = j

(***************************************************************************)
(* The evidence under a challenge is granted once while its record stands. *)
(***************************************************************************)
(* The act i was granted the key x, with an expiry, at a time not after t. *)
Admitted(i, x, expiry, t) ==
    \/ \E k \in Live : /\ pend[k].id = i /\ pend[k].stage = "claim" /\ pend[k].req.op = "check"
                       /\ GrantKey(pend[k].doc) = x /\ ToldOk(k)
                       /\ expiry = pend[k].doc.expiry /\ t = now
    \/ \E d \in done : /\ d.id = i /\ d.status = "ok" /\ d.req.op = "check"
                       /\ GrantKey(d.body.doc) = x
                       /\ expiry = d.body.doc.expiry /\ t = d.body.at

ChecksOK ==
    \A x \in GrantKeys, i, j \in Ids, y, z, s, t \in Nat :
        /\ Admitted(i, x, y, s) =>
              now > y + Slack \/ (led[x] # Nothing /\ led[x].until = y + Slack)
        /\ Admitted(i, x, y, s) /\ Admitted(j, x, z, t) /\ i # j => y + Slack < t \/ z + Slack < s

IInv ==
    /\ TypeOK /\ LedgerOK /\ ActsOK /\ VerdictsOK /\ OneMessage /\ WireOK
    /\ BirthsOK /\ EndsOK /\ ChecksOK
(***************************************************************************)
(* Ports.                                                                  *)
(***************************************************************************)
LEMMA EmptyPort == IsPort(<<>>) /\ On(<<>>) = {}
  BY DEF IsPort, On

LEMMA AppendPort ==
    ASSUME NEW port, NEW r, IsPort(port)
    PROVE  IsPort(Append(port, r)) /\ On(Append(port, r)) = On(port) \cup {r}
  <1> DEFINE p == Append(port, r)
  <1> USE DEF IsPort
  <1>1. port \in Seq(On(port) \cup {r})
    BY DEF On
  <1>2. /\ Len(p) = Len(port) + 1 /\ DOMAIN p = 1 .. Len(port) + 1
        /\ \A n \in 1 .. Len(port) : p[n] = port[n]
        /\ p[Len(port) + 1] = r
    BY <1>1
  <1>3. On(p) = On(port) \cup {r}
    BY <1>1, <1>2 DEF On
  <1>4. p \in Seq(On(port) \cup {r})
    BY <1>1
  <1> QED BY <1>3, <1>4

LEMMA PlacedPort ==
    ASSUME NEW port, NEW r, IsPort(port)
    PROVE  IsPort(Placed(port, r)) /\ On(Placed(port, r)) \subseteq On(port) \cup {r}
  <1>1. CASE Clears(port)
    BY <1>1, AppendPort DEF Placed
  <1>2. CASE ~Clears(port)
    <2> DEFINE p == [port EXCEPT ![Len(port)] = r]
    <2>1. port \in Seq(On(port)) /\ Len(port) \in Nat /\ DOMAIN port = 1 .. Len(port)
      BY DEF IsPort
    <2>2. /\ DOMAIN p = 1 .. Len(port) /\ p = [n \in 1 .. Len(port) |-> p[n]]
          /\ \A n \in 1 .. Len(port) : p[n] = IF n = Len(port) THEN r ELSE port[n]
      BY <2>1
    <2>3. On(p) \subseteq On(port) \cup {r}
      BY <2>1, <2>2 DEF On
    <2>4. \A n \in 1 .. Len(port) : p[n] \in On(p)
      BY <2>2 DEF On
    <2> HIDE DEF p
    <2>5. p \in Seq(On(p))
      BY <2>1, <2>2, <2>4
    <2> QED BY <1>2, <2>3, <2>5 DEF Placed, IsPort, p
  <1> QED BY <1>1, <1>2

LEMMA TailPort ==
    ASSUME NEW port, IsPort(port), port # <<>>
    PROVE  /\ IsPort(Tail(port)) /\ On(Tail(port)) \subseteq On(port)
           /\ Head(port) \in On(port)
  <1> DEFINE p == Tail(port)
  <1>1. port \in Seq(On(port)) /\ Len(port) \in Nat /\ Len(port) >= 1
    BY DEF IsPort
  <1>2. /\ p \in Seq(On(port)) /\ DOMAIN p = 1 .. Len(port) - 1
        /\ \A n \in 1 .. Len(port) - 1 : p[n] = port[n + 1]
    BY <1>1
  <1>3. On(p) \subseteq On(port)
    BY <1>1, <1>2 DEF On
  <1>4. \A n \in DOMAIN p : p[n] \in On(p)
    BY DEF On
  <1> HIDE DEF p
  <1>5. p \in Seq(On(p))
    BY <1>2, <1>4
  <1>6. Head(port) = port[1] /\ 1 \in DOMAIN port
    BY <1>1
  <1> QED BY <1>3, <1>5, <1>6 DEF IsPort, On, p

LEMMA ConcatPort ==
    ASSUME NEW port, NEW N \in Nat, NEW s, IsPort(port), s = [n \in 1 .. N |-> s[n]]
    PROVE  IsPort(port \o s) /\ On(port \o s) = On(port) \cup On(s)
  <1> DEFINE p == port \o s
             S == On(port) \cup On(s)
  <1>1. port \in Seq(S) /\ s \in Seq(S)
    <2>1. \A n \in 1 .. N : s[n] \in On(s)
      BY DEF On
    <2>2. \A n \in 1 .. N : s[n] \in S
      BY <2>1
    <2>3. On(port) \subseteq S
      OBVIOUS
    <2> HIDE DEF S
    <2>4. s \in Seq(S)
      BY <2>2
    <2> QED BY <2>3, <2>4 DEF IsPort
  <1>2. DOMAIN port = 1 .. Len(port) /\ Len(port) \in Nat /\ Len(s) \in Nat
        /\ DOMAIN s = 1 .. Len(s)
    BY <1>1
  <1> HIDE DEF S
  <1>3. /\ p \in Seq(S) /\ DOMAIN p = 1 .. Len(port) + Len(s)
        /\ \A n \in 1 .. Len(port) : p[n] = port[n]
        /\ \A n \in 1 .. Len(s) : p[Len(port) + n] = s[n]
    BY <1>1, <1>2
  <1>4. \A n \in DOMAIN p : n \in 1 .. Len(port) \/ \E i \in 1 .. Len(s) : n = Len(port) + i
    <2> SUFFICES ASSUME NEW n \in DOMAIN p, ~(n \in 1 .. Len(port))
                 PROVE  n - Len(port) \in 1 .. Len(s)
      BY <1>2, <1>3
    <2> QED BY <1>2, <1>3
  <1>5. On(p) \subseteq S
    BY <1>2, <1>3, <1>4 DEF On, S
  <1>6. S \subseteq On(p)
    <2>1. On(port) \subseteq On(p)
      BY <1>2, <1>3 DEF On
    <2>2. On(s) \subseteq On(p)
      <3> SUFFICES ASSUME NEW i \in 1 .. Len(s) PROVE s[i] \in On(p)
        BY <1>2 DEF On
      <3>1. Len(port) + i \in DOMAIN p /\ p[Len(port) + i] = s[i]
        BY <1>2, <1>3
      <3> QED BY <3>1 DEF On
    <2> QED BY <2>1, <2>2 DEF S
  <1>7. On(p) = S
    BY <1>5, <1>6
  <1> QED BY <1>3, <1>7 DEF IsPort, S

(***************************************************************************)
(* Extremes, slots and keys.                                               *)
(***************************************************************************)
LEMMA MaxOne == ASSUME NEW a \in Nat PROVE Max({a}) = a
  BY DEF Max

LEMMA MaxTwo ==
    ASSUME NEW a \in Nat, NEW b \in Nat
    PROVE  Max({a, b}) \in {a, b} /\ Max({a, b}) >= a /\ Max({a, b}) >= b
  <1>1. \E x \in {a, b} : \A y \in {a, b} : x >= y
    OBVIOUS
  <1> QED BY <1>1 DEF Max

LEMMA MinTwo ==
    ASSUME NEW a \in Nat, NEW b \in Nat
    PROVE  Min({a, b}) \in {a, b} /\ Min({a, b}) <= a /\ Min({a, b}) <= b
  <1>1. \E x \in {a, b} : \A y \in {a, b} : x <= y
    OBVIOUS
  <1> QED BY <1>1 DEF Min

LEMMA ClampIsLong ==
    ASSUME NEW ttl \in Nat, NEW top \in Nat PROVE Clamp(ttl, top) \in Nat \ {0}
  <1>1. Min({ttl, top}) \in Nat
    BY MinTwo
  <1> QED BY <1>1, MaxTwo DEF Clamp

LEMMA LeastOf ==
    ASSUME NEW S \in SUBSET Nat, S # {} PROVE \E x \in S : \A y \in S : x <= y
  <1> DEFINE Below == {ss \in Nat \X Nat : ss[1] < ss[2]}
  <1>1. IsWellFoundedOn(Below, Nat)
    BY NatLessThanWellFounded, Zenon DEF OpToRel
  <1> HIDE DEF Below
  <1>2. PICK x \in S : \A y \in S : <<y, x>> \notin Below
    BY <1>1, WFMin
  <1>3. ASSUME NEW y \in S PROVE x <= y
    <2>1. ~(y < x)
      BY <1>2 DEF Below
    <2> QED BY <2>1
  <1> QED BY <1>3

LEMMA FirstFreeIsFree == ASSUME Live # Slots PROVE FirstFree \in Slots \ Live
  <1>1. Slots \ Live \in SUBSET Nat /\ Slots \ Live # {}
    BY DEF Slots, Live
  <1>2. \E k \in Slots \ Live : \A j \in Slots \ Live : k <= j
    BY <1>1, LeastOf
  <1> QED BY <1>2 DEF FirstFree

LEMMA KeysAreKeys ==
    /\ \A s \in Scopes : GenKey(s) \in LedgerKeys
    /\ GrantKeys \subseteq LedgerKeys
    /\ \A g : IsGrant(g) => GrantKey(g) \in GrantKeys
    /\ \A g, h : GrantKey(g) = GrantKey(h) => g.nonce = h.nonce /\ g.flow = h.flow
    /\ \A g, s : GrantKey(g) # GenKey(s)
    /\ \A s, t : GenKey(s) = GenKey(t) => s = t
    /\ \A x \in GrantKeys : \E f \in Flows, n \in Nonces : x = <<"grant", f, n>>
    /\ \A s : GenKey(s) \notin GrantKeys
  BY DEF LedgerKeys, GenKey, GrantKeys, GrantKey, IsGrant

LEMMA NoncesDiffer == \A n \in Challenges : n \notin Ids
  BY GrBounds

LEMMA InitInv == Init => IInv
  <1> SUFFICES ASSUME Init PROVE IInv
    OBVIOUS
  <1> USE DEF Init, FrameInit
  <1>1. Live = {} /\ wire = {} /\ mail = {} /\ done = {}
    BY DEF Live, Free
  <1>2. TypeOK
    <2>1. IsPort(outq)
      BY EmptyPort
    <2>2. scn \in Scenarios /\ scn.reqs \in Nat /\ now \in Nat
      BY GrBounds
    <2> QED BY <2>1, <2>2 DEF TypeOK
  <1>3. LedgerOK
    BY KeysAreKeys DEF LedgerOK
  <1>4. Answered = {}
    BY EmptyPort DEF Answered, On
  <1>5. ActsOK /\ VerdictsOK /\ OneMessage /\ WireOK
    BY <1>1, <1>4 DEF ActsOK, VerdictsOK, OneMessage, WireOK
  <1>6. BirthsOK
    <2>1. \A f \in Flows, n \in Ids : <<"grant", f, n>> \in LedgerKeys
      BY DEF LedgerKeys, GrantKeys, Nonces
    <2> QED BY <1>1, <2>1 DEF BirthsOK
  <1>7. \A x : Consumers(x) = {} /\ ~Lapsed(x)
    BY <1>1 DEF Consumers, Lapsed
  <1>8. \A i, x, y, t : ~Admitted(i, x, y, t)
    BY <1>1 DEF Admitted
  <1> QED BY <1>2, <1>3, <1>5, <1>6, <1>7, <1>8 DEF IInv, EndsOK, ChecksOK
(***************************************************************************)
(* What one act does to the facts about the others.                        *)
(***************************************************************************)
LEMMA LiveFacts ==
    ASSUME IInv
    PROVE  \A k \in Live : /\ k \in Slots /\ ActOK(pend[k])
                           /\ pend[k].id \in Ids /\ pend[k].id \in Nat /\ pend[k].id < next
  BY DEF IInv, ActsOK, ActOK, Live, Ids

LEMMA IssuedGrow ==
    ASSUME done \subseteq done' PROVE IssuedDocs \subseteq IssuedDocs'
  BY DEF IssuedDocs

LEMMA ActStays ==
    ASSUME next \in Nat, next' \in Nat, next <= next', done \subseteq done', NEW e, ActOK(e)
    PROVE  ActOK(e)'
  <1>1. IssuedDocs \subseteq IssuedDocs'
    BY IssuedGrow
  <1>2. e.id \in Nat /\ e.id < next'
    BY DEF ActOK, Ids
  <1> QED BY <1>1, <1>2 DEF ActOK

LEMMA VerdictStays ==
    ASSUME next \in Nat, next' \in Nat, next <= next', done \subseteq done', NEW d, VerdictOK(d)
    PROVE  VerdictOK(d)'
  <1>1. IssuedDocs \subseteq IssuedDocs'
    BY IssuedGrow
  <1>2. d.id \in Nat /\ d.id < next'
    BY DEF VerdictOK, Ids
  <1> QED BY <1>1, <1>2 DEF VerdictOK, Moved, Issued, WithinItsPublication

LEMMA QuestionStays ==
    ASSUME done \subseteq done', NEW w, Question(w) PROVE Question(w)'
  <1>1. IssuedDocs \subseteq IssuedDocs'
    BY IssuedGrow
  <1> QED BY <1>1 DEF Question

(***************************************************************************)
(* Acts are decided or lost, time passes, and nothing is asked.            *)
(***************************************************************************)
(* What may be decided: v was earned in the state it is decided in.        *)
Earned(v) ==
    /\ v.id \in Ids /\ v.id < next' /\ v.req.op \in Operations
    /\ \A k \in Live' : pend'[k].id # v.id
    /\ v.status \in {"ok", "expired"} => VerdictOK(v)'
    /\ v.status = "ok" /\ v.req.op = "issue" => ~Unborn(v.id)
    /\ v.status = "ok" /\ v.req.op = "consume" => v.id \in Consumers(GrantKey(v.req.grant))
    /\ v.status = "expired" /\ v.req.op = "consume" => Lapsed(GrantKey(v.req.grant))
    /\ v.status = "ok" /\ v.req.op = "check" =>
          Admitted(v.id, GrantKey(v.body.doc), v.body.doc.expiry, v.body.at)

Recedes(R) ==
    /\ UNCHANGED <<scn, led>>
    /\ next' \in Nat /\ next <= next' /\ next' <= scn.reqs + 1
    /\ now' \in Nat /\ now <= now'
    /\ pend' = [k \in Slots |-> pend'[k]] /\ \A k \in Live' : k \in Live /\ pend'[k] = pend[k]
    /\ wire' \subseteq wire /\ mail' \subseteq mail
    /\ done' = done \cup R /\ \A v \in R : Earned(v)
    /\ acked' \in [Scopes -> Nat] /\ \A s \in Scopes : acked[s] <= acked'[s]
    /\ \A s \in Scopes : acked'[s] # acked[s] =>
          led[GenKey(s)] # Nothing /\ led[GenKey(s)].n >= acked'[s]
    /\ IsPort(outq')
    /\ \A a \in Answered' \ Answered : a.status = "ok" /\ a.req.op \in {"issue", "publish"} =>
          \E d \in R : d.status = "ok" /\ d.req.op = a.req.op /\ a.body = d.body.doc

LEMMA RecedesInv == ASSUME IInv, NEW R, Recedes(R) PROVE IInv'
  <1>0. /\ next \in Nat /\ next' \in Nat /\ next <= next' /\ done \subseteq done'
        /\ now \in Nat /\ now' \in Nat /\ now <= now' /\ scn' = scn /\ led' = led
        /\ wire' \subseteq wire /\ mail' \subseteq mail
        /\ \A k \in Live' : k \in Live /\ pend'[k] = pend[k]
    BY DEF Recedes, IInv, TypeOK
  <1>1. TypeOK'
    BY <1>0 DEF Recedes, IInv, TypeOK
  <1>2. LedgerOK'
    BY <1>0 DEF Recedes, IInv, LedgerOK
  <1>3. ActsOK'
    <2>1. ASSUME NEW k \in Live' PROVE ActOK(pend[k])' /\ pend[k]'.asof <= acked'[pend[k]'.req.scope]
      <3>1. PICK e : e = pend[k]' /\ e = pend[k] /\ k \in Live
        BY <1>0
      <3>2. ActOK(e) /\ e.asof <= acked[e.req.scope] /\ e.asof \in Nat /\ e.req.scope \in Scopes
        BY <3>1 DEF IInv, ActsOK, ActOK, IsAct, IsRequest
      <3>3. ActOK(e)'
        BY <1>0, <3>2, ActStays
      <3>4. e.asof <= acked'[e.req.scope]
        BY <3>2 DEF Recedes, IInv, TypeOK
      <3> QED BY <3>1, <3>3, <3>4
    <2> QED BY <1>0, <2>1 DEF IInv, ActsOK
  <1>4. VerdictsOK'
    <2>1. \A d \in done' : VerdictOK(d)'
      <3> SUFFICES ASSUME NEW d \in done' PROVE VerdictOK(d)'
        OBVIOUS
      <3>1. CASE d \in done
        BY <1>0, <3>1, VerdictStays DEF IInv, VerdictsOK
      <3>2. CASE d \in R /\ d.status \in {"ok", "expired"}
        BY <3>2 DEF Recedes, Earned
      <3>3. CASE d \in R /\ d.status \notin {"ok", "expired"}
        <4>1. d.id \in Ids /\ d.id < next' /\ d.req.op \in Operations
          BY <3>3 DEF Recedes, Earned
        <4> QED BY <3>3, <4>1 DEF VerdictOK, Moved, Issued
      <3> QED BY <3>1, <3>2, <3>3 DEF Recedes
    <2>2. \A d \in done', k \in Live' : pend'[k].id # d.id
      BY <1>0 DEF Recedes, Earned, IInv, VerdictsOK
    <2>3. \A a \in Answered' : a.status = "ok" /\ a.req.op \in {"issue", "publish"} =>
            \E d \in done' : d.status = "ok" /\ d.req.op = a.req.op /\ a.body = d.body.doc
      BY <1>0 DEF Recedes, IInv, VerdictsOK
    <2> QED BY <2>1, <2>2, <2>3 DEF VerdictsOK
  <1>5. OneMessage'
    <2>1. \A x : Corr(x) => Corr(x)'
      BY <1>0 DEF Corr, Ids
    <2> QED BY <1>0, <2>1 DEF IInv, OneMessage
  <1>6. WireOK'
    <2>1. \A w \in wire' : Question(w)'
      BY <1>0, QuestionStays DEF IInv, WireOK
    <2>2. ASSUME NEW k \in Live' PROVE pend[k]' = pend[k] /\ k \in Live
      BY <1>0
    <2>3. \A w \in wire', k \in Live' : w.corr[1] = pend[k]'.id => Asked(pend[k], w.q)'
      <3> SUFFICES ASSUME NEW w \in wire', NEW k \in Live', w.corr[1] = pend[k]'.id
                   PROVE  Asked(pend[k], w.q)'
        OBVIOUS
      <3>1. PICK e : e = pend[k] /\ e = pend[k]'
        BY <2>2
      <3>2. Asked(e, w.q)
        BY <1>0, <2>2, <3>1 DEF IInv, WireOK
      <3> QED BY <3>1, <3>2 DEF Asked
    <2>4. \A m \in mail', k \in Live' : m.corr[1] = pend[k]'.id => Tells(pend[k], m)'
      <3> SUFFICES ASSUME NEW m \in mail', NEW k \in Live', m.corr[1] = pend[k]'.id
                   PROVE  Tells(pend[k], m)'
        OBVIOUS
      <3>1. PICK e : e = pend[k] /\ e = pend[k]'
        BY <2>2
      <3>2. Tells(e, m)
        BY <1>0, <2>2, <3>1 DEF IInv, WireOK
      <3> QED BY <1>0, <3>1, <3>2 DEF Tells
    <2> QED BY <2>1, <2>3, <2>4 DEF WireOK
  <1>7. BirthsOK'
    <2>1. \A n \in Ids : Unborn(n)' => Unborn(n)
      BY <1>0 DEF Unborn, Ids
    <2>2. \A d \in R : d.status = "ok" /\ d.req.op = "issue" => ~Unborn(d.id)
      BY DEF Recedes, Earned
    <2>3. done' = done \cup R
      BY DEF Recedes
    <2> QED BY <1>0, <2>1, <2>2, <2>3 DEF IInv, BirthsOK
  <1>8. \A k \in Live' : ToldOk(k)' => ToldOk(k)
    BY <1>0 DEF ToldOk
  <1>9. EndsOK'
    <2>1. \A x : Consumers(x)' \subseteq Consumers(x)
      <3> SUFFICES ASSUME NEW x, NEW i \in Consumers(x)' PROVE i \in Consumers(x)
        OBVIOUS
      <3>1. CASE \E k \in Live' : /\ pend'[k].id = i /\ pend'[k].stage = "mark"
                                  /\ pend'[k].end = "ok" /\ GrantKey(pend'[k].doc) = x
                                  /\ ToldOk(k)'
        BY <1>0, <1>8, <3>1 DEF Consumers
      <3>2. CASE \E d \in done' : /\ d.id = i /\ d.status = "ok" /\ d.req.op = "consume"
                                  /\ GrantKey(d.req.grant) = x
        BY <1>0, <3>2 DEF Consumers, Recedes, Earned
      <3> QED BY <3>1, <3>2 DEF Consumers
    <2>2. \A x : Lapsed(x)' => Lapsed(x)
      <3> SUFFICES ASSUME NEW x, Lapsed(x)' PROVE Lapsed(x)
        OBVIOUS
      <3>1. CASE \E d \in done' : /\ d.status = "expired" /\ d.req.op = "consume"
                                  /\ GrantKey(d.req.grant) = x
        BY <1>0, <3>1 DEF Lapsed, Recedes, Earned
      <3>2. CASE ~\E d \in done' : /\ d.status = "expired" /\ d.req.op = "consume"
                                   /\ GrantKey(d.req.grant) = x
        BY <1>0, <1>8, <3>2 DEF Lapsed
      <3> QED BY <3>1, <3>2
    <2> QED BY <1>0, <2>1, <2>2 DEF IInv, EndsOK
  <1>10. ASSUME NEW i \in Ids, NEW x, NEW y, NEW t \in Nat, Admitted(i, x, y, t)'
         PROVE  \E s \in Nat : s <= t /\ Admitted(i, x, y, s)
    <2>1. CASE \E k \in Live' : /\ pend'[k].id = i /\ pend'[k].stage = "claim"
                                /\ pend'[k].req.op = "check" /\ GrantKey(pend'[k].doc) = x
                                /\ ToldOk(k)' /\ y = pend'[k].doc.expiry /\ t = now'
      <3>1. Admitted(i, x, y, now)
        BY <1>0, <1>8, <2>1 DEF Admitted
      <3> QED BY <1>0, <2>1, <3>1
    <2>2. CASE \E d \in done' : /\ d.id = i /\ d.status = "ok" /\ d.req.op = "check"
                                /\ GrantKey(d.body.doc) = x
                                /\ y = d.body.doc.expiry /\ t = d.body.at
      <3>1. Admitted(i, x, y, t)
        BY <2>2 DEF Admitted, Recedes, Earned
      <3> QED BY <3>1
    <2> QED BY <1>10, <2>1, <2>2 DEF Admitted
  <1>11. ChecksOK'
    <2> SUFFICES ASSUME NEW x \in GrantKeys, NEW i \in Ids, NEW j \in Ids,
                        NEW y \in Nat, NEW z \in Nat, NEW s \in Nat, NEW t \in Nat,
                        Admitted(i, x, y, s)'
                 PROVE  /\ now' > y + Slack \/ (led'[x] # Nothing /\ led'[x].until = y + Slack)
                        /\ Admitted(j, x, z, t)' /\ i # j => y + Slack < t \/ z + Slack < s
      BY DEF ChecksOK
    <2>1. PICK a \in Nat : a <= s /\ Admitted(i, x, y, a)
      BY <1>10
    <2>2. now > y + Slack \/ (led[x] # Nothing /\ led[x].until = y + Slack)
      BY <2>1 DEF IInv, ChecksOK
    <2>3. ASSUME Admitted(j, x, z, t)', i # j PROVE y + Slack < t \/ z + Slack < s
      <3>1. PICK b \in Nat : b <= t /\ Admitted(j, x, z, b)
        BY <1>10, <2>3
      <3>2. y + Slack < b \/ z + Slack < a
        BY <2>1, <2>3, <3>1 DEF IInv, ChecksOK
      <3> QED BY <2>1, <3>1, <3>2, GrBounds
    <2> QED BY <1>0, <2>2, <2>3, GrBounds
  <1> QED BY <1>1, <1>2, <1>3, <1>4, <1>5, <1>6, <1>7, <1>9, <1>11 DEF IInv
(***************************************************************************)
(* An act asks: a new one, or one that goes on.                            *)
(***************************************************************************)
Arrives(k, x, w) ==
    /\ UNCHANGED <<scn, led, done, acked, now, outq, answers>>
    /\ next' \in Nat /\ next <= next' /\ next' <= scn.reqs + 1
    /\ k \in Slots /\ pend' = [pend EXCEPT ![k] = x]
    /\ ActOK(x)' /\ x.asof <= acked[x.req.scope]
    /\ \A j \in Live \ {k} : pend[j].id # x.id
    /\ \A d \in done : d.id # x.id
    /\ w.corr = <<x.id, x.stage>> /\ wire' = wire \cup {w} /\ mail' \subseteq mail
    /\ \A v \in wire : v.corr[1] # x.id
    /\ \A m \in mail' : m.corr[1] # x.id
    /\ Question(w) /\ Asked(x, w.q)
    /\ x.stage \in {"generation", "claim"} => Unborn(x.id)

LEMMA ArrivesInv == ASSUME IInv, NEW k, NEW x, NEW w, Arrives(k, x, w) PROVE IInv'
  <1>0. /\ next \in Nat /\ next' \in Nat /\ next <= next' /\ scn' = scn /\ led' = led
        /\ done' = done /\ now' = now /\ acked' = acked /\ outq' = outq /\ answers' = answers
        /\ mail' \subseteq mail /\ wire' = wire \cup {w}
    BY DEF Arrives, IInv, TypeOK
  <1>1. x.id \in Ids /\ x.id \in Nat /\ x.id < next' /\ x.stage # "free"
    BY DEF Arrives, ActOK, Ids
  <1>2. /\ k \in Slots /\ pend' = [j \in Slots |-> pend'[j]] /\ pend'[k] = x
        /\ \A j \in Slots \ {k} : pend'[j] = pend[j]
    BY DEF Arrives, IInv, TypeOK
  <1>3. \A j \in Live' : j = k \/ (j # k /\ j \in Live /\ pend'[j] = pend[j])
    BY <1>2 DEF Live
  <1>4. TypeOK' /\ LedgerOK'
    <2>1. IsPort(outq) /\ outq' = outq
      BY <1>0 DEF IInv, TypeOK
    <2>2. IsPort(outq')
      BY <2>1, Zenon
    <2>3. TypeOK'
      BY <1>0, <1>2, <2>2 DEF Arrives, IInv, TypeOK
    <2> QED BY <1>0, <2>3 DEF IInv, LedgerOK
  <1>5. ActsOK'
    <2>1. ASSUME NEW j \in Live' PROVE ActOK(pend[j])' /\ pend[j]'.asof <= acked'[pend[j]'.req.scope]
      <3>1. CASE j = k
        <4>1. PICK e : e = pend[j]' /\ e = x
          BY <1>2, <3>1
        <4> QED BY <1>0, <4>1 DEF Arrives
      <3>2. CASE j # k
        <4>1. PICK e : e = pend[j]' /\ e = pend[j] /\ j \in Live
          BY <1>3, <3>2
        <4>2. ActOK(e)'
          BY <1>0, <4>1, LiveFacts, ActStays
        <4>3. e.asof <= acked[e.req.scope]
          BY <4>1 DEF IInv, ActsOK
        <4> QED BY <1>0, <4>1, <4>2, <4>3
      <3> QED BY <3>1, <3>2
    <2>2. \A i, j \in Live' : pend'[i].id = pend'[j].id => i = j
      BY <1>2, <1>3 DEF Arrives, IInv, ActsOK
    <2> QED BY <2>1, <2>2 DEF ActsOK
  <1>6. VerdictsOK'
    <2>1. \A d \in done' : VerdictOK(d)'
      BY <1>0, VerdictStays DEF IInv, VerdictsOK
    <2>2. \A d \in done', j \in Live' : pend'[j].id # d.id
      BY <1>0, <1>2, <1>3 DEF Arrives, IInv, VerdictsOK
    <2>3. Answered' = Answered
      BY <1>0 DEF Answered
    <2> QED BY <1>0, <2>1, <2>2, <2>3 DEF IInv, VerdictsOK
  <1>7. OneMessage'
    <2>1. \A c : Corr(c) => Corr(c)'
      BY <1>0 DEF Corr, Ids
    <2>0. PICK c : c = w.corr /\ c = <<x.id, x.stage>>
      BY DEF Arrives
    <2>2. c = w.corr /\ c = <<x.id, x.stage>> /\ c[1] = x.id /\ c[2] = x.stage
      BY <2>0
    <2>3. Corr(c)'
      BY <1>1, <2>2 DEF Corr
    <2>4. /\ \A v \in wire' : Corr(v.corr)'
          /\ \A m \in mail' : Corr(m.corr)'
      BY <1>0, <2>1, <2>2, <2>3 DEF IInv, OneMessage
    <2>5. /\ \A u, v \in wire' : u.corr[1] = v.corr[1] => u = v
          /\ \A m, n \in mail' : m.corr[1] = n.corr[1] => m = n
          /\ \A v \in wire', m \in mail' : v.corr[1] # m.corr[1]
      BY <1>0, <2>2 DEF Arrives, IInv, OneMessage
    <2>6. /\ \A v \in wire', j \in Live' : v.corr[1] = pend'[j].id => v.corr[2] = pend'[j].stage
          /\ \A m \in mail', j \in Live' : m.corr[1] = pend'[j].id => m.corr[2] = pend'[j].stage
      BY <1>0, <1>2, <1>3, <2>2 DEF Arrives, IInv, OneMessage
    <2> QED BY <2>4, <2>5, <2>6 DEF OneMessage
  <1>8. WireOK'
    <2>1. \A v \in wire' : Question(v)'
      BY <1>0, QuestionStays DEF Arrives, IInv, WireOK
    <2>2. w.corr[1] = x.id
      BY DEF Arrives
    <2>3. \A v \in wire', j \in Live' : v.corr[1] = pend[j]'.id => Asked(pend[j], v.q)'
      <3> SUFFICES ASSUME NEW v \in wire', NEW j \in Live', v.corr[1] = pend[j]'.id
                   PROVE  Asked(pend[j], v.q)'
        OBVIOUS
      <3>1. CASE j = k
        <4>1. PICK e : e = pend[j]' /\ e = x
          BY <1>2, <3>1
        <4>2. v = w
          BY <1>0, <4>1 DEF Arrives
        <4> QED BY <4>1, <4>2 DEF Arrives, Asked
      <3>2. CASE j # k
        <4>1. PICK e : e = pend[j]' /\ e = pend[j] /\ j \in Live
          BY <1>3, <3>2
        <4>2. v \in wire
          BY <1>0, <2>2, <3>2, <4>1 DEF Arrives
        <4>3. Asked(e, v.q)
          BY <4>1, <4>2 DEF IInv, WireOK
        <4> QED BY <4>1, <4>3 DEF Asked
      <3> QED BY <3>1, <3>2
    <2>4. \A m \in mail', j \in Live' : m.corr[1] = pend[j]'.id => Tells(pend[j], m)'
      <3> SUFFICES ASSUME NEW m \in mail', NEW j \in Live', m.corr[1] = pend[j]'.id
                   PROVE  Tells(pend[j], m)'
        OBVIOUS
      <3>1. PICK e : e = pend[j]' /\ e = pend[j] /\ j \in Live
        BY <1>2, <1>3 DEF Arrives
      <3>2. Tells(e, m)
        BY <1>0, <3>1 DEF IInv, WireOK
      <3> QED BY <1>0, <3>1, <3>2 DEF Tells
    <2> QED BY <2>1, <2>3, <2>4 DEF WireOK
  <1>9. BirthsOK'
    <2>1. \A n \in Ids : Unborn(n)' => Unborn(n)
      <3> SUFFICES ASSUME NEW n \in Ids, Unborn(n)' PROVE Unborn(n)
        OBVIOUS
      <3>1. CASE n >= next'
        BY <1>0, <3>1 DEF Unborn, Ids
      <3>2. CASE \E j \in Live' : pend'[j].id = n /\ pend'[j].stage = "generation"
        BY <1>2, <1>3, <3>2 DEF Unborn, Arrives
      <3>3. CASE \E v \in wire' : v.corr = <<n, "claim">>
        BY <1>0, <3>3 DEF Unborn, Arrives
      <3> QED BY <3>1, <3>2, <3>3 DEF Unborn
    <2> QED BY <1>0, <2>1 DEF IInv, BirthsOK
  <1>10. \A j \in Live' : ToldOk(j)' => j # k /\ j \in Live /\ pend'[j] = pend[j] /\ ToldOk(j)
    <2>1. ~ToldOk(k)'
      BY <1>2 DEF ToldOk, Arrives
    <2> QED BY <1>0, <1>3, <2>1 DEF ToldOk
  <1>11. EndsOK'
    <2>1. \A y : Consumers(y)' \subseteq Consumers(y)
      BY <1>0, <1>10 DEF Consumers
    <2>2. \A y : Lapsed(y)' => Lapsed(y)
      <3> SUFFICES ASSUME NEW y, Lapsed(y)' PROVE Lapsed(y)
        OBVIOUS
      <3>1. CASE \E j \in Live' : /\ pend'[j].stage = "mark" /\ pend'[j].end = "expired"
                                  /\ GrantKey(pend'[j].doc) = y /\ ToldOk(j)'
        BY <1>10, <3>1 DEF Lapsed
      <3>2. CASE \E j \in Live' :
                   /\ pend'[j].stage = "state" /\ GrantKey(pend'[j].doc) = y
                   /\ \E m \in mail' : /\ m.corr[1] = pend'[j].id /\ m.status = "ok"
                                       /\ m.val.state = "expired"
        <4>1. PICK j \in Live', m \in mail' :
                 /\ pend'[j].stage = "state" /\ GrantKey(pend'[j].doc) = y
                 /\ m.corr[1] = pend'[j].id /\ m.status = "ok" /\ m.val.state = "expired"
          BY <3>2
        <4>2. ToldOk(j)'
          BY <4>1 DEF ToldOk
        <4> QED BY <1>0, <1>10, <4>1, <4>2 DEF Lapsed
      <3> QED BY <1>0, <3>1, <3>2 DEF Lapsed
    <2> QED BY <1>0, <2>1, <2>2 DEF IInv, EndsOK
  <1>12. \A i, y, z, t : Admitted(i, y, z, t)' => Admitted(i, y, z, t)
    BY <1>0, <1>10 DEF Admitted
  <1>13. ChecksOK'
    BY <1>0, <1>12 DEF IInv, ChecksOK
  <1> QED BY <1>4, <1>5, <1>6, <1>7, <1>8, <1>9, <1>11, <1>13 DEF IInv

(***************************************************************************)
(* The ledger.                                                             *)
(***************************************************************************)
LEMMA GenerationsAreGenerations ==
    ASSUME NEW n \in Nat \ {0}
    PROVE  IsGeneration(Generation(n)) /\ Generation(n).n = n /\ Generation(n) # Nothing
  BY DEF IsGeneration, Generation, Nothing

LEMMA StatesAreStates ==
    ASSUME NEW st, NEW g
    PROVE  /\ State(st, g).state = st /\ State(st, g).doc = g /\ State(st, g) # Nothing
           /\ State(st, g).until = g.expiry + Slack
           /\ State(st, g) = State(State(st, g).state, State(st, g).doc)
  BY DEF State, Nothing

LEMMA IssuedAre ==
    ASSUME IInv, NEW g \in IssuedDocs
    PROVE  IsGrant(g) /\ g.nonce \in Ids /\ ~Unborn(g.nonce)
  <1>1. PICK d \in done : d.status = "ok" /\ d.req.op = "issue" /\ g = d.body.doc
    BY DEF IssuedDocs
  <1>2. IsGrant(g) /\ g.nonce = d.id /\ d.id \in Ids
    BY <1>1 DEF IInv, VerdictsOK, VerdictOK
  <1> QED BY <1>1, <1>2 DEF IInv, BirthsOK

(* What a write would write.                                               *)
LEMMA WritesAre ==
    ASSUME IInv, NEW w \in wire, w.q.op # "get"
    PROVE  \/ \E s \in Scopes, n \in Nat \ {0} :
                 /\ w.corr[2] = "set" /\ w.q.key = GenKey(s) /\ w.q.new = Generation(n)
                 /\ w.q.old = Nothing \/ \E o \in Nat : o < n /\ w.q.old = Generation(o)
           \/ \E g : /\ IsGrant(g) /\ w.corr[2] = "claim" /\ w.q.key = GrantKey(g)
                     /\ w.q.old = Nothing
                     /\ \/ g.nonce = w.corr[1] /\ w.q.new = State("issued", g)
                        \/ g.nonce \in Challenges /\ w.q.new = State("consumed", g)
           \/ \E g \in IssuedDocs, st \in {"consumed", "expired"} :
                 /\ w.corr[2] = "mark" /\ w.q.key = GrantKey(g)
                 /\ w.q.old = State("issued", g) /\ w.q.new = State(st, g)
  <1>1. Question(w)
    BY DEF IInv, WireOK
  <1>2. PICK q : q = w.q
    OBVIOUS
  <1>3. CASE \E s \in Scopes, n \in Nat \ {0} :
                /\ w.corr[2] = "set"
                /\ \/ w.q = PutIfAbsent(GenKey(s), Generation(n))
                   \/ \E o \in Nat : o < n /\ w.q = CompareAndSwap(GenKey(s), Generation(o), Generation(n))
    <2>1. PICK s \in Scopes, n \in Nat \ {0} :
                /\ w.corr[2] = "set"
                /\ \/ q = PutIfAbsent(GenKey(s), Generation(n))
                   \/ \E o \in Nat : o < n /\ q = CompareAndSwap(GenKey(s), Generation(o), Generation(n))
      BY <1>2, <1>3
    <2>2. /\ q.key = GenKey(s) /\ q.new = Generation(n)
          /\ q.old = Nothing \/ \E o \in Nat : o < n /\ q.old = Generation(o)
      BY <2>1 DEF PutIfAbsent, CompareAndSwap
    <2> QED BY <1>2, <2>1, <2>2
  <1>4. CASE \E g : /\ IsGrant(g) /\ w.corr[2] = "claim"
                    /\ \/ g.nonce = w.corr[1] /\ w.q = PutIfAbsent(GrantKey(g), State("issued", g))
                       \/ g.nonce \in Challenges
                          /\ w.q = PutIfAbsent(GrantKey(g), State("consumed", g))
    <2>1. PICK g : /\ IsGrant(g) /\ w.corr[2] = "claim"
                   /\ \/ g.nonce = w.corr[1] /\ q = PutIfAbsent(GrantKey(g), State("issued", g))
                      \/ g.nonce \in Challenges
                         /\ q = PutIfAbsent(GrantKey(g), State("consumed", g))
      BY <1>2, <1>4
    <2>2. /\ q.key = GrantKey(g) /\ q.old = Nothing
          /\ \/ g.nonce = w.corr[1] /\ q.new = State("issued", g)
             \/ g.nonce \in Challenges /\ q.new = State("consumed", g)
      BY <2>1 DEF PutIfAbsent
    <2> QED BY <1>2, <2>1, <2>2
  <1>5. CASE \E g \in IssuedDocs, st \in {"consumed", "expired"} :
                /\ w.corr[2] = "mark"
                /\ w.q = CompareAndSwap(GrantKey(g), State("issued", g), State(st, g))
    <2>1. PICK g \in IssuedDocs, st \in {"consumed", "expired"} :
                /\ w.corr[2] = "mark"
                /\ q = CompareAndSwap(GrantKey(g), State("issued", g), State(st, g))
      BY <1>2, <1>5
    <2>2. /\ q.key = GrantKey(g) /\ q.old = State("issued", g) /\ q.new = State(st, g)
      BY <2>1 DEF CompareAndSwap
    <2> QED BY <1>2, <2>1, <2>2
  <1> QED BY <1>1, <1>3, <1>4, <1>5 DEF Question

LEMMA KeyIsKey == ASSUME IInv, NEW w \in wire PROVE w.q.key \in LedgerKeys
  <1>1. CASE w.q.op = "get"
    <2>1. PICK q : q = w.q
      OBVIOUS
    <2>2. q.op = "get"
      BY <1>1, <2>1
    <2>3. \A k, v : PutIfAbsent(k, v).op = "put"
      BY DEF PutIfAbsent
    <2>4. \A k, r, v : CompareAndSwap(k, r, v).op = "cas"
      BY DEF CompareAndSwap
    <2>5. Question(w)
      BY DEF IInv, WireOK
    <2> QED BY <2>1, <2>2, <2>3, <2>4, <2>5 DEF Question
  <1>2. CASE w.q.op # "get"
    BY <1>2, WritesAre, IssuedAre, KeysAreKeys
  <1> QED BY <1>1, <1>2

(* Who is known to have ended a grant knows it was issued.                 *)
LEMMA KnownWasIssued ==
    ASSUME IInv, NEW x, Consumers(x) # {} \/ Lapsed(x)
    PROVE  \E g \in IssuedDocs : GrantKey(g) = x
  <1>1. \A k \in Live : pend[k].stage \in {"state", "mark"} => pend[k].doc \in IssuedDocs
    BY LiveFacts DEF ActOK
  <1>2. \A d \in done : d.status \in {"ok", "expired"} /\ d.req.op = "consume" =>
            d.req.grant \in IssuedDocs
    BY DEF IInv, VerdictsOK, VerdictOK
  <1> QED BY <1>1, <1>2 DEF Consumers, Lapsed

LEMMA AdmittedWas ==
    ASSUME IInv, NEW i, NEW x, NEW y, NEW t, Admitted(i, x, y, t)
    PROVE  \E g : IsGrant(g) /\ g.nonce \in Challenges /\ GrantKey(g) = x /\ y = g.expiry
  <1>1. \A k \in Live : pend[k].req.op = "check" =>
            IsGrant(pend[k].doc) /\ pend[k].doc.nonce \in Challenges
    BY LiveFacts DEF ActOK
  <1>2. \A d \in done : d.status = "ok" /\ d.req.op = "check" =>
            IsGrant(d.body.doc) /\ d.body.doc.nonce \in Challenges
    BY DEF IInv, VerdictsOK, VerdictOK
  <1> QED BY <1>1, <1>2 DEF Admitted

(* The request w is decided, applied or not, and told so or not.           *)
LedgerMoves(w, told) ==
    /\ UNCHANGED <<scn, pend, next, outq, answers, now, acked, done>>
    /\ w \in wire /\ wire' = wire \ {w} /\ mail' = mail \cup told
    /\ \/ led' = led
       \/ w.q.op # "get" /\ led[w.q.key] = w.q.old /\ led' = Applied(led, w.q)
    /\ \A m \in told :
          /\ told = {m} /\ m.corr = w.corr
          /\ m.status = "ok" /\ w.q.op = "get" => m.val = led[w.q.key] /\ m.val # Nothing
          /\ m.status = "ok" /\ w.q.op # "get" =>
                led[w.q.key] = w.q.old /\ led' = Applied(led, w.q)
          /\ m.status = "not_found" => w.q.op = "get" /\ led[w.q.key] = Nothing

LEMMA WritesPut == ASSUME IInv, NEW w \in wire, w.q.op # "get" PROVE w.q.op \in {"put", "cas"}
  <1>1. PICK q : q = w.q
    OBVIOUS
  <1>2. \A k, v : PutIfAbsent(k, v).op = "put"
    BY DEF PutIfAbsent
  <1>3. \A k, r, v : CompareAndSwap(k, r, v).op = "cas"
    BY DEF CompareAndSwap
  <1>4. Question(w)
    BY DEF IInv, WireOK
  <1> QED BY <1>1, <1>2, <1>3, <1>4 DEF Question

LEMMA AppliedIs ==
    ASSUME IInv, NEW w \in wire, led' = Applied(led, w.q)
    PROVE  /\ led' = [k \in LedgerKeys |-> led'[k]]
           /\ \A k \in LedgerKeys : led'[k] = IF k = w.q.key THEN w.q.new ELSE led[k]
  <1>1. w.q.key \in LedgerKeys /\ led = [k \in LedgerKeys |-> led[k]]
    BY KeyIsKey DEF IInv, TypeOK
  <1> QED BY <1>1 DEF Applied

(* A generation only grows.                                                *)
LEMMA GenerationsGrow ==
    ASSUME IInv, NEW w, NEW told, LedgerMoves(w, told), NEW s \in Scopes
    PROVE  /\ led'[GenKey(s)] = Nothing \/ IsGeneration(led'[GenKey(s)])
           /\ led[GenKey(s)] # Nothing =>
                 led'[GenKey(s)] # Nothing /\ led'[GenKey(s)].n >= led[GenKey(s)].n
  <1>1. GenKey(s) \in LedgerKeys
    BY KeysAreKeys
  <1>2. led[GenKey(s)] = Nothing \/ IsGeneration(led[GenKey(s)])
    BY DEF IInv, LedgerOK
  <1>3. CASE led'[GenKey(s)] = led[GenKey(s)]
    BY <1>2, <1>3 DEF IsGeneration
  <1>4. CASE led'[GenKey(s)] # led[GenKey(s)]
    <2>1. /\ w \in wire /\ w.q.op # "get" /\ led[w.q.key] = w.q.old /\ led' = Applied(led, w.q)
      BY <1>4 DEF LedgerMoves
    <2>2. w.q.key = GenKey(s) /\ led'[GenKey(s)] = w.q.new
      BY <1>1, <1>4, <2>1, AppliedIs
    <2>3. \A g : IsGrant(g) => GrantKey(g) # GenKey(s)
      BY KeysAreKeys
    <2>4. \E n \in Nat \ {0} : /\ w.q.new = Generation(n)
                               /\ w.q.old = Nothing \/ \E o \in Nat : o < n /\ w.q.old = Generation(o)
      BY <2>1, <2>2, <2>3, WritesAre, IssuedAre
    <2>5. PICK n \in Nat \ {0} : /\ w.q.new = Generation(n)
                                 /\ w.q.old = Nothing \/ \E o \in Nat : o < n /\ w.q.old = Generation(o)
      BY <2>4
    <2>6. led'[GenKey(s)] = Generation(n)
      BY <2>2, <2>5
    <2>7. led[GenKey(s)] = Nothing \/ \E o \in Nat : o < n /\ led[GenKey(s)] = Generation(o)
      BY <2>1, <2>2, <2>5
    <2>8. \A o : Generation(o).n = o
      BY DEF Generation
    <2> QED BY <2>6, <2>7, <2>8, GenerationsAreGenerations
  <1> QED BY <1>3, <1>4

(* What may happen to a grant's record.                                    *)
Claimed(w, x) ==
    /\ led[x] = Nothing /\ w.corr[2] = "claim"
    /\ \E g : /\ IsGrant(g) /\ GrantKey(g) = x
              /\ \/ g.nonce = w.corr[1] /\ led'[x] = State("issued", g)
                 \/ g.nonce \in Challenges /\ led'[x] = State("consumed", g)

Marked(w, x) ==
    \E g \in IssuedDocs, st \in {"consumed", "expired"} :
        /\ w.corr[2] = "mark" /\ GrantKey(g) = x
        /\ led[x] = State("issued", g) /\ led'[x] = State(st, g)

LEMMA RecordsMove ==
    ASSUME IInv, NEW w, NEW told, LedgerMoves(w, told), NEW x \in GrantKeys
    PROVE  led'[x] = led[x] \/ Claimed(w, x) \/ Marked(w, x)
  <1> SUFFICES ASSUME led'[x] # led[x] PROVE Claimed(w, x) \/ Marked(w, x)
    OBVIOUS
  <1>1. /\ w \in wire /\ w.q.op # "get" /\ led[w.q.key] = w.q.old /\ led' = Applied(led, w.q)
    BY DEF LedgerMoves
  <1>2. x \in LedgerKeys
    BY KeysAreKeys
  <1>3. w.q.key = x /\ led'[x] = w.q.new /\ led[x] = w.q.old
    BY <1>1, <1>2, AppliedIs
  <1>4. \A s : GenKey(s) # x
    BY KeysAreKeys
  <1>5. \/ \E g : /\ IsGrant(g) /\ w.corr[2] = "claim" /\ w.q.key = GrantKey(g)
                  /\ w.q.old = Nothing
                  /\ \/ g.nonce = w.corr[1] /\ w.q.new = State("issued", g)
                     \/ g.nonce \in Challenges /\ w.q.new = State("consumed", g)
        \/ \E g \in IssuedDocs, st \in {"consumed", "expired"} :
                 /\ w.corr[2] = "mark" /\ w.q.key = GrantKey(g)
                 /\ w.q.old = State("issued", g) /\ w.q.new = State(st, g)
    BY <1>1, <1>3, <1>4, WritesAre
  <1> QED BY <1>3, <1>5 DEF Claimed, Marked

(* What an act hears that its request was answered with.                   *)
LEMMA HeardIs ==
    ASSUME IInv, NEW w, NEW told, LedgerMoves(w, told), NEW m \in mail', NEW k \in Live,
           m.corr[1] = pend[k].id, m \notin mail
    PROVE  /\ m \in told /\ told = {m} /\ w.corr[1] = pend[k].id /\ w.corr[2] = pend[k].stage
           /\ w \in wire /\ Asked(pend[k], w.q)
  <1>1. m \in told /\ told = {m} /\ m.corr = w.corr /\ w \in wire
    BY DEF LedgerMoves
  <1> QED BY <1>1 DEF IInv, OneMessage, WireOK

LEMMA TellsStays ==
    ASSUME IInv, NEW w, NEW told, LedgerMoves(w, told), NEW m \in mail', NEW k \in Live,
           m.corr[1] = pend[k].id
    PROVE  Tells(pend[k], m)'
  <1>0. PICK e : e = pend[k] /\ e = pend[k]'
    BY DEF LedgerMoves
  <1>1. e.req.scope \in Scopes /\ e.asof \in Nat /\ ActOK(e) /\ e.asof <= acked[e.req.scope]
    <2>1. ActOK(e)
      BY <1>0, LiveFacts
    <2>2. e.asof <= acked[e.req.scope]
      BY <1>0 DEF IInv, ActsOK
    <2> QED BY <2>1, <2>2 DEF ActOK, IsAct, IsRequest
  <1>2. PICK gk : gk = GenKey(e.req.scope)
    OBVIOUS
  <1>3. /\ led[gk] = Nothing \/ IsGeneration(led[gk])
        /\ acked[e.req.scope] # 0 => led[gk] # Nothing /\ led[gk].n >= acked[e.req.scope]
        /\ acked[e.req.scope] \in Nat
    BY <1>1, <1>2 DEF IInv, LedgerOK, TypeOK
  <1>4. CASE m \in mail
    <2>1. Tells(e, m)
      BY <1>0, <1>4 DEF IInv, WireOK
    <2>2. led[gk] # Nothing => led'[gk] # Nothing /\ led'[gk].n >= led[gk].n
      BY <1>1, <1>2, GenerationsGrow
    <2>3. led[gk] # Nothing => led[gk].n \in Nat
      BY <1>3 DEF IsGeneration
    <2>4. led'[gk] # Nothing => led'[gk].n \in Nat
      <3>1. led'[gk] = Nothing \/ IsGeneration(led'[gk])
        BY <1>1, <1>2, GenerationsGrow
      <3> QED BY <3>1 DEF IsGeneration
    <2>5. e.stage = "set" => e.gen \in Nat
      BY <1>1 DEF ActOK
    <2>6. e.stage = "set" /\ m.status = "ok" => led'[gk] # Nothing /\ led'[gk].n >= e.gen
      BY <1>2, <2>1, <2>2, <2>3, <2>4, <2>5 DEF Tells
    <2> QED BY <1>0, <1>2, <2>1, <2>6 DEF Tells
  <1>5. CASE m \notin mail
    <2>1. m \in told /\ Asked(e, w.q) /\ told = {m}
      BY <1>0, <1>5, HeardIs
    <2>2. PICK q : q = w.q
      OBVIOUS
    <2>3. /\ m.status = "ok" /\ q.op = "get" => m.val = led[q.key] /\ m.val # Nothing
          /\ m.status = "ok" /\ q.op # "get" => led[q.key] = q.old /\ led' = Applied(led, w.q)
          /\ m.status = "not_found" => q.op = "get" /\ led[q.key] = Nothing
          /\ w \in wire
      BY <2>1, <2>2 DEF LedgerMoves
    <2>4. CASE e.stage = "generation"
      <3>1. q.op = "get" /\ q.key = gk
        BY <1>2, <2>1, <2>2, <2>4 DEF Asked, Get
      <3>2. m.status = "ok" => IsGeneration(m.val) /\ m.val.n >= e.asof
        BY <1>1, <1>3, <2>3, <3>1 DEF IsGeneration
      <3>3. m.status = "not_found" => e.asof = 0
        BY <1>1, <1>3, <2>3, <3>1
      <3> QED BY <1>0, <2>4, <3>2, <3>3 DEF Tells
    <2>5. CASE e.stage = "state"
      <3>1. q.op = "get" /\ q.key = GrantKey(e.doc)
        BY <2>1, <2>2, <2>5 DEF Asked, Get
      <3>2. GrantKey(e.doc) \in GrantKeys
        BY <1>1, <2>5, IssuedAre, KeysAreKeys DEF ActOK
      <3>3. m.status = "ok" => IsState(m.val) /\ GrantKey(m.val.doc) = GrantKey(e.doc)
        BY <2>3, <3>1, <3>2 DEF IInv, LedgerOK
      <3> QED BY <1>0, <2>5, <3>3 DEF Tells
    <2>6. CASE e.stage = "set"
      <3>1. q.op # "get" /\ q.key = gk /\ q.new = Generation(e.gen) /\ e.gen \in Nat \ {0}
        BY <1>1, <1>2, <2>1, <2>2, <2>6 DEF Asked, ActOK
      <3>2. gk \in LedgerKeys
        BY <1>1, <1>2, KeysAreKeys
      <3>3. m.status = "ok" => led'[gk] = Generation(e.gen)
        BY <2>2, <2>3, <3>1, <3>2, AppliedIs
      <3>4. m.status = "ok" => led'[gk] # Nothing /\ led'[gk].n >= e.gen
        BY <3>1, <3>3, GenerationsAreGenerations
      <3> QED BY <1>0, <1>2, <2>6, <3>4 DEF Tells
    <2> QED BY <1>0, <2>4, <2>5, <2>6 DEF Tells
  <1> QED BY <1>4, <1>5
(* Who consumed a grant, and whether it is known to have expired, follow   *)
(* its record.                                                             *)
LEMMA EndsMove ==
    ASSUME IInv, NEW w, NEW told, LedgerMoves(w, told), NEW x \in GrantKeys
    PROVE  /\ Consumers(x)' # {} => /\ led'[x] = Nothing \/ led'[x].state = "consumed"
                                    /\ ~Lapsed(x)'
           /\ Lapsed(x)' => led'[x] = Nothing \/ led'[x].state = "expired"
           /\ \A i, j \in Consumers(x)' : i = j
  <1>0. /\ pend' = pend /\ done' = done /\ next' = next /\ Live' = Live
        /\ mail' = mail \cup told /\ w \in wire
        /\ \A m \in told : told = {m}
    BY DEF LedgerMoves, Live
  <1>1. /\ Consumers(x) # {} => (led[x] = Nothing \/ led[x].state = "consumed") /\ ~Lapsed(x)
        /\ Lapsed(x) => led[x] = Nothing \/ led[x].state = "expired"
        /\ \A i, j \in Consumers(x) : i = j
    BY DEF IInv, EndsOK
  (* A record that someone knows the end of is not written.                *)
  <1>2. Consumers(x) # {} \/ Lapsed(x) => led'[x] = led[x]
    <2> SUFFICES ASSUME Consumers(x) # {} \/ Lapsed(x), led'[x] # led[x] PROVE FALSE
      OBVIOUS
    <2>1. PICK h \in IssuedDocs : GrantKey(h) = x
      BY KnownWasIssued
    <2>2. h.nonce \in Ids /\ ~Unborn(h.nonce)
      BY IssuedAre
    <2>3. CASE Claimed(w, x)
      <3>1. PICK g : /\ IsGrant(g) /\ GrantKey(g) = x
                     /\ g.nonce = w.corr[1] \/ g.nonce \in Challenges
        BY <2>3 DEF Claimed
      <3>2. g.nonce = h.nonce
        BY <2>1, <3>1, KeysAreKeys
      <3>3. w.corr = <<h.nonce, "claim">>
        <4>1. w.corr = <<w.corr[1], w.corr[2]>>
          BY <1>0 DEF IInv, OneMessage, Corr
        <4> QED BY <2>2, <2>3, <3>1, <3>2, <4>1, NoncesDiffer DEF Claimed
      <3> QED BY <1>0, <2>2, <3>3 DEF Unborn
    <2>4. CASE Marked(w, x)
      <3>1. \E g : led[x] = State("issued", g)
        BY <2>4 DEF Marked
      <3>2. led[x].state = "issued" /\ led[x] # Nothing
        BY <3>1, StatesAreStates
      <3> QED BY <1>1, <3>2
    <2> QED BY <2>3, <2>4, RecordsMove
  <1>3. CASE \E k \in Live, m \in told : /\ m.status = "ok" /\ m.corr[1] = pend[k].id
                                         /\ pend[k].stage = "mark" /\ GrantKey(pend[k].doc) = x
    <2>1. PICK k \in Live, m \in told : /\ m.status = "ok" /\ m.corr[1] = pend[k].id
                                        /\ pend[k].stage = "mark" /\ GrantKey(pend[k].doc) = x
      BY <1>3
    <2>2. PICK e : e = pend[k]
      OBVIOUS
    <2>3. m.corr = w.corr /\ w.corr[1] = e.id
      BY <2>1, <2>2 DEF LedgerMoves
    <2>4. Asked(e, w.q)
      BY <1>0, <2>2, <2>3 DEF IInv, WireOK
    <2>5. e.end \in {"ok", "expired"}
      BY <2>1, <2>2, LiveFacts DEF ActOK
    <2>6. PICK q : q = w.q
      OBVIOUS
    <2>7. /\ q.op # "get" /\ q.key = x /\ q.old = State("issued", e.doc)
          /\ q.new = State(IF e.end = "ok" THEN "consumed" ELSE "expired", e.doc)
      BY <2>1, <2>2, <2>4, <2>6 DEF Asked, CompareAndSwap
    <2>8. led[x] = q.old /\ led' = Applied(led, w.q)
      BY <2>1, <2>6, <2>7 DEF LedgerMoves
    <2>9. led'[x] = q.new
      BY <1>0, <2>6, <2>7, <2>8, AppliedIs, KeysAreKeys
    <2>10. led[x] # Nothing /\ led[x].state = "issued"
      BY <2>7, <2>8, StatesAreStates
    <2>11. Consumers(x) = {} /\ ~Lapsed(x)
      BY <1>1, <2>10
    <2>12. \A j \in Live, n \in told : n.corr[1] = pend[j].id => j = k
      BY <2>1, <2>2, <2>3 DEF LedgerMoves, IInv, ActsOK
    <2>13. \A j \in Live : ToldOk(j)' => j = k \/ ToldOk(j)
      BY <1>0, <2>12 DEF ToldOk
    <2>14. \A i \in Consumers(x)' : i = e.id /\ e.end = "ok"
      <3> SUFFICES ASSUME NEW i \in Consumers(x)' PROVE i = e.id /\ e.end = "ok"
        OBVIOUS
      <3>1. \/ \E j \in Live : /\ pend[j].id = i /\ pend[j].stage = "mark"
                               /\ pend[j].end = "ok" /\ GrantKey(pend[j].doc) = x /\ ToldOk(j)'
            \/ i \in Consumers(x)
        BY <1>0 DEF Consumers
      <3> QED BY <2>2, <2>11, <2>13, <3>1 DEF Consumers
    <2>15. Lapsed(x)' => e.end = "expired"
      <3> SUFFICES ASSUME Lapsed(x)' PROVE e.end = "expired"
        OBVIOUS
      <3>1. CASE \E j \in Live : /\ pend[j].stage = "mark" /\ pend[j].end = "expired"
                                 /\ GrantKey(pend[j].doc) = x /\ ToldOk(j)'
        BY <2>2, <2>11, <2>13, <3>1 DEF Lapsed
      <3>2. CASE \E j \in Live :
                   /\ pend[j].stage = "state" /\ GrantKey(pend[j].doc) = x
                   /\ \E n \in mail' : /\ n.corr[1] = pend[j].id /\ n.status = "ok"
                                       /\ n.val.state = "expired"
        <4>1. PICK j \in Live, n \in mail' :
                   /\ pend[j].stage = "state" /\ GrantKey(pend[j].doc) = x
                   /\ n.corr[1] = pend[j].id /\ n.status = "ok" /\ n.val.state = "expired"
          BY <3>2
        <4>2. n \in mail
          BY <1>0, <2>1, <2>12, <4>1
        <4> QED BY <2>11, <4>1, <4>2 DEF Lapsed
      <3> QED BY <1>0, <2>11, <3>1, <3>2 DEF Lapsed
    <2>16. CASE e.end = "ok"
      <3>1. led'[x].state = "consumed"
        BY <2>7, <2>9, <2>16, StatesAreStates
      <3> QED BY <2>14, <2>15, <2>16, <3>1
    <2>17. CASE e.end = "expired"
      <3>1. led'[x].state = "expired"
        BY <2>7, <2>9, <2>17, StatesAreStates
      <3> QED BY <2>14, <2>15, <2>17, <3>1
    <2> QED BY <2>5, <2>16, <2>17
  <1>4. CASE ~\E k \in Live, m \in told : /\ m.status = "ok" /\ m.corr[1] = pend[k].id
                                          /\ pend[k].stage = "mark" /\ GrantKey(pend[k].doc) = x
    <2>1. \A j \in Live : /\ pend[j].stage = "mark" /\ GrantKey(pend[j].doc) = x /\ ToldOk(j)'
                          => ToldOk(j)
      BY <1>0, <1>4 DEF ToldOk
    <2>2. Consumers(x)' \subseteq Consumers(x)
      BY <1>0, <2>1 DEF Consumers
    <2>3. Lapsed(x)' => \/ Lapsed(x)
                        \/ led' = led /\ led[x] # Nothing /\ led[x].state = "expired"
      <3> SUFFICES ASSUME Lapsed(x)', ~Lapsed(x)
                   PROVE  led' = led /\ led[x] # Nothing /\ led[x].state = "expired"
        OBVIOUS
      <3>1. PICK j \in Live, n \in mail' :
                   /\ pend[j].stage = "state" /\ GrantKey(pend[j].doc) = x
                   /\ n.corr[1] = pend[j].id /\ n.status = "ok" /\ n.val.state = "expired"
        BY <1>0, <2>1 DEF Lapsed
      <3>2. n \notin mail
        BY <3>1 DEF Lapsed
      <3>3. n \in told /\ Asked(pend[j], w.q)
        BY <3>1, <3>2, HeardIs
      <3>4. PICK q, e : q = w.q /\ e = pend[j]
        OBVIOUS
      <3>5. q.op = "get" /\ q.key = x
        BY <3>1, <3>3, <3>4 DEF Asked, Get
      <3>6. led' = led /\ n.val = led[x] /\ n.val # Nothing
        BY <3>1, <3>3, <3>4, <3>5 DEF LedgerMoves
      <3> QED BY <3>1, <3>6
    <2> QED BY <1>1, <1>2, <2>2, <2>3
  <1> QED BY <1>3, <1>4

(* A check is granted over no record that stands.                          *)
LEMMA ChecksMove == ASSUME IInv, NEW w, NEW told, LedgerMoves(w, told) PROVE ChecksOK'
  <1>0. /\ pend' = pend /\ done' = done /\ now' = now /\ Live' = Live /\ now \in Nat
        /\ mail' = mail \cup told /\ w \in wire
    BY DEF LedgerMoves, Live, IInv, TypeOK
  <1> DEFINE Fresh(i, x, y, t) ==
               /\ led[x] = Nothing /\ led'[x] # Nothing /\ led'[x].until = y + Slack
               /\ i = w.corr[1] /\ t = now
  <1>1. ASSUME NEW i, NEW x \in GrantKeys, NEW y, NEW t, Admitted(i, x, y, t)'
        PROVE  Admitted(i, x, y, t) \/ Fresh(i, x, y, t)
    <2>1. CASE \E d \in done' : /\ d.id = i /\ d.status = "ok" /\ d.req.op = "check"
                                /\ GrantKey(d.body.doc) = x
                                /\ y = d.body.doc.expiry /\ t = d.body.at
      BY <1>0, <2>1 DEF Admitted
    <2>2. CASE \E k \in Live' : /\ pend'[k].id = i /\ pend'[k].stage = "claim"
                                /\ pend'[k].req.op = "check" /\ GrantKey(pend'[k].doc) = x
                                /\ ToldOk(k)' /\ y = pend'[k].doc.expiry /\ t = now'
      <3>1. PICK k \in Live, m \in mail' :
               /\ pend[k].id = i /\ pend[k].stage = "claim" /\ pend[k].req.op = "check"
               /\ GrantKey(pend[k].doc) = x /\ y = pend[k].doc.expiry /\ t = now
               /\ m.corr[1] = pend[k].id /\ m.status = "ok"
        BY <1>0, <2>2 DEF ToldOk
      <3>2. CASE m \in mail
        BY <3>1, <3>2 DEF Admitted, ToldOk
      <3>3. CASE m \notin mail
        <4>1. /\ m \in told /\ w.corr[1] = pend[k].id /\ Asked(pend[k], w.q)
          BY <3>1, <3>3, HeardIs
        <4>2. PICK q, e : q = w.q /\ e = pend[k]
          OBVIOUS
        <4>3. /\ q.op # "get" /\ q.key = x /\ q.old = Nothing
              /\ q.new = State("consumed", e.doc)
          BY <3>1, <4>1, <4>2 DEF Asked, PutIfAbsent
        <4>4. led[x] = Nothing /\ led' = Applied(led, w.q)
          BY <3>1, <4>1, <4>2, <4>3 DEF LedgerMoves
        <4>5. led'[x] = State("consumed", e.doc)
          BY <1>0, <4>2, <4>3, <4>4, AppliedIs, KeysAreKeys
        <4>6. led'[x] # Nothing /\ led'[x].until = y + Slack
          BY <3>1, <4>2, <4>5, StatesAreStates
        <4> QED BY <3>1, <4>1, <4>4, <4>6
      <3> QED BY <3>2, <3>3
    <2> QED BY <1>1, <2>1, <2>2 DEF Admitted
  <1>2. ASSUME NEW i \in Ids, NEW x \in GrantKeys, NEW y \in Nat, NEW t \in Nat,
               Admitted(i, x, y, t)
        PROVE  /\ now > y + Slack \/ (led[x] # Nothing /\ led[x].until = y + Slack)
               /\ now > y + Slack \/ led'[x] = led[x]
    <2>1. now > y + Slack \/ (led[x] # Nothing /\ led[x].until = y + Slack)
      BY <1>2 DEF IInv, ChecksOK
    <2>2. ~Marked(w, x)
      <3>1. PICK g : g.nonce \in Challenges /\ GrantKey(g) = x
        BY <1>2, AdmittedWas
      <3>2. \A h \in IssuedDocs : h.nonce \in Ids
        BY IssuedAre
      <3> QED BY <3>1, <3>2, KeysAreKeys, NoncesDiffer DEF Marked
    <2>3. Claimed(w, x) => led[x] = Nothing
      BY DEF Claimed
    <2> QED BY <2>1, <2>2, <2>3, RecordsMove
  <1> SUFFICES ASSUME NEW x \in GrantKeys, NEW i \in Ids, NEW j \in Ids,
                      NEW y \in Nat, NEW z \in Nat, NEW s \in Nat, NEW t \in Nat,
                      Admitted(i, x, y, s)'
               PROVE  /\ now' > y + Slack \/ (led'[x] # Nothing /\ led'[x].until = y + Slack)
                      /\ Admitted(j, x, z, t)' /\ i # j => y + Slack < t \/ z + Slack < s
    BY DEF ChecksOK
  <1>3. Admitted(i, x, y, s) \/ Fresh(i, x, y, s)
    BY <1>1
  <1>4. now' > y + Slack \/ (led'[x] # Nothing /\ led'[x].until = y + Slack)
    BY <1>0, <1>2, <1>3
  <1>5. ASSUME Admitted(j, x, z, t)', i # j PROVE y + Slack < t \/ z + Slack < s
    <2>1. Admitted(j, x, z, t) \/ Fresh(j, x, z, t)
      BY <1>1, <1>5
    <2>2. CASE Admitted(i, x, y, s) /\ Admitted(j, x, z, t)
      BY <1>5, <2>2 DEF IInv, ChecksOK
    <2>3. CASE Admitted(i, x, y, s) /\ Fresh(j, x, z, t)
      BY <1>0, <1>2, <2>3, GrBounds
    <2>4. CASE Fresh(i, x, y, s) /\ Admitted(j, x, z, t)
      BY <1>0, <1>2, <2>4, GrBounds
    <2>5. ~(Fresh(i, x, y, s) /\ Fresh(j, x, z, t))
      BY <1>5
    <2> QED BY <1>3, <2>1, <2>2, <2>3, <2>4, <2>5
  <1> QED BY <1>4, <1>5

LEMMA LedgerMovesInv == ASSUME IInv, NEW w, NEW told, LedgerMoves(w, told) PROVE IInv'
  <1>0. /\ scn' = scn /\ pend' = pend /\ next' = next /\ outq' = outq /\ answers' = answers
        /\ now' = now /\ acked' = acked /\ done' = done /\ Live' = Live
        /\ mail' = mail \cup told /\ w \in wire /\ wire' = wire \ {w}
        /\ \A m \in told : told = {m} /\ m.corr = w.corr
        /\ next \in Nat
    BY DEF LedgerMoves, Live, IInv, TypeOK
  <1>1. led' = [x \in LedgerKeys |-> led'[x]]
    BY AppliedIs DEF LedgerMoves, IInv, TypeOK
  <1>2. TypeOK'
    <2>1. IsPort(outq)
      BY DEF IInv, TypeOK
    <2>2. IsPort(outq')
      BY <1>0, <2>1, Zenon
    <2> QED BY <1>0, <1>1, <2>2 DEF IInv, TypeOK
  <1>3. LedgerOK'
    <2>1. ASSUME NEW s \in Scopes
          PROVE  /\ led'[GenKey(s)] = Nothing \/ IsGeneration(led'[GenKey(s)])
                 /\ acked'[s] # 0 => led'[GenKey(s)] # Nothing /\ led'[GenKey(s)].n >= acked'[s]
      <3>1. /\ led'[GenKey(s)] = Nothing \/ IsGeneration(led'[GenKey(s)])
            /\ led[GenKey(s)] # Nothing =>
                  led'[GenKey(s)] # Nothing /\ led'[GenKey(s)].n >= led[GenKey(s)].n
        BY GenerationsGrow
      <3>2. /\ led[GenKey(s)] = Nothing \/ IsGeneration(led[GenKey(s)])
            /\ acked[s] # 0 => led[GenKey(s)] # Nothing /\ led[GenKey(s)].n >= acked[s]
            /\ acked[s] \in Nat
        BY DEF IInv, LedgerOK, TypeOK
      <3> QED BY <1>0, <3>1, <3>2 DEF IsGeneration
    <2>2. ASSUME NEW x \in GrantKeys
          PROVE  led'[x] = Nothing \/ (IsState(led'[x]) /\ GrantKey(led'[x].doc) = x)
      <3>1. CASE led'[x] = led[x]
        <4>1. PICK r : r = led[x] /\ r = led'[x]
          BY <3>1
        <4>2. r = Nothing \/ (IsState(r) /\ GrantKey(r.doc) = x)
          BY <4>1 DEF IInv, LedgerOK
        <4> QED BY <4>1, <4>2
      <3>2. CASE Claimed(w, x)
        <4>1. PICK g : /\ IsGrant(g) /\ GrantKey(g) = x
                       /\ \/ g.nonce = w.corr[1] /\ led'[x] = State("issued", g)
                          \/ g.nonce \in Challenges /\ led'[x] = State("consumed", g)
          BY <3>2 DEF Claimed
        <4>2. w.corr[1] \in Ids
          BY <1>0 DEF IInv, OneMessage, Corr
        <4>3. PICK r : r = led'[x]
          OBVIOUS
        <4>4. /\ r = State(r.state, r.doc) /\ r.doc = g
              /\ \/ g.nonce = w.corr[1] /\ r.state = "issued"
                 \/ g.nonce \in Challenges /\ r.state = "consumed"
          BY <4>1, <4>3, StatesAreStates
        <4> QED BY <4>1, <4>2, <4>3, <4>4, NoncesDiffer DEF IsState
      <3>3. CASE Marked(w, x)
        <4>1. PICK g \in IssuedDocs, st \in {"consumed", "expired"} :
                 GrantKey(g) = x /\ led'[x] = State(st, g)
          BY <3>3 DEF Marked
        <4>2. PICK r : r = led'[x]
          OBVIOUS
        <4>3. r = State(r.state, r.doc) /\ r.doc = g /\ r.state = st
          BY <4>1, <4>2, StatesAreStates
        <4>4. IsGrant(g) /\ g.nonce \in Ids
          BY IssuedAre
        <4> QED BY <4>1, <4>2, <4>3, <4>4, NoncesDiffer DEF IsState
      <3> QED BY <3>1, <3>2, <3>3, RecordsMove
    <2> QED BY <2>1, <2>2 DEF LedgerOK
  <1>4. ActsOK'
    <2>1. ASSUME NEW k \in Live' PROVE ActOK(pend[k])' /\ pend[k]'.asof <= acked'[pend[k]'.req.scope]
      <3>1. PICK e : e = pend[k]' /\ e = pend[k] /\ k \in Live
        BY <1>0
      <3>2. ActOK(e)' /\ e.asof <= acked[e.req.scope]
        <4>1. ActOK(e) /\ e.asof <= acked[e.req.scope]
          BY <3>1 DEF IInv, ActsOK
        <4>2. ActOK(e)'
          BY <1>0, <4>1, ActStays
        <4> QED BY <4>1, <4>2
      <3> QED BY <1>0, <3>1, <3>2
    <2> QED BY <1>0, <2>1 DEF IInv, ActsOK
  <1>5. VerdictsOK'
    <2>1. \A d \in done' : VerdictOK(d)'
      BY <1>0, VerdictStays DEF IInv, VerdictsOK
    <2>2. Answered' = Answered
      BY <1>0 DEF Answered
    <2> QED BY <1>0, <2>1, <2>2 DEF IInv, VerdictsOK
  <1>6. OneMessage'
    <2>1. \A c : Corr(c) => Corr(c)'
      BY <1>0 DEF Corr
    <2> QED BY <1>0, <2>1 DEF IInv, OneMessage
  <1>7. WireOK'
    <2>1. \A v \in wire' : Question(v)'
      BY <1>0, QuestionStays DEF IInv, WireOK
    <2>2. \A v \in wire', k \in Live' : v.corr[1] = pend[k]'.id => Asked(pend[k], v.q)'
      <3> SUFFICES ASSUME NEW v \in wire', NEW k \in Live', v.corr[1] = pend[k]'.id
                   PROVE  Asked(pend[k], v.q)'
        OBVIOUS
      <3>1. PICK e : e = pend[k] /\ e = pend[k]'
        BY <1>0
      <3>2. Asked(e, v.q)
        BY <1>0, <3>1 DEF IInv, WireOK
      <3> QED BY <3>1, <3>2 DEF Asked
    <2>3. \A m \in mail', k \in Live' : m.corr[1] = pend[k]'.id => Tells(pend[k], m)'
      BY <1>0, TellsStays
    <2> QED BY <2>1, <2>2, <2>3 DEF WireOK
  <1>8. BirthsOK'
    <2> SUFFICES ASSUME NEW n \in Ids, Unborn(n)'
                 PROVE  /\ \A f \in Flows : led'[<<"grant", f, n>>] = Nothing
                        /\ \A d \in done' : d.status = "ok" /\ d.req.op = "issue" => d.id # n
      BY <1>0 DEF BirthsOK
    <2>1. Unborn(n)
      BY <1>0 DEF Unborn
    <2>2. w.corr # <<n, "claim">>
      <3> SUFFICES ASSUME w.corr = <<n, "claim">> PROVE FALSE
        OBVIOUS
      <3>1. w.corr[1] = n /\ w.corr[2] = "claim" /\ n < next /\ n \in Nat
        BY <1>0 DEF IInv, OneMessage, Corr, Ids
      <3>2. \A v \in wire \ {w} : v.corr # <<n, "claim">>
        BY <1>0, <3>1 DEF IInv, OneMessage
      <3>3. \A k \in Live : pend[k].id = n => pend[k].stage = "claim"
        BY <1>0, <3>1 DEF IInv, OneMessage
      <3> QED BY <1>0, <3>1, <3>2, <3>3 DEF Unborn
    <2>3. ASSUME NEW f \in Flows PROVE led'[<<"grant", f, n>>] = Nothing
      <3>0. n \in Nonces
        BY DEF Nonces
      <3>1. PICK x \in GrantKeys : x = <<"grant", f, n>>
        <4>1. <<"grant", f, n>> \in GrantKeys
          BY <3>0 DEF GrantKeys
        <4> QED BY <4>1
      <3>2. led[x] = Nothing
        BY <2>1, <3>1 DEF IInv, BirthsOK
      <3>3. \A g : GrantKey(g) = x => g.nonce = n
        BY <3>1 DEF GrantKey
      <3>4. ~Claimed(w, x)
        <4>1. w.corr = <<w.corr[1], w.corr[2]>>
          BY <1>0 DEF IInv, OneMessage, Corr
        <4> QED BY <2>2, <3>3, <4>1, NoncesDiffer DEF Claimed
      <3>5. ~Marked(w, x)
        BY <3>2, StatesAreStates DEF Marked
      <3> QED BY <3>1, <3>2, <3>4, <3>5, RecordsMove
    <2> QED BY <1>0, <2>1, <2>3 DEF IInv, BirthsOK
  <1>9. EndsOK'
    BY EndsMove DEF EndsOK
  <1>10. ChecksOK'
    BY ChecksMove
  <1> QED BY <1>2, <1>3, <1>4, <1>5, <1>6, <1>7, <1>8, <1>9, <1>10 DEF IInv

(***************************************************************************)
(* The environment's steps.                                                *)
(***************************************************************************)
LEMMA SettleMoves ==
    ASSUME IInv, NEW w \in wire, NEW out, Settle(w, out), UNCHANGED <<clock, history>>,
           out \in Decided(led, w.q) \cup Failed(led, w.q)
    PROVE  IInv'
  <1> DEFINE m == [corr |-> w.corr, status |-> out.status, val |-> out.val]
  <1>1. PICK q : q = w.q
    OBVIOUS
  <1>2. q.op # "get" => q.op # "delete"
    BY <1>1, WritesPut
  <1>3. \A s, v, l : Outcome(s, v, l).status = s /\ Outcome(s, v, l).val = v /\ Outcome(s, v, l).led = l
    BY DEF Outcome
  <1>4. /\ out.led = led \/ (q.op # "get" /\ led[q.key] = q.old /\ out.led = Applied(led, q))
        /\ out.status = "ok" /\ q.op = "get" => out.val = led[q.key] /\ out.val # Nothing
        /\ out.status = "ok" /\ q.op # "get" => led[q.key] = q.old /\ out.led = Applied(led, q)
        /\ out.status = "not_found" => q.op = "get" /\ led[q.key] = Nothing
    <2>1. CASE out \in Decided(led, q)
      BY <1>2, <1>3, <2>1 DEF Decided
    <2>2. CASE out \in Failed(led, q)
      BY <1>3, <2>2 DEF Failed
    <2> QED BY <1>1, <2>1, <2>2
  <1>5. m.corr = w.corr /\ m.status = out.status /\ m.val = out.val
    OBVIOUS
  <1>6. mail' = mail \cup {m}
    BY DEF Settle
  <1> HIDE DEF m
  <1>7. LedgerMoves(w, {m})
    <2>1. /\ UNCHANGED <<scn, pend, next, outq, answers, now, acked, done>>
          /\ wire' = wire \ {w} /\ led' = IF w.q.op = "get" THEN led ELSE out.led
      BY DEF Settle, slots, clock, history
    <2>2. led' = led \/ (w.q.op # "get" /\ led[w.q.key] = w.q.old /\ led' = Applied(led, w.q))
      BY <1>1, <1>4, <2>1
    <2>3. m.status = "ok" /\ w.q.op # "get" => led[w.q.key] = w.q.old /\ led' = Applied(led, w.q)
      BY <1>1, <1>4, <1>5, <2>1
    <2>4. /\ m.status = "ok" /\ w.q.op = "get" => m.val = led[w.q.key] /\ m.val # Nothing
          /\ m.status = "not_found" => w.q.op = "get" /\ led[w.q.key] = Nothing
      BY <1>1, <1>4, <1>5
    <2> QED BY <1>5, <1>6, <2>1, <2>2, <2>3, <2>4 DEF LedgerMoves
  <1> QED BY <1>7, LedgerMovesInv

LEMMA LedgerInv == ASSUME IInv, Ledger PROVE IInv'
  <1>1. PICK w \in wire : LedgerDecides(w, led) \/ LedgerFails(w)
    BY DEF Ledger
  <1>2. UNCHANGED <<clock, history>>
    BY DEF Ledger
  <1>3. \E out \in Decided(led, w.q) \cup Failed(led, w.q) : Settle(w, out)
    BY <1>1 DEF LedgerDecides, LedgerFails
  <1> QED BY <1>2, <1>3, SettleMoves

LEMMA SilenceInv == ASSUME IInv, NEW w \in wire, Silence(w) PROVE IInv'
  <1>1. PICK q : q = w.q
    OBVIOUS
  <1>2. q.op # "get" => q.op # "delete"
    BY <1>1, WritesPut
  <1>3. \A s, v, l : Outcome(s, v, l).led = l
    BY DEF Outcome
  <1>4. PICK out \in Decided(led, q) \cup {Outcome("none", Nothing, led)} : led' = out.led
    BY <1>1 DEF Silence
  <1>5. led' = led \/ (q.op # "get" /\ led[q.key] = q.old /\ led' = Applied(led, q))
    BY <1>2, <1>3, <1>4 DEF Decided
  <1>6. UNCHANGED <<scn, pend, next, outq, answers, now, acked, done, mail>> /\ wire' = wire \ {w}
    BY DEF Silence, slots, clock, history
  <1>7. LedgerMoves(w, {})
    BY <1>1, <1>5, <1>6 DEF LedgerMoves
  <1> QED BY <1>7, LedgerMovesInv

(* A record is dropped only when it is past every expiry it can be known by. *)
LEMMA LapseInv == ASSUME IInv, NEW x \in LedgerKeys, Lapse(x) PROVE IInv'
  <1>0. /\ scn' = scn /\ pend' = pend /\ next' = next /\ outq' = outq /\ answers' = answers
        /\ now' = now /\ acked' = acked /\ done' = done /\ Live' = Live
        /\ mail' = mail /\ wire' = wire /\ next \in Nat
    BY DEF Lapse, slots, clock, history, Live, IInv, TypeOK
  <1>1. x \in GrantKeys
    <2>1. \A n : Generation(n).kind = "generation"
      BY DEF Generation
    <2>2. \A s \in Scopes : led[GenKey(s)].kind # "state"
      BY <2>1 DEF IInv, LedgerOK, IsGeneration, Nothing
    <2> QED BY <2>2 DEF Lapse, LedgerKeys
  <1>2. /\ led' = [y \in LedgerKeys |-> led'[y]]
        /\ led'[x] = Nothing /\ \A y \in LedgerKeys : y # x => led'[y] = led[y]
    BY DEF Lapse, IInv, TypeOK
  <1>3. \A s \in Scopes : led'[GenKey(s)] = led[GenKey(s)]
    BY <1>1, <1>2, KeysAreKeys
  <1>4. \A y \in GrantKeys : led'[y] = Nothing \/ led'[y] = led[y]
    BY <1>2, KeysAreKeys
  <1>5. TypeOK'
    <2>1. IsPort(outq)
      BY DEF IInv, TypeOK
    <2>2. IsPort(outq')
      BY <1>0, <2>1, Zenon
    <2> QED BY <1>0, <1>2, <2>2 DEF IInv, TypeOK
  <1>6. LedgerOK'
    <2>1. ASSUME NEW y \in GrantKeys
          PROVE  led'[y] = Nothing \/ (IsState(led'[y]) /\ GrantKey(led'[y].doc) = y)
      <3>1. PICK r : r = led'[y]
        OBVIOUS
      <3>2. r = Nothing \/ (IsState(r) /\ GrantKey(r.doc) = y)
        BY <1>4, <3>1 DEF IInv, LedgerOK
      <3> QED BY <3>1, <3>2
    <2>2. ASSUME NEW s \in Scopes
          PROVE  /\ led'[GenKey(s)] = Nothing \/ IsGeneration(led'[GenKey(s)])
                 /\ acked'[s] # 0 => led'[GenKey(s)] # Nothing /\ led'[GenKey(s)].n >= acked'[s]
      <3>1. PICK r : r = led'[GenKey(s)] /\ r = led[GenKey(s)]
        BY <1>3
      <3>2. /\ r = Nothing \/ IsGeneration(r)
            /\ acked[s] # 0 => r # Nothing /\ r.n >= acked[s]
        BY <3>1 DEF IInv, LedgerOK
      <3> QED BY <1>0, <3>1, <3>2
    <2> QED BY <2>1, <2>2 DEF LedgerOK
  <1>7. ActsOK'
    <2>1. ASSUME NEW k \in Live' PROVE ActOK(pend[k])' /\ pend[k]'.asof <= acked'[pend[k]'.req.scope]
      <3>1. PICK e : e = pend[k]' /\ e = pend[k] /\ k \in Live
        BY <1>0
      <3>2. ActOK(e) /\ e.asof <= acked[e.req.scope]
        BY <3>1 DEF IInv, ActsOK
      <3>3. ActOK(e)'
        BY <1>0, <3>2, ActStays
      <3> QED BY <1>0, <3>1, <3>2, <3>3
    <2> QED BY <1>0, <2>1 DEF IInv, ActsOK
  <1>8. VerdictsOK'
    <2>1. \A d \in done' : VerdictOK(d)'
      BY <1>0, VerdictStays DEF IInv, VerdictsOK
    <2>2. Answered' = Answered
      BY <1>0 DEF Answered
    <2> QED BY <1>0, <2>1, <2>2 DEF IInv, VerdictsOK
  <1>9. OneMessage'
    <2>1. \A c : Corr(c) => Corr(c)'
      BY <1>0 DEF Corr
    <2> QED BY <1>0, <2>1 DEF IInv, OneMessage
  <1>10. WireOK'
    <2>1. \A v \in wire' : Question(v)'
      BY <1>0, QuestionStays DEF IInv, WireOK
    <2>2. \A v \in wire', k \in Live' : v.corr[1] = pend[k]'.id => Asked(pend[k], v.q)'
      <3> SUFFICES ASSUME NEW v \in wire', NEW k \in Live', v.corr[1] = pend[k]'.id
                   PROVE  Asked(pend[k], v.q)'
        OBVIOUS
      <3>1. PICK e : e = pend[k] /\ e = pend[k]'
        BY <1>0
      <3>2. Asked(e, v.q)
        BY <1>0, <3>1 DEF IInv, WireOK
      <3> QED BY <3>1, <3>2 DEF Asked
    <2>3. \A m \in mail', k \in Live' : m.corr[1] = pend[k]'.id => Tells(pend[k], m)'
      <3> SUFFICES ASSUME NEW m \in mail', NEW k \in Live', m.corr[1] = pend[k]'.id
                   PROVE  Tells(pend[k], m)'
        OBVIOUS
      <3>1. PICK e : e = pend[k] /\ e = pend[k]'
        BY <1>0
      <3>2. Tells(e, m) /\ e.req.scope \in Scopes
        <4>1. ActOK(e)
          BY <1>0, <3>1, LiveFacts
        <4> QED BY <1>0, <3>1, <4>1 DEF IInv, WireOK, ActOK, IsRequest
      <3> QED BY <1>3, <3>1, <3>2 DEF Tells
    <2> QED BY <2>1, <2>2, <2>3 DEF WireOK
  <1>11. BirthsOK'
    <2>1. ASSUME NEW n \in Ids, Unborn(n)', NEW f \in Flows
          PROVE  led'[<<"grant", f, n>>] = Nothing
      <3>1. n \in Nonces
        BY DEF Nonces
      <3>2. <<"grant", f, n>> \in GrantKeys
        BY <3>1 DEF GrantKeys
      <3>3. Unborn(n)
        BY <1>0, <2>1 DEF Unborn
      <3>4. led[<<"grant", f, n>>] = Nothing
        BY <3>3 DEF IInv, BirthsOK
      <3> QED BY <1>4, <3>2, <3>4
    <2>2. \A n \in Ids : Unborn(n)' => Unborn(n)
      BY <1>0 DEF Unborn
    <2> QED BY <1>0, <2>1, <2>2 DEF IInv, BirthsOK
  <1>12. \A k : ToldOk(k)' <=> ToldOk(k)
    BY <1>0 DEF ToldOk
  <1>13. EndsOK'
    <2>1. \A y : Consumers(y)' = Consumers(y)
      BY <1>0, <1>12 DEF Consumers
    <2>2. \A y : Lapsed(y)' => Lapsed(y)
      BY <1>0, <1>12 DEF Lapsed
    <2> QED BY <1>4, <2>1, <2>2 DEF IInv, EndsOK
  <1>14. ChecksOK'
    <2>1. \A i, y, z, t : Admitted(i, y, z, t)' => Admitted(i, y, z, t)
      BY <1>0, <1>12 DEF Admitted
    <2>2. \A y \in GrantKeys : led'[y] # led[y] => y = x /\ now > led[x].until
      BY <1>2, KeysAreKeys DEF Lapse
    <2> QED BY <1>0, <2>1, <2>2 DEF IInv, ChecksOK
  <1> QED BY <1>5, <1>6, <1>7, <1>8, <1>9, <1>10, <1>11, <1>13, <1>14 DEF IInv

(* Nothing is decided, and nothing is answered.                            *)
LEMMA IdleInv ==
    ASSUME IInv, UNCHANGED <<scn, led, wire, pend, done, acked, next>>,
           now' \in Nat, now <= now', mail' \subseteq mail,
           IsPort(outq'), Answered' \subseteq Answered
    PROVE  IInv'
  <1>1. pend' = [k \in Slots |-> pend'[k]] /\ \A k \in Live' : k \in Live /\ pend'[k] = pend[k]
    BY DEF IInv, TypeOK, Live
  <1>2. next' \in Nat /\ next <= next' /\ next' <= scn.reqs + 1
    BY GrBounds DEF IInv, TypeOK
  <1>3. acked' \in [Scopes -> Nat] /\ \A s \in Scopes : acked[s] <= acked'[s]
    BY DEF IInv, TypeOK
  <1>4. Recedes({})
    BY <1>1, <1>2, <1>3 DEF Recedes
  <1> QED BY <1>4, RecedesInv

LEMMA EnvironmentInv ==
    ASSUME IInv, TimePasses \/ TakeKey \/ RetryKey \/ Read \/ \E m \in mail : Ignore(m)
    PROVE  IInv'
  <1>0. IsPort(outq) /\ now \in Nat
    BY DEF IInv, TypeOK
  <1>1. CASE TimePasses \/ TakeKey \/ RetryKey \/ \E m \in mail : Ignore(m)
    <2>1. UNCHANGED <<scn, led, wire, pend, done, acked, next, outq, answers>> /\ mail' \subseteq mail
      BY <1>1 DEF TimePasses, TakeKey, RetryKey, Ignore, IgnoreReply, Taken, frame, lane, slots,
                  clock, history
    <2>2. now' \in Nat /\ now <= now'
      BY <1>0, <1>1 DEF TimePasses, TakeKey, RetryKey, Ignore, clock
    <2>3. outq' = outq
      BY <2>1
    <2>4. IsPort(outq')
      BY <1>0, <2>3, Zenon
    <2>5. Answered' \subseteq Answered
      BY <2>1 DEF Answered
    <2> QED BY <2>1, <2>2, <2>4, <2>5, IdleInv
  <1>2. CASE Read
    <2>1. /\ UNCHANGED <<scn, led, wire, mail, pend, done, acked, next, now>>
          /\ outq # <<>> /\ answers' = answers \cup {Head(outq)} /\ outq' = Tail(outq)
      BY <1>2 DEF Read, ReadAnswer, lane, clock, history
    <2>2. /\ IsPort(Tail(outq)) /\ On(Tail(outq)) \subseteq On(outq) /\ Head(outq) \in On(outq)
      BY <1>0, <2>1, TailPort
    <2>3. IsPort(outq')
      BY <2>1, <2>2, Zenon
    <2>4. Answered' = answers' \cup On(outq') /\ Answered = answers \cup On(outq)
      BY DEF Answered, On
    <2>5. On(outq') \subseteq On(outq)
      BY <2>1, <2>2
    <2>6. Answered' \subseteq Answered
      BY <2>1, <2>2, <2>4, <2>5
    <2>7. mail' \subseteq mail /\ now' \in Nat /\ now <= now'
      BY <1>0, <2>1
    <2> QED BY <2>1, <2>3, <2>6, <2>7, IdleInv
  <1> QED BY <1>1, <1>2

(* Acts that end with neither an end nor a refusal of it.                  *)
LEMMA GiveUpInv ==
    ASSUME IInv, NEW S \in SUBSET Live, NEW status \in {"unavailable", "lost"},
           UNCHANGED <<scn, led, wire, acked, next, now, answers>>, mail' \subseteq mail,
           pend' = [k \in Slots |-> pend'[k]],
           \A k \in Live' : k \in Live \ S /\ pend'[k] = pend[k],
           done' = done \cup {Verdict(pend[k], status, Nothing) : k \in S},
           IsPort(outq'), \A a \in On(outq') \ On(outq) : a.status = "unavailable"
    PROVE  IInv'
  <1> DEFINE R == {Verdict(pend[k], status, Nothing) : k \in S}
  <1>1. /\ pend' = [k \in Slots |-> pend'[k]]
        /\ \A k \in Live' : k \in Live /\ pend'[k] = pend[k] /\ k \notin S
    OBVIOUS
  <1>2. /\ next' \in Nat /\ next <= next' /\ next' <= scn.reqs + 1
        /\ now' \in Nat /\ now <= now' /\ scn' = scn /\ led' = led /\ wire' \subseteq wire
        /\ acked' \in [Scopes -> Nat] /\ \A s \in Scopes : acked[s] <= acked'[s] /\ acked'[s] = acked[s]
    BY GrBounds DEF IInv, TypeOK
  <1>3. \A v \in R : Earned(v)
    <2> SUFFICES ASSUME NEW k \in S PROVE Earned(Verdict(pend[k], status, Nothing))
      OBVIOUS
    <2>1. PICK v : v = Verdict(pend[k], status, Nothing)
      OBVIOUS
    <2>2. v.id = pend[k].id /\ v.req = pend[k].req /\ v.status = status
      BY <2>1 DEF Verdict
    <2>3. ActOK(pend[k]) /\ k \in Live
      BY LiveFacts
    <2>4. v.id \in Ids /\ v.id < next' /\ v.req.op \in Operations
      BY <1>2, <2>2, <2>3 DEF ActOK, IsRequest
    <2>5. \A j \in Live' : pend'[j].id # v.id
      BY <1>1, <2>2, <2>3 DEF IInv, ActsOK
    <2> QED BY <2>1, <2>2, <2>4, <2>5 DEF Earned
  <1>4. Answered' = answers' \cup On(outq') /\ Answered = answers \cup On(outq)
    BY DEF Answered, On
  <1>5. \A a \in Answered' \ Answered : a.status # "ok"
    BY <1>4
  <1> HIDE DEF R
  <1>6. done' = done \cup R
    BY DEF R
  <1>7. Recedes(R)
    BY <1>1, <1>2, <1>3, <1>5, <1>6 DEF Recedes
  <1> QED BY <1>7, RecedesInv

LEMMA RefusalsArePort ==
    ASSUME IInv, NEW S \in SUBSET Live
    PROVE  /\ Cardinality(S) \in Nat
           /\ LateRefusals(S) = [n \in 1 .. Cardinality(S) |-> LateRefusals(S)[n]]
           /\ \A a \in On(LateRefusals(S)) : a.status = "unavailable"
  <1>1. IsFiniteSet(Slots)
    BY GrBounds, FS_Interval DEF Slots
  <1>2. IsFiniteSet(S)
    BY <1>1, FS_Subset DEF Live
  <1>3. Cardinality(S) \in Nat
    BY <1>2, FS_CardinalityType
  <1>4. \A e : Verdict(e, "unavailable", Nothing).status = "unavailable"
    BY DEF Verdict
  <1>5. LateRefusals(S) = [n \in 1 .. Cardinality(S) |-> LateRefusals(S)[n]]
    BY DEF LateRefusals
  <1>6. \A n \in 1 .. Cardinality(S) : \E e : LateRefusals(S)[n] = Verdict(e, "unavailable", Nothing)
    BY DEF LateRefusals
  <1>7. PICK r : r = LateRefusals(S)
    OBVIOUS
  <1>8. DOMAIN r = 1 .. Cardinality(S)
    BY <1>5, <1>7
  <1>9. \A n \in DOMAIN r : r[n].status = "unavailable"
    BY <1>4, <1>6, <1>7, <1>8
  <1>10. \A a \in On(r) : a.status = "unavailable"
    BY <1>9 DEF On
  <1> QED BY <1>3, <1>5, <1>7, <1>10

LEMMA TickInv == ASSUME IInv, NEW svc, Tick(svc) PROVE IInv'
  <1>1. Overdue(svc) \in SUBSET Live
    BY DEF Overdue
  <1>2. /\ UNCHANGED <<scn, led, wire, mail, acked, next, now, answers>>
        /\ outq' = IF svc = "custody" THEN outq ELSE Swept(svc)
        /\ done' = done \cup {Verdict(pend[k], "unavailable", Nothing) : k \in Overdue(svc)}
        /\ pend' = [k \in Slots |-> IF k \in Overdue(svc) THEN Free ELSE pend[k]]
    BY DEF Tick, lane, clock
  <1>3. IsPort(outq)
    BY DEF IInv, TypeOK
  <1>4. IsPort(outq') /\ \A a \in On(outq') \ On(outq) : a.status = "unavailable"
    <2>1. CASE outq' = outq
      <3>1. IsPort(outq')
        BY <1>3, <2>1, Zenon
      <3> QED BY <2>1, <3>1
    <2>2. CASE outq' = Swept(svc)
      <3>1. PICK S : /\ S \in SUBSET Live /\ Swept(svc) = outq \o LateRefusals(S)
        BY <1>1 DEF Swept
      <3>2. /\ Cardinality(S) \in Nat
            /\ LateRefusals(S) = [n \in 1 .. Cardinality(S) |-> LateRefusals(S)[n]]
            /\ \A a \in On(LateRefusals(S)) : a.status = "unavailable"
        BY <3>1, RefusalsArePort
      <3>3. PICK r, N : /\ r = LateRefusals(S) /\ N = Cardinality(S) /\ N \in Nat
                        /\ r = [n \in 1 .. N |-> r[n]]
                        /\ \A a \in On(r) : a.status = "unavailable"
        BY <3>2
      <3>4. IsPort(outq \o r) /\ On(outq \o r) = On(outq) \cup On(r)
        BY <1>3, <3>3, ConcatPort
      <3>5. outq' = outq \o r
        BY <2>2, <3>1, <3>3
      <3>6. IsPort(outq')
        BY <3>4, <3>5, Zenon
      <3> QED BY <3>3, <3>4, <3>5, <3>6
    <2> QED BY <1>2, <2>1, <2>2
  <1>5. PICK S \in SUBSET Live : S = Overdue(svc)
    BY <1>1
  <1>6. /\ done' = done \cup {Verdict(pend[k], "unavailable", Nothing) : k \in S}
        /\ pend' = [k \in Slots |-> pend'[k]]
        /\ \A k \in Live' : k \in Live \ S /\ pend'[k] = pend[k]
        /\ mail' \subseteq mail
    BY <1>2, <1>5 DEF Live, Free
  <1> QED BY <1>2, <1>4, <1>6, GiveUpInv

LEMMA RestartInv == ASSUME IInv, Restart PROVE IInv'
  <1>1. /\ UNCHANGED <<scn, led, wire, acked, next, now, answers>>
        /\ pend' = [k \in Slots |-> Free] /\ outq' = <<>> /\ mail' = {}
        /\ done' = done \cup {Verdict(pend[k], "lost", Nothing) : k \in Live}
    BY DEF Restart, ForgetAll
  <1>2. IsPort(outq') /\ On(outq') = {}
    BY <1>1, EmptyPort
  <1>3. pend' = [k \in Slots |-> pend'[k]] /\ Live' = {}
    BY <1>1 DEF Live, Free
  <1> QED BY <1>1, <1>2, <1>3, GiveUpInv

(***************************************************************************)
(* Outcomes: an act ends, or asks and goes on.                             *)
(***************************************************************************)
Ending(o, v)   == o.keep = Free /\ o.asks = {} /\ o.says = <<v>>
Going(o, x, w) == o.keep = x /\ o.asks = {w} /\ o.says = <<>> /\ x.stage # "free"

IsVerdict(v) == v = [id |-> v.id, req |-> v.req, status |-> v.status, body |-> v.body]

LEMMA SaysEnds ==
    ASSUME NEW e, NEW st, NEW b
    PROVE  /\ Ending(Says(e, st, b), Verdict(e, st, b))
           /\ Ending(Refuses(e, st), Verdict(e, st, Nothing))
           /\ Ending([Refuses(e, st) EXCEPT !.fault = 1], Verdict(e, st, Nothing))
           /\ IsVerdict(Verdict(e, st, b))
           /\ Verdict(e, st, b).id = e.id /\ Verdict(e, st, b).req = e.req
           /\ Verdict(e, st, b).status = st /\ Verdict(e, st, b).body = b
  BY DEF Ending, Says, Refuses, IsVerdict, Verdict

LEMMA AsksGoes ==
    ASSUME NEW e, NEW st, NEW q, st # "free", NEW x, x = [e EXCEPT !.stage = st],
           x.stage = st, NEW o \in Asks(e, st, q)
    PROVE  \/ Going(o, x, Request(e, st, q))
           \/ Ending(o, Verdict(e, "unavailable", Nothing))
  <1>1. CASE o = [Refuses(e, "unavailable") EXCEPT !.fault = 1]
    BY <1>1, SaysEnds
  <1>2. CASE o = [keep |-> [e EXCEPT !.stage = st], asks |-> {Request(e, st, q)},
                  says |-> <<>>, fault |-> 0]
    BY <1>2 DEF Going
  <1> QED BY <1>1, <1>2 DEF Asks

LEMMA SaidIs ==
    ASSUME NEW o, NEW v, o.says = <<v>>
    PROVE  {o.says[n] : n \in DOMAIN o.says} = {v} /\ o.says # <<>> /\ o.says[1] = v
  OBVIOUS

LEMMA UnsaidIs ==
    ASSUME NEW o, o.says = <<>> PROVE {o.says[n] : n \in DOMAIN o.says} = {}
  OBVIOUS

(* What a decision does to the highest generation told.                    *)
LEMMA DecidesOne ==
    ASSUME IInv, NEW v, Decides({v}),
           v.body.kind = "generation" =>
               /\ v.body.n \in Nat
               /\ led[GenKey(v.req.scope)] # Nothing /\ led[GenKey(v.req.scope)].n >= v.body.n
    PROVE  /\ done' = done \cup {v}
           /\ acked' \in [Scopes -> Nat] /\ \A s \in Scopes : acked[s] <= acked'[s]
           /\ \A s \in Scopes : acked'[s] # acked[s] =>
                 led[GenKey(s)] # Nothing /\ led[GenKey(s)].n >= acked'[s]
  <1>1. done' = done \cup {v}
    BY DEF Decides
  <1>2. acked' = [s \in Scopes |-> acked'[s]]
    BY DEF Decides
  <1>3. ASSUME NEW s \in Scopes
        PROVE  /\ acked'[s] \in Nat /\ acked[s] <= acked'[s]
               /\ acked'[s] # acked[s] => led[GenKey(s)] # Nothing /\ led[GenKey(s)].n >= acked'[s]
    <2>1. acked[s] \in Nat
      BY DEF IInv, TypeOK
    <2>2. CASE v.body.kind = "generation" /\ v.req.scope = s
      <3>1. {x.body.n : x \in {y \in {v} : y.body.kind = "generation" /\ y.req.scope = s}} = {v.body.n}
        BY <2>2
      <3>2. {acked[s]} \cup {v.body.n} = {acked[s], v.body.n}
        OBVIOUS
      <3>3. acked'[s] = Max({acked[s], v.body.n})
        BY <3>1, <3>2 DEF Decides
      <3>4. v.body.n \in Nat
        BY <2>2
      <3>5. acked'[s] \in {acked[s], v.body.n} /\ acked'[s] >= acked[s]
        BY <2>1, <3>3, <3>4, MaxTwo
      <3> QED BY <2>1, <2>2, <3>4, <3>5
    <2>3. CASE ~(v.body.kind = "generation" /\ v.req.scope = s)
      <3>1. {x.body.n : x \in {y \in {v} : y.body.kind = "generation" /\ y.req.scope = s}} = {}
        BY <2>3
      <3>2. acked'[s] = Max({acked[s]})
        BY <3>1 DEF Decides
      <3> QED BY <2>1, <3>2, MaxOne
    <2> QED BY <2>2, <2>3
  <1> QED BY <1>1, <1>2, <1>3

LEMMA DecidesNone ==
    ASSUME IInv, Decides({}) PROVE done' = done /\ acked' = acked
  <1>1. ASSUME NEW s \in Scopes PROVE acked'[s] = acked[s]
    <2>1. acked'[s] = Max({acked[s]})
      BY DEF Decides
    <2> QED BY <2>1, MaxOne DEF IInv, TypeOK
  <1>2. acked' = [s \in Scopes |-> acked'[s]] /\ acked = [s \in Scopes |-> acked[s]]
    BY DEF Decides, IInv, TypeOK
  <1> QED BY <1>1, <1>2 DEF Decides

(* What the caller is told of a decision.                                  *)
LEMMA ToldIs ==
    ASSUME NEW v, IsVerdict(v)
    PROVE  /\ Told(v).status = v.status /\ Told(v).req = v.req
           /\ v.body.kind = "doc" /\ v.req.op # "consume" => Told(v).body = v.body.doc
  <1>1. PICK r, s, i, b : v = [id |-> i, req |-> r, status |-> s, body |-> b]
    BY DEF IsVerdict
  <1> QED BY <1>1 DEF Told

LEMMA EnactEnds ==
    ASSUME IInv, NEW k, NEW o, NEW v, Ending(o, v), Enact(k, o), IsVerdict(v),
           UNCHANGED <<scn, led, answers, now>>, mail' \subseteq mail,
           next' \in Nat, next <= next', next' <= scn.reqs + 1, Earned(v),
           v.body.kind = "generation" =>
               /\ v.body.n \in Nat
               /\ led[GenKey(v.req.scope)] # Nothing /\ led[GenKey(v.req.scope)].n >= v.body.n,
           v.status = "ok" /\ v.req.op \in {"issue", "publish"} => v.body.kind = "doc"
    PROVE  IInv'
  <1>1. o.keep = Free /\ o.asks = {} /\ o.says = <<v>>
    BY DEF Ending
  <1>2. {o.says[n] : n \in DOMAIN o.says} = {v} /\ o.says # <<>> /\ o.says[1] = v
    BY <1>1, SaidIs
  <1>3. Decides({v})
    BY <1>2 DEF Enact
  <1>4. /\ done' = done \cup {v}
        /\ acked' \in [Scopes -> Nat] /\ \A s \in Scopes : acked[s] <= acked'[s]
        /\ \A s \in Scopes : acked'[s] # acked[s] =>
              led[GenKey(s)] # Nothing /\ led[GenKey(s)].n >= acked'[s]
    BY <1>3, DecidesOne
  <1>5. wire' = wire
    BY <1>1 DEF Enact
  <1>6. pend' = [j \in Slots |-> pend'[j]] /\ \A j \in Live' : j \in Live /\ pend'[j] = pend[j]
    <2>1. pend = [j \in Slots |-> pend[j]]
      BY DEF IInv, TypeOK
    <2>2. pend' = pend \/ pend' = [pend EXCEPT ![k] = Free]
      BY <1>1 DEF Enact
    <2> QED BY <2>1, <2>2 DEF Live, Free
  <1>7. IsPort(outq') /\ On(outq') \subseteq On(outq) \cup {Told(v)}
    <2>1. IsPort(outq)
      BY DEF IInv, TypeOK
    <2>2. outq' = outq \/ outq' = Placed(outq, Told(v))
      BY <1>2 DEF Enact
    <2>3. CASE outq' = outq
      <3>1. IsPort(outq')
        BY <2>1, <2>3, Zenon
      <3> QED BY <2>3, <3>1
    <2>4. CASE outq' = Placed(outq, Told(v))
      <3>1. PICK r : r = Told(v)
        OBVIOUS
      <3>2. IsPort(Placed(outq, r)) /\ On(Placed(outq, r)) \subseteq On(outq) \cup {r}
        BY <2>1, PlacedPort
      <3>3. outq' = Placed(outq, r)
        BY <2>4, <3>1
      <3>4. IsPort(outq')
        BY <3>2, <3>3, Zenon
      <3> QED BY <3>1, <3>2, <3>3, <3>4
    <2> QED BY <2>2, <2>3, <2>4
  <1>8. Answered' = answers' \cup On(outq') /\ Answered = answers \cup On(outq)
    BY DEF Answered, On
  <1>9. \A a \in Answered' \ Answered : a = Told(v)
    BY <1>7, <1>8
  <1>10. \A a \in Answered' \ Answered : a.status = "ok" /\ a.req.op \in {"issue", "publish"} =>
            \E d \in {v} : d.status = "ok" /\ d.req.op = a.req.op /\ a.body = d.body.doc
    BY <1>9, ToldIs
  <1>11. now' \in Nat /\ now <= now' /\ scn' = scn /\ led' = led
    BY DEF IInv, TypeOK
  <1>12. Recedes({v})
    BY <1>4, <1>5, <1>6, <1>7, <1>10, <1>11 DEF Recedes
  <1> QED BY <1>12, RecedesInv

LEMMA EnactGoes ==
    ASSUME IInv, NEW k, NEW o, NEW x, NEW w, Going(o, x, w), Enact(k, o)
    PROVE  /\ done' = done /\ acked' = acked /\ outq' = outq
           /\ pend' = [pend EXCEPT ![k] = x] /\ wire' = wire \cup {w}
  <1>1. o.keep = x /\ o.asks = {w} /\ o.says = <<>> /\ x # Free
    BY DEF Going, Free
  <1>2. {o.says[n] : n \in DOMAIN o.says} = {}
    BY <1>1, UnsaidIs
  <1>3. Decides({})
    BY <1>2 DEF Enact
  <1> QED BY <1>1, <1>3, DecidesNone DEF Enact

(***************************************************************************)
(* The act in slot k was answered by the ledger.                           *)
(***************************************************************************)
Takes(m, k, o) ==
    /\ m \in mail /\ k \in Live /\ m.corr = <<pend[k].id, pend[k].stage>>
    /\ Enact(k, o) /\ Taken(m) /\ now' = now

LEMMA ActEnds ==
    ASSUME IInv, NEW m, NEW k, NEW o, Takes(m, k, o), NEW v, Ending(o, v), IsVerdict(v),
           v.id = pend[k].id, v.req = pend[k].req,
           v.status \in {"ok", "expired"} => VerdictOK(v),
           v.status = "ok" /\ v.req.op = "issue" => ~Unborn(v.id) /\ v.body.kind = "doc",
           v.status = "ok" /\ v.req.op = "publish" => v.body.kind = "doc",
           v.status = "ok" /\ v.req.op = "consume" => v.id \in Consumers(GrantKey(v.req.grant)),
           v.status = "expired" /\ v.req.op = "consume" => Lapsed(GrantKey(v.req.grant)),
           v.status = "ok" /\ v.req.op = "check" =>
                 Admitted(v.id, GrantKey(v.body.doc), v.body.doc.expiry, v.body.at),
           v.body.kind = "generation" =>
               /\ v.body.n \in Nat
               /\ led[GenKey(v.req.scope)] # Nothing /\ led[GenKey(v.req.scope)].n >= v.body.n
    PROVE  IInv'
  <1>1. /\ UNCHANGED <<scn, led, answers, now, next>> /\ mail' \subseteq mail
        /\ k \in Live /\ Enact(k, o)
    BY DEF Takes, Taken
  <1>2. next \in Nat /\ next' \in Nat /\ next <= next' /\ next' <= scn.reqs + 1
    BY <1>1 DEF IInv, TypeOK
  <1>3. done \subseteq done'
    BY <1>1 DEF Enact, Decides
  <1>4. v.status \in {"ok", "expired"} => VerdictOK(v)'
    BY <1>2, <1>3, VerdictStays
  <1>5. ActOK(pend[k]) /\ k \in Slots
    BY <1>1, LiveFacts
  <1>6. v.id \in Ids /\ v.id < next' /\ v.req.op \in Operations
    BY <1>1, <1>5 DEF ActOK, IsRequest
  <1>7. \A j \in Live' : pend'[j].id # v.id
    <2>1. pend' = [pend EXCEPT ![k] = Free] /\ pend = [j \in Slots |-> pend[j]]
      BY <1>1 DEF Enact, Ending, IInv, TypeOK
    <2>2. \A j \in Live' : j # k /\ j \in Live /\ pend'[j] = pend[j]
      BY <1>5, <2>1 DEF Live, Free
    <2> QED BY <1>1, <2>2 DEF IInv, ActsOK
  <1>8. Earned(v)
    BY <1>4, <1>6, <1>7 DEF Earned
  <1> QED BY <1>1, <1>2, <1>8, EnactEnds

LEMMA ActRefuses ==
    ASSUME IInv, NEW m, NEW k, NEW o, Takes(m, k, o), NEW st, st # "ok",
           Ending(o, Verdict(pend[k], st, Nothing)),
           st = "expired" /\ pend[k].req.op = "consume" => Lapsed(GrantKey(pend[k].req.grant))
    PROVE  IInv'
  <1>1. PICK e : e = pend[k] /\ ActOK(e)
    BY LiveFacts DEF Takes
  <1>2. PICK v : v = Verdict(e, st, Nothing)
    OBVIOUS
  <1>3. /\ IsVerdict(v) /\ v.id = e.id /\ v.req = e.req /\ v.status = st /\ v.body = Nothing
    BY <1>2 DEF IsVerdict, Verdict
  <1>4. v.body.kind = "none"
    BY <1>3 DEF Nothing
  <1>5. /\ e.id \in Ids /\ e.id < next /\ e.req.op \in Operations
        /\ e.req.op = "consume" => e.req.grant \in IssuedDocs
    BY <1>1 DEF ActOK, IsRequest
  <1>6. VerdictOK(v)
    BY <1>3, <1>5 DEF VerdictOK, Moved, Issued
  <1>7. Ending(o, v) /\ v.id = pend[k].id /\ v.req = pend[k].req
    BY <1>1, <1>2, <1>3
  <1> QED BY <1>3, <1>4, <1>6, <1>7, ActEnds

LEMMA ActGoes ==
    ASSUME IInv, NEW m, NEW k, NEW o, Takes(m, k, o), NEW x, NEW q,
           Going(o, x, Request(x, x.stage, q)),
           x.id = pend[k].id, x.req = pend[k].req, x.asof = pend[k].asof,
           ActOK(x), Question(Request(x, x.stage, q)), Asked(x, q),
           x.stage # "generation", x.stage = "claim" => pend[k].stage = "generation"
    PROVE  IInv'
  <1>1. PICK w : w = Request(x, x.stage, q)
    OBVIOUS
  <1>2. w.corr = <<x.id, x.stage>> /\ w.q = q /\ Going(o, x, w) /\ Question(w)
    BY <1>1 DEF Request
  <1>3. /\ UNCHANGED <<scn, led, answers, now, next>> /\ mail' = mail \ {m}
        /\ k \in Live /\ Enact(k, o) /\ m \in mail /\ m.corr = <<x.id, pend[k].stage>>
    BY DEF Takes, Taken
  <1>4. /\ done' = done /\ acked' = acked /\ outq' = outq
        /\ pend' = [pend EXCEPT ![k] = x] /\ wire' = wire \cup {w}
    BY <1>2, <1>3, EnactGoes
  <1>5. next \in Nat /\ next' \in Nat /\ next <= next' /\ next' <= scn.reqs + 1
    BY <1>3 DEF IInv, TypeOK
  <1>6. ActOK(x)'
    BY <1>4, <1>5, ActStays
  <1>7. k \in Slots /\ x.asof <= acked[x.req.scope]
    BY <1>3, LiveFacts DEF IInv, ActsOK
  <1>8. m.corr[1] = x.id
    BY <1>3
  <1>9. /\ \A j \in Live \ {k} : pend[j].id # x.id
        /\ \A d \in done : d.id # x.id
        /\ \A v \in wire : v.corr[1] # x.id
        /\ \A n \in mail' : n.corr[1] # x.id
    BY <1>3, <1>8 DEF IInv, ActsOK, VerdictsOK, OneMessage
  <1>10. x.stage = "claim" => Unborn(x.id)
    BY <1>3 DEF Unborn
  <1>11. UNCHANGED <<scn, led, done, acked, now, outq, answers>> /\ mail' \subseteq mail
    BY <1>3, <1>4
  <1>12. Arrives(k, x, w)
    BY <1>2, <1>4, <1>5, <1>6, <1>7, <1>9, <1>10, <1>11 DEF Arrives
  <1> QED BY <1>12, ArrivesInv

(* What the ledger told of a generation.                                   *)
LEMMA CurrentIs ==
    ASSUME IInv, NEW m \in mail, NEW k \in Live, m.corr = <<pend[k].id, pend[k].stage>>,
           pend[k].stage = "generation", m.status \in {"ok", "not_found"}
    PROVE  /\ Current(m) \in Nat /\ Current(m) >= pend[k].asof
           /\ m.status = "ok" => m.val = Generation(Current(m))
  <1>1. PICK e : e = pend[k] /\ ActOK(e)
    BY LiveFacts
  <1>2. m.corr[1] = e.id /\ e.asof \in Nat /\ e.stage = "generation"
    BY <1>1 DEF ActOK, IsAct
  <1>3. Tells(e, m)
    BY <1>1, <1>2 DEF IInv, WireOK
  <1> QED BY <1>1, <1>2, <1>3 DEF Tells, Current, IsGeneration

Refusing(k, o) ==
    \E st : /\ st # "ok" /\ Ending(o, Verdict(pend[k], st, Nothing))
            /\ st = "expired" /\ pend[k].req.op = "consume" => Lapsed(GrantKey(pend[k].req.grant))

LEMMA RefusingInv ==
    ASSUME IInv, NEW m, NEW k, NEW o, Takes(m, k, o), Refusing(k, o) PROVE IInv'
  <1>1. PICK st : /\ st # "ok" /\ Ending(o, Verdict(pend[k], st, Nothing))
                  /\ st = "expired" /\ pend[k].req.op = "consume" =>
                        Lapsed(GrantKey(pend[k].req.grant))
    BY DEF Refusing
  <1> QED BY <1>1, ActRefuses

LEMMA RefusesRefuses ==
    \A k, e, o, st : /\ e = pend[k] /\ st \notin {"ok", "expired"}
                     /\ o = Refuses(e, st) \/ o = [Refuses(e, st) EXCEPT !.fault = 1]
                     => Refusing(k, o)
  <1> SUFFICES ASSUME NEW k, NEW e, e = pend[k], NEW o, NEW st, st \notin {"ok", "expired"},
                      o = Refuses(e, st) \/ o = [Refuses(e, st) EXCEPT !.fault = 1]
               PROVE  Refusing(k, o)
    OBVIOUS
  <1>1. PICK v : v = Verdict(e, st, Nothing)
    OBVIOUS
  <1>2. Ending(Refuses(e, st), v) /\ Ending([Refuses(e, st) EXCEPT !.fault = 1], v)
    BY <1>1 DEF Ending, Refuses, Says
  <1> QED BY <1>1, <1>2 DEF Refusing

(* An act, at another stage.                                               *)
LEMMA StageIs ==
    ASSUME NEW e, IsAct(e), NEW st, NEW x, x = [e EXCEPT !.stage = st]
    PROVE  /\ IsAct(x) /\ x.stage = st
           /\ x.id = e.id /\ x.req = e.req /\ x.asof = e.asof /\ x.doc = e.doc
           /\ x.gen = e.gen /\ x.end = e.end
  BY DEF IsAct

LEMMA GenIs ==
    ASSUME NEW e, IsAct(e), NEW g, NEW x, x = [e EXCEPT !.gen = g]
    PROVE  /\ IsAct(x) /\ x.gen = g
           /\ x.id = e.id /\ x.req = e.req /\ x.asof = e.asof /\ x.doc = e.doc
  BY DEF IsAct

LEMMA EndIs ==
    ASSUME NEW e, IsAct(e), NEW end, NEW x, x = [e EXCEPT !.end = end]
    PROVE  /\ IsAct(x) /\ x.end = end
           /\ x.id = e.id /\ x.req = e.req /\ x.asof = e.asof /\ x.doc = e.doc
  BY DEF IsAct

Stamped(e, g, h) == [e EXCEPT !.doc.gen = g, !.doc.key = h, !.gen = g]

LEMMA StampIs ==
    ASSUME NEW e, IsAct(e), IsGrant(e.doc), NEW g, NEW h, NEW x, x = Stamped(e, g, h)
    PROVE  /\ IsAct(x) /\ IsGrant(x.doc) /\ x.doc.gen = g /\ x.doc.nonce = e.doc.nonce
           /\ x.id = e.id /\ x.req = e.req /\ x.asof = e.asof
  <1>1. PICK d : d = e.doc
    OBVIOUS
  <1>2. PICK y : y = [d EXCEPT !.gen = g]
    OBVIOUS
  <1>3. PICK z : z = [y EXCEPT !.key = h]
    OBVIOUS
  <1>4. IsGrant(z) /\ z.gen = g /\ z.nonce = d.nonce
    BY <1>1, <1>2, <1>3 DEF IsGrant
  <1>5. x = [e EXCEPT !.doc = z, !.gen = g]
    BY <1>1, <1>2, <1>3 DEF IsAct, Stamped
  <1>6. /\ IsAct(x) /\ x.doc = z /\ x.id = e.id /\ x.req = e.req /\ x.asof = e.asof
    BY <1>5 DEF IsAct
  <1> QED BY <1>1, <1>4, <1>6

LEMMA ClaimsInv ==
    ASSUME IInv, NEW m, NEW k, NEW o, Takes(m, k, o), NEW st,
           pend[k].stage = "generation", m.status \in {"ok", "not_found"},
           pend[k].req.op \in {"issue", "check"},
           st = IF pend[k].req.op = "issue" THEN "issued" ELSE "consumed",
           o \in Claims(pend[k], m, st)
    PROVE  IInv'
  <1>1. PICK e : e = pend[k] /\ ActOK(e)
    BY LiveFacts DEF Takes
  <1>2. /\ IsAct(e) /\ IsGrant(e.doc) /\ e.req.op \in {"issue", "check"}
        /\ e.req.op = "issue" => e.doc.nonce = e.id
        /\ e.req.op = "check" => e.doc.nonce \in Challenges
    BY <1>1 DEF ActOK
  <1>3. PICK c : c = Current(m)
    OBVIOUS
  <1>4. c \in Nat /\ c >= e.asof
    BY <1>1, <1>3, CurrentIs DEF Takes
  <1>5. PICK x : x = Stamped(e, c, key)
    OBVIOUS
  <1>6. /\ IsAct(x) /\ IsGrant(x.doc) /\ x.doc.gen = c /\ x.doc.nonce = e.doc.nonce
        /\ x.id = e.id /\ x.req = e.req /\ x.asof = e.asof
    BY <1>2, <1>5, StampIs
  <1>7. PICK y : y = [x EXCEPT !.stage = "claim"]
    OBVIOUS
  <1>8. /\ IsAct(y) /\ y.stage = "claim"
        /\ y.id = e.id /\ y.req = e.req /\ y.asof = e.asof /\ y.doc = x.doc
    BY <1>6, <1>7, StageIs
  <1>9. ActOK(y)
    BY <1>1, <1>2, <1>4, <1>6, <1>8 DEF ActOK
  <1>10. PICK q : q = PutIfAbsent(GrantKey(x.doc), State(st, x.doc))
    OBVIOUS
  <1>11. Asked(y, q)
    BY <1>1, <1>8, <1>10 DEF Asked
  <1>12. PICK w : w = Request(y, "claim", q)
    OBVIOUS
  <1>13. w.corr[1] = y.id /\ w.corr[2] = "claim" /\ w.q = q
    BY <1>12 DEF Request
  <1>14. Question(w)
    BY <1>1, <1>2, <1>6, <1>8, <1>10, <1>13 DEF Question
  <1>15. Request(x, "claim", q) = w
    BY <1>6, <1>8, <1>12 DEF Request
  <1>16. CASE o = Refuses(e, "no_issuer_key")
    <2>1. \E s \in {"no_issuer_key"} : o = Refuses(e, s)
      BY <1>16
    <2>2. Refusing(k, o)
      BY <1>1, <2>1, RefusesRefuses
    <2> QED BY <2>2, RefusingInv
  <1>17. CASE o \in Asks(x, "claim", q)
    <2>1. CASE Going(o, y, w)
      BY <1>1, <1>8, <1>9, <1>11, <1>12, <1>14, <2>1, ActGoes
    <2>2. CASE Ending(o, Verdict(x, "unavailable", Nothing))
      <3>1. Verdict(x, "unavailable", Nothing) = Verdict(e, "unavailable", Nothing)
        BY <1>6 DEF Verdict
      <3>2. Refusing(k, o)
        BY <1>1, <2>2, <3>1 DEF Refusing
      <3> QED BY <3>2, RefusingInv
    <2> QED BY <1>7, <1>8, <1>15, <1>17, <2>1, <2>2, AsksGoes
  <1>18. o = Refuses(e, "no_issuer_key") \/ o \in Asks(x, "claim", q)
    BY <1>1, <1>3, <1>5, <1>10 DEF Claims, Stamped
  <1> QED BY <1>16, <1>17, <1>18

LEMMA AdvanceInv ==
    ASSUME IInv, NEW m, NEW k, NEW o, Takes(m, k, o),
           pend[k].stage = "generation", m.status \in {"ok", "not_found"},
           pend[k].req.op \in Advances, o \in Advance(pend[k], m)
    PROVE  IInv'
  <1>1. PICK e : e = pend[k] /\ ActOK(e)
    BY LiveFacts DEF Takes
  <1>2. IsAct(e) /\ e.req.op \in Advances /\ e.req.scope \in Scopes /\ e.req.target \in Nat
    BY <1>1 DEF ActOK, IsRequest
  <1>3. PICK c : c = Current(m)
    OBVIOUS
  <1>4. c \in Nat /\ (m.status = "ok" => m.val = Generation(c))
    BY <1>1, <1>3, CurrentIs DEF Takes
  <1>5. CASE e.req.target <= c
    <2>1. \E st \in {"not_advanced"} : o = Refuses(e, st)
      BY <1>1, <1>3, <1>5 DEF Advance
    <2>2. Refusing(k, o)
      BY <1>1, <2>1, RefusesRefuses
    <2> QED BY <2>2, RefusingInv
  <1>6. CASE ~(e.req.target <= c)
    <2>1. PICK x : x = [e EXCEPT !.gen = e.req.target]
      OBVIOUS
    <2>2. IsAct(x) /\ x.gen = e.req.target /\ x.id = e.id /\ x.req = e.req /\ x.asof = e.asof /\ x.doc = e.doc
      BY <1>2, <2>1, GenIs
    <2>3. PICK y : y = [x EXCEPT !.stage = "set"]
      OBVIOUS
    <2>4. /\ IsAct(y) /\ y.stage = "set" /\ y.gen = e.req.target
          /\ y.id = e.id /\ y.req = e.req /\ y.asof = e.asof /\ y.doc = e.doc
      BY <2>2, <2>3, StageIs
    <2>5. e.req.target \in Nat \ {0} /\ c < e.req.target
      BY <1>2, <1>4, <1>6
    <2>6. ActOK(y)
      BY <1>1, <1>2, <2>4, <2>5 DEF ActOK, Advances
    <2>7. PICK q : q = IF m.status = "ok"
                         THEN CompareAndSwap(GenKey(e.req.scope), m.val, Generation(e.req.target))
                         ELSE PutIfAbsent(GenKey(e.req.scope), Generation(e.req.target))
      OBVIOUS
    <2>8. Asked(y, q)
      BY <2>4, <2>7 DEF Asked, CompareAndSwap, PutIfAbsent
    <2>9. PICK w : w = Request(y, "set", q)
      OBVIOUS
    <2>10. w.corr[1] = y.id /\ w.corr[2] = "set" /\ w.q = q
      BY <2>9 DEF Request
    <2>11. Question(w)
      BY <1>2, <1>4, <2>5, <2>7, <2>10 DEF Question
    <2>12. Request(x, "set", q) = w
      BY <2>2, <2>4, <2>9 DEF Request
    <2>13. o \in Asks(x, "set", q)
      BY <1>1, <1>3, <1>6, <2>1, <2>7 DEF Advance
    <2>14. CASE Going(o, y, w)
      BY <1>1, <2>4, <2>6, <2>8, <2>9, <2>11, <2>14, ActGoes
    <2>15. CASE Ending(o, Verdict(x, "unavailable", Nothing))
      <3>1. Verdict(x, "unavailable", Nothing) = Verdict(e, "unavailable", Nothing)
        BY <2>2 DEF Verdict
      <3>2. Refusing(k, o)
        BY <1>1, <2>15, <3>1 DEF Refusing
      <3> QED BY <3>2, RefusingInv
    <2> QED BY <2>3, <2>4, <2>12, <2>13, <2>14, <2>15, AsksGoes
  <1> QED BY <1>5, <1>6

LEMMA AdvancedInv ==
    ASSUME IInv, NEW m, NEW k, NEW o, Takes(m, k, o), pend[k].stage = "set",
           o \in Advanced(pend[k], m)
    PROVE  IInv'
  <1>1. PICK e : e = pend[k] /\ ActOK(e)
    BY LiveFacts DEF Takes
  <1>2. /\ e.stage = "set" /\ e.req.op \in Advances /\ e.gen \in Nat \ {0}
        /\ e.req.scope \in Scopes /\ e.id \in Ids /\ e.id < next
    BY <1>1 DEF ActOK, IsRequest
  <1>3. CASE m.status # "ok"
    <2>1. \E st \in {"conflict", "unavailable"} : o = Refuses(e, st)
      BY <1>1, <1>3 DEF Advanced
    <2>2. Refusing(k, o)
      BY <1>1, <2>1, RefusesRefuses
    <2> QED BY <2>2, RefusingInv
  <1>4. CASE m.status = "ok"
    <2>1. PICK v : v = Verdict(e, "ok", Generation(e.gen))
      OBVIOUS
    <2>2. /\ IsVerdict(v) /\ v.id = e.id /\ v.req = e.req /\ v.status = "ok"
          /\ v.body = Generation(e.gen) /\ v.body.n = e.gen
      BY <2>1 DEF IsVerdict, Verdict, Generation
    <2>3. Ending(o, v)
      BY <1>1, <1>4, <2>1 DEF Advanced, Ending, Says
    <2>4. m.corr[1] = e.id /\ m \in mail /\ k \in Live
      BY <1>1 DEF Takes
    <2>5. Tells(e, m)
      BY <1>1, <2>4 DEF IInv, WireOK
    <2>6. led[GenKey(e.req.scope)] # Nothing /\ led[GenKey(e.req.scope)].n >= e.gen
      BY <1>2, <1>4, <2>5 DEF Tells
    <2>7. VerdictOK(v)
      BY <1>2, <2>2 DEF VerdictOK, Moved, Issued, Advances, Operations
    <2> QED BY <1>1, <1>2, <2>2, <2>3, <2>6, <2>7, ActEnds DEF Advances
  <1> QED BY <1>3, <1>4

(* A decision on a grant: the act is at the end of its last stage.         *)
LEMMA DocIs ==
    ASSUME NEW e
    PROVE  /\ Doc(e).kind = "doc" /\ Doc(e).doc = e.doc /\ Doc(e).asof = e.asof /\ Doc(e).at = now
  BY DEF Doc

LEMMA OnClaimInv ==
    ASSUME IInv, NEW m, NEW k, NEW o, Takes(m, k, o), pend[k].stage = "claim",
           o \in OnClaim(pend[k], m)
    PROVE  IInv'
  <1>1. PICK e : e = pend[k] /\ ActOK(e)
    BY LiveFacts DEF Takes
  <1>2. /\ e.stage = "claim" /\ e.req.op \in {"issue", "check"} /\ e.id \in Ids /\ e.id < next
        /\ IsGrant(e.doc) /\ e.doc.gen >= e.asof
        /\ e.req.op = "issue" => e.doc.nonce = e.id
        /\ e.req.op = "check" => e.doc.nonce \in Challenges
    BY <1>1 DEF ActOK
  <1>3. CASE m.status # "ok"
    <2>1. \E st \in {"replayed", "conflict", "unavailable"} : o = Refuses(e, st)
      BY <1>1, <1>3 DEF OnClaim
    <2>2. Refusing(k, o)
      BY <1>1, <2>1, RefusesRefuses
    <2> QED BY <2>2, RefusingInv
  <1>4. CASE m.status = "ok"
    <2>1. PICK b : b = Doc(e)
      OBVIOUS
    <2>2. b.kind = "doc" /\ b.doc = e.doc /\ b.asof = e.asof /\ b.at = now
      BY <2>1, DocIs
    <2>3. PICK v : v = Verdict(e, "ok", b)
      OBVIOUS
    <2>4. /\ IsVerdict(v) /\ v.id = e.id /\ v.req = e.req /\ v.status = "ok" /\ v.body = b
      BY <2>3 DEF IsVerdict, Verdict
    <2>5. Ending(o, v)
      BY <1>1, <1>4, <2>1, <2>3 DEF OnClaim, Ending, Says
    <2>6. VerdictOK(v)
      BY <1>2, <2>2, <2>4 DEF VerdictOK, Moved, Issued, Operations, IInv, TypeOK
    <2>7. m.corr[1] = e.id /\ m \in mail /\ k \in Live
      BY <1>1 DEF Takes
    <2>8. ~Unborn(e.id)
      <3>1. \A w \in wire : w.corr[1] # e.id
        BY <2>7 DEF IInv, OneMessage
      <3>2. \A j \in Live : pend[j].id = e.id => j = k
        BY <1>1, <2>7 DEF IInv, ActsOK
      <3>3. ~(e.id >= next)
        BY <1>2 DEF Ids, IInv, TypeOK
      <3> QED BY <1>1, <1>2, <3>1, <3>2, <3>3 DEF Unborn
    <2>9. e.req.op = "check" => Admitted(e.id, GrantKey(e.doc), e.doc.expiry, now)
      BY <1>1, <1>2, <1>4, <2>7 DEF Admitted, ToldOk
    <2> QED BY <1>1, <1>2, <2>2, <2>4, <2>5, <2>6, <2>8, <2>9, ActEnds
  <1> QED BY <1>3, <1>4

LEMMA OnMarkInv ==
    ASSUME IInv, NEW m, NEW k, NEW o, Takes(m, k, o), pend[k].stage = "mark",
           o \in OnMark(pend[k], m)
    PROVE  IInv'
  <1>1. PICK e : e = pend[k] /\ ActOK(e)
    BY LiveFacts DEF Takes
  <1>2. /\ e.stage = "mark" /\ e.req.op = "consume" /\ e.id \in Ids /\ e.id < next
        /\ e.doc = e.req.grant /\ e.doc \in IssuedDocs /\ e.doc.gen >= e.asof
        /\ e.end \in {"ok", "expired"}
    BY <1>1 DEF ActOK
  <1>3. CASE m.status # "ok"
    <2>1. \E st \in {"replayed", "unavailable"} : o = Refuses(e, st)
      BY <1>1, <1>3 DEF OnMark
    <2>2. Refusing(k, o)
      BY <1>1, <2>1, RefusesRefuses
    <2> QED BY <2>2, RefusingInv
  <1>4. CASE m.status = "ok"
    <2>1. PICK b : b = Doc(e)
      OBVIOUS
    <2>2. b.kind = "doc" /\ b.doc = e.doc /\ b.asof = e.asof /\ b.at = now
      BY <2>1, DocIs
    <2>3. PICK v : v = Verdict(e, e.end, b)
      OBVIOUS
    <2>4. /\ IsVerdict(v) /\ v.id = e.id /\ v.req = e.req /\ v.status = e.end /\ v.body = b
      BY <2>3 DEF IsVerdict, Verdict
    <2>5. Ending(o, v)
      BY <1>1, <1>4, <2>1, <2>3 DEF OnMark, Ending, Says
    <2>6. VerdictOK(v)
      BY <1>2, <2>2, <2>4 DEF VerdictOK, Moved, Issued, Operations
    <2>7. ToldOk(k) /\ k \in Live
      BY <1>1, <1>4 DEF Takes, ToldOk
    <2>8. e.end = "ok" => e.id \in Consumers(GrantKey(e.req.grant))
      BY <1>1, <1>2, <2>7 DEF Consumers
    <2>9. e.end = "expired" => Lapsed(GrantKey(e.req.grant))
      BY <1>1, <1>2, <2>7 DEF Lapsed
    <2> QED BY <1>1, <1>2, <2>2, <2>4, <2>5, <2>6, <2>8, <2>9, ActEnds
  <1> QED BY <1>3, <1>4

LEMMA OnStateInv ==
    ASSUME IInv, NEW m, NEW k, NEW o, Takes(m, k, o), pend[k].stage = "state",
           o \in OnState(pend[k], m)
    PROVE  IInv'
  <1>1. PICK e : e = pend[k] /\ ActOK(e)
    BY LiveFacts DEF Takes
  <1>2. /\ e.stage = "state" /\ e.req.op = "consume" /\ IsAct(e)
        /\ e.doc = e.req.grant /\ e.doc \in IssuedDocs /\ e.doc.gen >= e.asof
    BY <1>1 DEF ActOK
  <1>3. IsGrant(e.doc) /\ e.doc.nonce \in Ids
    BY <1>2, IssuedAre
  <1>4. m.corr[1] = e.id /\ m \in mail /\ k \in Live
    BY <1>1 DEF Takes
  <1>5. Tells(e, m)
    BY <1>1, <1>4 DEF IInv, WireOK
  <1>6. CASE \E st \in {"unknown_grant", "replayed", "unavailable"} : o = Refuses(e, st)
    <2>1. Refusing(k, o)
      BY <1>1, <1>6, RefusesRefuses
    <2> QED BY <2>1, RefusingInv
  <1>7. CASE m.status = "ok" /\ m.val.state = "expired" /\ o = Refuses(e, "expired")
    <2>1. Lapsed(GrantKey(e.req.grant))
      BY <1>1, <1>2, <1>4, <1>7 DEF Lapsed
    <2>2. PICK st : st = "expired"
      OBVIOUS
    <2>3. Ending(o, Verdict(e, st, Nothing))
      BY <1>7, <2>2 DEF Ending, Refuses, Says
    <2>4. Refusing(k, o)
      BY <1>1, <2>1, <2>2, <2>3 DEF Refusing
    <2> QED BY <2>4, RefusingInv
  <1>8. ASSUME m.status = "ok", m.val.doc = e.doc, m.val.state \notin {"consumed", "expired"},
               NEW end \in {"ok", "expired"}, NEW st,
               st = IF end = "ok" THEN "consumed" ELSE "expired",
               NEW x, x = [e EXCEPT !.end = end], NEW q,
               q = CompareAndSwap(GrantKey(e.doc), m.val, State(st, e.doc)),
               o \in Asks(x, "mark", q)
        PROVE  IInv'
    <2>1. m.val = State("issued", e.doc)
      <3>1. IsState(m.val)
        BY <1>2, <1>5, <1>8 DEF Tells
      <3> QED BY <1>3, <1>8, <3>1 DEF IsState
    <2>2. /\ IsAct(x) /\ x.end = end /\ x.id = e.id /\ x.req = e.req /\ x.asof = e.asof
          /\ x.doc = e.doc
      BY <1>2, <1>8, EndIs
    <2>3. PICK y : y = [x EXCEPT !.stage = "mark"]
      OBVIOUS
    <2>4. /\ IsAct(y) /\ y.stage = "mark" /\ y.end = end
          /\ y.id = e.id /\ y.req = e.req /\ y.asof = e.asof /\ y.doc = e.doc
      BY <2>2, <2>3, StageIs
    <2>5. ActOK(y)
      BY <1>1, <1>2, <1>8, <2>4 DEF ActOK
    <2>6. Asked(y, q)
      BY <1>8, <2>1, <2>4 DEF Asked
    <2>7. PICK w : w = Request(y, "mark", q)
      OBVIOUS
    <2>8. w.corr[1] = y.id /\ w.corr[2] = "mark" /\ w.q = q
      BY <2>7 DEF Request
    <2>9. st \in {"consumed", "expired"}
      BY <1>8
    <2>10. Question(w)
      BY <1>2, <1>8, <2>1, <2>8, <2>9 DEF Question
    <2>11. Request(x, "mark", q) = w
      BY <2>2, <2>4, <2>7 DEF Request
    <2>12. CASE Going(o, y, w)
      BY <1>1, <2>4, <2>5, <2>6, <2>7, <2>10, <2>12, ActGoes
    <2>13. CASE Ending(o, Verdict(x, "unavailable", Nothing))
      <3>1. Verdict(x, "unavailable", Nothing) = Verdict(e, "unavailable", Nothing)
        BY <2>2 DEF Verdict
      <3>2. Refusing(k, o)
        BY <1>1, <2>13, <3>1 DEF Refusing
      <3> QED BY <3>2, RefusingInv
    <2> QED BY <1>8, <2>3, <2>4, <2>11, <2>12, <2>13, AsksGoes
  <1>9. PICK end \in {"ok", "expired"} : end = IF now >= e.doc.expiry THEN "expired" ELSE "ok"
    OBVIOUS
  <1>10. PICK st : st = IF now >= e.doc.expiry THEN "expired" ELSE "consumed"
    OBVIOUS
  <1>11. PICK x : x = [e EXCEPT !.end = end]
    OBVIOUS
  <1>12. PICK q : q = CompareAndSwap(GrantKey(e.doc), m.val, State(st, e.doc))
    OBVIOUS
  <1>13. st = IF end = "ok" THEN "consumed" ELSE "expired"
    BY <1>9, <1>10
  <1>14. \/ \E s \in {"unknown_grant", "replayed", "unavailable"} : o = Refuses(e, s)
         \/ m.status = "ok" /\ m.val.state = "expired" /\ o = Refuses(e, "expired")
         \/ /\ m.status = "ok" /\ m.val.doc = e.doc /\ m.val.state \notin {"consumed", "expired"}
            /\ o \in Asks(x, "mark", q)
    BY <1>1, <1>9, <1>10, <1>11, <1>12 DEF OnState
  <1> QED BY <1>6, <1>7, <1>8, <1>11, <1>12, <1>13, <1>14

LEMMA ReadsStateInv ==
    ASSUME IInv, NEW m, NEW k, NEW o, Takes(m, k, o),
           pend[k].stage = "generation", m.status \in {"ok", "not_found"},
           pend[k].req.op = "consume", pend[k].doc.gen = Current(m),
           o \in Asks(pend[k], "state", Get(GrantKey(pend[k].doc)))
    PROVE  IInv'
  <1>1. PICK e : e = pend[k] /\ ActOK(e)
    BY LiveFacts DEF Takes
  <1>2. /\ IsAct(e) /\ e.req.op = "consume" /\ e.doc = e.req.grant /\ e.doc \in IssuedDocs
    BY <1>1 DEF ActOK
  <1>3. e.doc.gen >= e.asof
    BY <1>1, CurrentIs DEF Takes
  <1>4. PICK x : x = [e EXCEPT !.stage = "state"]
    OBVIOUS
  <1>5. /\ IsAct(x) /\ x.stage = "state"
        /\ x.id = e.id /\ x.req = e.req /\ x.asof = e.asof /\ x.doc = e.doc
    BY <1>2, <1>4, StageIs
  <1>6. ActOK(x)
    BY <1>1, <1>2, <1>3, <1>5 DEF ActOK
  <1>7. PICK q : q = Get(GrantKey(e.doc))
    OBVIOUS
  <1>8. q.op = "get" /\ q.key = GrantKey(e.doc) /\ Asked(x, q)
    BY <1>5, <1>7 DEF Get, Asked
  <1>9. q.key \in LedgerKeys
    BY <1>2, <1>8, IssuedAre, KeysAreKeys
  <1>10. PICK w : w = Request(x, "state", q)
    OBVIOUS
  <1>11. w.corr[1] = x.id /\ w.corr[2] = "state" /\ w.q = q
    BY <1>10 DEF Request
  <1>12. Question(w)
    BY <1>8, <1>9, <1>11 DEF Question
  <1>13. Request(e, "state", q) = w
    BY <1>5, <1>10 DEF Request
  <1>14. o \in Asks(e, "state", q)
    BY <1>1, <1>7
  <1>15. CASE Going(o, x, w)
    BY <1>1, <1>5, <1>6, <1>8, <1>10, <1>12, <1>15, ActGoes
  <1>16. CASE Ending(o, Verdict(e, "unavailable", Nothing))
    <2>1. Refusing(k, o)
      BY <1>1, <1>16 DEF Refusing
    <2> QED BY <2>1, RefusingInv
  <1> QED BY <1>4, <1>5, <1>13, <1>14, <1>15, <1>16, AsksGoes

LEMMA OnGenerationInv ==
    ASSUME IInv, NEW m, NEW k, NEW o, Takes(m, k, o),
           pend[k].stage = "generation", pend[k].req.svc # "attach",
           o \in OnGeneration(pend[k], m)
    PROVE  IInv'
  <1>1. PICK e : e = pend[k] /\ ActOK(e)
    BY LiveFacts DEF Takes
  <1>2. e.req.op \in {"issue", "check", "consume"} \cup Advances
    BY <1>1 DEF ActOK, IsRequest, Operations, Advances
  <1>3. CASE \E st \in {"unavailable", "invalidated"} : o = Refuses(e, st)
    <2>1. Refusing(k, o)
      BY <1>1, <1>3, RefusesRefuses
    <2> QED BY <2>1, RefusingInv
  <1>4. CASE m.status \notin {"ok", "not_found"}
    <2>1. o = Refuses(e, "unavailable")
      BY <1>1, <1>4 DEF OnGeneration
    <2> QED BY <1>3, <2>1
  <1>5. CASE m.status \in {"ok", "not_found"}
    <2>1. CASE e.req.op = "issue"
      <3>1. o \in Claims(e, m, "issued")
        BY <1>1, <1>5, <2>1 DEF OnGeneration
      <3> QED BY <1>1, <1>5, <2>1, <3>1, ClaimsInv
    <2>2. CASE e.req.op = "check"
      <3>1. o \in Claims(e, m, "consumed")
        BY <1>1, <1>5, <2>2 DEF OnGeneration
      <3> QED BY <1>1, <1>5, <2>2, <3>1, ClaimsInv
    <2>3. CASE e.req.op = "consume"
      <3>1. \/ o = Refuses(e, "invalidated")
            \/ e.doc.gen = Current(m) /\ o \in Asks(e, "state", Get(GrantKey(e.doc)))
        BY <1>1, <1>5, <2>3 DEF OnGeneration
      <3>2. CASE o = Refuses(e, "invalidated")
        BY <1>3, <3>2
      <3>3. CASE e.doc.gen = Current(m) /\ o \in Asks(e, "state", Get(GrantKey(e.doc)))
        BY <1>1, <1>5, <2>3, <3>3, ReadsStateInv
      <3> QED BY <3>1, <3>2, <3>3
    <2>4. CASE e.req.op \in Advances
      <3>1. e.req.op \notin {"issue", "check", "consume"}
        BY <2>4 DEF Advances
      <3>2. o \in Advance(e, m)
        BY <1>1, <1>5, <3>1 DEF OnGeneration
      <3> QED BY <1>1, <1>5, <2>4, <3>2, AdvanceInv
    <2> QED BY <1>2, <2>1, <2>2, <2>3, <2>4
  <1> QED BY <1>4, <1>5

(***************************************************************************)
(* Attachments.                                                            *)
(***************************************************************************)
Signed(p, h) == [p EXCEPT !.key = h]
Dated(p, g)  == [p EXCEPT !.gen = g]

LEMMA SignedIs ==
    ASSUME NEW p, IsPublication(p), NEW h, NEW x, x = Signed(p, h)
    PROVE  /\ IsPublication(x) /\ x.gen = p.gen /\ x.expiry = p.expiry /\ x.quota = p.quota
           /\ x.to = p.to
  BY DEF IsPublication, Signed

LEMMA DatedIs ==
    ASSUME NEW p, IsPublication(p), NEW g, NEW x, x = Dated(p, g)
    PROVE  IsPublication(x) /\ x.gen = g
  BY DEF IsPublication, Dated

LEMMA AttachmentIs ==
    ASSUME NEW p, IsPublication(p), NEW b, b.ttl \in Nat, NEW i, now \in Nat,
           NEW x, x = Attachment(b, p, i), now < p.expiry
    PROVE  /\ IsPublication(x) /\ x.gen = p.gen /\ x.quota = b.quota
           /\ x.to.tenant = b.tenant /\ x.to.domain = b.by.domain
           /\ x.expiry <= p.expiry /\ now < x.expiry
  <1>1. p.expiry \in Nat
    BY DEF IsPublication
  <1>2. PICK n : n = now + Clamp(b.ttl, MaxGrant)
    OBVIOUS
  <1>3. n \in Nat /\ now < n
    <2>1. PICK ttl, top : ttl = b.ttl /\ top = MaxGrant /\ ttl \in Nat /\ top \in Nat
      BY GrBounds
    <2>2. Clamp(ttl, top) \in Nat \ {0}
      BY <2>1, ClampIsLong
    <2> QED BY <1>2, <2>1, <2>2
  <1>4. PICK z : z = Min({n, p.expiry})
    OBVIOUS
  <1>5. z \in Nat /\ z <= p.expiry /\ now < z
    BY <1>1, <1>3, <1>4, MinTwo
  <1>6. PICK t : t = [tenant |-> b.tenant, domain |-> b.by.domain]
    OBVIOUS
  <1>7. x = [p EXCEPT !.sort = "grant", !.quota = b.quota, !.issued = now, !.id = i, !.key = key,
                      !.to = t, !.expiry = z]
    BY <1>2, <1>4, <1>6 DEF Attachment
  <1>8. /\ x.gen = p.gen /\ x.quota = b.quota /\ x.to = t /\ x.expiry = z
    BY <1>7 DEF IsPublication
  <1>9. IsPublication(x)
    BY <1>5, <1>7 DEF IsPublication
  <1> QED BY <1>5, <1>6, <1>8, <1>9

LEMMA IssuesInv ==
    ASSUME IInv, NEW m, NEW k, NEW o, Takes(m, k, o),
           pend[k].req.op \in {"publish", "request"}, NEW d, IsPublication(d),
           pend[k].req.op = "request" =>
              /\ d.gen >= pend[k].asof /\ now < d.expiry /\ d.expiry <= pend[k].doc.expiry
              /\ d.gen = pend[k].doc.gen /\ d.quota <= pend[k].doc.quota
              /\ d.to.tenant \in pend[k].doc.tenants /\ d.to.domain \in pend[k].doc.domains,
           o \in Issues(pend[k], d)
    PROVE  IInv'
  <1>1. PICK e : e = pend[k] /\ ActOK(e)
    BY LiveFacts DEF Takes
  <1>2. e.id \in Ids /\ e.id < next
    BY <1>1 DEF ActOK
  <1>3. PICK x : x = Signed(d, key)
    OBVIOUS
  <1>4. /\ IsPublication(x) /\ x.gen = d.gen /\ x.expiry = d.expiry /\ x.quota = d.quota
        /\ x.to = d.to
    BY <1>3, SignedIs
  <1>5. CASE o = Refuses(e, "no_issuer_key")
    <2>1. \E st \in {"no_issuer_key"} : o = Refuses(e, st)
      BY <1>5
    <2>2. Refusing(k, o)
      BY <1>1, <2>1, RefusesRefuses
    <2> QED BY <2>2, RefusingInv
  <1>6. PICK b : b = [kind |-> "doc", doc |-> x, under |-> e.doc, asof |-> e.asof,
                      after |-> acked[e.req.scope], at |-> now]
    OBVIOUS
  <1>7. b.kind = "doc" /\ b.doc = x /\ b.under = e.doc /\ b.asof = e.asof /\ b.at = now
    BY <1>6
  <1>8. CASE o = Says(e, "ok", b)
    <2>1. PICK v : v = Verdict(e, "ok", b)
      OBVIOUS
    <2>2. /\ IsVerdict(v) /\ v.id = e.id /\ v.req = e.req /\ v.status = "ok" /\ v.body = b
      BY <2>1 DEF IsVerdict, Verdict
    <2>3. Ending(o, v)
      BY <1>8, <2>1 DEF Ending, Says
    <2>4. e.req.op = "request" => WithinItsPublication(v)
      BY <1>1, <1>4, <1>7, <2>2 DEF WithinItsPublication
    <2>5. e.req.op = "request" => v.body.doc.gen >= v.body.asof
      BY <1>1, <1>4, <1>7, <2>2
    <2>6. VerdictOK(v)
      BY <1>1, <1>2, <1>4, <1>7, <2>2, <2>4, <2>5 DEF VerdictOK, Moved, Issued, Operations
    <2> QED BY <1>1, <1>7, <2>2, <2>3, <2>6, ActEnds
  <1> QED BY <1>1, <1>3, <1>5, <1>6, <1>8 DEF Issues, Signed

LEMMA OnReadInv ==
    ASSUME IInv, NEW m, NEW k, NEW o, Takes(m, k, o),
           pend[k].stage = "generation", pend[k].req.svc = "attach",
           o \in OnRead(pend[k], m)
    PROVE  IInv'
  <1>1. PICK e : e = pend[k] /\ ActOK(e)
    BY LiveFacts DEF Takes
  <1>2. /\ e.req.op \in {"publish", "request", "revoke"}
        /\ e.req.op \in {"publish", "request"} => IsPublication(e.doc)
        /\ e.req.op = "request" => e.req.ttl \in Nat
    BY <1>1 DEF ActOK, IsRequest
  <1>3. CASE m.status \notin {"ok", "not_found"}
    <2>1. \E st \in {"unavailable"} : o = Refuses(e, st)
      BY <1>1, <1>3 DEF OnRead
    <2>2. Refusing(k, o)
      BY <1>1, <2>1, RefusesRefuses
    <2> QED BY <2>2, RefusingInv
  <1>4. CASE m.status \in {"ok", "not_found"}
    <2>1. PICK c : c = Current(m)
      OBVIOUS
    <2>2. c \in Nat /\ c >= e.asof
      BY <1>1, <1>4, <2>1, CurrentIs DEF Takes
    <2>3. CASE e.req.op = "publish"
      <3>1. PICK d : d = Dated(e.doc, c)
        OBVIOUS
      <3>2. IsPublication(d)
        BY <1>2, <2>3, <3>1, DatedIs
      <3>3. o \in Issues(e, d)
        BY <1>1, <1>4, <2>1, <2>3, <3>1 DEF OnRead, Dated
      <3> QED BY <1>1, <2>3, <3>2, <3>3, IssuesInv
    <2>4. CASE e.req.op = "request"
      <3>1. PICK d : d = Attachment(e.req, e.doc, e.id)
        OBVIOUS
      <3>2. PICK why : why = RequestRefusal(e.req, e.doc, c)
        OBVIOUS
      <3>3. \/ why = "none" /\ o \in Issues(e, d)
            \/ why # "none" /\ o = Refuses(e, why)
            \/ o = [Refuses(e, "busy") EXCEPT !.fault = 1]
        BY <1>1, <1>4, <2>1, <2>4, <3>1, <3>2 DEF OnRead
      <3>4. why # "ok"
        BY <3>2 DEF RequestRefusal
      <3>5. CASE why # "none" /\ o = Refuses(e, why)
        <4>1. Ending(o, Verdict(e, why, Nothing))
          BY <3>5 DEF Ending, Refuses, Says
        <4>2. Refusing(k, o)
          BY <1>1, <2>4, <3>4, <4>1 DEF Refusing
        <4> QED BY <4>2, RefusingInv
      <3>6. CASE o = [Refuses(e, "busy") EXCEPT !.fault = 1]
        <4>1. \E st \in {"busy"} : o = [Refuses(e, st) EXCEPT !.fault = 1]
          BY <3>6
        <4>2. Refusing(k, o)
          BY <1>1, <4>1, RefusesRefuses
        <4> QED BY <4>2, RefusingInv
      <3>7. CASE why = "none" /\ o \in Issues(e, d)
        <4>1. /\ e.doc.gen = c /\ ~(now >= e.doc.expiry) /\ e.req.tenant \in e.doc.tenants
              /\ e.req.by.domain \in e.doc.domains /\ e.req.quota <= e.doc.quota
          BY <3>2, <3>7 DEF RequestRefusal, Within
        <4>2. IsPublication(e.doc) /\ e.doc.expiry \in Nat /\ now \in Nat
          BY <1>2, <2>4 DEF IsPublication, IInv, TypeOK
        <4>3. now < e.doc.expiry
          BY <4>1, <4>2
        <4>4. /\ IsPublication(d) /\ d.gen = e.doc.gen /\ d.quota = e.req.quota
              /\ d.to.tenant = e.req.tenant /\ d.to.domain = e.req.by.domain
              /\ d.expiry <= e.doc.expiry /\ now < d.expiry
          BY <1>2, <2>4, <3>1, <4>2, <4>3, AttachmentIs
        <4> QED BY <1>1, <2>2, <2>4, <3>7, <4>1, <4>4, IssuesInv
      <3> QED BY <3>3, <3>5, <3>6, <3>7
    <2>5. CASE e.req.op = "revoke"
      <3>1. o \in Advance(e, m)
        BY <1>1, <1>4, <2>5 DEF OnRead
      <3> QED BY <1>1, <1>4, <2>5, <3>1, AdvanceInv DEF Advances
    <2> QED BY <1>2, <2>3, <2>4, <2>5
  <1> QED BY <1>3, <1>4

LEMMA OnLedgerInv == ASSUME IInv, NEW m \in mail, NEW k \in Slots, OnLedger(m, k) PROVE IInv'
  <1>1. PICK o \in (IF pend[k].req.svc = "attach" THEN AttachmentStep(pend[k], m)
                                                 ELSE TransferStep(pend[k], m)) : Enact(k, o)
    BY DEF OnLedger
  <1>2. Takes(m, k, o)
    BY <1>1 DEF OnLedger, At, Takes, clock
  <1>3. PICK e : e = pend[k] /\ ActOK(e)
    BY <1>2, LiveFacts DEF Takes
  <1>4. /\ e.stage \in {"generation", "claim", "state", "mark", "set"}
        /\ e.stage = "claim" => e.req.op \in {"issue", "check"}
        /\ e.stage \in {"state", "mark"} => e.req.op = "consume"
        /\ e.req.svc = "attach" <=> e.req.op \in {"publish", "request", "revoke"}
    BY <1>3 DEF ActOK, IsRequest
  <1>5. CASE e.req.svc = "attach"
    <2>1. CASE e.stage = "generation"
      <3>1. o \in OnRead(e, m)
        BY <1>1, <1>3, <1>5, <2>1 DEF AttachmentStep
      <3> QED BY <1>2, <1>3, <1>5, <2>1, <3>1, OnReadInv
    <2>2. CASE e.stage # "generation"
      <3>1. o \in Advanced(e, m)
        BY <1>1, <1>3, <1>5, <2>2 DEF AttachmentStep
      <3>2. e.stage = "set"
        BY <1>4, <1>5, <2>2
      <3> QED BY <1>2, <1>3, <3>1, <3>2, AdvancedInv
    <2> QED BY <2>1, <2>2
  <1>6. CASE e.req.svc # "attach"
    <2>1. o \in TransferStep(e, m)
      BY <1>1, <1>3, <1>6
    <2>2. CASE e.stage = "generation"
      <3>1. o \in OnGeneration(e, m)
        BY <2>1, <2>2 DEF TransferStep
      <3> QED BY <1>2, <1>3, <1>6, <2>2, <3>1, OnGenerationInv
    <2>3. CASE e.stage = "claim"
      <3>1. o \in OnClaim(e, m)
        BY <2>1, <2>3 DEF TransferStep
      <3> QED BY <1>2, <1>3, <2>3, <3>1, OnClaimInv
    <2>4. CASE e.stage = "state"
      <3>1. o \in OnState(e, m)
        BY <2>1, <2>4 DEF TransferStep
      <3> QED BY <1>2, <1>3, <2>4, <3>1, OnStateInv
    <2>5. CASE e.stage = "mark"
      <3>1. o \in OnMark(e, m)
        BY <2>1, <2>5 DEF TransferStep
      <3> QED BY <1>2, <1>3, <2>5, <3>1, OnMarkInv
    <2>6. CASE e.stage = "set"
      <3>1. o \in Advanced(e, m)
        BY <2>1, <2>6 DEF TransferStep
      <3> QED BY <1>2, <1>3, <2>6, <3>1, AdvancedInv
    <2> QED BY <1>4, <2>2, <2>3, <2>4, <2>5, <2>6
  <1> QED BY <1>5, <1>6

(***************************************************************************)
(* Requests.                                                               *)
(***************************************************************************)
NewAct(e) ==
    /\ e.id = next /\ IsAct(e) /\ IsRequest(e.req) /\ e.asof = acked[e.req.scope]
    /\ e.req.op \in {"issue", "check"} => IsGrant(e.doc)
    /\ e.req.op = "issue" => e.doc.nonce = e.id
    /\ e.req.op = "check" => e.doc.nonce \in Challenges
    /\ e.req.op = "consume" => e.doc = e.req.grant /\ e.doc \in IssuedDocs
    /\ e.req.op \in {"publish", "request"} => IsPublication(e.doc)

(* The outcome o of a request, in slot k.                                  *)
Opens(k, o) ==
    /\ next <= scn.reqs /\ next' = next + 1
    /\ o.keep = Free \/ k \in Slots \ Live
    /\ Enact(k, o) /\ UNCHANGED <<scn, led, mail, answers, now>>

LEMMA AcceptOpens ==
    ASSUME NEW outcomes, Accept(outcomes) PROVE \E k : \E o \in outcomes : Opens(k, o)
  <1>1. PICK o \in outcomes : /\ o.keep = Free \/ Live # Slots
                              /\ Enact(IF Live = Slots THEN 0 ELSE FirstFree, o)
    BY DEF Accept
  <1>2. PICK k : k = IF Live = Slots THEN 0 ELSE FirstFree
    OBVIOUS
  <1>3. Live # Slots => k \in Slots \ Live
    BY <1>2, FirstFreeIsFree
  <1> QED BY <1>1, <1>2, <1>3 DEF Accept, Opens, clock

LEMMA NextIsNew ==
    ASSUME IInv, next <= scn.reqs
    PROVE  /\ next \in Ids /\ next \in Nat /\ next + 1 <= scn.reqs + 1
           /\ \A j \in Live : pend[j].id # next
           /\ \A d \in done : d.id # next
           /\ \A w \in wire : w.corr[1] # next
           /\ \A m \in mail : m.corr[1] # next
  <1>1. scn.reqs \in Nat /\ scn.reqs <= MaxReqs /\ MaxReqs \in Nat /\ next \in Nat /\ 1 <= next
    BY GrBounds DEF IInv, TypeOK
  <1>2. \A j \in Live : pend[j].id < next
    BY LiveFacts
  <1>3. \A d \in done : d.id < next
    BY DEF IInv, VerdictsOK, VerdictOK
  <1>4. /\ \A w \in wire : w.corr[1] < next
        /\ \A m \in mail : m.corr[1] < next
    BY DEF IInv, OneMessage, Corr
  <1> QED BY <1>1, <1>2, <1>3, <1>4 DEF Ids

LEMMA OpensRefused ==
    ASSUME IInv, NEW k, NEW o, Opens(k, o), NEW e, NewAct(e), NEW st, st # "ok",
           st = "expired" => e.req.op # "consume", Ending(o, Verdict(e, st, Nothing))
    PROVE  IInv'
  <1>1. PICK v : v = Verdict(e, st, Nothing)
    OBVIOUS
  <1>2. /\ IsVerdict(v) /\ v.id = next /\ v.req = e.req /\ v.status = st /\ v.body = Nothing
    BY <1>1 DEF IsVerdict, Verdict, NewAct
  <1>3. v.body.kind = "none"
    BY <1>2 DEF Nothing
  <1>4. /\ next \in Ids /\ next \in Nat /\ next + 1 <= scn.reqs + 1
        /\ \A j \in Live : pend[j].id # next
    BY NextIsNew DEF Opens
  <1>5. next' \in Nat /\ next <= next' /\ next < next' /\ next' <= scn.reqs + 1
    BY <1>4 DEF Opens
  <1>6. v.req.op \in Operations
    BY <1>2 DEF NewAct, IsRequest
  <1>7. \A j \in Live' : j \in Live /\ pend'[j] = pend[j]
    <2>1. pend = [j \in Slots |-> pend[j]]
      BY DEF IInv, TypeOK
    <2>2. pend' = pend \/ pend' = [pend EXCEPT ![k] = Free]
      BY DEF Opens, Enact, Ending
    <2> QED BY <2>1, <2>2 DEF Live, Free
  <1>8. VerdictOK(v)'
    BY <1>2, <1>4, <1>5, <1>6 DEF VerdictOK, Moved, Issued
  <1>9. Earned(v)
    BY <1>2, <1>4, <1>5, <1>6, <1>7, <1>8 DEF Earned
  <1>10. Ending(o, v) /\ Enact(k, o) /\ UNCHANGED <<scn, led, answers, now>> /\ mail' \subseteq mail
    BY <1>1 DEF Opens
  <1> QED BY <1>2, <1>3, <1>5, <1>9, <1>10, EnactEnds

LEMMA OpensAsks ==
    ASSUME IInv, NEW k, NEW o, Opens(k, o), NEW e, NewAct(e), NEW x, NEW w,
           x = [e EXCEPT !.stage = "generation"],
           w = Request(x, "generation", Get(GenKey(e.req.scope))), Going(o, x, w)
    PROVE  IInv'
  <1>1. /\ IsAct(x) /\ x.stage = "generation" /\ x.id = next /\ x.req = e.req
        /\ x.asof = acked[e.req.scope] /\ x.doc = e.doc
    BY StageIs DEF NewAct
  <1>2. /\ next \in Ids /\ next \in Nat /\ next + 1 <= scn.reqs + 1
        /\ \A j \in Live : pend[j].id # next
        /\ \A d \in done : d.id # next
        /\ \A v \in wire : v.corr[1] # next
        /\ \A m \in mail : m.corr[1] # next
    BY NextIsNew DEF Opens
  <1>3. next' \in Nat /\ next <= next' /\ next < next' /\ next' <= scn.reqs + 1
    BY <1>2 DEF Opens
  <1>4. /\ done' = done /\ acked' = acked /\ outq' = outq
        /\ pend' = [pend EXCEPT ![k] = x] /\ wire' = wire \cup {w}
    BY EnactGoes DEF Opens
  <1>5. k \in Slots
    BY <1>1 DEF Opens, Going, Free
  <1>6. IssuedDocs' = IssuedDocs
    BY <1>4 DEF IssuedDocs
  <1>7. ActOK(x)'
    BY <1>1, <1>2, <1>3, <1>6 DEF ActOK, NewAct
  <1>8. acked[e.req.scope] \in Nat /\ e.req.scope \in Scopes
    BY DEF NewAct, IsRequest, IInv, TypeOK
  <1>9. PICK q : q = Get(GenKey(e.req.scope))
    OBVIOUS
  <1>10. q.op = "get" /\ q.key = GenKey(e.req.scope) /\ w.corr = <<x.id, x.stage>> /\ w.q = q
    BY <1>1, <1>9 DEF Get, Request
  <1>11. Question(w)
    <2>1. q.key \in LedgerKeys
      BY <1>8, <1>10, KeysAreKeys
    <2>2. w.corr[2] = "generation"
      BY <1>1, <1>10
    <2> QED BY <1>10, <2>1, <2>2 DEF Question
  <1>12. Asked(x, w.q)
    BY <1>1, <1>9, <1>10 DEF Asked
  <1>13. Unborn(x.id)
    BY <1>1, <1>2 DEF Unborn
  <1>14. UNCHANGED <<scn, led, done, acked, now, outq, answers>> /\ mail' = mail
    BY <1>4 DEF Opens
  <1>15. Arrives(k, x, w)
    BY <1>1, <1>2, <1>3, <1>4, <1>5, <1>7, <1>8, <1>10, <1>11, <1>12, <1>13, <1>14 DEF Arrives
  <1> QED BY <1>15, ArrivesInv

LEMMA StartInv ==
    ASSUME IInv, NEW outcomes, Accept(outcomes), NEW e, NewAct(e), NEW why, why # "ok",
           why = "expired" => e.req.op # "consume",
           \A o \in outcomes : o \in Start(e, why) \/ o = [Refuses(e, "busy") EXCEPT !.fault = 1]
    PROVE  IInv'
  <1>1. PICK k : \E o \in outcomes : Opens(k, o)
    BY AcceptOpens
  <1>2. PICK o \in outcomes : Opens(k, o)
    BY <1>1
  <1>3. CASE \E st \in {why, "no_issuer_key", "no_clock", "busy"} :
                o = Refuses(e, st) \/ o = [Refuses(e, st) EXCEPT !.fault = 1]
    <2>1. PICK st \in {why, "no_issuer_key", "no_clock", "busy"} :
                o = Refuses(e, st) \/ o = [Refuses(e, st) EXCEPT !.fault = 1]
      BY <1>3
    <2>2. Ending(o, Verdict(e, st, Nothing))
      BY <2>1 DEF Ending, Refuses, Says
    <2>3. st # "ok" /\ (st = "expired" => e.req.op # "consume")
      BY <2>1
    <2> QED BY <1>2, <2>2, <2>3, OpensRefused
  <1>4. CASE o \in Asks(e, "generation", Get(GenKey(e.req.scope)))
    <2>1. PICK x : x = [e EXCEPT !.stage = "generation"]
      OBVIOUS
    <2>2. x.id = e.id /\ x.stage = "generation"
      BY <2>1, StageIs DEF NewAct
    <2>3. PICK w : w = Request(x, "generation", Get(GenKey(e.req.scope)))
      OBVIOUS
    <2>4. w = Request(e, "generation", Get(GenKey(e.req.scope)))
      BY <2>2, <2>3 DEF Request
    <2>5. Going(o, x, w) \/ Ending(o, Verdict(e, "unavailable", Nothing))
      BY <1>4, <2>1, <2>2, <2>4, AsksGoes
    <2>6. CASE Going(o, x, w)
      BY <1>2, <2>1, <2>3, <2>6, OpensAsks
    <2>7. CASE Ending(o, Verdict(e, "unavailable", Nothing))
      BY <1>2, <2>7, OpensRefused
    <2> QED BY <2>5, <2>6, <2>7
  <1>5. o \in Start(e, why) \/ o = [Refuses(e, "busy") EXCEPT !.fault = 1]
    BY <1>2
  <1>6. CASE o \in Start(e, why)
    <2>1. \/ \E st \in {why, "no_issuer_key", "no_clock", "busy"} : o = Refuses(e, st)
          \/ o \in Asks(e, "generation", Get(GenKey(e.req.scope)))
      BY <1>6 DEF Start
    <2> QED BY <1>3, <1>4, <2>1
  <1> QED BY <1>3, <1>5, <1>6

(* The act of a request, with its document.                                *)
OpWith(b, d) == [Op(b) EXCEPT !.doc = d]

LEMMA OpIs ==
    ASSUME IInv, NEW b, IsRequest(b), NEW d, NEW e, e = OpWith(b, d)
    PROVE  IsAct(e) /\ e.id = next /\ e.req = b /\ e.asof = acked[b.scope] /\ e.doc = d
  <1>1. acked[b.scope] \in Nat
    BY DEF IsRequest, IInv, TypeOK
  <1> QED BY <1>1 DEF OpWith, Op, IsAct

LEMMA BareOpIs ==
    ASSUME IInv, NEW b, IsRequest(b), NEW e, e = Op(b)
    PROVE  IsAct(e) /\ e.id = next /\ e.req = b /\ e.asof = acked[b.scope]
  <1>1. acked[b.scope] \in Nat
    BY DEF IsRequest, IInv, TypeOK
  <1> QED BY <1>1 DEF Op, IsAct

LEMMA BodyIs ==
    ASSUME IInv, NEW b \in scn.bodies
    PROVE  /\ IsRequest(b)
           /\ b.op \in {"issue", "check"} => b.flow \in Flows /\ b.ttl \in Nat
           /\ b.op = "consume" => b = [svc |-> b.svc, op |-> b.op, scope |-> b.scope, by |-> b.by,
                                       grant |-> b.grant]
           /\ b.op \in {"publish", "request"} => b.ttl \in Nat
  <1>1. scn \in Scenarios
    BY DEF IInv, TypeOK
  <1> QED BY <1>1, GrBodies DEF IsRequest, Operations, Advances

LEMMA GrantIs ==
    ASSUME IInv, NEW b, b.flow \in Flows, b.ttl \in Nat, NEW src, NEW dst, NEW n \in Nonces
    PROVE  IsGrant(Grant(b, src, dst, n)) /\ Grant(b, src, dst, n).nonce = n
  <1>1. PICK ttl, top : ttl = b.ttl /\ top = MaxTtl /\ ttl \in Nat /\ top \in Nat
    BY GrBounds
  <1>2. Clamp(ttl, top) \in Nat \ {0}
    BY <1>1, ClampIsLong
  <1>3. now + Clamp(b.ttl, MaxTtl) \in Nat
    BY <1>1, <1>2 DEF IInv, TypeOK
  <1> QED BY <1>3 DEF Grant, IsGrant

LEMMA PublicationIs ==
    ASSUME IInv, NEW b, b.ttl \in Nat PROVE IsPublication(Publication(b))
  <1>1. PICK ttl, top : ttl = b.ttl /\ top = MaxPublication /\ ttl \in Nat /\ top \in Nat
    BY GrBounds
  <1>2. Clamp(ttl, top) \in Nat \ {0}
    BY <1>1, ClampIsLong
  <1>3. now + Clamp(b.ttl, MaxPublication) \in Nat
    BY <1>1, <1>2 DEF IInv, TypeOK
  <1> QED BY <1>3 DEF Publication, IsPublication

LEMMA RefusalsAreRefusals ==
    ASSUME NEW b
    PROVE  /\ IssueRefusal(b) \notin {"ok", "expired"} /\ ConsumeRefusal(b) \notin {"ok", "expired"}
           /\ InvalidateRefusal(b) \notin {"ok", "expired"} /\ CheckRefusal(b) \notin {"ok", "expired"}
           /\ ProducerRefusal(b.by) \notin {"ok", "expired"} /\ PublishRefusal(b) \notin {"ok", "expired"}
           /\ \A p : PresentedRefusal(b, p) # "ok"
  <1>1. Custody(b.evid) \notin {"ok", "expired"}
    BY DEF Custody
  <1>2. IssueRefusal(b) \notin {"ok", "expired"} /\ CheckRefusal(b) \notin {"ok", "expired"}
    BY <1>1 DEF IssueRefusal, CheckRefusal
  <1>3. ConsumeRefusal(b) \notin {"ok", "expired"} /\ InvalidateRefusal(b) \notin {"ok", "expired"}
    BY DEF ConsumeRefusal, InvalidateRefusal
  <1>4. ProducerRefusal(b.by) \notin {"ok", "expired"}
    BY DEF ProducerRefusal
  <1>5. PublishRefusal(b) \notin {"ok", "expired"}
    BY <1>4 DEF PublishRefusal
  <1>6. \A p, g : RequestRefusal(b, p, g) # "ok"
    BY DEF RequestRefusal
  <1>7. \A p : PresentedRefusal(b, p) # "ok"
    BY <1>6 DEF PresentedRefusal
  <1> QED BY <1>2, <1>3, <1>4, <1>5, <1>7

LEMMA TakeTransferInv == ASSUME IInv, TakeTransfer PROVE IInv'
  <1>1. PICK b \in scn.bodies : \/ b.op = "issue"      /\ TakeIssue(b)
                                \/ b.op = "consume"    /\ TakeConsume(b)
                                \/ b.op = "invalidate" /\ TakeInvalidate(b)
                                \/ b.op = "check"      /\ TakeCheck(b)
    BY DEF TakeTransfer
  <1>2. /\ IsRequest(b)
        /\ b.op \in {"issue", "check"} => b.flow \in Flows /\ b.ttl \in Nat
        /\ b.op = "consume" => b = [svc |-> b.svc, op |-> b.op, scope |-> b.scope, by |-> b.by,
                                    grant |-> b.grant]
    BY BodyIs
  <1>3. CASE b.op = "issue" /\ TakeIssue(b)
    <2>1. PICK d : d = Grant(b, b.src, b.dst, next)
      OBVIOUS
    <2>2. PICK e : e = OpWith(b, d)
      OBVIOUS
    <2>3. IsAct(e) /\ e.id = next /\ e.req = b /\ e.asof = acked[b.scope] /\ e.doc = d
      BY <1>2, <2>2, OpIs
    <2>4. next \in Nonces
      BY <1>3, NextIsNew DEF TakeIssue, Accept, Nonces
    <2>5. IsGrant(d) /\ d.nonce = next
      BY <1>2, <1>3, <2>1, <2>4, GrantIs
    <2>6. NewAct(e)
      BY <1>2, <1>3, <2>3, <2>5 DEF NewAct
    <2>7. PICK why : why = IssueRefusal(b) /\ why \notin {"ok", "expired"}
      BY RefusalsAreRefusals
    <2>8. PICK S : S = Start(e, why) \cup (IF key # 0 /\ now # 0 /\ IssueRefusal(b) = "none"
                                             THEN {[Refuses(e, "busy") EXCEPT !.fault = 1]} ELSE {})
      OBVIOUS
    <2>9. Accept(S)
      BY <1>3, <2>1, <2>2, <2>7, <2>8 DEF TakeIssue, OpWith
    <2>10. \A o \in S : o \in Start(e, why) \/ o = [Refuses(e, "busy") EXCEPT !.fault = 1]
      BY <2>8
    <2> QED BY <2>6, <2>7, <2>9, <2>10, StartInv
  <1>4. CASE b.op = "consume" /\ TakeConsume(b)
    <2>1. PICK g \in Granted :
             Accept(Start([Op([b EXCEPT !.grant = g]) EXCEPT !.doc = g],
                          ConsumeRefusal([b EXCEPT !.grant = g])))
      BY <1>4 DEF TakeConsume
    <2>2. PICK c : c = [b EXCEPT !.grant = g]
      OBVIOUS
    <2>3. c.svc = b.svc /\ c.op = b.op /\ c.scope = b.scope /\ c.grant = g
      BY <1>2, <1>4, <2>2
    <2>4. IsRequest(c)
      BY <1>2, <1>4, <2>3 DEF IsRequest, Advances
    <2>5. g \in IssuedDocs
      BY DEF Granted, IssuedDocs, Answered, IInv, VerdictsOK
    <2>6. PICK e : e = OpWith(c, g)
      OBVIOUS
    <2>7. IsAct(e) /\ e.id = next /\ e.req = c /\ e.asof = acked[c.scope] /\ e.doc = g
      BY <2>4, <2>6, OpIs
    <2>8. NewAct(e)
      BY <1>4, <2>3, <2>4, <2>5, <2>7 DEF NewAct
    <2>9. PICK why : why = ConsumeRefusal(c) /\ why \notin {"ok", "expired"}
      BY RefusalsAreRefusals
    <2>10. Accept(Start(e, why))
      BY <2>1, <2>2, <2>6, <2>9 DEF OpWith
    <2> QED BY <2>8, <2>9, <2>10, StartInv
  <1>5. CASE b.op = "invalidate" /\ TakeInvalidate(b)
    <2>1. PICK e : e = Op(b)
      OBVIOUS
    <2>2. NewAct(e)
      BY <1>2, <1>5, <2>1, BareOpIs DEF NewAct
    <2>3. PICK why : why = InvalidateRefusal(b) /\ why \notin {"ok", "expired"}
      BY RefusalsAreRefusals
    <2>4. Accept(Start(e, why))
      BY <1>5, <2>1, <2>3 DEF TakeInvalidate
    <2> QED BY <2>2, <2>3, <2>4, StartInv
  <1>6. CASE b.op = "check" /\ TakeCheck(b)
    <2>1. PICK d : d = Grant(b, Self, b.signer, b.chal)
      OBVIOUS
    <2>2. PICK e : e = OpWith(b, d)
      OBVIOUS
    <2>3. IsAct(e) /\ e.id = next /\ e.req = b /\ e.asof = acked[b.scope] /\ e.doc = d
      BY <1>2, <2>2, OpIs
    <2>4. b.chal \in Challenges /\ b.chal \in Nonces
      BY <1>2, <1>6 DEF IsRequest, Nonces
    <2>5. IsGrant(d) /\ d.nonce = b.chal
      BY <1>2, <1>6, <2>1, <2>4, GrantIs
    <2>6. NewAct(e)
      BY <1>2, <1>6, <2>3, <2>4, <2>5 DEF NewAct
    <2>7. PICK why : why = CheckRefusal(b) /\ why \notin {"ok", "expired"}
      BY RefusalsAreRefusals
    <2>8. Accept(Start(e, why))
      BY <1>6, <2>1, <2>2, <2>7 DEF TakeCheck, OpWith
    <2> QED BY <2>6, <2>7, <2>8, StartInv
  <1> QED BY <1>1, <1>3, <1>4, <1>5, <1>6

LEMMA TakeAttachmentInv == ASSUME IInv, TakeAttachment PROVE IInv'
  <1>1. PICK b \in scn.bodies : \/ b.op = "publish" /\ TakePublish(b)
                                \/ b.op = "request" /\ TakeRequest(b)
                                \/ b.op = "revoke"  /\ TakeRevoke(b)
    BY DEF TakeAttachment
  <1>2. IsRequest(b) /\ (b.op \in {"publish", "request"} => b.ttl \in Nat)
    BY BodyIs
  <1>3. CASE b.op = "publish" /\ TakePublish(b)
    <2>1. PICK d : d = Publication(b)
      OBVIOUS
    <2>2. PICK e : e = OpWith(b, d)
      OBVIOUS
    <2>3. IsAct(e) /\ e.id = next /\ e.req = b /\ e.asof = acked[b.scope] /\ e.doc = d
      BY <1>2, <2>2, OpIs
    <2>4. IsPublication(d)
      BY <1>2, <1>3, <2>1, PublicationIs
    <2>5. NewAct(e)
      BY <1>2, <1>3, <2>3, <2>4 DEF NewAct
    <2>6. PICK why : why = PublishRefusal(b) /\ why \notin {"ok", "expired"}
      BY RefusalsAreRefusals
    <2>7. Accept(Start(e, why))
      BY <1>3, <2>1, <2>2, <2>6 DEF TakePublish, OpWith
    <2> QED BY <2>5, <2>6, <2>7, StartInv
  <1>4. CASE b.op = "request" /\ TakeRequest(b)
    <2>1. PICK p \in Published : Accept(Start([Op(b) EXCEPT !.doc = p], PresentedRefusal(b, p)))
      BY <1>4 DEF TakeRequest
    <2>2. IsPublication(p)
      <3>1. PICK d \in done : d.status = "ok" /\ d.req.op = "publish" /\ p = d.body.doc
        BY DEF Published, Answered, IInv, VerdictsOK
      <3> QED BY <3>1 DEF IInv, VerdictsOK, VerdictOK
    <2>3. PICK e : e = OpWith(b, p)
      OBVIOUS
    <2>4. IsAct(e) /\ e.id = next /\ e.req = b /\ e.asof = acked[b.scope] /\ e.doc = p
      BY <1>2, <2>3, OpIs
    <2>5. NewAct(e)
      BY <1>2, <1>4, <2>2, <2>4 DEF NewAct
    <2>6. PICK why : why = PresentedRefusal(b, p) /\ why # "ok"
      BY RefusalsAreRefusals
    <2>7. Accept(Start(e, why)) /\ e.req.op # "consume"
      BY <1>4, <2>1, <2>3, <2>4, <2>6 DEF OpWith
    <2> QED BY <2>5, <2>6, <2>7, StartInv
  <1>5. CASE b.op = "revoke" /\ TakeRevoke(b)
    <2>1. PICK e : e = Op(b)
      OBVIOUS
    <2>2. NewAct(e)
      BY <1>2, <1>5, <2>1, BareOpIs DEF NewAct
    <2>3. PICK why : why = ProducerRefusal(b.by) /\ why \notin {"ok", "expired"}
      BY RefusalsAreRefusals
    <2>4. Accept(Start(e, why))
      BY <1>5, <2>1, <2>3 DEF TakeRevoke
    <2> QED BY <2>2, <2>3, <2>4, StartInv
  <1> QED BY <1>1, <1>3, <1>4, <1>5

(***************************************************************************)
(* The theorems.                                                           *)
(***************************************************************************)
LEMMA NextInv == IInv /\ [Next]_vars => IInv'
  <1> SUFFICES ASSUME IInv, [Next]_vars PROVE IInv'
    OBVIOUS
  <1>1. CASE UNCHANGED vars
    <2>1. /\ UNCHANGED <<scn, led, wire, mail, pend, done, acked, next, now, outq, answers>>
      BY <1>1 DEF vars, frame, lane, slots, clock, history
    <2>2. IsPort(outq) /\ now \in Nat /\ outq' = outq
      BY <2>1 DEF IInv, TypeOK
    <2>3. IsPort(outq')
      BY <2>2, Zenon
    <2>4. Answered' \subseteq Answered /\ mail' \subseteq mail /\ now' \in Nat /\ now <= now'
      BY <2>1, <2>2 DEF Answered
    <2> QED BY <2>1, <2>3, <2>4, IdleInv
  <1>2. CASE \E m \in mail : Ignore(m)
    BY <1>2, EnvironmentInv
  <1>3. CASE \E m \in mail, k \in Slots : OnLedger(m, k)
    BY <1>3, OnLedgerInv
  <1>4. CASE Ledger
    BY <1>4, LedgerInv
  <1>5. CASE Read \/ TimePasses \/ TakeKey \/ RetryKey
    BY <1>5, EnvironmentInv
  <1>6. CASE \E s \in Services : Tick(s)
    BY <1>6, TickInv
  <1>7. CASE TakeTransfer
    BY <1>7, TakeTransferInv
  <1>8. CASE TakeAttachment
    BY <1>8, TakeAttachmentInv
  <1>9. CASE Restart
    BY <1>9, RestartInv
  <1>10. CASE \E w \in wire : Silence(w)
    BY <1>10, SilenceInv
  <1>11. CASE \E x \in LedgerKeys : Lapse(x)
    BY <1>11, LapseInv
  <1> QED BY <1>1, <1>2, <1>3, <1>4, <1>5, <1>6, <1>7, <1>8, <1>9, <1>10, <1>11 DEF Next, Progress

(* The grant services' invariant: their slots, messages and records        *)
(* keep their shape, an act has one message at a time, a nonce is claimed  *)
(* once, and what is known of a grant's end agrees with its record.        *)
THEOREM GrantsInvariant == Spec => []IInv
  BY InitInv, NextInv, PTL DEF Spec

(* Single use, for every number of acts, slots, faults and restarts: a     *)
(* transfer grant moves secrets once and never after a caller was told     *)
(* that it expired (advance, MARK), and a custody check's evidence is      *)
(* admitted again only when its record had lapsed.                         *)
THEOREM EndsAreOne == Spec => []OneEnd
  <1>1. IInv => OneEnd
    <2> SUFFICES ASSUME IInv, NEW a \in done, NEW b \in done, Moved(a)
                 PROVE  /\ Moved(b) /\ GrantKey(a.body.doc) = GrantKey(b.body.doc) =>
                              a.id = b.id \/ Forgotten(a, b) \/ Forgotten(b, a)
                        /\ b.req.op = "consume" /\ b.status = "expired" =>
                              GrantKey(a.body.doc) # GrantKey(b.req.grant)
      BY DEF OneEnd
    <2>1. \A d \in done : Moved(d) =>
             /\ d.id \in Ids /\ d.status = "ok" /\ d.req.op \in {"consume", "check"}
             /\ IsGrant(d.body.doc) /\ GrantKey(d.body.doc) \in GrantKeys
             /\ d.req.op = "consume" => /\ d.body.doc = d.req.grant /\ d.body.doc.nonce \in Ids
                                        /\ d.id \in Consumers(GrantKey(d.body.doc))
             /\ d.req.op = "check" => /\ d.body.doc.nonce \in Challenges
                                      /\ d.body.at \in Nat /\ d.body.doc.expiry \in Nat
                                      /\ Admitted(d.id, GrantKey(d.body.doc), d.body.doc.expiry, d.body.at)
      <3> SUFFICES ASSUME NEW d \in done, Moved(d)
                   PROVE  /\ d.id \in Ids /\ d.status = "ok" /\ d.req.op \in {"consume", "check"}
                          /\ IsGrant(d.body.doc) /\ GrantKey(d.body.doc) \in GrantKeys
                          /\ d.req.op = "consume" =>
                                /\ d.body.doc = d.req.grant /\ d.body.doc.nonce \in Ids
                                /\ d.id \in Consumers(GrantKey(d.body.doc))
                          /\ d.req.op = "check" =>
                                /\ d.body.doc.nonce \in Challenges
                                /\ d.body.at \in Nat /\ d.body.doc.expiry \in Nat
                                /\ Admitted(d.id, GrantKey(d.body.doc), d.body.doc.expiry, d.body.at)
        OBVIOUS
      <3>1. VerdictOK(d) /\ d.status = "ok" /\ d.req.op \in {"consume", "check"}
        BY DEF IInv, VerdictsOK, Moved
      <3>2. CASE d.req.op = "consume"
        <4>1. d.body.doc = d.req.grant /\ d.body.doc \in IssuedDocs /\ d.id \in Ids
          BY <3>1, <3>2 DEF VerdictOK
        <4>2. IsGrant(d.body.doc) /\ d.body.doc.nonce \in Ids
          BY <4>1, IssuedAre
        <4>3. d.id \in Consumers(GrantKey(d.body.doc))
          BY <3>1, <3>2, <4>1 DEF Consumers
        <4> QED BY <3>1, <3>2, <4>1, <4>2, <4>3, KeysAreKeys
      <3>3. CASE d.req.op = "check"
        <4>1. d.id \in Ids /\ IsGrant(d.body.doc) /\ d.body.doc.nonce \in Challenges /\ d.body.at \in Nat
          BY <3>1, <3>3 DEF VerdictOK
        <4>2. d.body.doc.expiry \in Nat
          BY <4>1 DEF IsGrant
        <4>3. Admitted(d.id, GrantKey(d.body.doc), d.body.doc.expiry, d.body.at)
          BY <3>1, <3>3 DEF Admitted
        <4> QED BY <3>1, <3>3, <4>1, <4>2, <4>3, KeysAreKeys
      <3> QED BY <3>1, <3>2, <3>3
    <2>2. ASSUME Moved(b), GrantKey(a.body.doc) = GrantKey(b.body.doc)
          PROVE  a.id = b.id \/ Forgotten(a, b) \/ Forgotten(b, a)
      <3>1. PICK x \in GrantKeys : x = GrantKey(a.body.doc) /\ x = GrantKey(b.body.doc)
        BY <2>1, <2>2
      <3>2. a.body.doc.nonce = b.body.doc.nonce
        BY <2>2, KeysAreKeys
      <3>3. a.req.op = b.req.op
        BY <2>1, <2>2, <3>2, NoncesDiffer
      <3>4. CASE a.req.op = "consume"
        BY <2>1, <2>2, <3>1, <3>3, <3>4 DEF IInv, EndsOK
      <3>5. CASE a.req.op = "check"
        <4>1. PICK y, z, s, t \in Nat :
                 /\ y = a.body.doc.expiry /\ s = a.body.at /\ z = b.body.doc.expiry /\ t = b.body.at
                 /\ Admitted(a.id, x, y, s) /\ Admitted(b.id, x, z, t)
          BY <2>1, <2>2, <3>1, <3>3, <3>5
        <4>2. a.id = b.id \/ y + Slack < t \/ z + Slack < s
          BY <2>1, <2>2, <4>1 DEF IInv, ChecksOK
        <4> QED BY <3>3, <3>5, <4>1, <4>2 DEF Forgotten
      <3> QED BY <2>1, <3>4, <3>5
    <2>3. ASSUME b.req.op = "consume", b.status = "expired",
                 GrantKey(a.body.doc) = GrantKey(b.req.grant)
          PROVE  FALSE
      <3>1. PICK x \in GrantKeys : x = GrantKey(a.body.doc) /\ x = GrantKey(b.req.grant)
        BY <2>1, <2>3
      <3>2. b.req.grant \in IssuedDocs
        BY <2>3 DEF IInv, VerdictsOK, VerdictOK
      <3>3. a.body.doc.nonce = b.req.grant.nonce
        BY <2>3, KeysAreKeys
      <3>4. a.req.op = "consume"
        BY <2>1, <3>2, <3>3, IssuedAre, NoncesDiffer
      <3>5. Consumers(x) # {} /\ Lapsed(x)
        BY <2>1, <2>3, <3>1, <3>4 DEF Lapsed
      <3> QED BY <3>5 DEF IInv, EndsOK
    <2> QED BY <2>2, <2>3
  <1> QED BY <1>1, GrantsInvariant, PTL

(* Void stays void, for every number of operators and acts: a generation   *)
(* whose advance was answered is never named lower again, and no act begun *)
(* after the answer issues, consumes or grants under an earlier one        *)
(* (advance, GET_GENERATION).                                              *)
THEOREM VoidIsForGood == Spec => []VoidStaysVoid
  <1>1. IInv => VoidStaysVoid
    BY DEF IInv, LedgerOK, VerdictsOK, VerdictOK, VoidStaysVoid
  <1> QED BY <1>1, GrantsInvariant, PTL

(* An attachment grant is live when it is signed, ends no later than its   *)
(* publication and is within it, whatever time passed between its request  *)
(* and the ledger's answer (decide_request, decided twice).                *)
THEOREM GrantsAreWithin == Spec => []GrantIsWithinItsPublication
  <1>1. IInv => GrantIsWithinItsPublication
    BY DEF IInv, VerdictsOK, VerdictOK, WithinItsPublication, GrantIsWithinItsPublication
  <1> QED BY <1>1, GrantsInvariant, PTL
=============================================================================
