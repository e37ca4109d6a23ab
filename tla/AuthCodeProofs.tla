--------------------------- MODULE AuthCodeProofs ---------------------------
(***************************************************************************)
(* For every number of requests, codes, slots, faults, outages and         *)
(* restarts: a code is redeemed once and a proof earns one code, tokens    *)
(* are what the code was issued for, and only a code's holder burns it.    *)
(***************************************************************************)
EXTENDS AuthCode, FiniteSetTheorems, WellFoundedInduction, TLAPS

(***************************************************************************)
(* Types.                                                                  *)
(***************************************************************************)
On(port) == {port[n] : n \in DOMAIN port}

IsPort(port) == port \in Seq(On(port))

AuthzFlows == {"authz_claim", "authz_client"}
XchgFlows  == {"xchg_code", "xchg_device", "xchg_consume"} \cup MintFlows
Flows      == AuthzFlows \cup XchgFlows
Stages     == Flows \cup {"file_code"}

(* The stages a slot has asked at, by the one it is at.                    *)
Through(flow) ==
    CASE flow = "authz_claim"  -> {"authz_claim"}
      [] flow = "authz_client" -> {"authz_claim", "authz_client"}
      [] flow = "xchg_code"    -> {"xchg_code"}
      [] flow = "xchg_device"  -> {"xchg_code", "xchg_device"}
      [] flow = "xchg_consume" -> {"xchg_code", "xchg_device", "xchg_consume"}
      [] flow = "xchg_mint_at" -> {"xchg_code", "xchg_device", "xchg_consume", "xchg_mint_at"}
      [] OTHER                 -> XchgFlows

CodeOf(b) == CodeRec(b, ClientRec(b.client))
Recs      == {c.rec : c \in Seeds} \cup {CodeOf(b) : b \in {a \in Bodies : a.op = "authorize"}}

Entry ==
    [flow : Flows, id : Ids, req : Bodies, code : Codes \cup {0}, rec : Recs \cup {Nothing},
     access : {AccessSpec(r) : r \in Recs} \cup {Nothing}, gone : SUBSET Devices]

TypeOK ==
    /\ scn \in Scenarios
    /\ next \in Nat /\ 1 <= next /\ next <= scn.reqs + 1
    /\ led = [k \in Keys |-> led[k]]
    /\ pend \in [Slots -> Entry \cup {Free}]
    /\ IsPort(outq) /\ IsPort(callq) /\ IsPort(minted)

(***************************************************************************)
(* What a code was issued for, by what cannot be lost: the codes filed     *)
(* before the start and the answers that were read.                        *)
(***************************************************************************)
Issued(c) == {s.rec : s \in {x \in scn.codes : x.code = c}}
             \cup {CodeOf(a.req) : a \in {x \in answers : /\ x.req.op = "authorize"
                                                          /\ x.status = "ok" /\ x.code = c}}

(* The caller of an exchange holds its code, and the device stood.         *)
Holds(e) ==
    /\ e.rec \in Issued(e.code)
    /\ e.req.client = e.rec.client /\ e.req.ruri = e.rec.ruri
    /\ S256(e.req.verifier) = e.rec.cc

Earned(e) == Holds(e) /\ e.rec.dev \notin e.gone

LedgerOK ==
    /\ \A d \in Devices : led[DeviceKey(d)] \in {DeviceRec(TRUE), DeviceRec(FALSE), Nothing}
    /\ \A c \in Clients : led[ClientKey(c)] = ClientRec(c)
    /\ \A p \in Proofs : led[ReplayKey(p)] \in {Nothing, Claim}
    /\ \A c \in Codes :
          LET r == led[CodeKey(c)] IN
          \/ r = Nothing
          \/ r.kind = "code"
          \/ r = Consumed(r.by) /\ r.by.code = c /\ Earned(r.by)

(***************************************************************************)
(* Slots.                                                                  *)
(***************************************************************************)
SlotOK(e) ==
    /\ e.id < next
    /\ e.flow \in AuthzFlows => e.req.op = "authorize"
    /\ e.flow \in XchgFlows => e.req.op = "exchange" /\ e.code \in Known
    /\ e.flow \in XchgFlows \ {"xchg_code"} => Holds(e)
    /\ e.flow \in XchgFlows \ {"xchg_code", "xchg_device"} => Earned(e)
    /\ e.flow = "xchg_mint_id" => e.access = AccessSpec(e.rec)
    /\ \A d \in e.gone : led[DeviceKey(d)] # DeviceRec(TRUE)

SlotsOK ==
    /\ \A k \in Live : SlotOK(pend[k])
    /\ \A j, k \in Live : pend[j].id = pend[k].id => j = k

Accepted == {a \in Answered : a.status = "ok"}

AnswersOK ==
    /\ \A a \in Accepted :
          /\ a.id \in Ids /\ a.id < next /\ a.req \in Bodies
          /\ \A k \in Live : pend[k].id # a.id
    /\ \A a \in Granted : a.code = a.id

(* The tokens an exchange answered, by what cannot be lost.                *)
TokensOK ==
    \A a \in Redeemed :
        /\ a.code \in Known
        /\ \E r \in Issued(a.code) :
              /\ a.access = AccessSpec(r) /\ a.idt = IdSpec(r)
              /\ a.req.client = r.client /\ a.req.ruri = r.ruri /\ S256(a.req.verifier) = r.cc
        /\ a.access.sub \notin a.gone

(***************************************************************************)
(* Requests to the ledger, and its answers.                                *)
(***************************************************************************)
(* A correlation is a request's id and a stage it has been through.        *)
Corr(x) ==
    /\ x = <<x[1], x[2]>> /\ x[1] \in Ids /\ x[1] < next /\ x[2] \in Stages
    /\ \A k \in Live : pend[k].id = x[1] => x[2] \in Through(pend[k].flow)

(* A read, a claim, a code to be filed, or the swap of a code by a holder. *)
Question(w) ==
    \/ w.q.op = "get"
    \/ \E p \in Proofs : w.q = PutIfAbsent(ReplayKey(p), Claim)
    \/ /\ w.q = PutIfAbsent(CodeKey(w.corr[1]), w.q.new) /\ w.q.new.kind = "code"
       /\ w.corr[2] = "file_code"
    \/ LET e == w.q.new.by IN
       /\ w.q = CompareAndSwap(CodeKey(e.code), e.rec, Consumed(e))
       /\ e.code \in Known /\ e.rec.kind = "code" /\ Earned(e)

WireOK ==
    /\ \A w \in wire : Corr(w.corr) /\ Question(w)
    /\ \A v, w \in wire : v.corr = w.corr => v = w

(* What a slot has asked.                                                  *)
Asked(e, q) ==
    /\ e.flow = "authz_claim"  => q = PutIfAbsent(ReplayKey(e.req.proof), Claim)
    /\ e.flow = "authz_client" => q = Get(ClientKey(e.req.client))
    /\ e.flow = "xchg_code"    => q = Get(CodeKey(e.code))
    /\ e.flow = "xchg_device"  => q = Get(DeviceKey(e.rec.dev))
    /\ e.flow = "xchg_consume" => q.op = "cas" /\ q.key = CodeKey(e.code)

AskedOK ==
    \A w \in wire, k \in Live : w.corr = <<pend[k].id, pend[k].flow>> => Asked(pend[k], w.q)

(* What it was told, if that was ok.                                       *)
Tells(e, val) ==
    /\ e.flow = "authz_client" => val = ClientRec(e.req.client)
    /\ e.flow = "xchg_code"    => val.kind = "consumed" \/ val \in Issued(e.code)
    /\ e.flow = "xchg_device"  => ~val.active \/ e.rec.dev \notin e.gone

ToldOK ==
    /\ \A m \in mail : Corr(m.corr)
    /\ \A m \in mail, k \in Live :
          m.corr = <<pend[k].id, pend[k].flow>> /\ m.status = "ok" => Tells(pend[k], m.val)

(***************************************************************************)
(* Codes and proofs.                                                       *)
(***************************************************************************)
(* Nothing can file code c any more.                                       *)
Filed(c) ==
    /\ c \notin next .. MaxReqs
    /\ \A k \in Live : pend[k].flow \in AuthzFlows => pend[k].id # c
    /\ \A w \in wire : w.corr # <<c, "file_code">>

CodesOK ==
    /\ \A c \in Codes : led[CodeKey(c)] # Nothing => Filed(c)
    /\ \A c \in {s.code : s \in scn.codes} :
          led[CodeKey(c)].kind = "code" => led[CodeKey(c)] \in Issued(c)
    /\ \A a \in Granted :
          /\ led[CodeKey(a.id)].kind = "code" => led[CodeKey(a.id)] = CodeOf(a.req)
          /\ \A w \in wire : w.corr = <<a.id, "file_code">> => w.q.new = CodeOf(a.req)

Told(k, flow) ==
    /\ pend[k].flow = flow
    /\ \E m \in mail : m.corr = <<pend[k].id, flow>> /\ m.status = "ok"

(* The exchanges whose swap was applied and that know it.                  *)
Using == {k \in Live : pend[k].flow \in MintFlows \/ Told(k, "xchg_consume")}
Uses  == {[id |-> a.id, code |-> a.code] : a \in Redeemed}
         \cup {[id |-> pend[k].id, code |-> pend[k].code] : k \in Using}

(* The requests whose claim was applied and that know it.                  *)
Claiming == {k \in Live : pend[k].flow = "authz_client" \/ Told(k, "authz_claim")}
Claims   == {[id |-> a.id, proof |-> a.req.proof] : a \in Granted}
            \cup {[id |-> pend[k].id, proof |-> pend[k].req.proof] : k \in Claiming}

OncePerCode ==
    /\ \A x, y \in Uses : x.code = y.code => x.id = y.id
    /\ \A x \in Uses : led[CodeKey(x.code)].kind # "code" /\ Filed(x.code)

OncePerProof ==
    /\ \A x, y \in Claims : x.proof = y.proof => x.id = y.id
    /\ \A x \in Claims : led[ReplayKey(x.proof)] = Claim

(***************************************************************************)
(* Calls to the mint, and its answers.                                     *)
(***************************************************************************)
SpecOf(e) == IF e.flow = "xchg_mint_at" THEN AccessSpec(e.rec) ELSE IdSpec(e.rec)

MintOK ==
    /\ \A r \in On(callq) :
          /\ Corr(r.id)
          /\ \A k \in Waiting : r.id = <<pend[k].id, pend[k].flow>> => r.spec = SpecOf(pend[k])
    /\ \A r \in On(minted) :
          r.kind \in {"token", "failed"} =>
            /\ Corr(r.id)
            /\ \A k \in Waiting : r.id = <<pend[k].id, pend[k].flow>> /\ r.kind = "token" =>
                                     r.token = SpecOf(pend[k])

IInv ==
    /\ TypeOK /\ LedgerOK /\ SlotsOK /\ AnswersOK /\ TokensOK /\ WireOK /\ AskedOK /\ ToldOK
    /\ CodesOK /\ OncePerCode /\ OncePerProof /\ MintOK


(***************************************************************************)
(* Ports.                                                                  *)
(***************************************************************************)
LEMMA EmptyPort == IsPort(<<>>) /\ On(<<>>) = {}
  BY DEF IsPort, On

LEMMA AppendPort ==
    ASSUME NEW port, NEW r, IsPort(port)
    PROVE  IsPort(Append(port, r)) /\ On(Append(port, r)) = On(port) \cup {r}
  <1> DEFINE p == Append(port, r)
  <1> USE DEF IsPort
  <1>1. port \in Seq(On(port) \cup {r})
    BY DEF On
  <1>2. /\ Len(p) = Len(port) + 1 /\ DOMAIN p = 1 .. Len(port) + 1
        /\ \A n \in 1 .. Len(port) : p[n] = port[n]
        /\ p[Len(port) + 1] = r
    BY <1>1
  <1>3. On(p) = On(port) \cup {r}
    BY <1>1, <1>2 DEF On
  <1>4. p \in Seq(On(port) \cup {r})
    BY <1>1
  <1> QED BY <1>3, <1>4

LEMMA PlacedPort ==
    ASSUME NEW port, NEW r, IsPort(port)
    PROVE  IsPort(Placed(port, r)) /\ On(Placed(port, r)) \subseteq On(port) \cup {r}
  <1>1. CASE Clears(port)
    BY <1>1, AppendPort DEF Placed
  <1>2. CASE ~Clears(port)
    <2> DEFINE p == [port EXCEPT ![Len(port)] = r]
    <2>1. port \in Seq(On(port)) /\ Len(port) \in Nat /\ DOMAIN port = 1 .. Len(port)
      BY DEF IsPort
    <2>2. /\ DOMAIN p = 1 .. Len(port) /\ p = [n \in 1 .. Len(port) |-> p[n]]
          /\ \A n \in 1 .. Len(port) : p[n] = IF n = Len(port) THEN r ELSE port[n]
      BY <2>1
    <2>3. On(p) \subseteq On(port) \cup {r}
      BY <2>1, <2>2 DEF On
    <2>4. \A n \in 1 .. Len(port) : p[n] \in On(p)
      BY <2>2 DEF On
    <2> HIDE DEF p
    <2>5. p \in Seq(On(p))
      BY <2>1, <2>2, <2>4
    <2> QED BY <1>2, <2>3, <2>5 DEF Placed, IsPort, p
  <1> QED BY <1>1, <1>2

LEMMA TailPort ==
    ASSUME NEW port, IsPort(port), port # <<>>
    PROVE  /\ IsPort(Tail(port)) /\ On(Tail(port)) \subseteq On(port)
           /\ Head(port) \in On(port)
  <1> DEFINE p == Tail(port)
  <1>1. port \in Seq(On(port)) /\ Len(port) \in Nat /\ Len(port) >= 1
    BY DEF IsPort
  <1>2. /\ p \in Seq(On(port)) /\ DOMAIN p = 1 .. Len(port) - 1
        /\ \A n \in 1 .. Len(port) - 1 : p[n] = port[n + 1]
    BY <1>1
  <1>3. On(p) \subseteq On(port)
    BY <1>1, <1>2 DEF On
  <1>4. \A n \in DOMAIN p : p[n] \in On(p)
    BY DEF On
  <1> HIDE DEF p
  <1>5. p \in Seq(On(p))
    BY <1>2, <1>4
  <1>6. Head(port) = port[1] /\ 1 \in DOMAIN port
    BY <1>1
  <1> QED BY <1>3, <1>5, <1>6 DEF IsPort, On, p

LEMMA ConcatPort ==
    ASSUME NEW port, NEW N \in Nat, NEW s, IsPort(port), s = [n \in 1 .. N |-> s[n]]
    PROVE  IsPort(port \o s) /\ On(port \o s) = On(port) \cup On(s)
  <1> DEFINE p == port \o s
             S == On(port) \cup On(s)
  <1>1. port \in Seq(S) /\ s \in Seq(S)
    <2>1. \A n \in 1 .. N : s[n] \in On(s)
      BY DEF On
    <2>2. \A n \in 1 .. N : s[n] \in S
      BY <2>1
    <2>3. On(port) \subseteq S
      OBVIOUS
    <2> HIDE DEF S
    <2>4. s \in Seq(S)
      BY <2>2
    <2> QED BY <2>3, <2>4 DEF IsPort
  <1>2. DOMAIN port = 1 .. Len(port) /\ Len(port) \in Nat /\ Len(s) \in Nat
        /\ DOMAIN s = 1 .. Len(s)
    BY <1>1
  <1> HIDE DEF S
  <1>3. /\ p \in Seq(S) /\ DOMAIN p = 1 .. Len(port) + Len(s)
        /\ \A n \in 1 .. Len(port) : p[n] = port[n]
        /\ \A n \in 1 .. Len(s) : p[Len(port) + n] = s[n]
    BY <1>1, <1>2
  <1>4. \A n \in DOMAIN p : n \in 1 .. Len(port) \/ \E i \in 1 .. Len(s) : n = Len(port) + i
    <2> SUFFICES ASSUME NEW n \in DOMAIN p, ~(n \in 1 .. Len(port))
                 PROVE  n - Len(port) \in 1 .. Len(s)
      BY <1>2, <1>3
    <2> QED BY <1>2, <1>3
  <1>5. On(p) \subseteq S
    BY <1>2, <1>3, <1>4 DEF On, S
  <1>6. S \subseteq On(p)
    <2>1. On(port) \subseteq On(p)
      BY <1>2, <1>3 DEF On
    <2>2. On(s) \subseteq On(p)
      <3> SUFFICES ASSUME NEW i \in 1 .. Len(s) PROVE s[i] \in On(p)
        BY <1>2 DEF On
      <3>1. Len(port) + i \in DOMAIN p /\ p[Len(port) + i] = s[i]
        BY <1>2, <1>3
      <3> QED BY <3>1 DEF On
    <2> QED BY <2>1, <2>2 DEF S
  <1>7. On(p) = S
    BY <1>5, <1>6
  <1> QED BY <1>3, <1>7 DEF IsPort, S

LEMMA SameOn == ASSUME NEW p, NEW q, p = q PROVE On(p) = On(q) /\ (IsPort(p) <=> IsPort(q))
  OBVIOUS

(***************************************************************************)
(* The initial states.                                                     *)
(***************************************************************************)
LEMMA LiveIsEntry ==
    ASSUME TypeOK PROVE \A k \in Live : k \in Slots /\ pend[k] \in Entry /\ pend[k] # Free
  BY DEF TypeOK, Live, Free

LEMMA LiveIds ==
    ASSUME IInv PROVE \A k \in Live : pend[k].id \in Ids /\ pend[k].id \in Nat /\ pend[k].id < next
  <1>1. \A k \in Live : pend[k].id \in Ids /\ pend[k].id \in Nat
    BY LiveIsEntry DEF IInv, Entry, Ids
  <1>2. \A k \in Live : pend[k].id < next
    BY DEF IInv, SlotsOK, SlotOK
  <1> QED BY <1>1, <1>2

LEMMA KeysAreKeys ==
    /\ \A p \in Proofs : ReplayKey(p) \in Keys
    /\ \A c \in Clients : ClientKey(c) \in Keys
    /\ \A c \in Codes : CodeKey(c) \in Keys
    /\ \A d \in Devices : DeviceKey(d) \in Keys
  BY DEF Keys

LEMMA SeedsAreSeeds ==
    ASSUME scn \in Scenarios
    PROVE  \A c \in scn.codes : /\ c \in Seeds /\ c.code \in Codes /\ c.code \notin Ids
                                /\ c.rec \in Recs /\ c.rec.kind = "code"
  <1>1. \A c \in scn.codes : c \in Seeds
    BY DEF Seeds
  <1> QED BY <1>1, AcBounds, AcScenarios DEF Codes, Ids, Recs

LEMMA InitInv == Init => IInv
  <1> SUFFICES ASSUME Init PROVE IInv
    OBVIOUS
  <1>1. Live = {} /\ Answered = {} /\ wire = {} /\ mail = {} /\ Waiting = {}
    BY EmptyPort DEF Init, Live, Free, Answered, On, Waiting
  <1>2. TypeOK
    <2>1. scn \in Scenarios /\ next = 1 /\ scn.reqs \in Nat
      BY AcBounds DEF Init
    <2>2. pend \in [Slots -> Entry \cup {Free}]
      BY DEF Init
    <2>3. led = [k \in Keys |-> led[k]]
      BY DEF Init
    <2>4. IsPort(outq) /\ IsPort(callq) /\ IsPort(minted)
      BY EmptyPort DEF Init
    <2> QED BY <2>1, <2>2, <2>3, <2>4 DEF TypeOK
  <1>3. LedgerOK /\ CodesOK
    <2>1. \A d \in Devices : led[DeviceKey(d)] = DeviceRec(TRUE)
      <3>1. \A d \in Devices : /\ DeviceKey(d) \in Keys /\ DeviceKey(d)[1] = "device"
                               /\ DeviceKey(d) \notin {CodeKey(c.code) : c \in scn.codes}
        BY KeysAreKeys DEF DeviceKey, CodeKey
      <3> QED BY <3>1 DEF Init
    <2>2. \A c \in Clients : led[ClientKey(c)] = ClientRec(c)
      <3>1. \A c \in Clients : /\ ClientKey(c) \in Keys /\ ClientKey(c)[1] = "client"
                               /\ ClientKey(c)[2] = c
                               /\ ClientKey(c) \notin {CodeKey(x.code) : x \in scn.codes}
        BY KeysAreKeys DEF ClientKey, CodeKey
      <3> QED BY <3>1 DEF Init
    <2>3. \A p \in Proofs : led[ReplayKey(p)] = Nothing
      BY KeysAreKeys DEF Init, ReplayKey, CodeKey
    <2>4. ASSUME NEW c \in Codes
          PROVE  \/ c \notin {s.code : s \in scn.codes} /\ led[CodeKey(c)] = Nothing
                 \/ c \notin Ids /\ \E s \in scn.codes : s.code = c /\ led[CodeKey(c)] = s.rec
      <3>1. CodeKey(c) \in Keys /\ CodeKey(c)[1] = "code"
        BY KeysAreKeys DEF CodeKey
      <3>2. CASE c \in {s.code : s \in scn.codes}
        <4> DEFINE s == CHOOSE x \in scn.codes : CodeKey(x.code) = CodeKey(c)
        <4>1. led[CodeKey(c)] = s.rec
          BY <3>1, <3>2 DEF Init
        <4>2. s \in scn.codes /\ CodeKey(s.code) = CodeKey(c)
          BY <3>2
        <4>3. s.code = c
          BY <4>2 DEF CodeKey
        <4> HIDE DEF s
        <4>4. c \notin Ids
          BY <4>2, <4>3, SeedsAreSeeds DEF Init
        <4> QED BY <4>1, <4>2, <4>3, <4>4
      <3>3. CASE c \notin {s.code : s \in scn.codes}
        <4>1. CodeKey(c) \notin {CodeKey(s.code) : s \in scn.codes}
          BY <3>3 DEF CodeKey
        <4> QED BY <3>1, <3>3, <4>1 DEF Init
      <3> QED BY <3>2, <3>3
    <2>5. \A c \in Codes : led[CodeKey(c)] = Nothing \/ led[CodeKey(c)].kind = "code"
      <3>1. \A s \in scn.codes : s.rec.kind = "code"
        BY SeedsAreSeeds DEF Init
      <3> QED BY <2>4, <3>1
    <2>6. LedgerOK
      BY <2>1, <2>2, <2>3, <2>5 DEF LedgerOK
    <2>7. \A c \in Codes : led[CodeKey(c)] # Nothing => Filed(c)
      <3>1. \A c : c \notin Ids => c \notin next .. MaxReqs
        BY DEF Init, Ids
      <3> QED BY <1>1, <2>4, <3>1 DEF Filed
    <2>8. ASSUME NEW c \in {s.code : s \in scn.codes}, led[CodeKey(c)].kind = "code"
          PROVE  led[CodeKey(c)] \in Issued(c)
      <3>1. c \in Codes
        BY SeedsAreSeeds DEF Init
      <3> QED BY <2>4, <3>1 DEF Issued
    <2>9. Granted = {}
      BY <1>1 DEF Granted
    <2> QED BY <2>6, <2>7, <2>8, <2>9 DEF CodesOK
  <1>4. SlotsOK /\ AnswersOK /\ TokensOK /\ WireOK /\ AskedOK /\ ToldOK
    BY <1>1 DEF SlotsOK, AnswersOK, TokensOK, WireOK, AskedOK, ToldOK, Accepted, Redeemed,
                Granted
  <1>5. Uses = {} /\ Claims = {}
    BY <1>1 DEF Uses, Claims, Using, Claiming, Redeemed, Granted
  <1>6. OncePerCode /\ OncePerProof
    BY <1>5 DEF OncePerCode, OncePerProof
  <1>7. MintOK
    BY EmptyPort DEF Init, MintOK
  <1> QED BY <1>2, <1>3, <1>4, <1>6, <1>7 DEF IInv

(***************************************************************************)
(* What was answered stays answered.                                       *)
(***************************************************************************)
Grows == scn' = scn /\ answers \subseteq answers'

LEMMA GrowsKeeps ==
    ASSUME Grows
    PROVE  /\ Known \subseteq Known'
           /\ \A c : Issued(c) \subseteq Issued(c)'
           /\ \A e : (Holds(e) => Holds(e)') /\ (Earned(e) => Earned(e)')
  <1>1. Known \subseteq Known'
    BY DEF Grows, Known
  <1>2. \A c : Issued(c) \subseteq Issued(c)'
    BY DEF Grows, Issued
  <1>3. \A e : (Holds(e) => Holds(e)') /\ (Earned(e) => Earned(e)')
    BY <1>2 DEF Holds, Earned
  <1> QED BY <1>1, <1>2, <1>3

(* A slot that is not touched stays right, if no device is let in again.   *)
LEMMA SlotStays ==
    ASSUME Grows, next \in Nat, next' \in Nat, next <= next',
           \A d \in Devices : led[DeviceKey(d)] # DeviceRec(TRUE) =>
                                led'[DeviceKey(d)] # DeviceRec(TRUE),
           NEW e \in Entry, SlotOK(e)
    PROVE  SlotOK(e)'
  <1>1. /\ e.code \in Known => e.code \in Known'
        /\ (Holds(e) => Holds(e)') /\ (Earned(e) => Earned(e)')
    BY GrowsKeeps
  <1>2. e.id \in Nat /\ e.gone \subseteq Devices
    BY DEF Entry, Ids
  <1>3. e.id < next'
    BY <1>2 DEF SlotOK
  <1>4. \A d \in e.gone : led'[DeviceKey(d)] # DeviceRec(TRUE)
    BY <1>2 DEF SlotOK
  <1> QED BY <1>1, <1>3, <1>4 DEF SlotOK

LEMMA QuestionStays == ASSUME Grows, NEW w, Question(w) PROVE Question(w)'
  <1>1. /\ Known \subseteq Known'
        /\ \A e : Earned(e) => Earned(e)'
    BY GrowsKeeps
  <1> QED BY <1>1 DEF Question

(* What is issued is a code, and what is known can be filed.               *)
LEMMA IssuedAreCodes ==
    ASSUME TypeOK, AnswersOK
    PROVE  /\ \A c : \A r \in Issued(c) : r \in Recs /\ r.kind = "code"
           /\ Known \subseteq Codes
  <1>1. \A s \in scn.codes : s.rec \in Recs /\ s.rec.kind = "code" /\ s.code \in Codes
    BY SeedsAreSeeds DEF TypeOK
  <1>2. \A a \in answers : a.req.op = "authorize" /\ a.status = "ok" =>
            CodeOf(a.req) \in Recs /\ CodeOf(a.req).kind = "code" /\ a.code \in Codes
    <2> SUFFICES ASSUME NEW a \in answers, a.req.op = "authorize", a.status = "ok"
                 PROVE  CodeOf(a.req) \in Recs /\ CodeOf(a.req).kind = "code" /\ a.code \in Codes
      OBVIOUS
    <2>1. a \in Accepted /\ a \in Granted
      BY DEF Accepted, Granted, Answered
    <2>2. a.req \in Bodies /\ a.code \in Ids
      BY <2>1 DEF AnswersOK
    <2> QED BY <2>2 DEF Recs, Codes, CodeOf, CodeRec
  <1>3. \A c : \A r \in Issued(c) : r \in Recs /\ r.kind = "code"
    BY <1>1, <1>2 DEF Issued
  <1>4. Known \subseteq Codes
    BY <1>1, <1>2 DEF Known
  <1> QED BY <1>3, <1>4

(***************************************************************************)
(* Steps that only give things up: slots are freed, answers from the       *)
(* ledger and the mint are read or lost, and what is answered is refused.  *)
(***************************************************************************)
Recedes ==
    /\ Grows /\ UNCHANGED <<led, wire>>
    /\ next' \in Nat /\ next <= next' /\ next' <= scn.reqs + 1
    /\ pend' = [k \in Slots |-> pend'[k]]
    /\ \A k \in Slots : pend'[k] \in {pend[k], Free}
    /\ mail' \subseteq mail
    /\ Accepted' \subseteq Accepted
    /\ IsPort(outq') /\ IsPort(callq') /\ IsPort(minted')
    /\ On(callq') \subseteq On(callq)
    /\ \A r \in On(minted') : r \in On(minted) \/ r.kind \notin {"token", "failed"}

LEMMA RecedesInv == IInv /\ Recedes => IInv'
  <1> SUFFICES ASSUME IInv, Recedes PROVE IInv'
    OBVIOUS
  <1>1. TypeOK'
    <2>1. pend' \in [Slots -> Entry \cup {Free}]
      BY DEF IInv, TypeOK, Recedes
    <2> QED BY <2>1 DEF IInv, TypeOK, Recedes, Grows
  <1>2. /\ Live' \subseteq Live /\ Waiting' \subseteq Waiting
        /\ \A k \in Live' : pend'[k] = pend[k]
    BY DEF Recedes, Live, Waiting, Free
  <1>3. led' = led /\ wire' = wire /\ scn' = scn /\ next \in Nat /\ next' \in Nat /\ next <= next'
    BY DEF Recedes, Grows, IInv, TypeOK
  <1>4. /\ Known \subseteq Known'
        /\ \A c : Issued(c) \subseteq Issued(c)'
        /\ \A e : (Holds(e) => Holds(e)') /\ (Earned(e) => Earned(e)')
    BY GrowsKeeps DEF Recedes
  <1>5. /\ Accepted' \subseteq Accepted /\ Granted' \subseteq Granted
        /\ Redeemed' \subseteq Redeemed
    BY DEF Recedes, Accepted, Granted, Redeemed
  <1>6. LedgerOK'
    BY <1>3, <1>4 DEF IInv, LedgerOK
  <1>7. \A x : Corr(x) => Corr(x)'
    BY <1>2, <1>3 DEF Corr, Ids
  <1>8. SlotsOK'
    <2>1. \A e \in Entry : SlotOK(e) => SlotOK(e)'
      BY SlotStays, <1>3 DEF Recedes
    <2>2. \A k \in Live : SlotOK(pend[k]) /\ pend[k] \in Entry
      BY LiveIsEntry DEF IInv, SlotsOK
    <2> QED BY <1>2, <2>1, <2>2 DEF IInv, SlotsOK
  <1>9. AnswersOK'
    BY <1>2, <1>3, <1>5 DEF IInv, AnswersOK, Ids
  <1>10. TokensOK'
    BY <1>4, <1>5 DEF IInv, TokensOK
  <1>11. WireOK'
    <2>1. \A w : Question(w) => Question(w)'
      BY QuestionStays DEF Recedes
    <2> QED BY <1>3, <1>7, <2>1 DEF IInv, WireOK
  <1>12. AskedOK'
    BY <1>2, <1>3 DEF IInv, AskedOK
  <1>13. ToldOK'
    <2>1. mail' \subseteq mail
      BY DEF Recedes
    <2>2. \A e, val : Tells(e, val) => Tells(e, val)'
      BY <1>4 DEF Tells
    <2> QED BY <1>2, <1>7, <2>1, <2>2 DEF IInv, ToldOK
  <1>14. \A c : Filed(c) => Filed(c)'
    BY <1>2, <1>3 DEF Filed
  <1>15. CodesOK'
    BY <1>3, <1>4, <1>5, <1>14 DEF IInv, CodesOK
  <1>16. Uses' \subseteq Uses /\ Claims' \subseteq Claims
    <2>1. mail' \subseteq mail
      BY DEF Recedes
    <2>2. \A k \in Live' : \A flow : Told(k, flow)' => Told(k, flow)
      BY <1>2, <2>1 DEF Told
    <2>3. Using' \subseteq Using /\ Claiming' \subseteq Claiming
      BY <1>2, <2>2 DEF Using, Claiming
    <2>4. \A k \in Using' \cup Claiming' : pend'[k] = pend[k]
      BY <1>2 DEF Using, Claiming
    <2> QED BY <1>5, <2>3, <2>4 DEF Uses, Claims
  <1>17. OncePerCode'
    BY <1>3, <1>14, <1>16 DEF IInv, OncePerCode
  <1>18. OncePerProof'
    BY <1>3, <1>16 DEF IInv, OncePerProof
  <1>19. MintOK'
    <2>1. \A k \in Waiting' : k \in Waiting /\ pend'[k] = pend[k]
      BY <1>2 DEF Waiting
    <2> QED BY <1>7, <2>1 DEF IInv, MintOK, Recedes, SpecOf
  <1> QED BY <1>1, <1>6, <1>8, <1>9, <1>10, <1>11, <1>12, <1>13, <1>15, <1>17, <1>18, <1>19
          DEF IInv

LEMMA RefusalsAreNot ==
    /\ \A status : ClaimRefusal(status) # "ok"
    /\ \A m, b : CodeRefusal(m, b) # "ok"
    /\ \A m : DeviceRefusal(m) # "ok"
    /\ \A e, status : Refusal(e, status).status = status
  BY DEF ClaimRefusal, CodeRefusal, DeviceRefusal, Refusal, Verdict

LEMMA RefusalAccepts ==
    ASSUME IsPort(outq), NEW r, r.status # "ok", outq' = Placed(outq, r), answers' = answers
    PROVE  IsPort(outq') /\ Accepted' \subseteq Accepted
  <1>1. IsPort(outq') /\ On(outq') \subseteq On(outq) \cup {r}
    BY PlacedPort
  <1> QED BY <1>1 DEF Accepted, Answered, On

LEMMA RefuseInv ==
    ASSUME IInv, NEW k \in Slots, NEW e, NEW status, Refuse(k, e, status), status # "ok",
           UNCHANGED <<scn, led, wire, callq, answers>>, mail' \subseteq mail,
           next' \in {next, next + 1}, next' <= scn.reqs + 1,
           IsPort(minted'), On(minted') \subseteq On(minted)
    PROVE  IInv'
  <1>1. Refusal(e, status).status # "ok"
    BY RefusalsAreNot
  <1>2. IsPort(outq') /\ Accepted' \subseteq Accepted
    BY <1>1, RefusalAccepts DEF Refuse, IInv, TypeOK
  <1>3. /\ pend' = [j \in Slots |-> pend'[j]]
        /\ \A j \in Slots : pend'[j] \in {pend[j], Free}
    BY DEF Refuse, IInv, TypeOK
  <1>4. IsPort(callq') /\ On(callq') \subseteq On(callq)
    BY SameOn DEF IInv, TypeOK
  <1>5. next' \in Nat /\ next <= next' /\ next' <= scn.reqs + 1
    BY DEF IInv, TypeOK
  <1>6. Recedes
    BY <1>2, <1>3, <1>4, <1>5 DEF Recedes, Grows
  <1> QED BY <1>6, RecedesInv

LEMMA IgnoreReplyInv == ASSUME IInv, NEW m, IgnoreReply(m) PROVE IInv'
  <1>1. UNCHANGED <<scn, led, next, answers, wire, outq, callq, minted, pend>>
        /\ mail' \subseteq mail
    BY DEF IgnoreReply, Read
  <1>2. Accepted' \subseteq Accepted
    BY <1>1 DEF Accepted, Answered
  <1>3. /\ IsPort(outq') /\ IsPort(callq') /\ IsPort(minted')
        /\ On(callq') = On(callq) /\ On(minted') = On(minted)
    BY <1>1, SameOn DEF IInv, TypeOK
  <1>4. Recedes
    BY <1>1, <1>2, <1>3 DEF Recedes, Grows, IInv, TypeOK
  <1> QED BY <1>4, RecedesInv

LEMMA ReadAnswerInv == ASSUME IInv, ReadAnswer PROVE IInv'
  <1>1. /\ UNCHANGED <<scn, led, wire, mail, next, callq, minted, pend>>
        /\ outq # <<>> /\ answers' = answers \cup {Head(outq)} /\ outq' = Tail(outq)
    BY DEF ReadAnswer, ledger, mint
  <1>2. IsPort(outq') /\ On(outq') \subseteq On(outq) /\ Head(outq) \in On(outq)
    BY <1>1, TailPort DEF IInv, TypeOK
  <1>3. Accepted' \subseteq Accepted
    BY <1>1, <1>2 DEF Accepted, Answered, On
  <1>4. /\ IsPort(callq') /\ IsPort(minted')
        /\ On(callq') = On(callq) /\ On(minted') = On(minted)
    BY <1>1, SameOn DEF IInv, TypeOK
  <1>5. Recedes
    BY <1>1, <1>2, <1>3, <1>4 DEF Recedes, Grows, IInv, TypeOK
  <1> QED BY <1>5, RecedesInv

LEMMA MintLinkInv == ASSUME IInv, MintLink PROVE IInv'
  <1>1. UNCHANGED <<scn, led, wire, mail, next, pend, outq, answers>>
    BY DEF MintLink, ledger
  <1>2. Accepted' \subseteq Accepted /\ IsPort(outq')
    BY <1>1, SameOn DEF Accepted, Answered, IInv, TypeOK
  <1>3. /\ \/ minted' = Append(minted, [kind |-> "down"])
           \/ minted' = Append(minted, [kind |-> "up"])
        /\ \/ callq' = callq
           \/ callq # <<>> /\ callq' = Tail(callq)
    BY DEF MintLink
  <1>4. /\ IsPort(minted')
        /\ \A r \in On(minted') : r \in On(minted) \/ r.kind \notin {"token", "failed"}
    <2>1. CASE minted' = Append(minted, [kind |-> "down"])
      BY <2>1, AppendPort DEF IInv, TypeOK
    <2>2. CASE minted' = Append(minted, [kind |-> "up"])
      BY <2>2, AppendPort DEF IInv, TypeOK
    <2> QED BY <1>3, <2>1, <2>2
  <1>5. IsPort(callq') /\ On(callq') \subseteq On(callq)
    BY <1>3, TailPort DEF IInv, TypeOK
  <1>6. Recedes
    BY <1>1, <1>2, <1>4, <1>5 DEF Recedes, Grows, IInv, TypeOK
  <1> QED BY <1>6, RecedesInv

LEMMA RestartInv == ASSUME IInv, Restart PROVE IInv'
  <1>1. /\ UNCHANGED <<scn, led, wire, next, answers>> /\ mail' = {}
        /\ pend' = [k \in Slots |-> Free]
        /\ outq' = <<>> /\ callq' = <<>> /\ minted' = <<>>
    BY DEF Restart
  <1>2. /\ IsPort(outq') /\ IsPort(callq') /\ IsPort(minted')
        /\ On(outq') = {} /\ On(callq') = {} /\ On(minted') = {}
    BY <1>1, EmptyPort
  <1>3. Accepted' \subseteq Accepted
    BY <1>1, <1>2 DEF Accepted, Answered, On
  <1>4. Recedes
    BY <1>1, <1>2, <1>3 DEF Recedes, Grows, IInv, TypeOK
  <1> QED BY <1>4, RecedesInv

(***************************************************************************)
(* fail_open_mints.                                                        *)
(***************************************************************************)
LEMMA FailOpenRecedes ==
    ASSUME IInv, FailOpen, answers' = answers
    PROVE  /\ IsPort(outq') /\ Accepted' \subseteq Accepted
           /\ pend' = [k \in Slots |-> pend'[k]]
           /\ \A k \in Slots : pend'[k] \in {pend[k], Free}
  <1>1. PICK some \in SUBSET Waiting :
            /\ pend' = [k \in Slots |-> IF k \in some THEN Free ELSE pend[k]]
            /\ outq' = outq \o MintFailures(some)
    BY DEF FailOpen
  <1> DEFINE N == Cardinality(some)
             s == MintFailures(some)
  <1>2. N \in Nat
    <2>1. IsFiniteSet(Slots)
      BY FS_Interval, AcBounds DEF Slots
    <2>2. IsFiniteSet(some)
      BY <2>1, FS_Subset DEF Waiting, Live
    <2> QED BY <2>2, FS_CardinalityType
  <1>3. s = [n \in 1 .. N |-> s[n]] /\ \A n \in 1 .. N : s[n].status = "mint_failed"
    BY RefusalsAreNot DEF MintFailures
  <1> HIDE DEF N, s
  <1>4. IsPort(outq') /\ On(outq') = On(outq) \cup On(s)
    BY <1>1, <1>2, <1>3, ConcatPort DEF s, IInv, TypeOK
  <1>5. \A r \in On(s) : r.status = "mint_failed"
    BY <1>3 DEF On
  <1>6. Accepted' \subseteq Accepted
    BY <1>4, <1>5 DEF Accepted, Answered, On
  <1> QED BY <1>1, <1>4, <1>6

LEMMA FailOpenMintsInv == ASSUME IInv, FailOpenMints PROVE IInv'
  <1>1. UNCHANGED <<scn, led, wire, mail, next, callq, minted, answers>> /\ FailOpen
    BY DEF FailOpenMints, ledger, mint
  <1>2. /\ IsPort(callq') /\ IsPort(minted')
        /\ On(callq') = On(callq) /\ On(minted') = On(minted)
    BY <1>1, SameOn DEF IInv, TypeOK
  <1>3. Recedes
    BY <1>1, <1>2, FailOpenRecedes DEF Recedes, Grows, IInv, TypeOK
  <1> QED BY <1>3, RecedesInv

LEMMA MintReads ==
    ASSUME IInv, NEW kind, MintRead(kind)
    PROVE  /\ UNCHANGED <<scn, led, wire, mail, next, answers>>
           /\ IsPort(minted') /\ On(minted') \subseteq On(minted)
           /\ Head(minted) \in On(minted) /\ Head(minted).kind = kind
  BY TailPort DEF MintRead, ledger, IInv, TypeOK

LEMMA OnLinkDownInv == ASSUME IInv, OnLinkDown PROVE IInv'
  <1>1. /\ UNCHANGED <<scn, led, wire, mail, next, answers, callq>> /\ FailOpen
        /\ IsPort(minted') /\ On(minted') \subseteq On(minted)
    BY MintReads DEF OnLinkDown
  <1>2. IsPort(callq') /\ On(callq') = On(callq)
    BY <1>1, SameOn DEF IInv, TypeOK
  <1>3. Recedes
    BY <1>1, <1>2, FailOpenRecedes DEF Recedes, Grows, IInv, TypeOK
  <1> QED BY <1>3, RecedesInv

(* A step that only reads an answer of the mint.                           *)
LEMMA MintOnlyReadInv ==
    ASSUME IInv, NEW kind, MintRead(kind), UNCHANGED <<pend, outq, callq>> PROVE IInv'
  <1>1. /\ UNCHANGED <<scn, led, wire, mail, next, answers, pend, outq, callq>>
        /\ IsPort(minted') /\ On(minted') \subseteq On(minted)
    BY MintReads
  <1>2. IsPort(callq') /\ On(callq') = On(callq) /\ IsPort(outq')
    BY <1>1, SameOn DEF IInv, TypeOK
  <1>3. Accepted' \subseteq Accepted
    BY <1>1 DEF Accepted, Answered
  <1>4. Recedes
    BY <1>1, <1>2, <1>3 DEF Recedes, Grows, IInv, TypeOK
  <1> QED BY <1>4, RecedesInv

LEMMA OnFailedInv == ASSUME IInv, OnFailed PROVE IInv'
  <1>1. CASE UNCHANGED <<pend, outq>>
    BY <1>1, MintOnlyReadInv DEF OnFailed
  <1>2. CASE \E k \in Slots : Refuse(k, pend[k], "mint_failed")
    <2>1. PICK k \in Slots : Refuse(k, pend[k], "mint_failed")
      BY <1>2
    <2>2. /\ UNCHANGED <<scn, led, wire, mail, next, answers, callq>>
          /\ IsPort(minted') /\ On(minted') \subseteq On(minted)
      BY MintReads DEF OnFailed
    <2>3. next' <= scn.reqs + 1
      BY <2>2 DEF IInv, TypeOK
    <2> QED BY <2>1, <2>2, <2>3, RefuseInv
  <1> QED BY <1>1, <1>2 DEF OnFailed

LEMMA StutterInv == ASSUME IInv, UNCHANGED vars PROVE IInv'
  <1>1. /\ UNCHANGED <<scn, led, wire, mail, next, answers, pend, outq, callq, minted>>
    BY DEF vars, ledger, mint
  <1>2. /\ IsPort(callq') /\ On(callq') = On(callq) /\ IsPort(outq')
        /\ IsPort(minted') /\ On(minted') = On(minted)
    BY <1>1, SameOn DEF IInv, TypeOK
  <1>3. Accepted' \subseteq Accepted
    BY <1>1 DEF Accepted, Answered
  <1>4. Recedes
    BY <1>1, <1>2, <1>3 DEF Recedes, Grows, IInv, TypeOK
  <1> QED BY <1>4, RecedesInv

(***************************************************************************)
(* Steps that put a slot at a stage it has not been at, with what it asks  *)
(* of the ledger or of the mint there.                                     *)
(***************************************************************************)
(* The slot was free and the request is new, or it moves on.               *)
Fresh(k, e) ==
    \/ /\ k \in Slots \ Live /\ e.id = next /\ next' = next + 1 /\ next <= scn.reqs
       /\ e.flow \in {"authz_claim", "xchg_code"}
    \/ /\ k \in Live /\ e.id = pend[k].id /\ next' = next
       /\ e.flow \notin Through(pend[k].flow) /\ e.flow \in Through(e.flow)
       /\ Through(pend[k].flow) \subseteq Through(e.flow)
       /\ pend[k].flow \in AuthzFlows <=> e.flow \in AuthzFlows

Advances(k, e, asks, calls) ==
    /\ UNCHANGED <<scn, led, answers, outq>>
    /\ pend' = [pend EXCEPT ![k] = e] /\ e \in Entry /\ SlotOK(e)'
    /\ Fresh(k, e)
    /\ wire' = wire \cup asks /\ mail' \subseteq mail
    /\ \A w \in asks : w.corr = <<e.id, e.flow>> /\ Asked(e, w.q) /\ Question(w)
    /\ \A v, w \in asks : v = w
    /\ IsPort(callq') /\ On(callq') \subseteq On(callq) \cup calls
    /\ \A r \in calls : r.id = <<e.id, e.flow>> /\ r.spec = SpecOf(e)
    /\ IsPort(minted') /\ On(minted') \subseteq On(minted)
    /\ e.flow \in MintFlows => k \in Using /\ e.code = pend[k].code
    /\ e.flow = "authz_client" => k \in Claiming /\ e.req = pend[k].req

LEMMA AdvancesInv ==
    ASSUME IInv, NEW k, NEW e, NEW asks, NEW calls, Advances(k, e, asks, calls) PROVE IInv'
  <1>1. /\ scn' = scn /\ led' = led /\ answers' = answers /\ outq' = outq
        /\ wire' = wire \cup asks /\ mail' \subseteq mail
        /\ k \in Slots /\ e \in Entry /\ e.flow # "free"
        /\ pend \in [Slots -> Entry \cup {Free}] /\ pend' = [pend EXCEPT ![k] = e]
    BY DEF Advances, Fresh, Live, Entry, Flows, AuthzFlows, XchgFlows, MintFlows, IInv, TypeOK
  <1>2. /\ next \in Nat /\ next' \in Nat /\ next <= next' /\ 1 <= next'
        /\ next' <= scn.reqs + 1 /\ scn.reqs \in Nat /\ scn.reqs <= MaxReqs /\ MaxReqs \in Nat
    BY AcBounds DEF Advances, Fresh, IInv, TypeOK
  <1>3. /\ Live' = Live \cup {k} /\ pend'[k] = e
        /\ \A j \in Live' : j \in Slots
        /\ \A j \in Live' \ {k} : j \in Live /\ pend'[j] = pend[j]
    BY <1>1 DEF Live
  <1>4. TypeOK'
    <2>1. pend' \in [Slots -> Entry \cup {Free}]
      BY <1>1
    <2>2. IsPort(outq') /\ led' = [x \in Keys |-> led'[x]] /\ scn' \in Scenarios
      BY <1>1, SameOn DEF IInv, TypeOK
    <2> QED BY <1>1, <1>2, <2>1, <2>2 DEF TypeOK, Advances
  <1>5. Grows
    BY <1>1 DEF Grows
  <1>6. /\ Known \subseteq Known'
        /\ \A c : Issued(c) \subseteq Issued(c)'
        /\ \A x : (Holds(x) => Holds(x)') /\ (Earned(x) => Earned(x)')
    BY <1>5, GrowsKeeps
  <1>7. LedgerOK'
    BY <1>1, <1>6 DEF IInv, LedgerOK
  <1>8. Answered' = Answered /\ Granted' = Granted /\ Redeemed' = Redeemed
        /\ Accepted' = Accepted
    BY <1>1 DEF Answered, Granted, Redeemed, Accepted
  <1>9. \A j \in Live' \ {k} : pend'[j].id # e.id
    <2>1. \A j \in Live \ {k} : pend[j].id # e.id
      <3>1. CASE e.id = next
        BY <3>1, <1>2, LiveIds
      <3>2. CASE k \in Live /\ e.id = pend[k].id
        BY <3>2 DEF IInv, SlotsOK
      <3> QED BY <3>1, <3>2 DEF Advances, Fresh
    <2> QED BY <1>3, <2>1
  <1>10. \A x : Corr(x) => Corr(x)' /\ x # <<e.id, e.flow>>
    <2> SUFFICES ASSUME NEW x, Corr(x) PROVE Corr(x)' /\ x # <<e.id, e.flow>>
      OBVIOUS
    <2>1. x = <<x[1], x[2]>> /\ x[1] \in Ids /\ x[1] < next' /\ x[2] \in Stages
      BY <1>2 DEF Corr, Ids
    <2>2. \A j \in Live' \ {k} : pend'[j].id = x[1] => x[2] \in Through(pend'[j].flow)
      BY <1>3 DEF Corr
    <2>3. e.id = x[1] => x[2] \in Through(e.flow) /\ x[2] # e.flow
      <3>1. CASE e.id = next
        BY <3>1, <1>2 DEF Corr, Ids
      <3>2. CASE /\ k \in Live /\ e.id = pend[k].id
                 /\ Through(pend[k].flow) \subseteq Through(e.flow)
                 /\ e.flow \notin Through(pend[k].flow)
        BY <3>2 DEF Corr
      <3> QED BY <3>1, <3>2 DEF Advances, Fresh
    <2> QED BY <1>3, <2>1, <2>2, <2>3 DEF Corr
  <1>11. Corr(<<e.id, e.flow>>)'
    <2>1. e.id \in Ids /\ e.flow \in Stages /\ e.id < next'
      BY <1>1 DEF Entry, Stages, Advances, SlotOK
    <2>2. e.flow \in Through(e.flow)
      BY DEF Advances, Fresh, Through
    <2> QED BY <1>3, <1>9, <2>1, <2>2 DEF Corr
  <1>12. SlotsOK'
    <2>1. \A j \in Live' \ {k} : SlotOK(pend[j])'
      <3>1. \A j \in Live : SlotOK(pend[j]) /\ pend[j] \in Entry
        BY LiveIsEntry DEF IInv, SlotsOK
      <3>2. \A x \in Entry : SlotOK(x) => SlotOK(x)'
        BY <1>1, <1>2, <1>5, SlotStays
      <3> QED BY <1>3, <3>1, <3>2
    <2>2. SlotOK(pend[k])'
      BY <1>3 DEF Advances
    <2>3. \A i, j \in Live' : pend'[i].id = pend'[j].id => i = j
      BY <1>3, <1>9 DEF IInv, SlotsOK
    <2> QED BY <2>1, <2>2, <2>3 DEF SlotsOK
  <1>13. AnswersOK'
    <2>1. \A a \in Accepted : a.id # e.id
      <3>1. CASE e.id = next
        BY <3>1, <1>2 DEF IInv, AnswersOK, Ids
      <3>2. CASE k \in Live /\ e.id = pend[k].id
        BY <3>2 DEF IInv, AnswersOK
      <3> QED BY <3>1, <3>2 DEF Advances, Fresh
    <2>2. \A a \in Accepted : a.id \in Ids /\ a.id < next' /\ a.req \in Bodies
      BY <1>2 DEF IInv, AnswersOK, Ids
    <2>3. \A a \in Accepted, j \in Live' : pend'[j].id # a.id
      BY <1>3, <2>1 DEF IInv, AnswersOK
    <2> QED BY <1>8, <2>2, <2>3 DEF AnswersOK, IInv
  <1>14. TokensOK'
    BY <1>6, <1>8 DEF IInv, TokensOK
  <1>15. WireOK'
    <2>1. \A w : Question(w) => Question(w)'
      BY <1>5, QuestionStays
    <2>2. \A w \in wire' : Corr(w.corr)' /\ Question(w)'
      BY <1>1, <1>10, <1>11, <2>1 DEF IInv, WireOK, Advances
    <2>3. \A v, w \in wire' : v.corr = w.corr => v = w
      BY <1>1, <1>10 DEF IInv, WireOK, Advances
    <2> QED BY <2>2, <2>3 DEF WireOK
  <1>16. AskedOK'
    <2> SUFFICES ASSUME NEW w \in wire', NEW j \in Live',
                        w.corr = <<pend'[j].id, pend'[j].flow>>
                 PROVE  Asked(pend'[j], w.q)
      BY DEF AskedOK
    <2>1. CASE w \in wire
      <3>1. j # k
        BY <1>3, <1>10, <2>1 DEF IInv, WireOK
      <3> QED BY <1>3, <2>1, <3>1 DEF IInv, AskedOK
    <2>2. CASE w \in asks
      <3>1. w.corr = <<e.id, e.flow>> /\ Asked(e, w.q)
        BY <2>2 DEF Advances
      <3>2. j = k
        BY <1>3, <1>9, <3>1
      <3> QED BY <1>3, <3>1, <3>2
    <2> QED BY <1>1, <2>1, <2>2
  <1>17. \A m \in mail' : m \in mail /\ Corr(m.corr)' /\ m.corr # <<e.id, e.flow>>
    BY <1>1, <1>10 DEF IInv, ToldOK
  <1>18. ToldOK'
    <2>1. \A x, val : Tells(x, val) => Tells(x, val)'
      BY <1>6 DEF Tells
    <2> SUFFICES ASSUME NEW m \in mail', NEW j \in Live',
                        m.corr = <<pend'[j].id, pend'[j].flow>>, m.status = "ok"
                 PROVE  Tells(pend[j], m.val)'
      BY <1>17 DEF ToldOK
    <2>2. j \in Live /\ pend'[j] = pend[j]
      BY <1>3, <1>17
    <2> QED BY <1>17, <2>1, <2>2 DEF IInv, ToldOK
  <1>19. ASSUME NEW c, Filed(c) PROVE Filed(c)'
    <2>1. c \notin next' .. MaxReqs
      BY <1>2, <1>19 DEF Filed
    <2>2. \A w \in wire' : w.corr # <<c, "file_code">>
      <3>1. e.flow # "file_code"
        BY <1>1 DEF Entry, Flows, AuthzFlows, XchgFlows, MintFlows
      <3> QED BY <1>1, <1>19, <3>1 DEF Advances, Filed
    <2>3. \A j \in Live' : pend'[j].flow \in AuthzFlows => pend'[j].id # c
      <3>1. e.flow \in AuthzFlows => e.id # c
        <4>1. CASE e.id = next
          BY <1>1, <1>2, <1>19, <4>1 DEF Filed, Entry, Ids
        <4>2. CASE /\ k \in Live /\ e.id = pend[k].id
                   /\ pend[k].flow \in AuthzFlows <=> e.flow \in AuthzFlows
          BY <1>19, <4>2 DEF Filed
        <4> QED BY <4>1, <4>2 DEF Advances, Fresh
      <3> QED BY <1>3, <1>19, <3>1 DEF Filed
    <2> QED BY <2>1, <2>2, <2>3 DEF Filed
  <1>20. CodesOK'
    <2>1. \A w \in wire' : w.corr[2] = "file_code" => w \in wire
      <3>1. e.flow # "file_code"
        BY <1>1 DEF Entry, Flows, AuthzFlows, XchgFlows, MintFlows
      <3> QED BY <1>1, <3>1 DEF Advances
    <2> QED BY <1>1, <1>6, <1>8, <1>19, <2>1 DEF IInv, CodesOK
  <1>21. \A j \in Live' : \A flow : Told(j, flow)' => j # k /\ Told(j, flow)
    BY <1>3, <1>17 DEF Told
  <1>22. Uses' \subseteq Uses
    <2>1. \A j \in Using' : j \in Using /\ pend'[j].id = pend[j].id /\ pend'[j].code = pend[j].code
      <3> SUFFICES ASSUME NEW j \in Using'
                   PROVE  j \in Using /\ pend'[j].id = pend[j].id /\ pend'[j].code = pend[j].code
        OBVIOUS
      <3>1. CASE j = k
        <4>1. e.flow \in MintFlows
          BY <1>3, <1>21, <3>1 DEF Using
        <4>2. k \in Using /\ e.code = pend[k].code /\ k \in Live
          BY <4>1 DEF Advances, Using
        <4>3. e.id = pend[k].id
          BY <4>2 DEF Advances, Fresh
        <4> QED BY <1>3, <3>1, <4>2, <4>3
      <3>2. CASE j # k
        BY <1>3, <1>21, <3>2 DEF Using
      <3> QED BY <3>1, <3>2
    <2> QED BY <1>8, <2>1 DEF Uses
  <1>23. Claims' \subseteq Claims
    <2>1. \A j \in Claiming' : /\ j \in Claiming /\ pend'[j].id = pend[j].id
                               /\ pend'[j].req = pend[j].req
      <3> SUFFICES ASSUME NEW j \in Claiming'
                   PROVE  /\ j \in Claiming /\ pend'[j].id = pend[j].id
                          /\ pend'[j].req = pend[j].req
        OBVIOUS
      <3>1. CASE j = k
        <4>1. e.flow = "authz_client"
          BY <1>3, <1>21, <3>1 DEF Claiming
        <4>2. k \in Claiming /\ e.req = pend[k].req /\ k \in Live
          BY <4>1 DEF Advances, Claiming
        <4>3. e.id = pend[k].id
          BY <4>2 DEF Advances, Fresh
        <4> QED BY <1>3, <3>1, <4>2, <4>3
      <3>2. CASE j # k
        BY <1>3, <1>21, <3>2 DEF Claiming
      <3> QED BY <3>1, <3>2
    <2> QED BY <1>8, <2>1 DEF Claims
  <1>24. OncePerCode' /\ OncePerProof'
    BY <1>1, <1>19, <1>22, <1>23 DEF IInv, OncePerCode, OncePerProof
  <1>25. MintOK'
    <2>1. \A j \in Waiting' : j = k \/ (j \in Waiting /\ pend'[j] = pend[j])
      BY <1>3 DEF Waiting
    <2>2. \A j \in Waiting' : j \in Live'
      BY DEF Waiting
    <2>3. ASSUME NEW r \in On(callq')
          PROVE  /\ Corr(r.id)'
                 /\ \A j \in Waiting' :
                      r.id = <<pend'[j].id, pend'[j].flow>> => r.spec = SpecOf(pend'[j])
      <3>1. CASE r \in On(callq)
        <4>1. Corr(r.id)
          BY <3>1 DEF IInv, MintOK
        <4>2. r.id # <<e.id, e.flow>> /\ Corr(r.id)'
          BY <1>10, <4>1
        <4> QED BY <1>3, <2>1, <3>1, <4>2 DEF IInv, MintOK
      <3>2. CASE r \in calls
        <4>1. r.id = <<e.id, e.flow>> /\ r.spec = SpecOf(e)
          BY <3>2 DEF Advances
        <4>2. \A j \in Waiting' : r.id = <<pend'[j].id, pend'[j].flow>> => j = k
          BY <1>3, <1>9, <2>2, <4>1
        <4> QED BY <1>3, <1>11, <4>1, <4>2
      <3> QED BY <3>1, <3>2 DEF Advances
    <2>4. ASSUME NEW r \in On(minted'), r.kind \in {"token", "failed"}
          PROVE  /\ Corr(r.id)'
                 /\ \A j \in Waiting' : r.id = <<pend'[j].id, pend'[j].flow>> /\ r.kind = "token"
                                          => r.token = SpecOf(pend'[j])
      <3>1. r \in On(minted) /\ Corr(r.id)
        BY <2>4 DEF Advances, IInv, MintOK
      <3>2. r.id # <<e.id, e.flow>> /\ Corr(r.id)'
        BY <1>10, <3>1
      <3> QED BY <1>3, <2>1, <2>4, <3>1, <3>2 DEF IInv, MintOK
    <2> QED BY <2>3, <2>4 DEF MintOK
  <1> QED BY <1>4, <1>7, <1>12, <1>13, <1>14, <1>15, <1>16, <1>18, <1>20, <1>24, <1>25 DEF IInv

LEMMA EntryAt ==
    ASSUME NEW e \in Entry, NEW flow \in Flows, NEW f, f = [e EXCEPT !.flow = flow]
    PROVE  /\ f \in Entry /\ f.flow = flow /\ f.id = e.id /\ f.req = e.req /\ f.code = e.code
           /\ f.rec = e.rec /\ f.access = e.access /\ f.gone = e.gone
  BY DEF Entry

LEMMA ThroughIsWhole ==
    /\ \A flow \in Flows : flow \in Through(flow)
    /\ Through("authz_claim") \subseteq Through("authz_client")
    /\ "authz_client" \notin Through("authz_claim")
    /\ Through("xchg_code") \subseteq Through("xchg_device")
    /\ "xchg_device" \notin Through("xchg_code")
    /\ Through("xchg_device") \subseteq Through("xchg_consume")
    /\ "xchg_consume" \notin Through("xchg_device")
    /\ Through("xchg_consume") \subseteq Through("xchg_mint_at")
    /\ "xchg_mint_at" \notin Through("xchg_consume")
    /\ Through("xchg_mint_at") \subseteq Through("xchg_mint_id")
    /\ "xchg_mint_id" \notin Through("xchg_mint_at")
  BY DEF Through, Flows, AuthzFlows, XchgFlows, MintFlows

(* A slot that waits on the ledger asks its next question, or refuses.     *)
LEMMA AskInv ==
    ASSUME IInv, NEW m \in mail, Read(m), UNCHANGED callq,
           NEW k \in Live, NEW e \in Entry, e.id = pend[k].id, e.req = pend[k].req,
           NEW flow \in {"authz_client", "xchg_device", "xchg_consume"},
           NEW f, f = [e EXCEPT !.flow = flow], SlotOK(f),
           flow \notin Through(pend[k].flow), Through(pend[k].flow) \subseteq Through(flow),
           pend[k].flow \in AuthzFlows <=> flow \in AuthzFlows,
           flow = "authz_client" => k \in Claiming,
           NEW q, Asked(f, q), Question([corr |-> <<e.id, flow>>, q |-> q]),
           Ask(k, e, flow, q)
    PROVE  IInv'
  <1>1. /\ flow \in Flows /\ flow \notin MintFlows /\ k \in Slots
        /\ next \in Nat /\ next <= scn.reqs + 1
    BY DEF Flows, AuthzFlows, XchgFlows, MintFlows, Live, IInv, TypeOK
  <1>2. f \in Entry /\ f.flow = flow /\ f.id = e.id /\ f.req = e.req
    BY <1>1, EntryAt
  <1>3. UNCHANGED <<scn, led, next, answers, minted, callq>> /\ mail' \subseteq mail
    BY DEF Read
  <1>4. /\ IsPort(callq') /\ IsPort(minted')
        /\ On(callq') = On(callq) /\ On(minted') = On(minted)
    BY <1>3, SameOn DEF IInv, TypeOK
  <1>5. CASE Refuse(k, e, "state_unavailable") /\ UNCHANGED wire
    BY <1>1, <1>3, <1>4, <1>5, RefuseInv
  <1>6. CASE /\ pend' = [pend EXCEPT ![k] = [e EXCEPT !.flow = flow]]
             /\ wire' = wire \cup {[corr |-> <<e.id, flow>>, q |-> q]}
             /\ UNCHANGED outq
    <2> DEFINE w == [corr |-> <<e.id, flow>>, q |-> q]
    <2>1. SlotOK(f)'
      <3>1. Grows
        BY <1>3 DEF Grows
      <3>2. next' \in Nat /\ next <= next' /\ led' = led
        BY <1>1, <1>3
      <3> QED BY <1>1, <1>2, <3>1, <3>2, SlotStays
    <2>2. Fresh(k, f)
      BY <1>2, <1>3, <1>1, ThroughIsWhole DEF Fresh
    <2>3. w.corr = <<f.id, f.flow>> /\ w.q = q
      BY <1>2
    <2>4. Advances(k, f, {w}, {})
      <3> HIDE DEF w
      <3>1. wire' = wire \cup {w}
        BY <1>6 DEF w
      <3>2. Question(w)
        BY DEF w
      <3> QED BY <1>1, <1>2, <1>3, <1>4, <1>6, <2>1, <2>2, <2>3, <3>1, <3>2 DEF Advances
    <2> QED BY <2>4, AdvancesInv
  <1> QED BY <1>5, <1>6 DEF Ask

(* What a slot refuses, when it reads the ledger's answer.                 *)
LEMMA RefuseReplyInv ==
    ASSUME IInv, NEW m \in mail, Read(m), UNCHANGED <<callq, wire>>, NEW k \in Slots,
           NEW e, NEW status, status # "ok", Refuse(k, e, status)
    PROVE  IInv'
  <1>1. UNCHANGED <<scn, led, next, answers, minted, callq>> /\ mail' \subseteq mail
    BY DEF Read
  <1>2. IsPort(minted') /\ On(minted') = On(minted)
    BY <1>1, SameOn DEF IInv, TypeOK
  <1>3. next' <= scn.reqs + 1
    BY <1>1 DEF IInv, TypeOK
  <1> QED BY <1>1, <1>2, <1>3, RefuseInv

LEMMA AuthzOnClaimInv == ASSUME IInv, NEW m, NEW k, AuthzOnClaim(m, k) PROVE IInv'
  <1> PICK e : e = pend[k]
    OBVIOUS
  <1>1. /\ m \in mail /\ k \in Live /\ k \in Slots /\ pend[k].flow = "authz_claim"
        /\ m.corr = <<pend[k].id, "authz_claim">> /\ Read(m) /\ UNCHANGED callq
    BY DEF AuthzOnClaim, At, Live
  <1>2. e \in Entry /\ SlotOK(e) /\ e.flow = "authz_claim"
    BY <1>1, LiveIsEntry DEF IInv, SlotsOK
  <1>3. CASE ClaimRefusal(m.status) # "none"
    BY <1>1, <1>3, RefuseReplyInv, RefusalsAreNot DEF AuthzOnClaim
  <1>4. CASE ClaimRefusal(m.status) = "none"
    <2> DEFINE q == Get(ClientKey(e.req.client))
    <2> PICK f : f = [e EXCEPT !.flow = "authz_client"]
      OBVIOUS
    <2>1. f \in Entry /\ f.flow = "authz_client" /\ f.id = e.id /\ f.req = e.req /\ f.gone = e.gone
      BY <1>2, EntryAt DEF Flows, AuthzFlows
    <2>2. SlotOK(f)
      BY <1>2, <2>1 DEF SlotOK, AuthzFlows, XchgFlows, MintFlows
    <2>3. k \in Claiming
      <3>1. m.status = "ok"
        BY <1>4 DEF ClaimRefusal
      <3> QED BY <1>1, <3>1 DEF Claiming, Told
    <2>4. Asked(f, q) /\ Question([corr |-> <<e.id, "authz_client">>, q |-> q])
      BY <2>1 DEF Asked, Question, Get
    <2>5. Ask(k, e, "authz_client", q)
      BY <1>4 DEF AuthzOnClaim
    <2> HIDE DEF q
    <2> QED BY <1>1, <1>2, <2>2, <2>3, <2>4, <2>5, ThroughIsWhole, AskInv DEF AuthzFlows
  <1> QED BY <1>3, <1>4

LEMMA XchgOnCodeInv == ASSUME IInv, NEW m, NEW k, XchgOnCode(m, k) PROVE IInv'
  <1> PICK e : e = pend[k]
    OBVIOUS
  <1>1. /\ m \in mail /\ k \in Live /\ k \in Slots /\ pend[k].flow = "xchg_code"
        /\ m.corr = <<pend[k].id, "xchg_code">> /\ Read(m) /\ UNCHANGED callq
    BY DEF XchgOnCode, At, Live
  <1>2. e \in Entry /\ SlotOK(e) /\ e.flow = "xchg_code"
    BY <1>1, LiveIsEntry DEF IInv, SlotsOK
  <1>3. CASE CodeRefusal(m, e.req) # "none"
    BY <1>1, <1>3, RefuseReplyInv, RefusalsAreNot DEF XchgOnCode
  <1>4. CASE CodeRefusal(m, e.req) = "none"
    <2> DEFINE q == Get(DeviceKey(m.val.dev))
    <2>a. PICK g : g = [e EXCEPT !.rec = m.val]
      OBVIOUS
    <2>b. PICK f : f = [g EXCEPT !.flow = "xchg_device"]
      OBVIOUS
    <2>1. m.status = "ok" /\ m.val.kind # "consumed"
      BY <1>4 DEF CodeRefusal
    <2>2. m.val \in Issued(e.code)
      BY <1>1, <1>2, <2>1 DEF IInv, ToldOK, Tells
    <2>3. m.val \in Recs /\ m.val.kind = "code"
      BY <2>2, IssuedAreCodes DEF IInv
    <2>4. /\ m.val.client = e.req.client /\ m.val.ruri = e.req.ruri
          /\ m.val.cc = S256(e.req.verifier)
      BY <1>4, <2>1, <2>3 DEF CodeRefusal
    <2>5. /\ g \in Entry /\ g.flow = e.flow /\ g.id = e.id /\ g.req = e.req /\ g.gone = e.gone
          /\ g.rec = m.val /\ g.code = e.code
      BY <1>2, <2>3, <2>a DEF Entry
    <2>6. /\ f \in Entry /\ f.flow = "xchg_device" /\ f.id = e.id /\ f.req = e.req
          /\ f.gone = e.gone /\ f.rec = m.val /\ f.code = e.code
      <3>1. "xchg_device" \in Flows
        BY DEF Flows, XchgFlows
      <3>2. /\ f \in Entry /\ f.flow = "xchg_device" /\ f.id = g.id /\ f.req = g.req
            /\ f.gone = g.gone /\ f.rec = g.rec /\ f.code = g.code
        BY <2>5, <2>b, <3>1, EntryAt
      <3> QED BY <2>5, <3>2
    <2>7. Holds(f)
      BY <2>2, <2>4, <2>6 DEF Holds
    <2>8. SlotOK(f)
      BY <1>2, <2>6, <2>7 DEF SlotOK, AuthzFlows, XchgFlows, MintFlows
    <2>9. Asked(f, q) /\ Question([corr |-> <<g.id, "xchg_device">>, q |-> q])
      BY <2>6 DEF Asked, Question, Get
    <2>10. Ask(k, g, "xchg_device", q)
      BY <1>4, <2>a DEF XchgOnCode
    <2> HIDE DEF q
    <2> QED BY <1>1, <1>2, <2>5, <2>8, <2>9, <2>10, <2>b, ThroughIsWhole, AskInv DEF AuthzFlows
  <1> QED BY <1>3, <1>4

LEMMA XchgOnDeviceInv == ASSUME IInv, NEW m, NEW k, XchgOnDevice(m, k) PROVE IInv'
  <1> PICK e : e = pend[k]
    OBVIOUS
  <1>1. /\ m \in mail /\ k \in Live /\ k \in Slots /\ pend[k].flow = "xchg_device"
        /\ m.corr = <<pend[k].id, "xchg_device">> /\ Read(m) /\ UNCHANGED callq
    BY DEF XchgOnDevice, At, Live
  <1>2. e \in Entry /\ SlotOK(e) /\ e.flow = "xchg_device"
    BY <1>1, LiveIsEntry DEF IInv, SlotsOK
  <1>3. CASE DeviceRefusal(m) # "none"
    BY <1>1, <1>3, RefuseReplyInv, RefusalsAreNot DEF XchgOnDevice
  <1>4. CASE DeviceRefusal(m) = "none"
    <2> DEFINE q == CompareAndSwap(CodeKey(e.code), e.rec, Consumed(e))
    <2> PICK f : f = [e EXCEPT !.flow = "xchg_consume"]
      OBVIOUS
    <2>1. m.status = "ok" /\ m.val.active
      BY <1>4 DEF DeviceRefusal
    <2>2. e.rec.dev \notin e.gone
      BY <1>1, <1>2, <2>1 DEF IInv, ToldOK, Tells
    <2>3. Holds(e) /\ e.code \in Known /\ Earned(e)
      BY <1>2, <2>2 DEF SlotOK, XchgFlows, Earned
    <2>4. e.rec.kind = "code"
      BY <2>3, IssuedAreCodes DEF Holds, IInv
    <2>5. /\ f \in Entry /\ f.flow = "xchg_consume" /\ f.id = e.id /\ f.req = e.req
          /\ f.gone = e.gone /\ f.rec = e.rec /\ f.code = e.code
      BY <1>2, EntryAt DEF Flows, XchgFlows
    <2>6. Holds(f) /\ Earned(f)
      BY <2>3, <2>5 DEF Holds, Earned
    <2>7. SlotOK(f)
      BY <1>2, <2>5, <2>6 DEF SlotOK, AuthzFlows, XchgFlows, MintFlows
    <2>8. Asked(f, q)
      BY <2>5 DEF Asked, CompareAndSwap
    <2>9. Question([corr |-> <<e.id, "xchg_consume">>, q |-> q])
      <3>1. q.new.by = e
        BY DEF CompareAndSwap, Consumed
      <3> QED BY <2>3, <2>4, <3>1 DEF Question
    <2>10. Ask(k, e, "xchg_consume", q)
      BY <1>4 DEF XchgOnDevice
    <2> HIDE DEF q
    <2> QED BY <1>1, <1>2, <2>7, <2>8, <2>9, <2>10, ThroughIsWhole, AskInv DEF AuthzFlows
  <1> QED BY <1>3, <1>4

(***************************************************************************)
(* Requests taken.                                                         *)
(***************************************************************************)
LEMMA LeastOf ==
    ASSUME NEW S \in SUBSET Nat, S # {} PROVE \E x \in S : \A y \in S : x <= y
  <1> DEFINE Below == {ss \in Nat \X Nat : ss[1] < ss[2]}
  <1>1. IsWellFoundedOn(Below, Nat)
    BY NatLessThanWellFounded, Zenon DEF OpToRel
  <1> HIDE DEF Below
  <1>2. PICK x \in S : \A y \in S : <<y, x>> \notin Below
    BY <1>1, WFMin
  <1>3. ASSUME NEW y \in S PROVE x <= y
    <2>1. ~(y < x)
      BY <1>2 DEF Below
    <2> QED BY <2>1
  <1> QED BY <1>3

LEMMA FirstFreeIsFree == ASSUME Live # Slots PROVE FirstFree \in Slots \ Live
  <1>1. Slots \ Live \in SUBSET Nat /\ Slots \ Live # {}
    BY DEF Slots, Live
  <1>2. \E k \in Slots \ Live : \A j \in Slots \ Live : k <= j
    BY <1>1, LeastOf
  <1> QED BY <1>2 DEF FirstFree

LEMMA RefuseNowInv ==
    ASSUME IInv, NEW e, NEW status, RefuseNow(e, status), status # "ok",
           next <= scn.reqs, next' = next + 1,
           UNCHANGED <<scn, led, mail, callq, minted, answers>>
    PROVE  IInv'
  <1>1. IsPort(outq') /\ Accepted' \subseteq Accepted
    <2>1. Refusal(e, status).status # "ok"
      BY RefusalsAreNot
    <2> QED BY <2>1, RefusalAccepts DEF RefuseNow, IInv, TypeOK
  <1>2. /\ IsPort(callq') /\ IsPort(minted')
        /\ On(callq') = On(callq) /\ On(minted') = On(minted)
    BY SameOn DEF IInv, TypeOK
  <1>3. next' \in Nat /\ next <= next' /\ next' <= scn.reqs + 1
    BY AcBounds DEF IInv, TypeOK
  <1>4. wire' = wire /\ pend' = pend /\ pend = [k \in Slots |-> pend[k]]
    BY DEF RefuseNow, IInv, TypeOK
  <1>5. Recedes
    BY <1>1, <1>2, <1>3, <1>4 DEF Recedes, Grows
  <1> QED BY <1>5, RecedesInv

LEMMA AskNewInv ==
    ASSUME IInv, NEW b \in scn.bodies, NEW c \in Codes \cup {0},
           NEW e, e = NewEntry(next, b, c),
           NEW flow, \/ flow = "authz_claim" /\ b.op = "authorize"
                     \/ flow = "xchg_code" /\ b.op = "exchange" /\ c \in Known,
           NEW f, f = [e EXCEPT !.flow = flow],
           NEW q, Asked(f, q), Question([corr |-> <<next, flow>>, q |-> q]),
           Live # Slots, Ask(FirstFree, e, flow, q), next <= scn.reqs, next' = next + 1,
           UNCHANGED <<scn, led, mail, callq, minted, answers>>
    PROVE  IInv'
  <1>1. /\ next \in Nat /\ 1 <= next /\ scn.reqs \in Nat /\ next \in Ids /\ b \in Bodies
        /\ next' <= scn.reqs + 1
    BY AcBounds DEF IInv, TypeOK, Ids, Bodies
  <1>2. PICK k : k = FirstFree /\ k \in Slots \ Live
    BY FirstFreeIsFree
  <1>3. /\ f \in Entry /\ f.flow = flow /\ f.id = next /\ f.req = b /\ f.code = c
        /\ f.gone = {d \in Devices : led[DeviceKey(d)] # DeviceRec(TRUE)} /\ e.id = next
    <2>1. f = [flow |-> flow, id |-> next, req |-> b, code |-> c, rec |-> Nothing,
               access |-> Nothing,
               gone |-> {d \in Devices : led[DeviceKey(d)] # DeviceRec(TRUE)}]
      BY DEF NewEntry
    <2>2. flow \in Flows /\ e.id = next
      BY DEF Flows, AuthzFlows, XchgFlows, NewEntry
    <2> DEFINE G == {d \in Devices : led[DeviceKey(d)] # DeviceRec(TRUE)}
    <2>3. G \in SUBSET Devices /\ Nothing \in Recs \cup {Nothing}
          /\ Nothing \in {AccessSpec(r) : r \in Recs} \cup {Nothing}
      OBVIOUS
    <2> DEFINE R == [flow |-> flow, id |-> next, req |-> b, code |-> c, rec |-> Nothing,
                     access |-> Nothing, gone |-> G]
    <2>4. f = R
      BY <2>1
    <2> HIDE DEF G
    <2>5. R \in Entry
      BY <1>1, <2>2, <2>3 DEF Entry
    <2>6. R.flow = flow /\ R.id = next /\ R.req = b /\ R.code = c /\ R.gone = G
      OBVIOUS
    <2> HIDE DEF R
    <2>7. f \in Entry /\ f.flow = flow /\ f.id = next /\ f.req = b /\ f.code = c /\ f.gone = G
      BY <2>4, <2>5, <2>6
    <2> QED BY <2>2, <2>7 DEF G
  <1>4. /\ IsPort(callq') /\ IsPort(minted')
        /\ On(callq') = On(callq) /\ On(minted') = On(minted)
    BY SameOn DEF IInv, TypeOK
  <1>5. CASE Refuse(k, e, "state_unavailable") /\ UNCHANGED wire
    BY <1>1, <1>2, <1>4, <1>5, RefuseInv
  <1>6. CASE /\ pend' = [pend EXCEPT ![k] = [e EXCEPT !.flow = flow]]
             /\ wire' = wire \cup {[corr |-> <<e.id, flow>>, q |-> q]}
             /\ UNCHANGED outq
    <2> DEFINE w == [corr |-> <<next, flow>>, q |-> q]
    <2>1. Known \subseteq Known'
      BY GrowsKeeps DEF Grows
    <2>2. SlotOK(f)'
      <3>1. \A d \in f.gone : led'[DeviceKey(d)] # DeviceRec(TRUE)
        BY <1>3
      <3>2. f.id < next'
        BY <1>1, <1>3
      <3>3. /\ f.flow \in AuthzFlows => f.req.op = "authorize"
            /\ f.flow \in XchgFlows => f.req.op = "exchange" /\ f.code \in Known'
            /\ f.flow \notin XchgFlows \ {"xchg_code"} /\ f.flow # "xchg_mint_id"
        BY <1>3, <2>1 DEF AuthzFlows, XchgFlows, MintFlows
      <3> QED BY <3>1, <3>2, <3>3 DEF SlotOK
    <2>3. Fresh(k, f)
      BY <1>2, <1>3 DEF Fresh
    <2>4. w.corr = <<f.id, f.flow>> /\ w.q = q
      BY <1>3
    <2>5. f.flow \notin MintFlows /\ f.flow # "authz_client"
      BY <1>3 DEF MintFlows
    <2>6. Advances(k, f, {w}, {})
      <3> HIDE DEF w
      <3>1. wire' = wire \cup {w}
        BY <1>3, <1>6 DEF w
      <3>2. Question(w)
        BY DEF w
      <3> QED BY <1>2, <1>3, <1>4, <1>6, <2>2, <2>3, <2>4, <2>5, <3>1, <3>2 DEF Advances
    <2> QED BY <2>6, AdvancesInv
  <1> QED BY <1>2, <1>5, <1>6 DEF Ask

LEMMA TakeRequestInv ==
    ASSUME IInv, NEW b \in scn.bodies, NEW c \in Codes \cup {0}, TakeRequest(b, c) PROVE IInv'
  <1>1. /\ next <= scn.reqs /\ next' = next + 1
        /\ UNCHANGED <<scn, led, mail, callq, minted, answers>>
    BY DEF TakeRequest, mint
  <1>2. b \in Bodies /\ b.wrong # "ok"
    <2>1. b \in Bodies
      BY DEF Bodies, IInv, TypeOK
    <2> QED BY <2>1, AcScenarios
  <1> PICK e : e = NewEntry(next, b, c)
    OBVIOUS
  <1>3. e.req = b /\ e.code = c /\ e.id = next
    BY DEF NewEntry
  <1>4. CASE b.op = "authorize" /\ HandleAuthorize(e)
    <2> DEFINE q == PutIfAbsent(ReplayKey(b.proof), Claim)
    <2>1. \/ RefuseNow(e, b.wrong) \/ RefuseNow(e, "replay") \/ RefuseNow(e, "unauthenticated")
          \/ RefuseNow(e, "state_unavailable")
          \/ Live # Slots /\ Ask(FirstFree, e, "authz_claim", q)
      BY <1>3, <1>4 DEF HandleAuthorize
    <2>2. CASE Live # Slots /\ Ask(FirstFree, e, "authz_claim", q)
      <3>a. PICK f : f = [e EXCEPT !.flow = "authz_claim"]
        OBVIOUS
      <3>1. f.flow = "authz_claim" /\ f.req = b
        BY <3>a DEF NewEntry
      <3>2. Asked(f, q)
        BY <3>1 DEF Asked
      <3>3. b.proof \in Proofs
        BY <1>2, <1>4 DEF Proofs
      <3>4. Question([corr |-> <<next, "authz_claim">>, q |-> q])
        BY <3>3 DEF Question
      <3> HIDE DEF q
      <3> QED BY <1>1, <1>4, <2>2, <3>a, <3>2, <3>4, AskNewInv
    <2> QED BY <1>1, <1>2, <2>1, <2>2, RefuseNowInv
  <1>5. CASE b.op = "exchange" /\ c \in Known /\ HandleExchange(e)
    <2> DEFINE q == Get(CodeKey(c))
    <2>1. \/ RefuseNow(e, b.wrong) \/ RefuseNow(e, "state_unavailable")
          \/ Live # Slots /\ Ask(FirstFree, e, "xchg_code", q)
      BY <1>3, <1>5 DEF HandleExchange
    <2>2. CASE Live # Slots /\ Ask(FirstFree, e, "xchg_code", q)
      <3>a. PICK f : f = [e EXCEPT !.flow = "xchg_code"]
        OBVIOUS
      <3>1. f.flow = "xchg_code" /\ f.code = c
        BY <3>a DEF NewEntry
      <3>2. Asked(f, q)
        BY <3>1 DEF Asked
      <3>3. Question([corr |-> <<next, "xchg_code">>, q |-> q])
        BY DEF Question, Get
      <3> HIDE DEF q
      <3> QED BY <1>1, <1>5, <2>2, <3>a, <3>2, <3>3, AskNewInv
    <2> QED BY <1>1, <1>2, <2>1, <2>2, RefuseNowInv
  <1> QED BY <1>4, <1>5 DEF TakeRequest

(***************************************************************************)
(* Calls to the mint.                                                      *)
(***************************************************************************)
LEMMA EmitMintInv ==
    ASSUME IInv, NEW k \in Using, NEW e \in Entry, e.id = pend[k].id, e.code = pend[k].code,
           NEW flow \in MintFlows, NEW f, f = [e EXCEPT !.flow = flow], SlotOK(f),
           flow \notin Through(pend[k].flow), Through(pend[k].flow) \subseteq Through(flow),
           pend[k].flow \notin AuthzFlows,
           NEW spec, spec = SpecOf(f), EmitMint(k, e, flow, spec),
           UNCHANGED <<scn, led, wire, next, answers>>, mail' \subseteq mail,
           IsPort(minted'), On(minted') \subseteq On(minted)
    PROVE  IInv'
  <1>1. /\ flow \in Flows /\ flow \notin AuthzFlows /\ k \in Slots /\ k \in Live
        /\ next \in Nat /\ next <= scn.reqs + 1
    BY DEF Flows, AuthzFlows, XchgFlows, MintFlows, Using, Live, IInv, TypeOK
  <1>2. f \in Entry /\ f.flow = flow /\ f.id = e.id /\ f.req = e.req /\ f.code = e.code
    BY <1>1, EntryAt
  <1>3. CASE Refuse(k, e, "mint_failed") /\ UNCHANGED callq
    BY <1>1, <1>3, RefuseInv
  <1>4. CASE /\ pend' = [pend EXCEPT ![k] = [e EXCEPT !.flow = flow]]
             /\ callq' = Placed(callq, [id |-> <<e.id, flow>>, spec |-> spec])
             /\ UNCHANGED outq
    <2> DEFINE r == [id |-> <<e.id, flow>>, spec |-> spec]
    <2>1. IsPort(callq') /\ On(callq') \subseteq On(callq) \cup {r}
      BY <1>4, PlacedPort DEF IInv, TypeOK
    <2>2. Grows
      BY DEF Grows
    <2>3. SlotOK(f)'
      <3>1. next' \in Nat /\ next <= next' /\ led' = led
        BY <1>1
      <3> QED BY <1>1, <1>2, <2>2, <3>1, SlotStays
    <2>4. Fresh(k, f)
      BY <1>1, <1>2, ThroughIsWhole DEF Fresh
    <2>5. r.id = <<f.id, f.flow>> /\ r.spec = SpecOf(f)
      BY <1>2
    <2>6. f.flow # "authz_client"
      BY <1>1, <1>2 DEF AuthzFlows
    <2> HIDE DEF r
    <2>7. Advances(k, f, {}, {r})
      BY <1>2, <1>4, <2>1, <2>3, <2>4, <2>5, <2>6 DEF Advances
    <2> QED BY <2>7, AdvancesInv
  <1> QED BY <1>3, <1>4 DEF EmitMint

LEMMA XchgOnConsumeInv == ASSUME IInv, NEW m, NEW k, XchgOnConsume(m, k) PROVE IInv'
  <1> PICK e : e = pend[k]
    OBVIOUS
  <1>1. /\ m \in mail /\ k \in Live /\ k \in Slots /\ pend[k].flow = "xchg_consume"
        /\ m.corr = <<pend[k].id, "xchg_consume">> /\ Read(m) /\ UNCHANGED wire
    BY DEF XchgOnConsume, At, Live
  <1>2. e \in Entry /\ SlotOK(e) /\ e.flow = "xchg_consume"
    BY <1>1, LiveIsEntry DEF IInv, SlotsOK
  <1>3. UNCHANGED <<scn, led, wire, next, answers, minted>> /\ mail' \subseteq mail
    BY <1>1 DEF Read
  <1>4. IsPort(minted') /\ On(minted') = On(minted)
    BY <1>3, SameOn DEF IInv, TypeOK
  <1>5. CASE ConsumeRefused(m)
    BY <1>1, <1>5, RefuseReplyInv DEF XchgOnConsume
  <1>6. CASE ~ConsumeRefused(m)
    <2>a. PICK f : f = [e EXCEPT !.flow = "xchg_mint_at"]
      OBVIOUS
    <2>1. k \in Using
      BY <1>1, <1>6 DEF ConsumeRefused, Using, Told
    <2>2. "xchg_mint_at" \in Flows /\ "xchg_mint_at" \in MintFlows
      BY DEF Flows, XchgFlows, MintFlows
    <2>3. /\ f \in Entry /\ f.flow = "xchg_mint_at" /\ f.id = e.id /\ f.req = e.req
          /\ f.gone = e.gone /\ f.rec = e.rec /\ f.code = e.code
      BY <1>2, <2>a, <2>2, EntryAt
    <2>4. Holds(e) /\ Earned(e)
      BY <1>2 DEF SlotOK, XchgFlows
    <2>5. Holds(f) /\ Earned(f)
      BY <2>3, <2>4 DEF Holds, Earned
    <2>6. SlotOK(f)
      BY <1>2, <2>3, <2>5 DEF SlotOK, AuthzFlows, XchgFlows, MintFlows
    <2>7. EmitMint(k, e, "xchg_mint_at", AccessSpec(e.rec)) /\ AccessSpec(e.rec) = SpecOf(f)
      BY <1>6, <2>3 DEF XchgOnConsume, SpecOf
    <2>8. pend[k].flow \notin AuthzFlows
      BY <1>1 DEF AuthzFlows
    <2> QED BY <1>1, <1>2, <1>3, <1>4, <2>a, <2>1, <2>2, <2>6, <2>7, <2>8, ThroughIsWhole,
               EmitMintInv
  <1> QED BY <1>5, <1>6

(***************************************************************************)
(* Steps that accept a request: its slot is freed, its answer placed, and  *)
(* the code it was granted sent to be filed.                               *)
(***************************************************************************)
Filing(a) == [corr |-> <<a.id, "file_code">>, q |-> PutIfAbsent(CodeKey(a.id), CodeOf(a.req))]

TokenEarned(a) ==
    /\ a.code \in Known
    /\ \E r \in Issued(a.code) :
          /\ a.access = AccessSpec(r) /\ a.idt = IdSpec(r)
          /\ a.req.client = r.client /\ a.req.ruri = r.ruri /\ S256(a.req.verifier) = r.cc
    /\ a.access.sub \notin a.gone

Concludes(k, a, asks) ==
    /\ UNCHANGED <<scn, led, next, answers, callq>>
    /\ k \in Live /\ pend' = [pend EXCEPT ![k] = Free]
    /\ wire' = wire \cup asks /\ mail' \subseteq mail
    /\ IsPort(minted') /\ On(minted') \subseteq On(minted)
    /\ IsPort(outq') /\ On(outq') \subseteq On(outq) \cup {a}
    /\ a.id = pend[k].id /\ a.req = pend[k].req
    /\ \/ /\ asks = {} /\ a.req.op = "exchange" /\ TokenEarned(a)
          /\ k \in Using /\ a.code = pend[k].code
       \/ /\ asks = {Filing(a)} /\ a.req.op = "authorize" /\ a.code = a.id
          /\ pend[k].flow = "authz_client"

LEMMA ConcludesInv == ASSUME IInv, NEW k, NEW a, NEW asks, Concludes(k, a, asks) PROVE IInv'
  <1>1. /\ scn' = scn /\ led' = led /\ next' = next /\ answers' = answers /\ callq' = callq
        /\ k \in Slots /\ k \in Live /\ wire' = wire \cup asks /\ mail' \subseteq mail
        /\ pend \in [Slots -> Entry \cup {Free}] /\ pend' = [pend EXCEPT ![k] = Free]
        /\ a.id = pend[k].id /\ a.req = pend[k].req
    BY DEF Concludes, Live, IInv, TypeOK
  <1>2. /\ Live' = Live \ {k} /\ \A j \in Live' : j \in Live /\ j # k /\ pend'[j] = pend[j]
    BY <1>1 DEF Live, Free
  <1>3. IsPort(callq') /\ On(callq') = On(callq)
    BY <1>1, SameOn DEF IInv, TypeOK
  <1>4. TypeOK'
    <2>1. pend' \in [Slots -> Entry \cup {Free}]
      BY <1>1
    <2>2. led' = [x \in Keys |-> led'[x]] /\ scn' \in Scenarios
      BY <1>1 DEF IInv, TypeOK
    <2> QED BY <1>1, <1>3, <2>1, <2>2 DEF IInv, TypeOK, Concludes
  <1>5. /\ Known' = Known
        /\ \A c : Issued(c)' = Issued(c)
        /\ \A x : (Holds(x) => Holds(x)') /\ (Earned(x) => Earned(x)')
    <2>1. Known' = Known
      BY <1>1 DEF Known
    <2>2. \A c : Issued(c)' = Issued(c)
      BY <1>1 DEF Issued
    <2>3. \A x : (Holds(x) => Holds(x)') /\ (Earned(x) => Earned(x)')
      BY <2>2 DEF Holds, Earned
    <2> QED BY <2>1, <2>2, <2>3
  <1>6. Grows
    BY <1>1 DEF Grows
  <1>7. LedgerOK'
    BY <1>1, <1>5 DEF IInv, LedgerOK
  <1>8. Answered' \subseteq Answered \cup {a}
    BY <1>1 DEF Concludes, Answered, On
  <1>9. /\ Accepted' \subseteq Accepted \cup {a}
        /\ Granted' \subseteq Granted \cup {a} /\ Redeemed' \subseteq Redeemed \cup {a}
        /\ a.req.op = "exchange" => Granted' \subseteq Granted
        /\ a.req.op = "authorize" => Redeemed' \subseteq Redeemed
    BY <1>8 DEF Accepted, Granted, Redeemed
  <1>10. /\ a.id \in Ids /\ a.id \in Nat /\ a.id < next /\ a.req \in Bodies
         /\ \A j \in Live' : pend'[j].id # a.id
         /\ \A b \in Accepted : b.id # a.id
    <2>1. a.id \in Ids /\ a.id \in Nat /\ a.id < next
      BY <1>1, LiveIds
    <2>2. a.req \in Bodies
      BY <1>1, LiveIsEntry DEF IInv, Entry
    <2>3. \A j \in Live' : pend'[j].id # a.id
      BY <1>1, <1>2 DEF IInv, SlotsOK
    <2>4. \A b \in Accepted : b.id # a.id
      BY <1>1 DEF IInv, AnswersOK
    <2> QED BY <2>1, <2>2, <2>3, <2>4
  <1>11. SlotsOK'
    <2>1. \A x \in Entry : SlotOK(x) => SlotOK(x)'
      <3>1. next \in Nat /\ next' \in Nat /\ next <= next'
        BY <1>1 DEF IInv, TypeOK
      <3> QED BY <1>1, <1>6, <3>1, SlotStays
    <2>2. \A j \in Live : SlotOK(pend[j]) /\ pend[j] \in Entry
      BY LiveIsEntry DEF IInv, SlotsOK
    <2> QED BY <1>2, <2>1, <2>2 DEF IInv, SlotsOK
  <1>12. AnswersOK'
    <2>1. \A b \in Granted' : b.code = b.id
      BY <1>9 DEF IInv, AnswersOK, Concludes
    <2>2. \A b \in Accepted' : /\ b.id \in Ids /\ b.id < next' /\ b.req \in Bodies
                               /\ \A j \in Live' : pend'[j].id # b.id
      BY <1>1, <1>2, <1>9, <1>10 DEF IInv, AnswersOK
    <2> QED BY <2>1, <2>2 DEF AnswersOK
  <1>13. TokensOK'
    <2>1. \A b \in Redeemed : TokenEarned(b)
      BY DEF IInv, TokensOK, TokenEarned
    <2>2. \A b \in Redeemed' : TokenEarned(b)
      BY <1>9, <2>1 DEF Concludes
    <2>3. \A b : TokenEarned(b) => TokenEarned(b)'
      BY <1>5 DEF TokenEarned
    <2> QED BY <2>2, <2>3 DEF TokensOK, TokenEarned
  <1>14. \A x : Corr(x) => Corr(x)'
    BY <1>1, <1>2 DEF Corr
  <1>15. \A w \in asks :
            /\ w.corr = <<a.id, "file_code">> /\ w.q.new = CodeOf(a.req)
            /\ Corr(w.corr)' /\ Question(w) /\ \A v \in wire : v.corr # w.corr
    <2> SUFFICES ASSUME NEW w \in asks
                 PROVE  /\ w.corr = <<a.id, "file_code">> /\ w.q.new = CodeOf(a.req)
                        /\ Corr(w.corr)' /\ Question(w) /\ \A v \in wire : v.corr # w.corr
      OBVIOUS
    <2>1. w = Filing(a) /\ pend[k].flow = "authz_client"
      BY DEF Concludes
    <2>2. /\ w.corr = <<a.id, "file_code">> /\ w.q = PutIfAbsent(CodeKey(a.id), CodeOf(a.req))
          /\ w.q.new = CodeOf(a.req)
      BY <2>1 DEF Filing, PutIfAbsent
    <2>3. Corr(w.corr)'
      BY <1>1, <1>10, <2>2 DEF Corr, Stages
    <2>4. Question(w)
      BY <2>2 DEF Question, CodeOf, CodeRec
    <2>5. \A v \in wire : v.corr # w.corr
      <3>1. \A v \in wire : Corr(v.corr)
        BY DEF IInv, WireOK
      <3>2. "file_code" \notin Through("authz_client")
        BY DEF Through
      <3> QED BY <1>1, <2>1, <2>2, <3>1, <3>2 DEF Corr
    <2> QED BY <2>2, <2>3, <2>4, <2>5
  <1>16. WireOK'
    <2>1. \A w : Question(w) => Question(w)'
      BY <1>6, QuestionStays
    <2>2. \A v, w \in asks : v = w
      BY DEF Concludes
    <2> QED BY <1>1, <1>14, <1>15, <2>1, <2>2 DEF IInv, WireOK
  <1>17. AskedOK'
    <2>1. \A w \in asks, j \in Live' : w.corr # <<pend'[j].id, pend'[j].flow>>
      BY <1>10, <1>15
    <2> QED BY <1>1, <1>2, <2>1 DEF IInv, AskedOK
  <1>18. ToldOK'
    <2>1. \A x, val : Tells(x, val) => Tells(x, val)'
      BY <1>5 DEF Tells
    <2> QED BY <1>1, <1>2, <1>14, <2>1 DEF IInv, ToldOK
  <1>19. ASSUME NEW c, Filed(c) PROVE Filed(c)'
    <2>1. asks # {} => c # a.id
      BY <1>1, <1>19 DEF Filed, Concludes, AuthzFlows
    <2>2. \A w \in asks : w.corr # <<c, "file_code">>
      BY <1>15, <2>1
    <2> QED BY <1>1, <1>2, <1>19, <2>2 DEF Filed
  <1>20. CodesOK'
    <2>1. \A c \in Codes : led'[CodeKey(c)] # Nothing => Filed(c)'
      BY <1>1, <1>19 DEF IInv, CodesOK
    <2>2. \A c \in {s.code : s \in scn'.codes} :
              led'[CodeKey(c)].kind = "code" => led'[CodeKey(c)] \in Issued(c)'
      BY <1>1, <1>5 DEF IInv, CodesOK
    <2>3. ASSUME NEW b \in Granted'
          PROVE  /\ led'[CodeKey(b.id)].kind = "code" => led'[CodeKey(b.id)] = CodeOf(b.req)
                 /\ \A w \in wire' : w.corr = <<b.id, "file_code">> => w.q.new = CodeOf(b.req)
      <3>1. CASE b \in Granted
        <4>1. b.id # a.id
          BY <1>10, <3>1 DEF Accepted, Granted
        <4>2. \A w \in asks : w.corr # <<b.id, "file_code">>
          BY <1>15, <4>1
        <4> QED BY <1>1, <3>1, <4>2 DEF IInv, CodesOK
      <3>2. CASE b = a /\ a \notin Granted
        <4>1. asks = {Filing(a)} /\ pend[k].flow = "authz_client"
          BY <1>9, <3>2 DEF Concludes
        <4>2. ~Filed(a.id)
          BY <1>1, <4>1 DEF Filed, AuthzFlows
        <4>3. led[CodeKey(a.id)] = Nothing
          BY <1>10, <4>2 DEF IInv, CodesOK, Codes
        <4>4. \A w \in wire : w.corr # <<a.id, "file_code">>
          BY <1>15, <4>1
        <4> QED BY <1>1, <1>15, <3>2, <4>3, <4>4 DEF Nothing
      <3> QED BY <1>9, <3>1, <3>2
    <2> QED BY <2>1, <2>2, <2>3 DEF CodesOK
  <1>21. \A j \in Live' : \A flow : Told(j, flow)' => Told(j, flow)
    BY <1>1, <1>2 DEF Told
  <1>22. Uses' \subseteq Uses
    <2>1. \A j \in Using' : j \in Using /\ pend'[j] = pend[j]
      BY <1>2, <1>21 DEF Using
    <2>2. \A b \in Redeemed' : b \in Redeemed \/ (b = a /\ k \in Using /\ a.code = pend[k].code)
      BY <1>9 DEF Concludes
    <2> QED BY <1>1, <2>1, <2>2 DEF Uses
  <1>23. Claims' \subseteq Claims
    <2>1. \A j \in Claiming' : j \in Claiming /\ pend'[j] = pend[j]
      BY <1>2, <1>21 DEF Claiming
    <2>2. \A b \in Granted' : b \in Granted \/ (b = a /\ k \in Claiming)
      BY <1>1, <1>9 DEF Concludes, Claiming
    <2> QED BY <1>1, <2>1, <2>2 DEF Claims
  <1>24. OncePerCode' /\ OncePerProof'
    BY <1>1, <1>19, <1>22, <1>23 DEF IInv, OncePerCode, OncePerProof
  <1>25. MintOK'
    <2>1. \A j \in Waiting' : j \in Waiting /\ pend'[j] = pend[j]
      BY <1>2 DEF Waiting
    <2> QED BY <1>3, <1>14, <2>1 DEF IInv, MintOK, Concludes, SpecOf
  <1> QED BY <1>4, <1>7, <1>11, <1>12, <1>13, <1>16, <1>17, <1>18, <1>20, <1>24, <1>25 DEF IInv

LEMMA AuthzOnClientInv == ASSUME IInv, NEW m, NEW k, AuthzOnClient(m, k) PROVE IInv'
  <1> PICK e : e = pend[k]
    OBVIOUS
  <1>1. /\ m \in mail /\ k \in Live /\ k \in Slots /\ pend[k].flow = "authz_client"
        /\ m.corr = <<pend[k].id, "authz_client">> /\ Read(m) /\ UNCHANGED callq
    BY DEF AuthzOnClient, At, Live
  <1>2. e \in Entry /\ SlotOK(e) /\ e.flow = "authz_client"
    BY <1>1, LiveIsEntry DEF IInv, SlotsOK
  <1>3. \/ \E status : status # "ok" /\ Refuse(k, e, status) /\ UNCHANGED wire
        \/ m.status = "ok" /\ FileCode(k, e, m.val)
    <2>1. "unknown_client" # "ok" /\ "bad_redirect" # "ok"
      OBVIOUS
    <2> QED BY <2>1 DEF AuthzOnClient
  <1>4. CASE \E status : status # "ok" /\ Refuse(k, e, status) /\ UNCHANGED wire
    BY <1>1, <1>4, RefuseReplyInv
  <1>5. CASE m.status = "ok" /\ FileCode(k, e, m.val)
    <2>1. CASE Refuse(k, e, "state_unavailable") /\ UNCHANGED wire
      BY <1>1, <2>1, RefuseReplyInv
    <2>2. CASE /\ pend' = [pend EXCEPT ![k] = Free]
               /\ wire' = wire \cup {[corr |-> <<e.id, "file_code">>,
                                      q |-> PutIfAbsent(CodeKey(e.id), CodeRec(e.req, m.val))]}
               /\ outq' = Placed(outq, Verdict(e, "ok", e.id, Nothing, Nothing))
      <3> DEFINE a == Verdict(e, "ok", e.id, Nothing, Nothing)
      <3>1. a.id = e.id /\ a.req = e.req /\ a.code = e.id
        BY DEF Verdict
      <3>2. a.req.op = "authorize"
        BY <1>2, <3>1 DEF SlotOK, AuthzFlows
      <3>3. m.val = ClientRec(e.req.client)
        BY <1>1, <1>2, <1>5 DEF IInv, ToldOK, Tells
      <3>4. IsPort(outq') /\ On(outq') \subseteq On(outq) \cup {a}
        BY <2>2, PlacedPort DEF IInv, TypeOK
      <3>5. UNCHANGED <<scn, led, next, answers, callq, minted>> /\ mail' \subseteq mail
        BY <1>1 DEF Read
      <3>6. IsPort(minted') /\ On(minted') = On(minted)
        BY <3>5, SameOn DEF IInv, TypeOK
      <3> HIDE DEF a
      <3>7. wire' = wire \cup {Filing(a)}
        BY <2>2, <3>1, <3>3 DEF Filing, CodeOf
      <3>8. Concludes(k, a, {Filing(a)})
        BY <1>1, <2>2, <3>1, <3>2, <3>4, <3>5, <3>6, <3>7 DEF Concludes
      <3> QED BY <3>8, ConcludesInv
    <2> QED BY <1>5, <2>1, <2>2 DEF FileCode
  <1> QED BY <1>3, <1>4, <1>5

LEMMA OnTokenInv == ASSUME IInv, OnToken PROVE IInv'
  <1> PICK r : r = Head(minted)
    OBVIOUS
  <1>1. /\ UNCHANGED <<scn, led, wire, mail, next, answers>>
        /\ IsPort(minted') /\ On(minted') \subseteq On(minted)
        /\ r \in On(minted) /\ r.kind = "token"
    BY MintReads DEF OnToken
  <1>2. CASE UNCHANGED <<pend, outq, callq>>
    BY <1>2, MintOnlyReadInv DEF OnToken
  <1>3. ASSUME NEW k \in Slots, Awaits(k, r)
        PROVE  /\ k \in Waiting /\ k \in Live /\ k \in Using /\ pend[k] \in Entry
               /\ SlotOK(pend[k]) /\ Earned(pend[k]) /\ pend[k].flow \in MintFlows
               /\ r.token = SpecOf(pend[k]) /\ pend[k].flow \notin AuthzFlows
               /\ pend[k].rec \in Recs
    <2>1. /\ k \in Waiting /\ k \in Live /\ pend[k].flow \in MintFlows
          /\ r.id = <<pend[k].id, pend[k].flow>>
      BY <1>3 DEF Awaits, Waiting
    <2>2. k \in Using /\ pend[k] \in Entry /\ SlotOK(pend[k]) /\ pend[k].flow \notin AuthzFlows
      BY <2>1, LiveIsEntry DEF Using, IInv, SlotsOK, AuthzFlows, MintFlows
    <2>3. Earned(pend[k])
      BY <2>1, <2>2 DEF SlotOK, XchgFlows, MintFlows
    <2>4. r.token = SpecOf(pend[k])
      BY <1>1, <2>1 DEF IInv, MintOK
    <2>5. pend[k].rec \in Recs
      BY <2>3, IssuedAreCodes DEF Earned, Holds, IInv
    <2> QED BY <2>1, <2>2, <2>3, <2>4, <2>5
  <1>4. ASSUME NEW k \in Slots, Awaits(k, r), pend[k].flow = "xchg_mint_at",
               NEW e, e = [pend[k] EXCEPT !.access = r.token],
               EmitMint(k, e, "xchg_mint_id", IdSpec(e.rec))
        PROVE  IInv'
    <2>1. r.token = AccessSpec(pend[k].rec)
      BY <1>3, <1>4 DEF SpecOf
    <2>2. r.token \in {AccessSpec(x) : x \in Recs}
      BY <1>3, <1>4, <2>1
    <2>3. /\ e \in Entry /\ e.id = pend[k].id /\ e.req = pend[k].req /\ e.code = pend[k].code
          /\ e.rec = pend[k].rec /\ e.gone = pend[k].gone /\ e.access = AccessSpec(pend[k].rec)
      <3>1. pend[k] \in Entry
        BY <1>3, <1>4
      <3> QED BY <1>4, <2>1, <2>2, <3>1 DEF Entry
    <2>4. PICK f : f = [e EXCEPT !.flow = "xchg_mint_id"]
      OBVIOUS
    <2>5. "xchg_mint_id" \in Flows /\ "xchg_mint_id" \in MintFlows
      BY DEF Flows, XchgFlows, MintFlows
    <2>6. /\ f \in Entry /\ f.flow = "xchg_mint_id" /\ f.id = e.id /\ f.req = e.req
          /\ f.code = e.code /\ f.rec = e.rec /\ f.gone = e.gone /\ f.access = e.access
      BY <2>3, <2>4, <2>5, EntryAt
    <2>7. Holds(f) /\ Earned(f)
      BY <1>3, <1>4, <2>3, <2>6 DEF Holds, Earned
    <2>8. SlotOK(pend[k])
      BY <1>3, <1>4
    <2>9. SlotOK(f)
      BY <1>4, <2>3, <2>6, <2>7, <2>8 DEF SlotOK, AuthzFlows, XchgFlows, MintFlows
    <2>10. IdSpec(e.rec) = SpecOf(f)
      BY <2>6 DEF SpecOf
    <2>11. k \in Using /\ pend[k].flow \notin AuthzFlows
      BY <1>3, <1>4
    <2>12. /\ "xchg_mint_id" \notin Through(pend[k].flow)
           /\ Through(pend[k].flow) \subseteq Through("xchg_mint_id")
      BY <1>4, ThroughIsWhole
    <2> QED BY <1>1, <1>4, <2>3, <2>4, <2>5, <2>9, <2>10, <2>11, <2>12, EmitMintInv
  <1>5. ASSUME NEW k \in Slots, Awaits(k, r), pend[k].flow = "xchg_mint_id",
               pend' = [pend EXCEPT ![k] = Free],
               outq' = Placed(outq, Verdict(pend[k], "ok", pend[k].code, pend[k].access, r.token)),
               UNCHANGED callq
        PROVE  IInv'
    <2> PICK e : e = pend[k]
      OBVIOUS
    <2> DEFINE a == Verdict(e, "ok", e.code, e.access, r.token)
    <2>1. /\ a.id = e.id /\ a.req = e.req /\ a.code = e.code /\ a.access = e.access
          /\ a.idt = r.token /\ a.gone = e.gone
      BY DEF Verdict
    <2>2. k \in Live /\ k \in Using /\ SlotOK(e) /\ Earned(e) /\ r.token = SpecOf(e)
      BY <1>3, <1>5
    <2>3. /\ e.access = AccessSpec(e.rec) /\ r.token = IdSpec(e.rec) /\ e.code \in Known
          /\ e.req.op = "exchange"
      BY <1>5, <2>2 DEF SlotOK, SpecOf, XchgFlows, MintFlows
    <2>4. IsPort(outq') /\ On(outq') \subseteq On(outq) \cup {a}
      BY <1>5, PlacedPort DEF IInv, TypeOK
    <2> HIDE DEF a
    <2>5. TokenEarned(a)
      <3>1. e.rec \in Issued(a.code)
        BY <2>1, <2>2 DEF Earned, Holds
      <3>2. /\ a.access = AccessSpec(e.rec) /\ a.idt = IdSpec(e.rec)
            /\ a.req.client = e.rec.client /\ a.req.ruri = e.rec.ruri
            /\ S256(a.req.verifier) = e.rec.cc
        BY <2>1, <2>2, <2>3 DEF Earned, Holds
      <3>3. a.access.sub \notin a.gone
        BY <2>1, <2>2, <2>3 DEF Earned, AccessSpec
      <3> QED BY <2>1, <2>3, <3>1, <3>2, <3>3 DEF TokenEarned
    <2>6. wire' = wire \cup {} /\ mail' \subseteq mail
      BY <1>1
    <2>7. Concludes(k, a, {})
      BY <1>1, <1>5, <2>1, <2>2, <2>3, <2>4, <2>5, <2>6 DEF Concludes
    <2> QED BY <2>7, ConcludesInv
  <1>6. ASSUME NEW k \in Slots, NEW e, e = [pend[k] EXCEPT !.access = r.token],
               Awaits(k, r), e.flow = "xchg_mint_at",
               EmitMint(k, e, "xchg_mint_id", IdSpec(e.rec))
        PROVE  IInv'
    <2>1. pend[k] \in Entry
      BY <1>3, <1>6
    <2>2. pend[k].flow = "xchg_mint_at"
      BY <1>6, <2>1 DEF Entry
    <2> QED BY <1>4, <1>6, <2>2
  <1> QED BY <1>2, <1>5, <1>6 DEF OnToken

LEMMA MintAnswersInv == ASSUME IInv, MintAnswers PROVE IInv'
  <1>1. /\ UNCHANGED <<scn, led, wire, mail, next, pend, outq, answers>>
        /\ callq # <<>> /\ callq' = Tail(callq)
    BY DEF MintAnswers, ledger
  <1> PICK call : call = Head(callq)
    OBVIOUS
  <1>2. IsPort(callq') /\ On(callq') \subseteq On(callq) /\ call \in On(callq)
    BY <1>1, TailPort DEF IInv, TypeOK
  <1>3. PICK r : /\ minted' = Append(minted, r) /\ r.kind \in {"token", "failed"}
                 /\ r.id = call.id /\ (r.kind = "token" => r.token = call.spec)
    <2> DEFINE t == [kind |-> "token", id |-> call.id, token |-> call.spec]
               u == [kind |-> "failed", id |-> call.id]
    <2>1. minted' = Append(minted, t) \/ minted' = Append(minted, u)
      BY DEF MintAnswers
    <2>2. t.kind = "token" /\ t.id = call.id /\ t.token = call.spec
          /\ u.kind = "failed" /\ u.id = call.id
      OBVIOUS
    <2> HIDE DEF t, u
    <2> QED BY <2>1, <2>2
  <1>4. IsPort(minted') /\ On(minted') = On(minted) \cup {r}
    BY <1>3, AppendPort DEF IInv, TypeOK
  <1>5. Live' = Live /\ Waiting' = Waiting /\ Answered' = Answered
    BY <1>1 DEF Live, Waiting, Answered
  <1>6. TypeOK'
    BY <1>1, <1>2, <1>4, SameOn DEF IInv, TypeOK
  <1>7. \A x : Corr(x)' <=> Corr(x)
    BY <1>1, <1>5 DEF Corr
  <1>8. MintOK'
    <2>1. \A x \in On(callq') :
              /\ Corr(x.id)'
              /\ \A k \in Waiting' : x.id = <<pend'[k].id, pend'[k].flow>> =>
                                        x.spec = SpecOf(pend'[k])
      BY <1>1, <1>2, <1>5, <1>7 DEF IInv, MintOK
    <2>2. \A x \in On(minted) : x.kind \in {"token", "failed"} =>
              /\ Corr(x.id)'
              /\ \A k \in Waiting' : x.id = <<pend'[k].id, pend'[k].flow>> /\ x.kind = "token" =>
                                        x.token = SpecOf(pend'[k])
      BY <1>1, <1>5, <1>7 DEF IInv, MintOK
    <2>3. /\ Corr(r.id)'
          /\ \A k \in Waiting' : r.id = <<pend'[k].id, pend'[k].flow>> /\ r.kind = "token" =>
                                    r.token = SpecOf(pend'[k])
      BY <1>1, <1>2, <1>3, <1>5, <1>7 DEF IInv, MintOK
    <2> QED BY <1>4, <2>1, <2>2, <2>3 DEF MintOK
  <1>9. /\ Known' = Known /\ Granted' = Granted /\ Redeemed' = Redeemed /\ Accepted' = Accepted
        /\ \A c : Issued(c)' = Issued(c) /\ (Filed(c)' <=> Filed(c))
    BY <1>1, <1>5 DEF Known, Granted, Redeemed, Accepted, Issued, Filed
  <1>10. \A e : (Holds(e)' <=> Holds(e)) /\ (Earned(e)' <=> Earned(e))
    BY <1>9 DEF Holds, Earned
  <1>11. \A e : SlotOK(e) => SlotOK(e)'
    BY <1>1, <1>9, <1>10 DEF SlotOK
  <1>12. \A w : Question(w) => Question(w)'
    BY <1>9, <1>10 DEF Question
  <1>13. Using' = Using /\ Claiming' = Claiming
    BY <1>1, <1>5 DEF Using, Claiming, Told
  <1>14. Uses' = Uses /\ Claims' = Claims
    BY <1>1, <1>9, <1>13 DEF Uses, Claims
  <1>15. LedgerOK' /\ SlotsOK' /\ AnswersOK' /\ TokensOK'
    BY <1>1, <1>5, <1>9, <1>10, <1>11 DEF IInv, LedgerOK, SlotsOK, AnswersOK, TokensOK
  <1>16. WireOK' /\ AskedOK'
    BY <1>1, <1>5, <1>7, <1>12 DEF IInv, WireOK, AskedOK
  <1>17. ToldOK'
    <2>1. \A e, val : Tells(e, val) => Tells(e, val)'
      BY <1>9 DEF Tells
    <2> QED BY <1>1, <1>5, <1>7, <2>1 DEF IInv, ToldOK
  <1>18. CodesOK' /\ OncePerCode' /\ OncePerProof'
    BY <1>1, <1>9, <1>14 DEF IInv, CodesOK, OncePerCode, OncePerProof
  <1> QED BY <1>6, <1>8, <1>15, <1>16, <1>17, <1>18 DEF IInv

(***************************************************************************)
(* Steps of the ledger: it decides a request, or a record lapses or is     *)
(* dropped.                                                                *)
(***************************************************************************)
(* The record of a code stays, is gone, is filed, or is consumed.          *)
CodeMoves(c) ==
    \/ led'[CodeKey(c)] = led[CodeKey(c)]
    \/ led'[CodeKey(c)] = Nothing
    \/ \E w \in wire : /\ w.corr = <<c, "file_code">> /\ wire' = wire \ {w}
                       /\ led'[CodeKey(c)] = w.q.new /\ w.q.new.kind = "code"
    \/ LET e == led'[CodeKey(c)].by IN
       /\ led'[CodeKey(c)] = Consumed(e) /\ led[CodeKey(c)].kind = "code"
       /\ e.code = c /\ Earned(e)

(* What an ok tells a slot, and what has just been written if it is one.   *)
TellsNow(e, val) ==
    /\ Tells(e, val)
    /\ e.flow = "xchg_consume" =>
          led[CodeKey(e.code)].kind = "code" /\ led'[CodeKey(e.code)].kind = "consumed"
    /\ e.flow = "authz_claim" =>
          led[ReplayKey(e.req.proof)] = Nothing /\ led'[ReplayKey(e.req.proof)] = Claim

LedgerMoves(told) ==
    /\ UNCHANGED <<scn, next, answers, pend, outq, callq, minted>>
    /\ led' = [x \in Keys |-> led'[x]]
    /\ \A d \in Devices : led'[DeviceKey(d)] \in {led[DeviceKey(d)], DeviceRec(FALSE), Nothing}
    /\ \A c \in Clients : led'[ClientKey(c)] = led[ClientKey(c)]
    /\ \A p \in Proofs : led'[ReplayKey(p)] \in {led[ReplayKey(p)], Claim}
    /\ \A c \in Codes : CodeMoves(c)
    /\ wire' \subseteq wire /\ mail' = mail \cup told
    /\ \A m, n \in told : m = n
    /\ \A m \in told :
          /\ \E w \in wire : m.corr = w.corr
          /\ \A k \in Live : m.corr = <<pend[k].id, pend[k].flow>> /\ m.status = "ok" =>
                                TellsNow(pend[k], m.val)

LEMMA LedgerMovesInv == ASSUME IInv, NEW told, LedgerMoves(told) PROVE IInv'
  <1>1. /\ UNCHANGED <<scn, next, answers, pend, outq, callq, minted>>
        /\ wire' \subseteq wire /\ mail' = mail \cup told
    BY DEF LedgerMoves
  <1>2. Live' = Live /\ Waiting' = Waiting /\ Answered' = Answered
    BY <1>1 DEF Live, Waiting, Answered
  <1>3. /\ Known' = Known /\ Granted' = Granted /\ Redeemed' = Redeemed /\ Accepted' = Accepted
        /\ \A c : Issued(c)' = Issued(c)
    BY <1>1, <1>2 DEF Known, Granted, Redeemed, Accepted, Issued
  <1>4. \A e : (Holds(e)' <=> Holds(e)) /\ (Earned(e)' <=> Earned(e))
    BY <1>3 DEF Holds, Earned
  <1>5. TypeOK'
    BY <1>1, SameOn DEF IInv, TypeOK, LedgerMoves
  <1>6. \A x : Corr(x)' <=> Corr(x)
    BY <1>1, <1>2 DEF Corr
  <1>7. /\ AnswersOK' /\ TokensOK'
    BY <1>1, <1>2, <1>3 DEF IInv, AnswersOK, TokensOK
  <1>8. MintOK'
    BY <1>1, <1>2, <1>6, SameOn DEF IInv, MintOK
  <1>9. LedgerOK'
    <2>1. \A d \in Devices : led'[DeviceKey(d)] \in {DeviceRec(TRUE), DeviceRec(FALSE), Nothing}
      BY DEF IInv, LedgerOK, LedgerMoves
    <2>2. /\ \A c \in Clients : led'[ClientKey(c)] = ClientRec(c)
          /\ \A p \in Proofs : led'[ReplayKey(p)] \in {Nothing, Claim}
      BY DEF IInv, LedgerOK, LedgerMoves
    <2>3. ASSUME NEW c \in Codes
          PROVE  LET r == led'[CodeKey(c)] IN
                 \/ r = Nothing
                 \/ r.kind = "code"
                 \/ r = Consumed(r.by) /\ r.by.code = c /\ Earned(r.by)
      <3>1. CodeMoves(c)
        BY DEF LedgerMoves
      <3> QED BY <3>1 DEF CodeMoves, IInv, LedgerOK
    <2> QED BY <1>4, <2>1, <2>2, <2>3 DEF LedgerOK
  <1>10. SlotsOK'
    <2>1. \A e \in Entry : SlotOK(e) => SlotOK(e)'
      <3>1. Grows /\ next \in Nat /\ next' = next /\ next <= next'
        BY <1>1 DEF Grows, IInv, TypeOK
      <3>2. \A d \in Devices : led[DeviceKey(d)] # DeviceRec(TRUE) =>
                                 led'[DeviceKey(d)] # DeviceRec(TRUE)
        BY DEF LedgerMoves, DeviceRec, Nothing
      <3> QED BY <3>1, <3>2, SlotStays
    <2>2. \A j \in Live : SlotOK(pend[j]) /\ pend[j] \in Entry
      BY LiveIsEntry DEF IInv, SlotsOK
    <2> QED BY <1>1, <1>2, <2>1, <2>2 DEF IInv, SlotsOK
  <1>11. WireOK' /\ AskedOK'
    <2>1. \A w : Question(w) => Question(w)'
      BY <1>3, <1>4 DEF Question
    <2> QED BY <1>1, <1>2, <1>6, <2>1 DEF IInv, WireOK, AskedOK
  <1>12. ToldOK'
    <2>1. \A e, val : Tells(e, val) => Tells(e, val)'
      BY <1>3 DEF Tells
    <2>2. \A m \in told : Corr(m.corr)
      BY DEF IInv, WireOK, LedgerMoves
    <2>3. \A m \in told, k \in Live :
              m.corr = <<pend[k].id, pend[k].flow>> /\ m.status = "ok" => Tells(pend[k], m.val)
      BY DEF LedgerMoves, TellsNow
    <2> QED BY <1>1, <1>2, <1>6, <2>1, <2>2, <2>3 DEF IInv, ToldOK
  <1>13. \A c : Filed(c) => Filed(c)'
    BY <1>1, <1>2 DEF Filed
  <1>14. ASSUME NEW c \in Codes, NEW w \in wire, w.corr = <<c, "file_code">>, wire' = wire \ {w}
         PROVE  c \in Ids /\ Filed(c)' /\ ~Filed(c)
    <2>1. Corr(w.corr) /\ c \in Ids /\ c < next
      <3>1. Corr(w.corr)
        BY DEF IInv, WireOK
      <3> QED BY <1>14, <3>1 DEF Corr
    <2>2. \A k \in Live : pend[k].flow \in AuthzFlows => pend[k].id # c
      BY <1>14, <2>1 DEF Corr, Through, AuthzFlows
    <2>3. \A v \in wire' : v.corr # <<c, "file_code">>
      BY <1>14 DEF IInv, WireOK
    <2>4. c \notin next .. MaxReqs
      BY <2>1 DEF Ids, IInv, TypeOK
    <2> QED BY <1>1, <1>2, <1>14, <2>1, <2>2, <2>3, <2>4 DEF Filed
  <1>15. CodesOK'
    <2>1. ASSUME NEW c \in Codes, led'[CodeKey(c)] # Nothing PROVE Filed(c)'
      <3>1. CodeMoves(c)
        BY DEF LedgerMoves
      <3>2. CASE led[CodeKey(c)] # Nothing
        BY <1>13, <3>2 DEF IInv, CodesOK
      <3>3. CASE led[CodeKey(c)] = Nothing
        <4>1. led[CodeKey(c)].kind # "code"
          BY <3>3 DEF Nothing
        <4>2. \E w \in wire : w.corr = <<c, "file_code">> /\ wire' = wire \ {w}
          BY <2>1, <3>1, <3>3, <4>1 DEF CodeMoves
        <4> QED BY <1>14, <4>2
      <3> QED BY <3>2, <3>3
    <2>2. ASSUME NEW c \in {s.code : s \in scn.codes}, led'[CodeKey(c)].kind = "code"
          PROVE  led'[CodeKey(c)] \in Issued(c)
      <3>1. c \in Codes /\ c \notin Ids
        BY SeedsAreSeeds DEF IInv, TypeOK
      <3>2. CodeMoves(c)
        BY <3>1 DEF LedgerMoves
      <3>3. led'[CodeKey(c)] = led[CodeKey(c)]
        BY <1>14, <2>2, <3>1, <3>2 DEF CodeMoves, Nothing, Consumed
      <3> QED BY <2>2, <3>3 DEF IInv, CodesOK
    <2>3. ASSUME NEW a \in Granted
          PROVE  /\ led'[CodeKey(a.id)].kind = "code" => led'[CodeKey(a.id)] = CodeOf(a.req)
                 /\ \A w \in wire' : w.corr = <<a.id, "file_code">> => w.q.new = CodeOf(a.req)
      <3>1. a.id \in Codes
        BY DEF IInv, AnswersOK, Granted, Accepted, Codes
      <3>2. CodeMoves(a.id)
        BY <3>1 DEF LedgerMoves
      <3>3. \A w \in wire : w.corr = <<a.id, "file_code">> => w.q.new = CodeOf(a.req)
        BY DEF IInv, CodesOK
      <3>4. led'[CodeKey(a.id)].kind = "code" =>
                led'[CodeKey(a.id)] \in {led[CodeKey(a.id)], CodeOf(a.req)}
        BY <3>2, <3>3 DEF CodeMoves, Nothing, Consumed
      <3> QED BY <1>1, <3>3, <3>4 DEF IInv, CodesOK
    <2> QED BY <1>1, <1>3, <2>1, <2>2, <2>3 DEF CodesOK
  <1>16. \A j \in Live : \A flow :
            Told(j, flow)' => \/ Told(j, flow)
                              \/ /\ pend[j].flow = flow
                                 /\ \E m \in told : /\ m.corr = <<pend[j].id, pend[j].flow>>
                                                    /\ m.status = "ok"
    BY <1>1 DEF Told
  <1>17. \A j, k \in Live, m, n \in told :
            m.corr = <<pend[j].id, pend[j].flow>> /\ n.corr = <<pend[k].id, pend[k].flow>> => j = k
    BY DEF LedgerMoves, IInv, SlotsOK
  <1>18. OncePerCode'
    <2> DEFINE New == {k \in Live : /\ pend[k].flow = "xchg_consume"
                                    /\ \E m \in told : /\ m.corr = <<pend[k].id, pend[k].flow>>
                                                       /\ m.status = "ok"}
    <2>1. Using' \subseteq Using \cup New
      BY <1>1, <1>2, <1>16 DEF Using
    <2>2. ASSUME NEW k \in New
          PROVE  /\ pend[k].code \in Codes /\ led[CodeKey(pend[k].code)].kind = "code"
                 /\ led'[CodeKey(pend[k].code)].kind = "consumed" /\ Filed(pend[k].code)
      <3>1. k \in Live /\ pend[k].flow = "xchg_consume"
        OBVIOUS
      <3>2. \E val : TellsNow(pend[k], val)
        BY DEF LedgerMoves
      <3>3. /\ led[CodeKey(pend[k].code)].kind = "code"
            /\ led'[CodeKey(pend[k].code)].kind = "consumed"
        BY <3>1, <3>2 DEF TellsNow
      <3>4. pend[k].code \in Known
        BY <3>1 DEF IInv, SlotsOK, SlotOK, XchgFlows
      <3>5. pend[k].code \in Codes
        BY <3>4, IssuedAreCodes DEF IInv
      <3>6. Filed(pend[k].code)
        BY <3>3, <3>5 DEF IInv, CodesOK, Nothing
      <3> QED BY <3>3, <3>5, <3>6
    <2>3. \A j, k \in New : j = k
      BY <1>17
    <2> HIDE DEF New
    <2>4. \A x \in Uses : led[CodeKey(x.code)].kind # "code" /\ Filed(x.code)
      BY DEF IInv, OncePerCode
    <2>5. \A x \in Uses : x.code \in Codes
      <3>1. \A a \in Redeemed : a.code \in Codes
        BY IssuedAreCodes DEF IInv, TokensOK
      <3>2. \A k \in Using : pend[k].code \in Codes
        BY IssuedAreCodes DEF Using, Told, IInv, SlotsOK, SlotOK, XchgFlows, MintFlows
      <3> QED BY <3>1, <3>2 DEF Uses
    <2>6. \A x \in Uses : led'[CodeKey(x.code)].kind # "code" /\ Filed(x.code)'
      <3> SUFFICES ASSUME NEW x \in Uses
                   PROVE  led'[CodeKey(x.code)].kind # "code" /\ Filed(x.code)'
        OBVIOUS
      <3>1. Filed(x.code) /\ Filed(x.code)' /\ x.code \in Codes
            /\ led[CodeKey(x.code)].kind # "code"
        BY <1>13, <2>4, <2>5
      <3>2. CodeMoves(x.code)
        BY <3>1 DEF LedgerMoves
      <3>3. ~\E w \in wire : w.corr = <<x.code, "file_code">>
        BY <3>1 DEF Filed
      <3> QED BY <3>1, <3>2, <3>3 DEF CodeMoves, Nothing
    <2>7. \A x \in Uses' : \/ x \in Uses
                           \/ \E k \in New : x = [id |-> pend[k].id, code |-> pend[k].code]
      BY <1>1, <1>3, <2>1 DEF Uses
    <2>8. \A x \in Uses' : led'[CodeKey(x.code)].kind # "code" /\ Filed(x.code)'
      BY <1>13, <2>2, <2>6, <2>7
    <2>9. \A x, y \in Uses' : x.code = y.code => x.id = y.id
      BY <2>2, <2>3, <2>4, <2>7 DEF IInv, OncePerCode
    <2> QED BY <2>8, <2>9 DEF OncePerCode
  <1>19. OncePerProof'
    <2> DEFINE New == {k \in Live : /\ pend[k].flow = "authz_claim"
                                    /\ \E m \in told : /\ m.corr = <<pend[k].id, pend[k].flow>>
                                                       /\ m.status = "ok"}
    <2>1. Claiming' \subseteq Claiming \cup New
      BY <1>1, <1>2, <1>16 DEF Claiming
    <2>2. ASSUME NEW k \in New
          PROVE  /\ led[ReplayKey(pend[k].req.proof)] = Nothing
                 /\ led'[ReplayKey(pend[k].req.proof)] = Claim
      <3>1. \E val : TellsNow(pend[k], val)
        BY DEF LedgerMoves
      <3> QED BY <3>1 DEF TellsNow
    <2>3. \A j, k \in New : j = k
      BY <1>17
    <2> HIDE DEF New
    <2>4. \A x \in Claims : led[ReplayKey(x.proof)] = Claim /\ x.proof \in Proofs
      <3>1. \A a \in Granted : a.req.proof \in Proofs
        BY DEF Granted, Accepted, IInv, AnswersOK, Proofs
      <3>2. \A k \in Claiming : pend[k].req.proof \in Proofs
        <4> SUFFICES ASSUME NEW k \in Claiming PROVE pend[k].req.proof \in Proofs
          OBVIOUS
        <4>1. k \in Live /\ pend[k].flow \in AuthzFlows
          BY DEF Claiming, Told, AuthzFlows
        <4>2. pend[k].req.op = "authorize" /\ pend[k].req \in Bodies
          BY <4>1, LiveIsEntry DEF IInv, SlotsOK, SlotOK, Entry
        <4> QED BY <4>2 DEF Proofs
      <3> QED BY <3>1, <3>2 DEF IInv, OncePerProof, Claims
    <2>5. \A x \in Claims : led'[ReplayKey(x.proof)] = Claim
      BY <2>4 DEF LedgerMoves
    <2>6. \A x \in Claims' :
              \/ x \in Claims
              \/ \E k \in New : x = [id |-> pend[k].id, proof |-> pend[k].req.proof]
      BY <1>1, <1>3, <2>1 DEF Claims
    <2>7. \A x \in Claims' : led'[ReplayKey(x.proof)] = Claim
      BY <2>2, <2>5, <2>6
    <2>8. Nothing # Claim
      BY DEF Nothing, Claim
    <2>9. \A x, y \in Claims' : x.proof = y.proof => x.id = y.id
      BY <2>2, <2>3, <2>4, <2>6, <2>8 DEF IInv, OncePerProof
    <2> QED BY <2>7, <2>9 DEF OncePerProof
  <1> QED BY <1>5, <1>7, <1>8, <1>9, <1>10, <1>11, <1>12, <1>15, <1>18, <1>19 DEF IInv

(* What is filed under a code that is known is what it was issued for.     *)
LEMMA KnownAreIssued ==
    ASSUME IInv, NEW c \in Known, led[CodeKey(c)].kind = "code"
    PROVE  led[CodeKey(c)] \in Issued(c)
  <1>1. CASE c \in {s.code : s \in scn.codes}
    BY <1>1 DEF IInv, CodesOK
  <1>2. CASE \E a \in answers : a.req.op = "authorize" /\ a.status = "ok" /\ a.code = c
    <2>1. PICK a \in answers : a.req.op = "authorize" /\ a.status = "ok" /\ a.code = c
      BY <1>2
    <2>2. a \in Granted
      BY <2>1 DEF Granted, Answered
    <2>3. a.id = c
      BY <2>1, <2>2 DEF IInv, AnswersOK
    <2>4. led[CodeKey(c)] = CodeOf(a.req)
      BY <2>2, <2>3 DEF IInv, CodesOK
    <2> QED BY <2>1, <2>4 DEF Issued
  <1> QED BY <1>1, <1>2 DEF Known

(* What is asked of the ledger, if it is not a read: a claim, the filing of *)
(* a code, or its consumption.                                             *)
LEMMA QuestionForms ==
    ASSUME NEW w, Question(w), w.q.op # "get"
    PROVE  \/ \E p \in Proofs : /\ w.q.op = "put" /\ w.q.key = ReplayKey(p)
                                /\ w.q.old = Nothing /\ w.q.new = Claim
           \/ /\ w.q.op = "put" /\ w.q.key = CodeKey(w.corr[1]) /\ w.q.old = Nothing
              /\ w.q.new.kind = "code" /\ w.corr[2] = "file_code"
           \/ \E e : /\ w.q.op = "cas" /\ w.q.key = CodeKey(e.code)
                     /\ w.q.old = e.rec /\ w.q.new = Consumed(e)
                     /\ e.code \in Known /\ e.rec.kind = "code" /\ Earned(e)
  <1>1. CASE \E p \in Proofs : w.q = PutIfAbsent(ReplayKey(p), Claim)
    BY <1>1 DEF PutIfAbsent
  <1>2. CASE /\ w.q = PutIfAbsent(CodeKey(w.corr[1]), w.q.new) /\ w.q.new.kind = "code"
             /\ w.corr[2] = "file_code"
    <2>1. w.q.op = "put" /\ w.q.key = CodeKey(w.corr[1]) /\ w.q.old = Nothing
      BY <1>2 DEF PutIfAbsent
    <2> QED BY <1>2, <2>1
  <1>3. CASE /\ w.q = CompareAndSwap(CodeKey(w.q.new.by.code), w.q.new.by.rec,
                                     Consumed(w.q.new.by))
             /\ w.q.new.by.code \in Known /\ w.q.new.by.rec.kind = "code"
             /\ Earned(w.q.new.by)
    <2> PICK e : e = w.q.new.by
      OBVIOUS
    <2>1. w.q = CompareAndSwap(CodeKey(e.code), e.rec, Consumed(e))
      BY <1>3
    <2>2. /\ w.q.op = "cas" /\ w.q.key = CodeKey(e.code)
          /\ w.q.old = e.rec /\ w.q.new = Consumed(e)
      BY <2>1 DEF CompareAndSwap
    <2> QED BY <1>3, <2>2
  <1> QED BY <1>1, <1>2, <1>3 DEF Question

(* A request is decided as asked, or fails, applied or not.                *)
Decides(w, status, val) ==
    /\ wire' = wire \ {w} /\ mail' = mail \cup {[corr |-> w.corr, status |-> status, val |-> val]}
    /\ UNCHANGED <<scn, next, answers, pend, outq, callq, minted>>
    /\ \/ led' = led
       \/ w.q.op # "get" /\ led[w.q.key] = w.q.old /\ led' = Applied(led, w.q)
    /\ status = "ok" /\ w.q.op = "get" => val = led[w.q.key] /\ val # Nothing
    /\ status = "ok" /\ w.q.op # "get" => led[w.q.key] = w.q.old /\ led' = Applied(led, w.q)

LEMMA SettleDecides ==
    ASSUME IInv, NEW w \in wire, LedgerDecides(w) \/ LedgerFails(w)
    PROVE  \E status, val : Decides(w, status, val)
  <1>1. w.q.op \in {"get", "put", "cas"}
    <2>1. Question(w)
      BY DEF IInv, WireOK
    <2> QED BY <2>1, QuestionForms
  <1>2. PICK out : /\ Settle(w, out)
                   /\ out \in Decided(led, w.q) \/ out \in Failed(led, w.q)
    BY DEF LedgerDecides, LedgerFails
  <1>3. /\ wire' = wire \ {w}
        /\ mail' = mail \cup {[corr |-> w.corr, status |-> out.status, val |-> out.val]}
        /\ UNCHANGED <<scn, next, answers, pend, outq, callq, minted>> /\ led' = out.led
    BY <1>2 DEF Settle, mint
  <1>4. /\ \/ out.led = led
           \/ w.q.op # "get" /\ led[w.q.key] = w.q.old /\ out.led = Applied(led, w.q)
        /\ out.status = "ok" /\ w.q.op = "get" => out.val = led[w.q.key] /\ out.val # Nothing
        /\ out.status = "ok" /\ w.q.op # "get" =>
              led[w.q.key] = w.q.old /\ out.led = Applied(led, w.q)
    <2>1. CASE out \in Decided(led, w.q)
      <3>1. CASE w.q.op = "get"
        <4>1. \/ led[w.q.key] # Nothing /\ out = Outcome("ok", led[w.q.key], led)
              \/ out = Outcome("not_found", Nothing, led)
          BY <2>1, <3>1 DEF Decided
        <4> QED BY <3>1, <4>1 DEF Outcome
      <3>2. CASE w.q.op \in {"put", "cas"}
        <4>1. \/ led[w.q.key] = w.q.old /\ out = Outcome("ok", Nothing, Applied(led, w.q))
              \/ out = Outcome("conflict", Nothing, led)
          BY <2>1, <3>2 DEF Decided
        <4> QED BY <3>2, <4>1 DEF Outcome
      <3> QED BY <1>1, <3>1, <3>2
    <2>2. CASE out \in Failed(led, w.q)
      <3>1. \/ out = Outcome("unavailable", Nothing, led)
            \/ /\ w.q.op # "get" /\ led[w.q.key] = w.q.old
               /\ out = Outcome("unavailable", Nothing, Applied(led, w.q))
            \/ out = Outcome("retained", Nothing, led)
        BY <2>2 DEF Failed
      <3> QED BY <3>1 DEF Outcome
    <2> QED BY <1>2, <2>1, <2>2
  <1>5. Decides(w, out.status, out.val)
    BY <1>3, <1>4 DEF Decides
  <1> QED BY <1>5

LEMMA DecidesInv ==
    ASSUME IInv, NEW w \in wire, NEW status, NEW val, Decides(w, status, val) PROVE IInv'
  <1> DEFINE m == [corr |-> w.corr, status |-> status, val |-> val]
  <1>1. Question(w) /\ Corr(w.corr)
    BY DEF IInv, WireOK
  <1>2. led = [x \in Keys |-> led[x]]
    BY DEF IInv, TypeOK
  <1>3. \A x \in Keys : led'[x] = led[x] \/ (/\ w.q.op # "get" /\ x = w.q.key
                                             /\ led[x] = w.q.old /\ led'[x] = w.q.new)
    BY <1>2 DEF Decides, Applied
  <1>4. led' = [x \in Keys |-> led'[x]]
    BY <1>2 DEF Decides, Applied
  <1>5. \A d \in Devices : led'[DeviceKey(d)] = led[DeviceKey(d)]
    <2>1. \A d \in Devices : w.q.op # "get" => w.q.key # DeviceKey(d)
      BY <1>1, QuestionForms DEF ReplayKey, CodeKey, DeviceKey
    <2> QED BY <1>3, <2>1, KeysAreKeys
  <1>6. \A c \in Clients : led'[ClientKey(c)] = led[ClientKey(c)]
    <2>1. \A c \in Clients : w.q.op # "get" => w.q.key # ClientKey(c)
      BY <1>1, QuestionForms DEF ReplayKey, CodeKey, ClientKey
    <2> QED BY <1>3, <2>1, KeysAreKeys
  <1>7. \A p \in Proofs : led'[ReplayKey(p)] \in {led[ReplayKey(p)], Claim}
    <2>1. \A p \in Proofs : w.q.op # "get" /\ w.q.key = ReplayKey(p) => w.q.new = Claim
      BY <1>1, QuestionForms DEF ReplayKey, CodeKey
    <2> QED BY <1>3, <2>1, KeysAreKeys
  <1>8. ASSUME NEW c \in Codes PROVE CodeMoves(c)
    <2>1. CASE led'[CodeKey(c)] = led[CodeKey(c)]
      BY <2>1 DEF CodeMoves
    <2>2. CASE /\ w.q.op # "get" /\ CodeKey(c) = w.q.key
               /\ led[CodeKey(c)] = w.q.old /\ led'[CodeKey(c)] = w.q.new
      <3>1. CASE \E p \in Proofs : w.q = PutIfAbsent(ReplayKey(p), Claim)
        BY <2>2, <3>1 DEF PutIfAbsent, ReplayKey, CodeKey
      <3>2. CASE /\ w.q = PutIfAbsent(CodeKey(w.corr[1]), w.q.new) /\ w.q.new.kind = "code"
                 /\ w.corr[2] = "file_code"
        <4>1. w.corr[1] = c
          BY <2>2, <3>2 DEF PutIfAbsent, CodeKey
        <4>2. w.corr = <<c, "file_code">>
          BY <1>1, <3>2, <4>1 DEF Corr
        <4> QED BY <2>2, <3>2, <4>2 DEF CodeMoves, Decides
      <3>3. CASE LET e == w.q.new.by IN
                 /\ w.q = CompareAndSwap(CodeKey(e.code), e.rec, Consumed(e))
                 /\ e.code \in Known /\ e.rec.kind = "code" /\ Earned(e)
        <4> PICK e : e = w.q.new.by
          OBVIOUS
        <4>1. /\ w.q.key = CodeKey(e.code) /\ w.q.old = e.rec /\ w.q.new = Consumed(e)
              /\ e.rec.kind = "code" /\ Earned(e)
          BY <3>3 DEF CompareAndSwap
        <4>2. e.code = c
          BY <2>2, <4>1 DEF CodeKey
        <4>3. led'[CodeKey(c)] = Consumed(e) /\ led'[CodeKey(c)].by = e
          BY <2>2, <4>1 DEF Consumed
        <4> QED BY <2>2, <4>1, <4>2, <4>3 DEF CodeMoves
      <3> QED BY <1>1, <2>2, <3>1, <3>2, <3>3 DEF Question
    <2> QED BY <1>3, <2>1, <2>2, KeysAreKeys
  <1>9. ASSUME NEW k \in Live, w.corr = <<pend[k].id, pend[k].flow>>, status = "ok"
        PROVE  TellsNow(pend[k], val)
    <2> PICK e : e = pend[k]
      OBVIOUS
    <2>1. Asked(e, w.q) /\ SlotOK(e) /\ e \in Entry
      BY <1>9, LiveIsEntry DEF IInv, AskedOK, SlotsOK
    <2>2. /\ w.q.op = "get" => val = led[w.q.key] /\ val # Nothing
          /\ w.q.op # "get" => led[w.q.key] = w.q.old /\ led' = Applied(led, w.q)
      BY <1>9 DEF Decides
    <2>3. e.flow = "authz_client" => val = ClientRec(e.req.client)
      <3> HAVE e.flow = "authz_client"
      <3>1. w.q.op = "get" /\ w.q.key = ClientKey(e.req.client)
        BY <2>1 DEF Asked, Get
      <3>2. e.req.op = "authorize" /\ e.req \in Bodies
        BY <2>1 DEF SlotOK, AuthzFlows, Entry
      <3>3. e.req.client \in Clients
        BY <3>2, AcScenarios
      <3> QED BY <2>2, <3>1, <3>3 DEF IInv, LedgerOK
    <2>4. e.flow = "xchg_code" => val.kind = "consumed" \/ val \in Issued(e.code)
      <3> HAVE e.flow = "xchg_code"
      <3>1. w.q.op = "get" /\ w.q.key = CodeKey(e.code)
        BY <2>1 DEF Asked, Get
      <3>2. val = led[CodeKey(e.code)] /\ val # Nothing
        BY <2>2, <3>1
      <3>3. e.code \in Known
        BY <2>1 DEF SlotOK, XchgFlows
      <3>4. e.code \in Codes
        BY <3>3, IssuedAreCodes DEF IInv
      <3>5. val.kind = "code" \/ val = Consumed(val.by)
        BY <3>2, <3>4 DEF IInv, LedgerOK
      <3> QED BY <3>2, <3>3, <3>5, KnownAreIssued DEF Consumed
    <2>5. e.flow = "xchg_device" => ~val.active \/ e.rec.dev \notin e.gone
      <3> HAVE e.flow = "xchg_device"
      <3>1. w.q.op = "get" /\ w.q.key = DeviceKey(e.rec.dev)
        BY <2>1 DEF Asked, Get
      <3>2. val = led[DeviceKey(e.rec.dev)] /\ val # Nothing
        BY <2>2, <3>1
      <3>3. SUFFICES ASSUME e.rec.dev \in e.gone PROVE ~val.active
        OBVIOUS
      <3>4. e.rec.dev \in Devices /\ led[DeviceKey(e.rec.dev)] # DeviceRec(TRUE)
        BY <2>1, <3>3 DEF SlotOK, Entry
      <3>5. val = DeviceRec(FALSE)
        BY <3>2, <3>4 DEF IInv, LedgerOK
      <3> QED BY <3>5 DEF DeviceRec
    <2>6. e.flow = "xchg_consume" =>
            led[CodeKey(e.code)].kind = "code" /\ led'[CodeKey(e.code)].kind = "consumed"
      <3> HAVE e.flow = "xchg_consume"
      <3>1. w.q.op = "cas" /\ w.q.key = CodeKey(e.code)
        BY <2>1 DEF Asked
      <3>2. w.q.old.kind = "code" /\ w.q.new.kind = "consumed"
        <4>1. PICK f : w.q.old = f.rec /\ w.q.new = Consumed(f) /\ f.rec.kind = "code"
          BY <1>1, <3>1, QuestionForms
        <4> QED BY <4>1 DEF Consumed
      <3>3. CodeKey(e.code) \in Keys
        <4>1. e.code \in Known
          BY <2>1 DEF SlotOK, XchgFlows
        <4> QED BY <4>1, IssuedAreCodes, KeysAreKeys DEF IInv
      <3>4. led[CodeKey(e.code)] = w.q.old /\ led'[CodeKey(e.code)] = w.q.new
        BY <1>2, <2>2, <3>1, <3>3 DEF Applied
      <3> QED BY <3>2, <3>4
    <2>7. e.flow = "authz_claim" =>
            led[ReplayKey(e.req.proof)] = Nothing /\ led'[ReplayKey(e.req.proof)] = Claim
      <3> HAVE e.flow = "authz_claim"
      <3>1. /\ w.q.op # "get" /\ w.q.key = ReplayKey(e.req.proof)
            /\ w.q.old = Nothing /\ w.q.new = Claim
        BY <2>1 DEF Asked, PutIfAbsent
      <3>2. e.req.op = "authorize" /\ e.req \in Bodies
        BY <2>1 DEF SlotOK, AuthzFlows, Entry
      <3>3. ReplayKey(e.req.proof) \in Keys
        BY <3>2, KeysAreKeys DEF Proofs
      <3> QED BY <1>2, <2>2, <3>1, <3>3 DEF Applied
    <2> QED BY <2>3, <2>4, <2>5, <2>6, <2>7 DEF TellsNow, Tells
  <1>10. m.corr = w.corr /\ m.status = status /\ m.val = val
    OBVIOUS
  <1>11. mail' = mail \cup {m} /\ wire' \subseteq wire
         /\ UNCHANGED <<scn, next, answers, pend, outq, callq, minted>>
    BY DEF Decides
  <1> HIDE DEF m
  <1>12. LedgerMoves({m})
    BY <1>4, <1>5, <1>6, <1>7, <1>8, <1>9, <1>10, <1>11 DEF LedgerMoves
  <1> QED BY <1>12, LedgerMovesInv

LEMMA LedgerInv ==
    ASSUME IInv, NEW w \in wire, LedgerDecides(w) \/ LedgerFails(w) PROVE IInv'
  BY SettleDecides, DecidesInv

LEMMA CodeLapsesInv == ASSUME IInv, NEW c \in Codes, CodeLapses(c) PROVE IInv'
  <1>1. led = [x \in Keys |-> led[x]]
    BY DEF IInv, TypeOK
  <1>2. /\ led' = [led EXCEPT ![CodeKey(c)] = Nothing]
        /\ UNCHANGED <<scn, next, answers, pend, outq, callq, minted, wire, mail>>
    BY DEF CodeLapses, Elsewhere, mint
  <1>3. \A x \in Keys : led'[x] = IF x = CodeKey(c) THEN Nothing ELSE led[x]
    BY <1>1, <1>2
  <1>4. led' = [x \in Keys |-> led'[x]]
    BY <1>1, <1>2
  <1>5. \A d \in Devices : led'[DeviceKey(d)] = led[DeviceKey(d)]
    BY <1>3, KeysAreKeys DEF DeviceKey, CodeKey
  <1>6. \A x \in Clients : led'[ClientKey(x)] = led[ClientKey(x)]
    BY <1>3, KeysAreKeys DEF ClientKey, CodeKey
  <1>7. \A p \in Proofs : led'[ReplayKey(p)] = led[ReplayKey(p)]
    BY <1>3, KeysAreKeys DEF ReplayKey, CodeKey
  <1>8. \A x \in Codes : led'[CodeKey(x)] \in {led[CodeKey(x)], Nothing}
    BY <1>3, KeysAreKeys
  <1>9. \A x \in Codes : CodeMoves(x)
    BY <1>8 DEF CodeMoves
  <1>10. LedgerMoves({})
    BY <1>2, <1>4, <1>5, <1>6, <1>7, <1>9 DEF LedgerMoves
  <1> QED BY <1>10, LedgerMovesInv

LEMMA DirectoryDropsInv == ASSUME IInv, NEW d \in Devices, DirectoryDrops(d) PROVE IInv'
  <1>1. led = [x \in Keys |-> led[x]]
    BY DEF IInv, TypeOK
  <1>2. PICK r \in {DeviceRec(FALSE), Nothing} : led' = [led EXCEPT ![DeviceKey(d)] = r]
    BY DEF DirectoryDrops
  <1>3. UNCHANGED <<scn, next, answers, pend, outq, callq, minted, wire, mail>>
    BY DEF DirectoryDrops, Elsewhere, mint
  <1>4. \A x \in Keys : led'[x] = IF x = DeviceKey(d) THEN r ELSE led[x]
    BY <1>1, <1>2
  <1>5. led' = [x \in Keys |-> led'[x]]
    BY <1>1, <1>2
  <1>6. \A x \in Devices : led'[DeviceKey(x)] \in {led[DeviceKey(x)], DeviceRec(FALSE), Nothing}
    BY <1>2, <1>4, KeysAreKeys
  <1>7. \A x \in Clients : led'[ClientKey(x)] = led[ClientKey(x)]
    BY <1>4, KeysAreKeys DEF ClientKey, DeviceKey
  <1>8. \A p \in Proofs : led'[ReplayKey(p)] = led[ReplayKey(p)]
    BY <1>4, KeysAreKeys DEF ReplayKey, DeviceKey
  <1>9. \A c \in Codes : led'[CodeKey(c)] = led[CodeKey(c)]
    BY <1>4, KeysAreKeys DEF CodeKey, DeviceKey
  <1>10. \A c \in Codes : CodeMoves(c)
    BY <1>9 DEF CodeMoves
  <1>11. LedgerMoves({})
    BY <1>3, <1>5, <1>6, <1>7, <1>8, <1>10 DEF LedgerMoves
  <1> QED BY <1>11, LedgerMovesInv

LEMMA NextInv == IInv /\ [Next]_vars => IInv'
  <1> SUFFICES ASSUME IInv, [Next]_vars PROVE IInv'
    OBVIOUS
  <1>1. ASSUME NEW m \in mail, OnLedger(m) PROVE IInv'
    BY <1>1, IgnoreReplyInv, AuthzOnClaimInv, AuthzOnClientInv, XchgOnCodeInv, XchgOnDeviceInv,
       XchgOnConsumeInv DEF OnLedger
  <1>2. CASE OnMint
    <2>1. CASE OnLinkUp
      BY <2>1, MintOnlyReadInv DEF OnLinkUp
    <2> QED BY <1>2, <2>1, OnLinkDownInv, OnFailedInv, OnTokenInv DEF OnMint
  <1> QED BY <1>1, <1>2, TakeRequestInv, FailOpenMintsInv, ReadAnswerInv, LedgerInv,
             CodeLapsesInv, DirectoryDropsInv, MintAnswersInv, MintLinkInv, RestartInv,
             StutterInv DEF Next

LEMMA SpecInv == Spec => []IInv
  BY InitInv, NextInv, PTL DEF Spec

LEMMA IssuedAreBindings == \A c : Issued(c) \subseteq Bindings(c)
  BY DEF Issued, Bindings, Granted, Answered, CodeOf

(* However its reads, claims and swaps interleave with those of other      *)
(* requests, fail, or are lost in a restart: a code reaches the mint for   *)
(* one exchange (xchg_on_consume), and a proof earns one code              *)
(* (authz_on_claim).                                                       *)
THEOREM CodesAreSpentOnce == Spec => []CodeRedeemedOnce
  <1>1. IInv => CodeRedeemedOnce
    <2> SUFFICES ASSUME IInv PROVE CodeRedeemedOnce
      OBVIOUS
    <2>1. \A k \in Waiting : k \in Using
      BY DEF Waiting, Using
    <2>2. /\ \A a \in Redeemed : [id |-> a.id, code |-> a.code] \in Uses
          /\ \A k \in Waiting : [id |-> pend[k].id, code |-> pend[k].code] \in Uses
          /\ \A a \in Granted : [id |-> a.id, proof |-> a.req.proof] \in Claims
      BY <2>1 DEF Uses, Claims
    <2>3. \A a, b \in Granted : a.req.proof = b.req.proof => a.id = b.id
      <3> TAKE a, b \in Granted
      <3>1. [id |-> a.id, proof |-> a.req.proof] \in Claims
            /\ [id |-> b.id, proof |-> b.req.proof] \in Claims
        BY <2>2
      <3> QED BY <3>1 DEF IInv, OncePerProof
    <2>4. \A x, y \in Uses : x.code = y.code => x.id = y.id
      BY DEF IInv, OncePerCode
    <2> QED BY <2>2, <2>3, <2>4 DEF CodeRedeemedOnce
  <1> QED BY <1>1, SpecInv, PTL

(* The tokens an exchange is answered with are for the device, the client, *)
(* the scope and the nonce its code was issued for, and the caller named   *)
(* the client and the redirect and held the verifier (capture, the two     *)
(* MintSpecs); no device that was dropped before the exchange is among     *)
(* them.                                                                   *)
THEOREM TokensAreForTheirCode == Spec => []TokensAreEarned
  <1>1. IInv => TokensAreEarned
    BY IssuedAreBindings DEF IInv, TokensOK, TokensAreEarned
  <1> QED BY <1>1, SpecInv, PTL

(* A code in the ledger is marked consumed only for a caller that could    *)
(* have had its tokens: verified first, consumed then (xchg_on_device).    *)
THEOREM CodesAreBurntByTheirHolder == Spec => []OnlyItsHolderBurnsACode
  <1>1. IInv => OnlyItsHolderBurnsACode
    <2> SUFFICES ASSUME IInv, NEW c \in Codes, led[CodeKey(c)].kind = "consumed"
                 PROVE  LET e == led[CodeKey(c)].by IN
                        /\ e.rec \in Bindings(c) /\ e.rec.dev \notin e.gone
                        /\ e.req.client = e.rec.client /\ e.req.ruri = e.rec.ruri
                        /\ S256(e.req.verifier) = e.rec.cc
      BY DEF OnlyItsHolderBurnsACode
    <2> PICK e : e = led[CodeKey(c)].by
      OBVIOUS
    <2>1. e.code = c /\ Earned(e)
      BY DEF IInv, LedgerOK, Nothing
    <2>2. e.rec \in Bindings(c)
      BY <2>1, IssuedAreBindings DEF Earned, Holds
    <2> QED BY <2>1, <2>2 DEF Earned, Holds
  <1> QED BY <1>1, SpecInv, PTL
=============================================================================
