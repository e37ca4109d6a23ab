--------------------------- MODULE TokenPathProofs --------------------------
(***************************************************************************)
(* For every number of requests, slots, links, faults, outages and         *)
(* restarts: a proof earns one token and a revoked device none, a caller's *)
(* token is its own, and a refusal that names the presenter is deserved.   *)
(***************************************************************************)
EXTENDS TokenPath, FiniteSetTheorems, SequenceTheorems, WellFoundedInduction,
        TLAPS

On(port)     == {port[n] : n \in DOMAIN port}
IsPort(port) == port \in Seq(On(port))

(* The links' ports.                                                       *)
PortsOK(f) == f = [l \in LinkNames |-> f[l]] /\ \A l \in LinkNames : IsPort(f[l])

Reqs     == {b \in Bodies : b.proof # 0}
Facts(b) == Established([req |-> b])

Desk    == {desk[k] : k \in Seated}
Pending == {pend[k] : k \in Live}
Told    == {r \in On(outq) : ~IsNews(r)}
Sent    == On(calls["admit"])
Ended   == On(http) \cup answers

(* Whatever still says which request it is, and what was presented.        *)
Seen == Desk \cup Pending \cup Told \cup Sent \cup Ended

TypeOK ==
    /\ scn \in Scenarios
    /\ next \in Nat /\ 1 <= next /\ next <= MaxReqs + 1
    /\ led = [k \in Keys |-> led[k]]
    /\ \A p \in Proofs : led[ReplayKey(p)] \in {Nothing, Claim}
    /\ \A d \in Devices : led[DeviceKey(d)] \in {Device(FALSE), Device(TRUE)}
    /\ gone = [d \in Devices |-> gone[d]]
    /\ \A d \in Devices : gone[d] \in Nat
                          /\ (led[DeviceKey(d)] = Device(FALSE) => gone[d] = MaxReqs + 1)
    /\ pend = [k \in Slots |-> pend[k]] /\ desk = [k \in Slots |-> desk[k]]
    /\ IsPort(outq) /\ IsPort(http) /\ PortsOK(calls) /\ PortsOK(replies)
    /\ window \subseteq Proofs

(***************************************************************************)
(* A request is what was presented, wherever it is met.                    *)
(***************************************************************************)
(* A caller's request, in this scenario.                                   *)
Presents(x) ==
    /\ x.id \in Nat /\ 1 <= x.id /\ x.id < next /\ x.req \in Reqs
    /\ "admit" \in scn.drops => x.req.via = "http"

SeenOK ==
    /\ \A x \in Seen : Presents(x)
    /\ \A x, y \in Seen : x.id = y.id => x.req = y.req

IsEntry(x) == x = [stage |-> x.stage, id |-> x.id, req |-> x.req, facts |-> x.facts]

DoorsOK ==
    /\ \A x \in Desk \cup Sent : x.req.via = "http"
    /\ \A x \in Desk \cup Pending : IsEntry(x)
    /\ \A x \in Pending : x.stage \in {"claim", "device", "mint"}
                          /\ (x.stage = "mint" => x.req.via = "grant")

(* Every slot is for a request of its own, and what admission has not      *)
(* taken has nothing there yet.                                            *)
TableOK ==
    /\ \A j, k \in Live : pend[j].id = pend[k].id => j = k
    /\ \A m, n \in DOMAIN calls["admit"] : calls["admit"][m].id = calls["admit"][n].id => m = n
    /\ \A c \in Sent : /\ \A x \in Pending : x.id # c.id
                       /\ \A w \in wire \cup mail : w.corr[1] # c.id

(***************************************************************************)
(* The ledger's questions and answers.                                     *)
(***************************************************************************)
Question(b, stage) ==
    IF stage = "claim" THEN PutIfAbsent(ReplayKey(b.proof), Claim) ELSE Get(DeviceKey(b.dev))

Corr(x) ==
    /\ x.corr = <<x.corr[1], x.corr[2]>>
    /\ x.corr[1] \in Nat /\ 1 <= x.corr[1] /\ x.corr[1] < next
    /\ x.corr[2] \in {"claim", "device"}

Asking(w) ==
    /\ Corr(w) /\ \E b \in Reqs : w.q = Question(b, w.corr[2])
    /\ \A x \in Seen : x.id = w.corr[1] => w.q = Question(x.req, w.corr[2])

(* What the device's record said, it said before the device was revoked.   *)
DeviceTold(m) ==
    /\ m.status \in {"ok", "unavailable"}
    /\ m.status = "ok" =>
         /\ m.val \in {Device(FALSE), Device(TRUE)}
         /\ \A x \in Seen : x.id = m.corr[1] =>
               IF m.val = Device(TRUE) THEN led[DeviceKey(x.req.dev)] = Device(TRUE)
                                       ELSE x.id < gone[x.req.dev]

LaneOK ==
    /\ \A w \in wire : Asking(w)
    /\ \A v, w \in wire : v.corr = w.corr => v = w
    /\ \A m \in mail : Corr(m) /\ (m.corr[2] = "device" => DeviceTold(m))
    /\ \A x \in Pending : x.stage = "claim" =>
          \A w \in wire \cup mail : w.corr # <<x.id, "device">>

(***************************************************************************)
(* Who has won a proof: from the claim's answer to the token.              *)
(***************************************************************************)
WonInSlot(i, p) ==
    \E x \in Pending :
        /\ x.id = i /\ x.req.proof = p
        /\ x.stage # "claim" \/ \E m \in mail : m.corr = <<i, "claim">> /\ m.status = "ok"

WonAtDoor(i, p) ==
    \E r \in Told : r.id = i /\ r.req.proof = p /\ r.req.via = "http" /\ r.status = "ok"

WonAtMint(i, p) ==
    \E l \in {"mint", "grant"} : \E c \in On(calls[l]) : c.id = i /\ c.facts.proof = p

Won(i, p) ==
    \/ WonInSlot(i, p) \/ WonAtDoor(i, p) \/ WonAtMint(i, p)
    \/ \E t \in signed : t.id = i /\ t.proof = p

ClaimsOK ==
    /\ \A i, p : Won(i, p) => p \in Proofs /\ led[ReplayKey(p)] = Claim
    /\ \A i, j, p : Won(i, p) /\ Won(j, p) => i = j

(***************************************************************************)
(* What is to be signed, and what was.                                     *)
(***************************************************************************)
CallOK(c) ==
    /\ c.id \in Nat /\ c.id < next /\ \E b \in Reqs : c.facts = Facts(b)
    /\ c.id < gone[c.facts.sub]
    /\ \A x \in Seen : x.id = c.id => c.facts = Facts(x.req)

TokenFor(body, x) == body.id = x.id /\ body.sub = x.req.dev

ReplyOK(r) ==
    /\ r.id \in Nat /\ r.id < next
    /\ r.status = "ok" => \A x \in Seen : x.id = r.id => TokenFor(r.body, x)

MintsOK ==
    \A l \in {"mint", "grant"} :
        /\ \A c \in On(calls[l]) : CallOK(c)
        /\ \A r \in On(replies[l]) : IsNews(r) \/ ReplyOK(r)

SignedOK == \A t \in signed : t.sub \in Devices /\ t.id \in Nat /\ t.id < next /\ t.id < gone[t.sub]

VerdictsOK ==
    /\ \A r \in Told : r.status = "ok" =>
          IF r.req.via = "http" THEN r.body = Facts(r.req) /\ r.id < gone[r.req.dev]
                                ELSE TokenFor(r.body, r)
    /\ \A a \in Ended : a.status = "ok" => TokenFor(a.body, a)

IInv ==
    /\ TypeOK /\ SeenOK /\ DoorsOK /\ TableOK /\ LaneOK /\ ClaimsOK /\ MintsOK /\ SignedOK
    /\ VerdictsOK

(***************************************************************************)
(* Refusals.                                                               *)
(***************************************************************************)
ProofOf(i, p) == i \in 1 .. next - 1 /\ \A x \in Seen : x.id = i => x.req.proof = p

(* Request i presented p, and admission has taken it.                      *)
Offers(i, p) == ProofOf(i, p) /\ \A c \in Sent : c.id # i

Home(i) ==
    \/ \E x \in Desk \cup Ended : x.id = i
    \/ \E x \in Pending \cup Told : x.id = i /\ x.req.via = "grant"

(* Until a restart loses one, every request is somewhere.                  *)
AllPresent == lost # {} \/ \A i \in 1 .. next - 1 : Home(i)

UsedOK ==
    /\ \A p \in window : \E i \in 1 .. next - 1 : Offers(i, p)
    /\ \A p \in Proofs : led[ReplayKey(p)] = Claim =>
          \E i \in 1 .. next - 1 : Offers(i, p) /\ \A w \in wire : w.corr # <<i, "claim">>
    /\ \A m \in mail : m.corr[2] = "claim" /\ m.status = "conflict" =>
          \E p \in Proofs : ProofOf(m.corr[1], p)
              /\ \E i \in 1 .. next - 1 : i # m.corr[1] /\ ProofOf(i, p)

Twin(e) == \E i \in 1 .. next - 1 : i # e.id /\ ProofOf(i, e.req.proof)

(* Others presented as many proofs as the window remembers.                *)
FilledBy(e, S) ==
    /\ S \subseteq Proofs /\ Cardinality(S) >= WindowSize
    /\ \A p \in S : \E i \in 1 .. next - 1 : i # e.id /\ ProofOf(i, p)

Crowd(e) == \E S : FilledBy(e, S)

Blamed(e) ==
    \/ e.req.wrong # "none" \/ e.req.otp = "wrong" \/ led[DeviceKey(e.req.dev)] = Device(TRUE)
    \/ Twin(e) \/ Crowd(e)

(* What admission refuses for because of the presenter, and what it says.  *)
Faults   == {"unauthenticated", "replay", "revoked"}
Verdicts == Faults \cup {"ok", "unavailable", "mint_failed"}

BlameOK ==
    /\ \A r \in Told : r.status \in Verdicts /\ (r.status \in Faults => Blamed(r))
    /\ \A a \in Ended : a.status \in {"401", "replay"} => Blamed(a)

RInv == AllPresent /\ UsedOK /\ BlameOK

(***************************************************************************)
(* Ports.                                                                  *)
(***************************************************************************)
LEMMA EmptyPort == IsPort(<<>>) /\ On(<<>>) = {}
  BY DEF IsPort, On

LEMMA PortForm ==
    ASSUME NEW port, IsPort(port)
    PROVE  /\ Len(port) \in Nat /\ DOMAIN port = 1 .. Len(port)
           /\ port # <<>> => Head(port) = port[1] /\ Len(port) >= 1 /\ Head(port) \in On(port)
  <1>1. port \in Seq(On(port))
    BY DEF IsPort
  <1>2. Len(port) \in Nat /\ DOMAIN port = 1 .. Len(port)
    BY <1>1
  <1>3. port # <<>> => Head(port) = port[1] /\ Len(port) >= 1
    BY <1>1, <1>2
  <1> QED BY <1>2, <1>3 DEF On

LEMMA AppendPort ==
    ASSUME NEW port, NEW r, IsPort(port)
    PROVE  /\ IsPort(Append(port, r)) /\ On(Append(port, r)) = On(port) \cup {r}
           /\ DOMAIN Append(port, r) = 1 .. Len(port) + 1
           /\ \A n \in 1 .. Len(port) : Append(port, r)[n] = port[n]
           /\ Append(port, r)[Len(port) + 1] = r
  <1> DEFINE p == Append(port, r)
             T == On(port) \cup {r}
  <1>0. Len(port) \in Nat /\ DOMAIN port = 1 .. Len(port) /\ port \in Seq(On(port))
    BY PortForm DEF IsPort
  <1>1. port \in Seq(T) /\ r \in T
    <2>1. \A n \in 1 .. Len(port) : port[n] \in On(port)
      BY <1>0 DEF On
    <2>2. On(port) \subseteq T
      OBVIOUS
    <2> HIDE DEF T
    <2> QED BY <1>0, <2>1, <2>2 DEF T
  <1> HIDE DEF T
  <1>2. /\ Len(p) = Len(port) + 1 /\ DOMAIN p = 1 .. Len(port) + 1
        /\ \A n \in 1 .. Len(port) : p[n] = port[n]
        /\ p[Len(port) + 1] = r /\ p \in Seq(T)
    BY <1>1
  <1> HIDE DEF p
  <1>3. \A n \in 1 .. Len(port) + 1 : n \in 1 .. Len(port) \/ n = Len(port) + 1
    BY <1>0
  <1>4. On(p) = T
    BY <1>0, <1>2, <1>3 DEF On, T
  <1> QED BY <1>2, <1>4 DEF IsPort, p, T

LEMMA TailPort ==
    ASSUME NEW port, IsPort(port), port # <<>>
    PROVE  /\ IsPort(Tail(port)) /\ Head(port) \in On(port)
           /\ On(Tail(port)) \subseteq On(port) /\ On(port) \subseteq On(Tail(port)) \cup {Head(port)}
           /\ DOMAIN Tail(port) = 1 .. Len(port) - 1
           /\ \A n \in 1 .. Len(port) - 1 : Tail(port)[n] = port[n + 1]
  <1> DEFINE p == Tail(port)
  <1>1. port \in Seq(On(port)) /\ Len(port) \in Nat /\ Len(port) >= 1
        /\ DOMAIN port = 1 .. Len(port)
    BY PortForm DEF IsPort
  <1>2. /\ p \in Seq(On(port)) /\ DOMAIN p = 1 .. Len(port) - 1
        /\ \A n \in 1 .. Len(port) - 1 : p[n] = port[n + 1]
    BY <1>1
  <1>3. On(p) \subseteq On(port)
    BY <1>1, <1>2 DEF On
  <1>4. \A n \in DOMAIN p : p[n] \in On(p)
    BY DEF On
  <1>5. On(port) \subseteq On(p) \cup {Head(port)}
    <2> SUFFICES ASSUME NEW n \in DOMAIN port, n # 1 PROVE port[n] \in On(p)
      BY <1>1, PortForm DEF On
    <2>1. n - 1 \in 1 .. Len(port) - 1 /\ (n - 1) + 1 = n
      BY <1>1
    <2> QED BY <1>2, <2>1 DEF On
  <1> HIDE DEF p
  <1>6. p \in Seq(On(p))
    BY <1>2, <1>4
  <1> QED BY <1>2, <1>3, <1>5, <1>6, PortForm DEF IsPort, p

LEMMA KeptPort ==
    ASSUME NEW port, IsPort(port)
    PROVE  /\ IsPort(KeptBack(port)) /\ On(KeptBack(port)) \subseteq On(port)
           /\ \A m \in DOMAIN KeptBack(port) :
                 EdgeCapacity + m \in DOMAIN port /\ KeptBack(port)[m] = port[EdgeCapacity + m]
           /\ DOMAIN KeptBack(port) \subseteq Nat
  <1> DEFINE p == KeptBack(port)
  <1>1. port \in Seq(On(port)) /\ Len(port) \in Nat /\ DOMAIN port = 1 .. Len(port)
        /\ EdgeCapacity \in Nat
    BY PortForm, AdBounds DEF IsPort
  <1>2. CASE Len(port) <= EdgeCapacity
    <2>1. p = <<>>
      BY <1>1, <1>2 DEF KeptBack
    <2> HIDE DEF p
    <2> QED BY <2>1, EmptyPort DEF p
  <1>3. CASE EdgeCapacity < Len(port)
    <2> DEFINE N == Len(port)
               M == EdgeCapacity + 1
               S == On(port)
    <2>a. /\ port \in Seq(S) /\ N \in Nat /\ M \in 1 .. N /\ DOMAIN port = 1 .. N
          /\ \A n \in 1 .. N : port[n] \in S
      BY <1>1, <1>3 DEF On
    <2> HIDE DEF S
    <2>b. p = SubSeq(port, M, N)
      BY DEF KeptBack
    <2>c. /\ SubSeq(port, M, N) \in Seq(S) /\ Len(SubSeq(port, M, N)) = N - M + 1
          /\ \A n \in 1 .. N - M + 1 : SubSeq(port, M, N)[n] = port[M + n - 1]
      BY <2>a
    <2>d. \A n : n \in 1 .. N - M + 1 => M + n - 1 = EdgeCapacity + n
      BY <1>1
    <2> HIDE DEF p
    <2>e. p \in Seq(S) /\ Len(p) = N - EdgeCapacity /\ N - M + 1 = N - EdgeCapacity
      <3>1. N - M + 1 = N - EdgeCapacity
        BY <1>1
      <3> HIDE DEF N, M
      <3> QED BY <2>b, <2>c, <3>1
    <2>1. /\ DOMAIN p = 1 .. Len(port) - EdgeCapacity /\ Len(p) = Len(port) - EdgeCapacity
          /\ \A n \in 1 .. Len(port) - EdgeCapacity : p[n] = port[EdgeCapacity + n]
          /\ p = [n \in 1 .. Len(port) - EdgeCapacity |-> p[n]]
      BY <2>b, <2>c, <2>d, <2>e
    <2>2. \A n \in 1 .. Len(port) - EdgeCapacity : EdgeCapacity + n \in DOMAIN port
      BY <1>1, <1>3
    <2> HIDE DEF p
    <2>3. On(p) \subseteq On(port)
      BY <2>1, <2>2 DEF On
    <2>4. \A n \in DOMAIN p : p[n] \in On(p)
      BY DEF On
    <2>5. p \in Seq(On(p))
      BY <2>e, <2>4
    <2> QED BY <2>1, <2>2, <2>3, <2>5 DEF IsPort, p
  <1> QED BY <1>1, <1>2, <1>3

LEMMA ConcatPort ==
    ASSUME NEW port, NEW N \in Nat, NEW s, IsPort(port), s = [n \in 1 .. N |-> s[n]]
    PROVE  IsPort(port \o s) /\ On(port \o s) = On(port) \cup On(s)
  <1> DEFINE p == port \o s
             S == On(port) \cup On(s)
  <1>1. port \in Seq(S) /\ s \in Seq(S)
    <2>1. \A n \in 1 .. N : s[n] \in On(s)
      BY DEF On
    <2>2. \A n \in 1 .. N : s[n] \in S
      BY <2>1
    <2>3. On(port) \subseteq S
      OBVIOUS
    <2> HIDE DEF S
    <2>4. s \in Seq(S)
      BY <2>2
    <2> QED BY <2>3, <2>4 DEF IsPort
  <1>2. DOMAIN port = 1 .. Len(port) /\ Len(port) \in Nat /\ Len(s) \in Nat
        /\ DOMAIN s = 1 .. Len(s)
    BY <1>1
  <1> HIDE DEF S
  <1>3. /\ p \in Seq(S) /\ DOMAIN p = 1 .. Len(port) + Len(s)
        /\ \A n \in 1 .. Len(port) : p[n] = port[n]
        /\ \A n \in 1 .. Len(s) : p[Len(port) + n] = s[n]
    BY <1>1, <1>2
  <1>4. \A n \in DOMAIN p : n \in 1 .. Len(port) \/ \E i \in 1 .. Len(s) : n = Len(port) + i
    <2> SUFFICES ASSUME NEW n \in DOMAIN p, ~(n \in 1 .. Len(port))
                 PROVE  n - Len(port) \in 1 .. Len(s)
      BY <1>2, <1>3
    <2> QED BY <1>2, <1>3
  <1>5. On(p) \subseteq S
    BY <1>2, <1>3, <1>4 DEF On, S
  <1>6. S \subseteq On(p)
    <2>1. On(port) \subseteq On(p)
      BY <1>2, <1>3 DEF On
    <2>2. On(s) \subseteq On(p)
      <3> SUFFICES ASSUME NEW i \in 1 .. Len(s) PROVE s[i] \in On(p)
        BY <1>2 DEF On
      <3>1. Len(port) + i \in DOMAIN p /\ p[Len(port) + i] = s[i]
        BY <1>2, <1>3
      <3> QED BY <3>1 DEF On
    <2> QED BY <2>1, <2>2 DEF S
  <1>7. On(p) = S
    BY <1>5, <1>6
  <1> QED BY <1>3, <1>7 DEF IsPort, S

(* News goes before what a port still holds.                               *)
LEMMA NewsPort ==
    ASSUME NEW port, NEW state, IsPort(port)
    PROVE  /\ IsPort(<<News(state)>> \o port)
           /\ On(<<News(state)>> \o port) = {News(state)} \cup On(port)
  <1>1. PICK s : s = <<News(state)>>
    OBVIOUS
  <1>2. IsPort(s) /\ On(s) = {News(state)}
    BY <1>1 DEF IsPort, On
  <1>3. Len(port) \in Nat /\ port = [n \in 1 .. Len(port) |-> port[n]]
    BY PortForm DEF IsPort
  <1>4. IsPort(s \o port) /\ On(s \o port) = On(s) \cup On(port)
    BY <1>2, <1>3, ConcatPort
  <1> QED BY <1>1, <1>2, <1>4

LEMMA NewsIsNews ==
    /\ \A state : IsNews(News(state))
    /\ \A e, status, body : ~IsNews(Verdict(e, status, body))
    /\ \A e, status, body : /\ Verdict(e, status, body).id = e.id
                            /\ Verdict(e, status, body).req = e.req
                            /\ Verdict(e, status, body).status = status
                            /\ Verdict(e, status, body).body = body
  BY DEF IsNews, News, Verdict

LEMMA ToldAppends ==
    ASSUME IsPort(outq), NEW r, outq' = Append(outq, r)
    PROVE  IsPort(outq)' /\ Told' = Told \cup (IF IsNews(r) THEN {} ELSE {r})
  <1>1. IsPort(outq') /\ On(outq') = On(outq) \cup {r}
    BY AppendPort
  <1> QED BY <1>1 DEF Told

LEMMA ToldTail ==
    ASSUME IsPort(outq), outq # <<>>, outq' = Tail(outq)
    PROVE  /\ IsPort(outq)' /\ Told' \subseteq Told /\ Told \subseteq Told' \cup {Head(outq)}
           /\ Head(outq) \in On(outq)
  <1>1. /\ IsPort(outq') /\ On(outq') \subseteq On(outq)
        /\ On(outq) \subseteq On(outq') \cup {Head(outq)} /\ Head(outq) \in On(outq)
    BY TailPort
  <1> QED BY <1>1 DEF Told

(***************************************************************************)
(* Slots and seats.                                                        *)
(***************************************************************************)
LEMMA LeastOf ==
    ASSUME NEW S \in SUBSET Nat, S # {} PROVE \E x \in S : \A y \in S : x <= y
  <1> DEFINE Below == {ss \in Nat \X Nat : ss[1] < ss[2]}
  <1>1. IsWellFoundedOn(Below, Nat)
    BY NatLessThanWellFounded, Zenon DEF OpToRel
  <1> HIDE DEF Below
  <1>2. PICK x \in S : \A y \in S : <<y, x>> \notin Below
    BY <1>1, WFMin
  <1>3. ASSUME NEW y \in S PROVE x <= y
    <2>1. ~(y < x)
      BY <1>2 DEF Below
    <2> QED BY <2>1
  <1> QED BY <1>3

LEMMA FirstFreeIsFree == ASSUME Live # Slots PROVE FirstFree \in Slots \ Live
  <1>1. Slots \ Live \in SUBSET Nat /\ Slots \ Live # {}
    BY DEF Slots, Live
  <1>2. \E k \in Slots \ Live : \A j \in Slots \ Live : k <= j
    BY <1>1, LeastOf
  <1> QED BY <1>2 DEF FirstFree

LEMMA FreeSeatIsFree == ASSUME Seated # Slots PROVE FreeSeat \in Slots \ Seated
  <1>1. Slots \ Seated \in SUBSET Nat /\ Slots \ Seated # {}
    BY DEF Slots, Seated
  <1>2. \E k \in Slots \ Seated : \A j \in Slots \ Seated : k <= j
    BY <1>1, LeastOf
  <1> QED BY <1>2 DEF FreeSeat

LEMMA SeatFreed ==
    ASSUME TypeOK, NEW k \in Seated, desk' = [desk EXCEPT ![k] = Free]
    PROVE  /\ Desk' \subseteq Desk /\ Desk \subseteq Desk' \cup {desk[k]} /\ desk[k] \in Desk
           /\ desk' = [j \in Slots |-> desk'[j]]
  <1>1. /\ desk = [j \in Slots |-> desk[j]] /\ k \in Slots /\ desk' = [j \in Slots |-> desk'[j]]
        /\ \A j \in Slots : desk'[j] = IF j = k THEN Free ELSE desk[j]
    BY DEF TypeOK, Seated
  <1> QED BY <1>1 DEF Desk, Seated

LEMMA SeatTaken ==
    ASSUME TypeOK, NEW k \in Slots, NEW e, e # Free, desk' = [desk EXCEPT ![k] = e]
    PROVE  /\ Desk' \subseteq Desk \cup {e} /\ e \in Desk'
           /\ Desk \subseteq Desk' \cup {desk[k]} /\ (k \notin Seated => Desk \subseteq Desk')
           /\ desk' = [j \in Slots |-> desk'[j]]
  <1>1. /\ desk = [j \in Slots |-> desk[j]] /\ desk' = [j \in Slots |-> desk'[j]]
        /\ \A j \in Slots : desk'[j] = IF j = k THEN e ELSE desk[j]
    BY DEF TypeOK
  <1> QED BY <1>1 DEF Desk, Seated

LEMMA SlotFreed ==
    ASSUME TypeOK, NEW k \in Live, pend' = [pend EXCEPT ![k] = Free]
    PROVE  /\ \A j \in Live' : j \in Live /\ j # k /\ pend'[j] = pend[j]
           /\ Pending' \subseteq Pending /\ Pending \subseteq Pending' \cup {pend[k]}
           /\ pend[k] \in Pending /\ pend' = [j \in Slots |-> pend'[j]]
  <1>1. /\ pend = [j \in Slots |-> pend[j]] /\ k \in Slots /\ pend' = [j \in Slots |-> pend'[j]]
        /\ \A j \in Slots : pend'[j] = IF j = k THEN Free ELSE pend[j]
        /\ Free.stage = "free"
    BY DEF TypeOK, Live, Free
  <1> QED BY <1>1 DEF Pending, Live

LEMMA SlotTaken ==
    ASSUME TypeOK, NEW k \in Slots, NEW e, e.stage # "free", pend' = [pend EXCEPT ![k] = e]
    PROVE  /\ \A j \in Live' : j = k \/ (j \in Live /\ pend'[j] = pend[j])
           /\ pend'[k] = e /\ k \in Live'
           /\ \A j \in Live : j # k => j \in Live' /\ pend'[j] = pend[j]
           /\ Pending' \subseteq Pending \cup {e} /\ e \in Pending'
           /\ Pending \subseteq Pending' \cup {pend[k]} /\ (k \notin Live => Pending \subseteq Pending')
           /\ pend' = [j \in Slots |-> pend'[j]]
  <1>1. /\ pend = [j \in Slots |-> pend[j]] /\ pend' = [j \in Slots |-> pend'[j]]
        /\ \A j \in Slots : pend'[j] = IF j = k THEN e ELSE pend[j]
    BY DEF TypeOK
  <1> QED BY <1>1 DEF Pending, Live

LEMMA SlotsAlike == ASSUME pend' = pend PROVE Live' = Live /\ Pending' = Pending
  BY DEF Live, Pending

LEMMA SeatsAlike == ASSUME desk' = desk PROVE Seated' = Seated /\ Desk' = Desk
  BY DEF Seated, Desk

(***************************************************************************)
(* What carries over: a request met in the next state was met in this one, *)
(* or has just been taken.                                                 *)
(***************************************************************************)
Carries ==
    /\ scn' = scn /\ next' \in {next, next + 1}
    /\ \E b :
          /\ next' = next + 1 => b \in Reqs /\ ("admit" \in scn.drops => b.via = "http")
          /\ \A x \in Seen' : \/ \E y \in Seen : y.id = x.id /\ y.req = x.req
                              \/ x.id = next /\ x.req = b /\ next' = next + 1

LEMMA CarriesOver ==
    ASSUME TypeOK, SeenOK, Carries
    PROVE  /\ SeenOK' /\ next \in Nat /\ next' \in Nat /\ next <= next'
           /\ \A x \in Seen' : x.id # next => \E y \in Seen : y.id = x.id /\ y.req = x.req
           /\ \A x \in Seen : x.id \in Nat /\ x.id < next
  <1>1. next \in Nat /\ 1 <= next /\ next' \in Nat /\ next <= next'
    BY DEF TypeOK, Carries
  <1>2. PICK b :
          /\ next' = next + 1 => b \in Reqs /\ ("admit" \in scn.drops => b.via = "http")
          /\ \A x \in Seen' : \/ \E y \in Seen : y.id = x.id /\ y.req = x.req
                              \/ x.id = next /\ x.req = b /\ next' = next + 1
    BY DEF Carries
  <1>3. \A x \in Seen : x.id \in Nat /\ 1 <= x.id /\ x.id < next /\ x.req \in Reqs
                        /\ ("admit" \in scn.drops => x.req.via = "http")
    BY DEF SeenOK, Presents
  <1>4. \A x \in Seen' : x.id # next => \E y \in Seen : y.id = x.id /\ y.req = x.req
    BY <1>2
  <1>5. \A x \in Seen' : Presents(x)'
    <2> SUFFICES ASSUME NEW x \in Seen' PROVE Presents(x)'
      OBVIOUS
    <2>1. CASE \E y \in Seen : y.id = x.id /\ y.req = x.req
      BY <1>1, <1>3, <2>1 DEF Presents, Carries
    <2>2. CASE x.id = next /\ x.req = b /\ next' = next + 1
      BY <1>1, <1>2, <2>2 DEF Presents, Carries
    <2> QED BY <1>2, <2>1, <2>2
  <1>6. ASSUME NEW x \in Seen', NEW y \in Seen', x.id = y.id PROVE x.req = y.req
    <2>1. CASE x.id = next
      <3>1. ~\E z \in Seen : z.id = next
        BY <1>1, <1>3
      <3>2. \A z \in Seen' : z.id = next => z.req = b
        BY <1>2, <3>1
      <3> QED BY <1>6, <2>1, <3>2
    <2>2. CASE x.id # next
      <3>1. PICK u \in Seen : u.id = x.id /\ u.req = x.req
        BY <1>4, <2>2
      <3>2. PICK v \in Seen : v.id = y.id /\ v.req = y.req
        BY <1>4, <1>6, <2>2
      <3> QED BY <1>6, <3>1, <3>2 DEF SeenOK
    <2> QED BY <2>1, <2>2
  <1>7. SeenOK'
    BY <1>5, <1>6 DEF SeenOK
  <1> QED BY <1>1, <1>3, <1>4, <1>7

LEMMA StaysCarried ==
    ASSUME scn' = scn, next' = next, next \in Nat,
           \A x \in Seen' : \E y \in Seen : y.id = x.id /\ y.req = x.req
    PROVE  Carries
  <1>1. next # next + 1
    OBVIOUS
  <1> QED BY <1>1 DEF Carries

(***************************************************************************)
(* What each part of the invariant keeps.                                  *)
(***************************************************************************)
LEMMA CallKept ==
    ASSUME TypeOK, SeenOK, Carries, gone' = gone, NEW c, CallOK(c)
    PROVE  CallOK(c)'
  <1>1. /\ next \in Nat /\ next' \in Nat /\ next <= next'
        /\ \A x \in Seen' : x.id # next => \E y \in Seen : y.id = x.id /\ y.req = x.req
    BY CarriesOver
  <1>2. c.id \in Nat /\ c.id < next'
    BY <1>1 DEF CallOK
  <1>3. \A x \in Seen' : x.id = c.id => c.facts = Facts(x.req)
    BY <1>1 DEF CallOK
  <1> QED BY <1>2, <1>3 DEF CallOK

LEMMA ReplyKept ==
    ASSUME TypeOK, SeenOK, Carries, NEW r, ReplyOK(r)
    PROVE  ReplyOK(r)'
  <1>1. /\ next \in Nat /\ next' \in Nat /\ next <= next'
        /\ \A x \in Seen' : x.id # next => \E y \in Seen : y.id = x.id /\ y.req = x.req
    BY CarriesOver
  <1>2. r.id \in Nat /\ r.id < next'
    BY <1>1 DEF ReplyOK
  <1>3. \A x \in Seen' : x.id = r.id /\ r.status = "ok" => TokenFor(r.body, x)
    BY <1>1 DEF ReplyOK, TokenFor
  <1> QED BY <1>2, <1>3 DEF ReplyOK

LEMMA CorrKept ==
    ASSUME TypeOK, SeenOK, Carries, NEW w, Corr(w)
    PROVE  Corr(w)' /\ w.corr[1] # next
  <1>1. next \in Nat /\ next' \in Nat /\ next <= next'
    BY CarriesOver
  <1> QED BY <1>1 DEF Corr

LEMMA AskingKept ==
    ASSUME TypeOK, SeenOK, Carries, NEW w, Asking(w)
    PROVE  Asking(w)'
  <1>1. \A x \in Seen' : x.id # next => \E y \in Seen : y.id = x.id /\ y.req = x.req
    BY CarriesOver
  <1>2. Corr(w)' /\ w.corr[1] # next
    BY CorrKept DEF Asking
  <1>3. \A x \in Seen' : x.id = w.corr[1] => w.q = Question(x.req, w.corr[2])
    BY <1>1, <1>2 DEF Asking
  <1> QED BY <1>2, <1>3 DEF Asking

LEMMA DeviceToldKept ==
    ASSUME TypeOK, SeenOK, Carries, led' = led, gone' = gone, NEW m, Corr(m), DeviceTold(m)
    PROVE  DeviceTold(m)'
  <1>1. \A x \in Seen' : x.id # next => \E y \in Seen : y.id = x.id /\ y.req = x.req
    BY CarriesOver
  <1>2. m.corr[1] # next
    BY CorrKept
  <1>3. ASSUME m.status = "ok", NEW x \in Seen', x.id = m.corr[1]
        PROVE  IF m.val = Device(TRUE) THEN led'[DeviceKey(x.req.dev)] = Device(TRUE)
                                       ELSE x.id < gone'[x.req.dev]
    <2>1. PICK y \in Seen : y.id = x.id /\ y.req = x.req
      BY <1>1, <1>2, <1>3
    <2>2. IF m.val = Device(TRUE) THEN led[DeviceKey(y.req.dev)] = Device(TRUE)
                                  ELSE y.id < gone[y.req.dev]
      BY <1>3, <2>1 DEF DeviceTold
    <2> QED BY <2>1, <2>2
  <1> QED BY <1>3 DEF DeviceTold

LEMMA LaneKept ==
    ASSUME TypeOK, SeenOK, LaneOK, Carries, led' = led, gone' = gone,
           wire' \subseteq wire, mail' \subseteq mail, Pending' \subseteq Pending
    PROVE  LaneOK'
  <1>1. \A w \in wire' : Asking(w)'
    BY AskingKept DEF LaneOK
  <1>2. \A m \in mail' : Corr(m)'
    BY CorrKept DEF LaneOK
  <1>3. \A m \in mail' : m.corr[2] = "device" => DeviceTold(m)'
    BY DeviceToldKept DEF LaneOK
  <1> QED BY <1>1, <1>2, <1>3 DEF LaneOK

LEMMA MintsKept ==
    ASSUME TypeOK, SeenOK, MintsOK, Carries, gone' = gone,
           \A l \in {"mint", "grant"} : On(calls'[l]) \subseteq On(calls[l]),
           \A l \in {"mint", "grant"} : \A r \in On(replies'[l]) : IsNews(r) \/ r \in On(replies[l])
    PROVE  MintsOK'
  <1>1. \A l \in {"mint", "grant"} : \A c \in On(calls'[l]) : CallOK(c)'
    BY CallKept DEF MintsOK
  <1>2. \A l \in {"mint", "grant"} : \A r \in On(replies'[l]) : IsNews(r) \/ ReplyOK(r)'
    BY ReplyKept DEF MintsOK
  <1> QED BY <1>1, <1>2 DEF MintsOK

LEMMA ClaimsKept ==
    ASSUME ClaimsOK, \A i, p : Won(i, p)' => Won(i, p),
           \A p \in Proofs : led[ReplayKey(p)] = Claim => led'[ReplayKey(p)] = Claim
    PROVE  ClaimsOK'
  BY DEF ClaimsOK

LEMMA SignedKept ==
    ASSUME TypeOK, SeenOK, SignedOK, Carries, gone' = gone, signed' = signed
    PROVE  SignedOK'
  BY CarriesOver DEF SignedOK

(***************************************************************************)
(* Steps that ask nothing of the ledger or of a mint, and win nothing.     *)
(***************************************************************************)
Distinct(s) == \A m, n \in DOMAIN s : s[m].id = s[n].id => m = n

(* Only a request just taken is sent.                                      *)
SentKept == \A c \in Sent' : c \in Sent \/ (c.id = next /\ next' = next + 1)

Recedes ==
    /\ TypeOK' /\ Carries /\ UNCHANGED <<led, gone, signed>>
    /\ \A k \in Live' : k \in Live /\ pend'[k] = pend[k]
    /\ \A x \in (Desk \cup Sent)' : x.req.via = "http"
    /\ \A x \in Desk' : IsEntry(x)
    /\ Distinct(calls'["admit"]) /\ SentKept
    /\ wire' \subseteq wire /\ mail' \subseteq mail
    /\ \A l \in {"mint", "grant"} : On(calls'[l]) \subseteq On(calls[l])
    /\ \A l \in {"mint", "grant"} : \A r \in On(replies'[l]) : IsNews(r) \/ r \in On(replies[l])
    /\ \A r \in Told' : r \in Told \/ r.status # "ok"
                        \/ (r.req.via # "http" /\ TokenFor(r.body, r))
    /\ \A a \in Ended' : a \in Ended \/ a.status # "ok" \/ TokenFor(a.body, a)

LEMMA TableKept ==
    ASSUME TypeOK, SeenOK, TableOK, LaneOK, Carries, SeenOK', Distinct(calls'["admit"]),
           \A c \in Sent' : c \in Sent \/ (c.id = next /\ next' = next + 1),
           wire' \subseteq wire, mail' \subseteq mail,
           \A k \in Live' : k \in Live /\ pend'[k] = pend[k]
    PROVE  TableOK'
  <1>1. \A j, k \in Live' : pend'[j].id = pend'[k].id => j = k
    BY DEF TableOK
  <1>2. Pending' \subseteq Pending
    BY DEF Pending
  <1>3. \A x \in Pending : x.id # next
    BY CarriesOver DEF Seen
  <1>4. \A w \in wire \cup mail : w.corr[1] # next
    BY CorrKept DEF LaneOK, Asking
  <1>5. \A c \in Sent' : /\ \A x \in Pending' : x.id # c.id
                         /\ \A w \in wire' \cup mail' : w.corr[1] # c.id
    BY <1>2, <1>3, <1>4 DEF TableOK
  <1> QED BY <1>1, <1>5 DEF TableOK, Distinct

LEMMA RecedesInv == ASSUME IInv, Recedes PROVE IInv'
  <1>1. /\ TypeOK /\ SeenOK /\ DoorsOK /\ TableOK /\ LaneOK /\ ClaimsOK /\ MintsOK /\ SignedOK
        /\ VerdictsOK /\ TypeOK' /\ Carries /\ led' = led /\ gone' = gone /\ signed' = signed
    BY DEF IInv, Recedes
  <1>2. SeenOK'
    BY <1>1, CarriesOver
  <1>3. Pending' \subseteq Pending
    BY DEF Recedes, Pending
  <1>4. DoorsOK'
    BY <1>1, <1>3 DEF DoorsOK, Recedes
  <1>5. TableOK'
    BY <1>1, <1>2, TableKept DEF Recedes, SentKept
  <1>6. LaneOK'
    BY <1>1, <1>3, LaneKept DEF Recedes
  <1>7. ClaimsOK'
    <2>1. \A i, p : WonInSlot(i, p)' => WonInSlot(i, p)
      BY <1>3 DEF WonInSlot, Recedes
    <2>2. \A i, p : WonAtDoor(i, p)' => WonAtDoor(i, p)
      BY DEF WonAtDoor, Recedes
    <2>3. \A i, p : WonAtMint(i, p)' => WonAtMint(i, p)
      BY DEF WonAtMint, Recedes
    <2>4. \A i, p : Won(i, p)' => Won(i, p)
      BY <1>1, <2>1, <2>2, <2>3 DEF Won
    <2> QED BY <1>1, <2>4, ClaimsKept
  <1>8. MintsOK'
    BY <1>1, MintsKept DEF Recedes
  <1>9. SignedOK'
    BY <1>1, SignedKept
  <1>10. VerdictsOK'
    <2>1. \A r \in Told' : r.status = "ok" =>
            IF r.req.via = "http" THEN r.body = Facts(r.req) /\ r.id < gone'[r.req.dev]
                                  ELSE TokenFor(r.body, r)
      BY <1>1 DEF Recedes, VerdictsOK
    <2>2. \A a \in Ended' : a.status = "ok" => TokenFor(a.body, a)
      BY <1>1 DEF Recedes, VerdictsOK
    <2> QED BY <2>1, <2>2 DEF VerdictsOK, TokenFor
  <1> QED BY <1>1, <1>2, <1>4, <1>5, <1>6, <1>7, <1>8, <1>9, <1>10 DEF IInv

(***************************************************************************)
(* Refusals: what was presented stays presented.                           *)
(***************************************************************************)
LEMMA ProofOfKept ==
    ASSUME TypeOK, SeenOK, Carries, NEW i, NEW p, ProofOf(i, p)
    PROVE  ProofOf(i, p)' /\ i \in 1 .. next' - 1
  <1>1. /\ next \in Nat /\ next' \in Nat /\ next <= next'
        /\ \A x \in Seen' : x.id # next => \E y \in Seen : y.id = x.id /\ y.req = x.req
    BY CarriesOver
  <1>2. i \in 1 .. next' - 1 /\ i # next
    BY <1>1 DEF ProofOf
  <1> QED BY <1>1, <1>2 DEF ProofOf

LEMMA OffersKept ==
    ASSUME TypeOK, SeenOK, Carries, SentKept, NEW i, NEW p, Offers(i, p)
    PROVE  Offers(i, p)' /\ i \in 1 .. next' - 1
  <1>1. ProofOf(i, p)' /\ i \in 1 .. next' - 1
    BY ProofOfKept DEF Offers
  <1>2. i # next
    BY CarriesOver DEF Offers, ProofOf
  <1> QED BY <1>1, <1>2 DEF Offers, SentKept

LEMMA BlamedKept ==
    ASSUME TypeOK, SeenOK, Carries, NEW e, Blamed(e),
           led[DeviceKey(e.req.dev)] = Device(TRUE) => led'[DeviceKey(e.req.dev)] = Device(TRUE)
    PROVE  Blamed(e)'
  <1>1. CASE Twin(e)
    <2>1. PICK i \in 1 .. next - 1 : i # e.id /\ ProofOf(i, e.req.proof)
      BY <1>1 DEF Twin
    <2>2. ProofOf(i, e.req.proof)' /\ i \in 1 .. next' - 1
      BY <2>1, ProofOfKept
    <2>3. Twin(e)'
      BY <2>1, <2>2 DEF Twin
    <2> QED BY <2>3 DEF Blamed
  <1>2. CASE Crowd(e)
    <2>1. PICK S : FilledBy(e, S)
      BY <1>2 DEF Crowd
    <2>2. ASSUME NEW p \in S PROVE \E i \in 1 .. next' - 1 : i # e.id /\ ProofOf(i, p)'
      <3>1. PICK i \in 1 .. next - 1 : i # e.id /\ ProofOf(i, p)
        BY <2>1 DEF FilledBy
      <3>2. ProofOf(i, p)' /\ i \in 1 .. next' - 1
        BY <3>1, ProofOfKept
      <3> QED BY <3>1, <3>2
    <2>3. FilledBy(e, S)'
      BY <2>1, <2>2 DEF FilledBy
    <2> QED BY <2>3 DEF Blamed, Crowd
  <1> QED BY <1>1, <1>2 DEF Blamed

(* What the window remembers was presented.                                *)
Remembers == \A p \in window' : p \in window \/ \E i \in 1 .. next' - 1 : Offers(i, p)'

LEMMA UsedKept ==
    ASSUME TypeOK, SeenOK, UsedOK, Carries, SentKept, led' = led,
           Remembers, wire' \subseteq wire, mail' \subseteq mail
    PROVE  UsedOK'
  <1>1. \A p \in window' : \E i \in 1 .. next' - 1 : Offers(i, p)'
    <2> SUFFICES ASSUME NEW p \in window PROVE \E i \in 1 .. next' - 1 : Offers(i, p)'
      BY DEF Remembers
    <2>1. PICK i \in 1 .. next - 1 : Offers(i, p)
      BY DEF UsedOK
    <2> QED BY <2>1, OffersKept
  <1>2. \A p \in Proofs : led'[ReplayKey(p)] = Claim =>
          \E i \in 1 .. next' - 1 : Offers(i, p)' /\ \A w \in wire' : w.corr # <<i, "claim">>
    <2> SUFFICES ASSUME NEW p \in Proofs, led[ReplayKey(p)] = Claim
                 PROVE  \E i \in 1 .. next' - 1 : Offers(i, p)'
                                                  /\ \A w \in wire' : w.corr # <<i, "claim">>
      OBVIOUS
    <2>1. PICK i \in 1 .. next - 1 : Offers(i, p) /\ \A w \in wire : w.corr # <<i, "claim">>
      BY DEF UsedOK
    <2>2. Offers(i, p)' /\ i \in 1 .. next' - 1
      BY <2>1, OffersKept
    <2> QED BY <2>1, <2>2
  <1>3. \A m \in mail' : m.corr[2] = "claim" /\ m.status = "conflict" =>
          \E p \in Proofs : ProofOf(m.corr[1], p)'
              /\ \E i \in 1 .. next' - 1 : i # m.corr[1] /\ ProofOf(i, p)'
    <2> SUFFICES ASSUME NEW m \in mail', m.corr[2] = "claim" /\ m.status = "conflict"
                 PROVE  \E p \in Proofs : ProofOf(m.corr[1], p)'
                            /\ \E i \in 1 .. next' - 1 : i # m.corr[1] /\ ProofOf(i, p)'
      OBVIOUS
    <2>1. PICK p \in Proofs : ProofOf(m.corr[1], p)
             /\ \E i \in 1 .. next - 1 : i # m.corr[1] /\ ProofOf(i, p)
      BY DEF UsedOK
    <2>2. PICK i \in 1 .. next - 1 : i # m.corr[1] /\ ProofOf(i, p)
      BY <2>1
    <2>3. ProofOf(m.corr[1], p)' /\ ProofOf(i, p)' /\ i \in 1 .. next' - 1
      BY <2>1, <2>2, ProofOfKept
    <2> QED BY <2>2, <2>3
  <1> QED BY <1>1, <1>2, <1>3 DEF UsedOK

Deserved ==
    /\ \A r \in Told' : r \in Told \/ (r.status \in Verdicts /\ (r.status \in Faults => Blamed(r)))
    /\ \A a \in Ended' : a \in Ended \/ (a.status \in {"401", "replay"} => Blamed(a))

LEMMA BlameKept ==
    ASSUME TypeOK, SeenOK, BlameOK, Carries, Deserved,
           \A d : led[DeviceKey(d)] = Device(TRUE) => led'[DeviceKey(d)] = Device(TRUE)
    PROVE  BlameOK'
  <1>1. \A e : Blamed(e) => Blamed(e)'
    BY BlamedKept
  <1>2. \A r \in Told' : r.status \in Verdicts /\ (r.status \in Faults => Blamed(r))
    BY DEF BlameOK, Deserved
  <1>3. \A a \in Ended' : a.status \in {"401", "replay"} => Blamed(a)
    BY DEF BlameOK, Deserved
  <1> QED BY <1>1, <1>2, <1>3 DEF BlameOK

(* Steps that blame nobody without cause, lose nobody, and remember only   *)
(* what was presented.                                                     *)
Stays == RInv => Deserved /\ AllPresent' /\ Remembers

LEMMA RecedesR == ASSUME IInv, RInv, Recedes, Stays PROVE RInv'
  <1>1. /\ TypeOK /\ SeenOK /\ Carries /\ led' = led /\ SentKept
        /\ wire' \subseteq wire /\ mail' \subseteq mail /\ UsedOK /\ BlameOK
    BY DEF IInv, Recedes, RInv
  <1>2. UsedOK'
    BY <1>1, UsedKept DEF Stays
  <1>3. BlameOK'
    BY <1>1, BlameKept DEF Stays
  <1> QED BY <1>2, <1>3 DEF Stays, RInv, Remembers

LEMMA HomesKept ==
    ASSUME AllPresent, lost' = lost, next \in Nat, next' \in {next, next + 1},
           \A i \in 1 .. next - 1 : Home(i) => Home(i)',
           \A i : i = next /\ next' = next + 1 => Home(i)'
    PROVE  AllPresent'
  <1>1. CASE lost # {}
    BY <1>1 DEF AllPresent
  <1>2. CASE lost = {}
    <2>1. ASSUME NEW i \in 1 .. next' - 1
          PROVE  i \in 1 .. next - 1 \/ (i = next /\ next' = next + 1)
      <3>1. CASE next' = next
        BY <3>1
      <3>2. CASE next' = next + 1
        BY <3>2
      <3> QED BY <3>1, <3>2
    <2>2. ASSUME NEW i \in 1 .. next' - 1 PROVE Home(i)'
      <3>1. \A j \in 1 .. next - 1 : Home(j)
        BY <1>2 DEF AllPresent
      <3>2. CASE i \in 1 .. next - 1
        BY <3>1, <3>2
      <3>3. CASE i = next /\ next' = next + 1
        BY <3>3
      <3> QED BY <2>1, <3>2, <3>3
    <2> QED BY <2>2 DEF AllPresent
  <1> QED BY <1>1, <1>2

LEMMA PartsAlike ==
    /\ pend' = pend => Live' = Live /\ Pending' = Pending
    /\ desk' = desk => Seated' = Seated /\ Desk' = Desk
    /\ outq' = outq => Told' = Told
    /\ calls' = calls => Sent' = Sent
    /\ http' = http /\ answers' = answers => Ended' = Ended
  BY DEF Live, Pending, Seated, Desk, Told, Sent, Ended

(***************************************************************************)
(* Calls and replies.                                                      *)
(***************************************************************************)
LEMMA DistinctTail ==
    ASSUME NEW s, IsPort(s), s # <<>>, Distinct(s)
    PROVE  Distinct(Tail(s)) /\ \A c \in On(Tail(s)) : c.id # Head(s).id
  <1>1. /\ Len(s) \in Nat /\ DOMAIN s = 1 .. Len(s) /\ Head(s) = s[1] /\ Len(s) >= 1
        /\ DOMAIN Tail(s) = 1 .. Len(s) - 1
        /\ \A n \in 1 .. Len(s) - 1 : Tail(s)[n] = s[n + 1]
    BY PortForm, TailPort
  <1>2. \A n \in 1 .. Len(s) - 1 : n + 1 \in DOMAIN s /\ n + 1 # 1 /\ n \in Nat
    BY <1>1
  <1>3. Distinct(Tail(s))
    <2> SUFFICES ASSUME NEW m \in 1 .. Len(s) - 1, NEW n \in 1 .. Len(s) - 1,
                        Tail(s)[m].id = Tail(s)[n].id
                 PROVE  m = n
      BY <1>1 DEF Distinct
    <2>1. m + 1 = n + 1
      BY <1>1, <1>2 DEF Distinct
    <2> QED BY <1>2, <2>1
  <1>4. \A n \in DOMAIN Tail(s) : Tail(s)[n].id # Head(s).id
    <2> SUFFICES ASSUME NEW n \in 1 .. Len(s) - 1 PROVE s[n + 1].id # s[1].id
      BY <1>1
    <2>1. n + 1 \in DOMAIN s /\ 1 \in DOMAIN s /\ n + 1 # 1
      BY <1>1, <1>2
    <2> QED BY <2>1 DEF Distinct
  <1> QED BY <1>3, <1>4 DEF On

LEMMA DistinctKept ==
    ASSUME NEW s, IsPort(s), Distinct(s) PROVE Distinct(KeptBack(s))
  <1>1. /\ \A m \in DOMAIN KeptBack(s) :
              EdgeCapacity + m \in DOMAIN s /\ KeptBack(s)[m] = s[EdgeCapacity + m]
        /\ DOMAIN KeptBack(s) \subseteq Nat /\ EdgeCapacity \in Nat
    BY KeptPort, AdBounds
  <1> SUFFICES ASSUME NEW m \in DOMAIN KeptBack(s), NEW n \in DOMAIN KeptBack(s),
                      KeptBack(s)[m].id = KeptBack(s)[n].id
               PROVE  m = n
    BY DEF Distinct
  <1>2. EdgeCapacity + m = EdgeCapacity + n
    BY <1>1 DEF Distinct
  <1> QED BY <1>1, <1>2

LEMMA DistinctAppend ==
    ASSUME NEW s, NEW c, IsPort(s), Distinct(s), \A x \in On(s) : x.id # c.id
    PROVE  Distinct(Append(s, c))
  <1>1. /\ Len(s) \in Nat /\ DOMAIN s = 1 .. Len(s) /\ DOMAIN Append(s, c) = 1 .. Len(s) + 1
        /\ \A n \in 1 .. Len(s) : Append(s, c)[n] = s[n]
        /\ Append(s, c)[Len(s) + 1] = c
    BY PortForm, AppendPort
  <1>2. \A n \in 1 .. Len(s) + 1 : n \in 1 .. Len(s) \/ n = Len(s) + 1
    BY <1>1
  <1>3. \A n \in 1 .. Len(s) : s[n] \in On(s)
    BY <1>1 DEF On
  <1> SUFFICES ASSUME NEW m \in 1 .. Len(s) + 1, NEW n \in 1 .. Len(s) + 1,
                      Append(s, c)[m].id = Append(s, c)[n].id
               PROVE  m = n
    BY <1>1 DEF Distinct
  <1>4. CASE m \in 1 .. Len(s) /\ n \in 1 .. Len(s)
    BY <1>1, <1>4 DEF Distinct
  <1>5. CASE m = Len(s) + 1 /\ n \in 1 .. Len(s)
    BY <1>1, <1>3, <1>5
  <1>6. CASE n = Len(s) + 1 /\ m \in 1 .. Len(s)
    BY <1>1, <1>3, <1>6
  <1> QED BY <1>2, <1>4, <1>5, <1>6

(***************************************************************************)
(* Links that go down and come back, and calls they drop.                  *)
(***************************************************************************)
LEMMA CallsShrink ==
    ASSUME IInv, NEW l \in LinkNames, NEW port, IsPort(port), On(port) \subseteq On(calls[l]),
           l = "admit" => Distinct(port), calls' = [calls EXCEPT ![l] = port]
    PROVE  /\ PortsOK(calls)' /\ Distinct(calls'["admit"]) /\ Sent' \subseteq Sent
           /\ \A j \in LinkNames : On(calls'[j]) \subseteq On(calls[j])
  <1>1. PortsOK(calls) /\ Distinct(calls["admit"])
    BY DEF IInv, TypeOK, TableOK, Distinct
  <1>2. PortsOK(calls') /\ calls'[l] = port /\ \A j \in LinkNames \ {l} : calls'[j] = calls[j]
    BY <1>1 DEF PortsOK
  <1>3. ASSUME NEW j \in LinkNames PROVE On(calls'[j]) \subseteq On(calls[j])
    <2>1. CASE j = l
      BY <1>2, <2>1
    <2>2. CASE j # l
      BY <1>2, <2>2
    <2> QED BY <2>1, <2>2
  <1>4. "admit" \in LinkNames
    BY DEF LinkNames
  <1>5. Distinct(calls'["admit"])
    BY <1>1, <1>2, <1>4
  <1> QED BY <1>2, <1>3, <1>4, <1>5 DEF Sent

LEMMA DiscardStays ==
    ASSUME IInv, NEW l \in LinkNames, Discard(l), UNCHANGED token PROVE Recedes /\ Stays
  <1>1. TypeOK /\ IsPort(calls[l]) /\ calls[l] # <<>> /\ Distinct(calls["admit"])
        /\ "admit" \in LinkNames
    BY DEF IInv, TypeOK, PortsOK, Discard, TableOK, Distinct, LinkNames
  <1>2. IsPort(Tail(calls[l])) /\ On(Tail(calls[l])) \subseteq On(calls[l])
    BY <1>1, TailPort
  <1>3. l = "admit" => Distinct(Tail(calls[l]))
    BY <1>1, DistinctTail
  <1>4. /\ PortsOK(calls)' /\ Distinct(calls'["admit"]) /\ Sent' \subseteq Sent
        /\ \A j \in LinkNames : On(calls'[j]) \subseteq On(calls[j])
    <2>1. calls' = [calls EXCEPT ![l] = Tail(calls[l])]
      BY DEF Discard
    <2> QED BY <1>2, <1>3, <2>1, CallsShrink
  <1>5. /\ UNCHANGED <<scn, led, wire, mail, pend, outq, next, answers, window, replies, signed,
                       gone, desk, http, lost>>
    BY DEF Discard, frame, lane, slots, world, token
  <1>6. Live' = Live /\ Pending' = Pending /\ Desk' = Desk /\ Told' = Told /\ Ended' = Ended
    BY <1>5, PartsAlike
  <1>7. TypeOK'
    BY <1>1, <1>4, <1>5 DEF TypeOK
  <1>8. Carries
    BY <1>1, <1>4, <1>5, <1>6, StaysCarried DEF Seen, TypeOK
  <1>9. Recedes
    BY <1>1, <1>4, <1>5, <1>6, <1>7, <1>8 DEF Recedes, SentKept, LinkNames, IInv, DoorsOK
  <1>10. Stays
    <2>1. Deserved
      BY <1>6 DEF Deserved
    <2>2. ASSUME AllPresent PROVE AllPresent'
      BY <1>5, <1>6, <2>2 DEF AllPresent, Home
    <2> QED BY <1>5, <2>1, <2>2 DEF Stays, RInv, Remembers
  <1> QED BY <1>9, <1>10

LEMMA LinkDownStays ==
    ASSUME IInv, NEW l \in LinkNames, LinkDown(l), UNCHANGED token PROVE Recedes /\ Stays
  <1>1. TypeOK /\ PortsOK(calls) /\ PortsOK(replies) /\ IsPort(calls[l]) /\ IsPort(replies[l])
        /\ IsPort(outq) /\ Distinct(calls["admit"])
    BY DEF IInv, TypeOK, PortsOK, TableOK, Distinct, LinkNames
  <1>2. IsPort(KeptBack(calls[l])) /\ On(KeptBack(calls[l])) \subseteq On(calls[l])
    BY <1>1, KeptPort
  <1>3. l = "admit" => Distinct(KeptBack(calls[l]))
    BY <1>1, DistinctKept
  <1>4. /\ PortsOK(calls)' /\ Distinct(calls'["admit"]) /\ Sent' \subseteq Sent
        /\ \A j \in LinkNames : On(calls'[j]) \subseteq On(calls[j])
    <2>1. calls' = [calls EXCEPT ![l] = KeptBack(calls[l])]
      BY DEF LinkDown
    <2> QED BY <1>2, <1>3, <2>1, CallsShrink
  <1>5. /\ UNCHANGED <<scn, led, wire, mail, pend, next, answers, window, signed,
                       gone, desk, http, lost>>
    BY DEF LinkDown, lane, world, token
  <1>6. /\ IsPort(outq)' /\ Told' \subseteq Told
        /\ Told \subseteq Told' \/ "admit" \in scn.drops
    <2>1. CASE l = "admit"
      <3>1. IsPort(KeptBack(outq)) /\ On(KeptBack(outq)) \subseteq On(outq)
        BY <1>1, KeptPort
      <3>2. outq' = <<News("down")>> \o KeptBack(outq) /\ "admit" \in scn.drops
        BY <2>1 DEF LinkDown
      <3>3. IsPort(outq') /\ On(outq') = {News("down")} \cup On(KeptBack(outq))
        BY <3>1, <3>2, NewsPort
      <3> QED BY <3>1, <3>2, <3>3, NewsIsNews DEF Told
    <2>2. CASE l # "admit"
      <3>1. outq' = outq
        BY <2>2 DEF LinkDown
      <3> QED BY <1>1, <3>1, PartsAlike
    <2> QED BY <2>1, <2>2
  <1>7. /\ PortsOK(replies)'
        /\ \A j \in LinkNames : \A r \in On(replies'[j]) : IsNews(r) \/ r \in On(replies[j])
    <2>1. CASE l = "admit"
      <3>1. replies' = replies
        BY <2>1 DEF LinkDown
      <3> QED BY <1>1, <3>1
    <2>2. CASE l # "admit"
      <3>1. IsPort(KeptBack(replies[l])) /\ On(KeptBack(replies[l])) \subseteq On(replies[l])
        BY <1>1, KeptPort
      <3>2. PICK port : port = <<News("down")>> \o KeptBack(replies[l])
        OBVIOUS
      <3>3. IsPort(port) /\ On(port) = {News("down")} \cup On(KeptBack(replies[l]))
        BY <3>1, <3>2, NewsPort
      <3>4. replies' = [replies EXCEPT ![l] = port]
        BY <2>2, <3>2 DEF LinkDown
      <3>5. /\ PortsOK(replies') /\ replies'[l] = port
            /\ \A j \in LinkNames \ {l} : replies'[j] = replies[j]
        BY <1>1, <3>3, <3>4 DEF PortsOK
      <3>6. ASSUME NEW j \in LinkNames, NEW r \in On(replies'[j])
            PROVE  IsNews(r) \/ r \in On(replies[j])
        <4>1. CASE j = l
          BY <3>1, <3>3, <3>5, <3>6, <4>1, NewsIsNews
        <4>2. CASE j # l
          BY <3>5, <3>6, <4>2
        <4> QED BY <4>1, <4>2
      <3> QED BY <3>5, <3>6
    <2> QED BY <2>1, <2>2
  <1>8. Live' = Live /\ Pending' = Pending /\ Desk' = Desk /\ Ended' = Ended
    BY <1>5, PartsAlike
  <1>9. TypeOK'
    BY <1>1, <1>4, <1>5, <1>6, <1>7 DEF TypeOK
  <1>10. Carries
    BY <1>1, <1>4, <1>5, <1>6, <1>8, StaysCarried DEF Seen, TypeOK
  <1>11. Recedes
    BY <1>1, <1>4, <1>5, <1>6, <1>7, <1>8, <1>9, <1>10
       DEF Recedes, SentKept, LinkNames, IInv, DoorsOK
  <1>12. Stays
    <2>1. Deserved
      BY <1>6, <1>8 DEF Deserved
    <2>2. ASSUME AllPresent PROVE AllPresent'
      <3>1. \A i : Home(i) => Home(i)'
        <4>1. CASE "admit" \in scn.drops
          <5>1. \A x \in Told : x.req.via # "grant"
            BY <4>1 DEF IInv, SeenOK, Presents, Seen
          <5> QED BY <1>5, <1>8, <5>1 DEF Home
        <4>2. CASE Told \subseteq Told'
          BY <1>5, <1>8, <4>2 DEF Home
        <4> QED BY <1>6, <4>1, <4>2
      <3> QED BY <1>5, <2>2, <3>1 DEF AllPresent
    <2> QED BY <1>5, <2>1, <2>2 DEF Stays, RInv, Remembers
  <1> QED BY <1>11, <1>12

LEMMA RepliesShrink ==
    ASSUME IInv, NEW l \in LinkNames, replies[l] # <<>>,
           replies' = [replies EXCEPT ![l] = Tail(replies[l])]
    PROVE  /\ PortsOK(replies)' /\ Head(replies[l]) \in On(replies[l])
           /\ \A j \in LinkNames : On(replies'[j]) \subseteq On(replies[j])
  <1>1. PortsOK(replies) /\ IsPort(replies[l])
    BY DEF IInv, TypeOK, PortsOK
  <1>2. /\ IsPort(Tail(replies[l])) /\ On(Tail(replies[l])) \subseteq On(replies[l])
        /\ Head(replies[l]) \in On(replies[l])
    BY <1>1, TailPort
  <1>3. /\ PortsOK(replies') /\ replies'[l] = Tail(replies[l])
        /\ \A j \in LinkNames \ {l} : replies'[j] = replies[j]
    BY <1>1, <1>2 DEF PortsOK
  <1>4. ASSUME NEW j \in LinkNames PROVE On(replies'[j]) \subseteq On(replies[j])
    <2>1. CASE j = l
      BY <1>2, <1>3, <2>1
    <2>2. CASE j # l
      BY <1>3, <2>2
    <2> QED BY <2>1, <2>2
  <1> QED BY <1>2, <1>3, <1>4

(* Steps that leave the links' ports alone, or only read them.             *)
QuietLinks ==
    /\ calls' = calls /\ PortsOK(replies)'
    /\ \A l \in LinkNames : \A r \in On(replies'[l]) : IsNews(r) \/ r \in On(replies[l])

(* How a step that only answers, reads and frees recedes.                  *)
LEMMA QuietRecedes ==
    ASSUME IInv, QuietLinks, Carries, next' = next, UNCHANGED <<led, gone, signed, window>>,
           wire' \subseteq wire, mail' \subseteq mail, IsPort(outq)', IsPort(http)',
           pend' = [k \in Slots |-> pend'[k]], desk' = [k \in Slots |-> desk'[k]],
           \A k \in Live' : k \in Live /\ pend'[k] = pend[k],
           Desk' \subseteq Desk,
           \A r \in Told' : r \in Told \/ r.status # "ok"
                            \/ (r.req.via # "http" /\ TokenFor(r.body, r)),
           \A a \in Ended' : a \in Ended \/ a.status # "ok" \/ TokenFor(a.body, a)
    PROVE  Recedes
  <1>1. TypeOK /\ Distinct(calls["admit"]) /\ scn' = scn
    BY DEF IInv, TableOK, Distinct, Carries
  <1>2. TypeOK'
    BY <1>1 DEF TypeOK, QuietLinks
  <1>3. Sent' = Sent /\ calls' = calls
    BY PartsAlike DEF QuietLinks
  <1>4. /\ \A x \in (Desk \cup Sent)' : x.req.via = "http"
        /\ \A x \in Desk' : IsEntry(x)
    BY <1>3 DEF IInv, DoorsOK
  <1>5. \A l \in {"mint", "grant"} : On(calls'[l]) \subseteq On(calls[l])
    BY <1>3
  <1>6. \A l \in {"mint", "grant"} : \A r \in On(replies'[l]) : IsNews(r) \/ r \in On(replies[l])
    BY DEF QuietLinks, LinkNames
  <1> QED BY <1>1, <1>2, <1>3, <1>4, <1>5, <1>6 DEF Recedes, SentKept

LEMMA LinksAlike == ASSUME IInv, calls' = calls, replies' = replies PROVE QuietLinks
  BY DEF IInv, TypeOK, QuietLinks, PortsOK

LEMMA LinkUpStays ==
    ASSUME IInv, NEW l \in LinkNames, LinkUp(l), UNCHANGED token PROVE Recedes /\ Stays
  <1>1. TypeOK /\ PortsOK(replies) /\ IsPort(replies[l]) /\ IsPort(outq)
    BY DEF IInv, TypeOK, PortsOK
  <1>2. UNCHANGED <<scn, led, wire, mail, pend, next, answers, window, signed, gone, desk, http,
                    lost, calls>>
    BY DEF LinkUp, lane, world, token
  <1>3. IsPort(outq)' /\ Told' = Told
    <2>1. CASE l = "admit"
      <3>1. outq' = Append(outq, News("up"))
        BY <2>1 DEF LinkUp
      <3> QED BY <1>1, <3>1, ToldAppends, NewsIsNews
    <2>2. CASE l # "admit"
      <3>1. outq' = outq
        BY <2>2 DEF LinkUp
      <3> QED BY <1>1, <3>1, PartsAlike
    <2> QED BY <2>1, <2>2
  <1>4. QuietLinks
    <2>1. CASE l = "admit"
      <3>1. replies' = replies
        BY <2>1 DEF LinkUp
      <3> QED BY <1>2, <3>1, LinksAlike
    <2>2. CASE l # "admit"
      <3>0. PICK port : port = Append(replies[l], News("up"))
        OBVIOUS
      <3>1. IsPort(port) /\ On(port) = On(replies[l]) \cup {News("up")}
        BY <1>1, <3>0, AppendPort
      <3>b. replies' = [replies EXCEPT ![l] = port]
        BY <2>2, <3>0 DEF LinkUp
      <3>2. /\ PortsOK(replies') /\ replies'[l] = port
            /\ \A j \in LinkNames \ {l} : replies'[j] = replies[j]
        BY <1>1, <3>1, <3>b DEF PortsOK
      <3>3. ASSUME NEW j \in LinkNames, NEW r \in On(replies'[j])
            PROVE  IsNews(r) \/ r \in On(replies[j])
        <4>1. CASE j = l
          BY <3>1, <3>2, <3>3, <4>1, NewsIsNews
        <4>2. CASE j # l
          BY <3>2, <3>3, <4>2
        <4> QED BY <4>1, <4>2
      <3> QED BY <1>2, <3>2, <3>3 DEF QuietLinks
    <2> QED BY <2>1, <2>2
  <1>5. /\ Live' = Live /\ Pending' = Pending /\ Desk' = Desk /\ Ended' = Ended /\ Sent' = Sent
    BY <1>2, PartsAlike
  <1>6. Carries
    BY <1>1, <1>2, <1>3, <1>5, StaysCarried DEF Seen, TypeOK
  <1>7. Recedes
    BY <1>1, <1>2, <1>3, <1>4, <1>5, <1>6, QuietRecedes DEF TypeOK
  <1>8. Deserved
    BY <1>3, <1>5 DEF Deserved
  <1>9. ASSUME AllPresent PROVE AllPresent'
    BY <1>2, <1>3, <1>5, <1>9 DEF AllPresent, Home
  <1> QED BY <1>2, <1>7, <1>8, <1>9 DEF Stays, RInv, Remembers

LEMMA IgnoreStays ==
    ASSUME IInv, NEW m, Ignore(m), UNCHANGED token PROVE Recedes /\ Stays
  <1>1. TypeOK /\ QuietLinks
    BY LinksAlike DEF IInv, Ignore, links
  <1>2. /\ UNCHANGED <<scn, led, wire, pend, outq, next, answers, window, signed, gone, desk, http,
                       lost>>
        /\ mail' \subseteq mail
    BY DEF Ignore, IgnoreReply, Taken, slots, world, token
  <1>3. /\ Live' = Live /\ Pending' = Pending /\ Desk' = Desk /\ Ended' = Ended /\ Sent' = Sent
        /\ Told' = Told
    BY <1>1, <1>2, PartsAlike DEF QuietLinks
  <1>4. Carries
    BY <1>1, <1>2, <1>3, StaysCarried DEF Seen, TypeOK
  <1>5. Recedes
    BY <1>1, <1>2, <1>3, <1>4, QuietRecedes DEF TypeOK
  <1>6. Deserved
    BY <1>3 DEF Deserved
  <1>7. ASSUME AllPresent PROVE AllPresent'
    BY <1>2, <1>3, <1>7 DEF AllPresent, Home
  <1> QED BY <1>2, <1>5, <1>6, <1>7 DEF Stays, RInv, Remembers

(***************************************************************************)
(* Answers that are read, and requests failed by a link.                   *)
(***************************************************************************)
LEMMA ReadGrantStays == ASSUME IInv, ReadGrant, UNCHANGED token PROVE Recedes /\ Stays
  <1> DEFINE r == Head(outq)
  <1>1. TypeOK /\ QuietLinks /\ IsPort(outq) /\ outq # <<>>
    BY LinksAlike DEF IInv, ReadGrant, links, TypeOK
  <1>2. /\ UNCHANGED <<scn, led, wire, mail, pend, next, window, signed, gone, desk, http, lost>>
        /\ answers' = answers \cup {r} /\ outq' = Tail(outq) /\ ~IsNews(r) /\ r.req.via = "grant"
    BY DEF ReadGrant, ReadAnswer, lane, world, token
  <1>3. /\ Live' = Live /\ Pending' = Pending /\ Desk' = Desk /\ Sent' = Sent
    BY <1>1, <1>2, PartsAlike DEF QuietLinks
  <1>4. /\ IsPort(outq)' /\ Told' \subseteq Told /\ Told \subseteq Told' \cup {r} /\ r \in Told
    BY <1>1, <1>2, ToldTail DEF Told
  <1>5. Ended' = Ended \cup {r}
    BY <1>2 DEF Ended
  <1> HIDE DEF r
  <1>6. Carries
    BY <1>1, <1>2, <1>3, <1>4, <1>5, StaysCarried DEF Seen, TypeOK
  <1>7. r.status = "ok" => TokenFor(r.body, r)
    BY <1>2, <1>4 DEF IInv, VerdictsOK
  <1>8. Recedes
    BY <1>1, <1>2, <1>3, <1>4, <1>5, <1>6, <1>7, QuietRecedes DEF TypeOK
  <1>9. ASSUME BlameOK PROVE Deserved
    <2>1. r.status = "replay" => Blamed(r)
      BY <1>4, <1>9 DEF BlameOK, Faults
    <2>2. r.status # "401"
      BY <1>4, <1>9 DEF BlameOK, Faults, Verdicts
    <2> QED BY <1>4, <1>5, <2>1, <2>2 DEF Deserved
  <1>10. ASSUME AllPresent PROVE AllPresent'
    BY <1>2, <1>3, <1>4, <1>5, <1>10 DEF AllPresent, Home
  <1> QED BY <1>2, <1>8, <1>9, <1>10 DEF Stays, RInv, Remembers

LEMMA ReadHttpStays == ASSUME IInv, ReadHttp PROVE Recedes /\ Stays
  <1> DEFINE a == Head(http)
  <1>1. TypeOK /\ QuietLinks /\ IsPort(http) /\ http # <<>> /\ IsPort(outq)
    BY LinksAlike DEF IInv, ReadHttp, links, TypeOK
  <1>2. /\ UNCHANGED <<scn, led, wire, mail, pend, outq, next, window, signed, gone, desk, lost>>
        /\ answers' = answers \cup {a} /\ http' = Tail(http)
    BY DEF ReadHttp, lane, slots, world
  <1>3. /\ Live' = Live /\ Pending' = Pending /\ Desk' = Desk /\ Sent' = Sent /\ Told' = Told
    BY <1>1, <1>2, PartsAlike DEF QuietLinks
  <1>4. /\ IsPort(http') /\ a \in On(http) /\ On(http') \subseteq On(http)
        /\ On(http) \subseteq On(http') \cup {a}
    BY <1>1, <1>2, TailPort
  <1>5. Ended' = Ended
    BY <1>2, <1>4 DEF Ended
  <1> HIDE DEF a
  <1>6. Carries
    BY <1>1, <1>2, <1>3, <1>5, StaysCarried DEF Seen, TypeOK
  <1>7. Recedes
    BY <1>1, <1>2, <1>3, <1>4, <1>5, <1>6, QuietRecedes DEF TypeOK
  <1>8. Deserved
    BY <1>3, <1>5 DEF Deserved
  <1>9. ASSUME AllPresent PROVE AllPresent'
    BY <1>2, <1>3, <1>5, <1>9 DEF AllPresent, Home
  <1> QED BY <1>2, <1>7, <1>8, <1>9 DEF Stays, RInv, Remembers

LEMMA TellsEnds ==
    ASSUME IsPort(http), Clears(http), answers' = answers,
           NEW e, NEW status, NEW body, Tells(e, status, body)
    PROVE  /\ IsPort(http)' /\ Ended' = Ended \cup {Verdict(e, status, body)}
           /\ Verdict(e, status, body).id = e.id /\ Verdict(e, status, body).req = e.req
           /\ Verdict(e, status, body).status = status /\ Verdict(e, status, body).body = body
  <1>1. http' = Append(http, Verdict(e, status, body))
    BY DEF Tells, Placed
  <1>2. IsPort(http') /\ On(http') = On(http) \cup {Verdict(e, status, body)}
    BY <1>1, AppendPort
  <1> QED BY <1>2, NewsIsNews DEF Ended

LEMMA FailDownedStays == ASSUME IInv, NEW k, FailDowned(k) PROVE Recedes /\ Stays
  <1>1. TypeOK /\ QuietLinks /\ IsPort(http) /\ IsPort(outq) /\ k \in Seated /\ Clears(http)
    BY LinksAlike DEF IInv, FailDowned, links, TypeOK
  <1>2. /\ UNCHANGED <<scn, led, wire, mail, pend, outq, next, answers, window, signed, gone, lost>>
        /\ desk' = [desk EXCEPT ![k] = Free] /\ Tells(desk[k], "503", Nothing)
    BY DEF FailDowned, frame, lane, slots, world
  <1>3. /\ Live' = Live /\ Pending' = Pending /\ Sent' = Sent /\ Told' = Told
    BY <1>1, <1>2, PartsAlike DEF QuietLinks
  <1>4. /\ Desk' \subseteq Desk /\ Desk \subseteq Desk' \cup {desk[k]} /\ desk[k] \in Desk
        /\ desk' = [j \in Slots |-> desk'[j]]
    BY <1>1, <1>2, SeatFreed
  <1>5. PICK e : e = desk[k]
    OBVIOUS
  <1>6. PICK v : v = Verdict(e, "503", Nothing)
    OBVIOUS
  <1>7. IsPort(http)' /\ Ended' = Ended \cup {v} /\ v.id = e.id /\ v.req = e.req /\ v.status = "503"
    BY <1>1, <1>2, <1>5, <1>6, TellsEnds
  <1>8. Carries
    BY <1>1, <1>2, <1>3, <1>4, <1>5, <1>7, StaysCarried DEF Seen, TypeOK
  <1>9. Recedes
    BY <1>1, <1>2, <1>3, <1>4, <1>7, <1>8, QuietRecedes DEF TypeOK
  <1>10. Deserved
    BY <1>3, <1>7 DEF Deserved
  <1>11. ASSUME AllPresent PROVE AllPresent'
    BY <1>2, <1>3, <1>4, <1>5, <1>7, <1>11 DEF AllPresent, Home
  <1> QED BY <1>2, <1>9, <1>10, <1>11 DEF Stays, RInv, Remembers

LEMMA OnMintStays == ASSUME IInv, OnMint PROVE Recedes /\ Stays
  <1>1. PICK r : r = Head(replies["mint"])
    OBVIOUS
  <1>2. /\ TypeOK /\ IsPort(http) /\ IsPort(outq) /\ Clears(http)
        /\ replies["mint"] # <<>> /\ replies' = [replies EXCEPT !["mint"] = Tail(replies["mint"])]
    BY DEF IInv, TypeOK, OnMint, MintRoom
  <1>3. "mint" \in LinkNames
    BY DEF LinkNames
  <1>4. /\ UNCHANGED <<scn, led, wire, mail, pend, outq, next, answers, window, signed, gone, lost,
                       calls>>
    BY DEF OnMint, lane, slots, world
  <1>5. /\ PortsOK(replies)' /\ r \in On(replies["mint"])
        /\ \A j \in LinkNames : On(replies'[j]) \subseteq On(replies[j])
    BY <1>1, <1>2, <1>3, RepliesShrink
  <1>6. QuietLinks
    BY <1>4, <1>5 DEF QuietLinks
  <1>7. /\ Live' = Live /\ Pending' = Pending /\ Sent' = Sent /\ Told' = Told
    BY <1>4, PartsAlike
  <1>8. CASE desk' = desk /\ http' = http
    <2>1. Desk' = Desk /\ Ended' = Ended
      BY <1>4, <1>8, PartsAlike
    <2>2. Carries
      BY <1>2, <1>4, <1>7, <2>1, StaysCarried DEF Seen, TypeOK
    <2>3. Recedes
      BY <1>2, <1>4, <1>6, <1>7, <1>8, <2>1, <2>2, QuietRecedes DEF TypeOK
    <2>4. Deserved
      BY <1>7, <2>1 DEF Deserved
    <2>5. ASSUME AllPresent PROVE AllPresent'
      BY <1>4, <1>7, <2>1, <2>5 DEF AllPresent, Home
    <2> QED BY <1>4, <2>3, <2>4, <2>5 DEF Stays, RInv, Remembers
  <1>9. ASSUME ~IsNews(r), NEW k \in SeatOf(r.id, "mint"), desk' = [desk EXCEPT ![k] = Free],
               IF r.status = "ok" THEN Tells(desk[k], "ok", r.body)
                                  ELSE Tells(desk[k], "400", Nothing)
        PROVE  Recedes /\ Stays
    <2>1. k \in Seated /\ desk[k].id = r.id
      BY <1>9 DEF SeatOf
    <2>2. PICK e : e = desk[k]
      OBVIOUS
    <2>3. /\ Desk' \subseteq Desk /\ Desk \subseteq Desk' \cup {e} /\ e \in Desk
          /\ desk' = [j \in Slots |-> desk'[j]]
      BY <1>2, <1>9, <2>1, <2>2, SeatFreed
    <2>4. PICK status, body : /\ Tells(e, status, body) /\ status \in {"ok", "400"}
                              /\ status = "ok" => r.status = "ok" /\ body = r.body
      BY <1>9, <2>2
    <2>5. PICK v : v = Verdict(e, status, body)
      OBVIOUS
    <2>6. /\ IsPort(http)' /\ Ended' = Ended \cup {v} /\ v.id = e.id /\ v.req = e.req
          /\ v.status = status /\ v.body = body
      BY <1>2, <1>4, <2>4, <2>5, TellsEnds
    <2>7. v.status = "ok" => TokenFor(v.body, v)
      <3>1. ReplyOK(r) /\ e \in Seen
        BY <1>5, <1>9, <2>3 DEF IInv, MintsOK, Seen
      <3> QED BY <2>1, <2>2, <2>4, <2>6, <3>1 DEF ReplyOK, TokenFor
    <2>8. Carries
      BY <1>2, <1>4, <1>7, <2>3, <2>6, StaysCarried DEF Seen, TypeOK
    <2>9. Recedes
      BY <1>2, <1>4, <1>6, <1>7, <2>3, <2>6, <2>7, <2>8, QuietRecedes DEF TypeOK
    <2>10. Deserved
      BY <1>7, <2>4, <2>6 DEF Deserved
    <2>11. ASSUME AllPresent PROVE AllPresent'
      BY <1>4, <1>7, <2>3, <2>6, <2>11 DEF AllPresent, Home
    <2> QED BY <1>4, <2>9, <2>10, <2>11 DEF Stays, RInv, Remembers
  <1> QED BY <1>1, <1>8, <1>9 DEF OnMint

(***************************************************************************)
(* Grants whose mint call ends.                                            *)
(***************************************************************************)
LEMMA FailOpenParts ==
    ASSUME IInv, FailOpenMints
    PROVE  /\ IsPort(outq)' /\ pend' = [k \in Slots |-> pend'[k]]
           /\ \A k \in Live' : k \in Live /\ pend'[k] = pend[k]
           /\ \A r \in Told' : r \in Told \/ (r.status = "mint_failed"
                                   /\ \E x \in Pending : r.id = x.id /\ r.req = x.req)
           /\ Told \subseteq Told'
           /\ \A x \in Pending : x \in Pending' \/ \E r \in Told' : r.id = x.id /\ r.req = x.req
  <1> DEFINE N == Cardinality(Failing)
  <1>1. IsPort(outq) /\ pend = [k \in Slots |-> pend[k]] /\ Failing \subseteq Live
        /\ Live \subseteq Slots
    BY DEF IInv, TypeOK, Failing, Awaiting, Live
  <1>2. N \in Nat
    <2>1. IsFiniteSet(Slots)
      BY AdBounds, FS_Interval DEF Slots
    <2>2. IsFiniteSet(Failing)
      BY <1>1, <2>1, FS_Subset
    <2> QED BY <2>2, FS_CardinalityType
  <1>3. pend' = [k \in Slots |-> IF k \in Failing THEN Free ELSE pend[k]]
    BY DEF FailOpenMints
  <1>4. PICK slot \in Bijection(1 .. N, Failing) :
          outq' = outq \o [n \in 1 .. N |-> Verdict(pend[slot[n]], "mint_failed", Nothing)]
    BY DEF FailOpenMints
  <1>5. /\ \A n \in 1 .. N : slot[n] \in Failing
        /\ \A k \in Failing : \E n \in 1 .. N : slot[n] = k
    BY <1>4 DEF Bijection, Injection, Surjection, IsInjective
  <1>6. PICK s : s = [n \in 1 .. N |-> Verdict(pend[slot[n]], "mint_failed", Nothing)]
    OBVIOUS
  <1> HIDE DEF N
  <1>7. s = [n \in 1 .. N |-> s[n]] /\ outq' = outq \o s
    BY <1>4, <1>6
  <1>8. IsPort(outq') /\ On(outq') = On(outq) \cup On(s)
    BY <1>1, <1>2, <1>7, ConcatPort
  <1>9. \A n \in 1 .. N : /\ s[n].id = pend[slot[n]].id /\ s[n].req = pend[slot[n]].req
                          /\ s[n].status = "mint_failed" /\ ~IsNews(s[n])
    BY <1>6, NewsIsNews
  <1>10. DOMAIN s = 1 .. N
    BY <1>6
  <1>11. \A r \in On(s) : /\ ~IsNews(r) /\ r.status = "mint_failed"
                          /\ \E x \in Pending : r.id = x.id /\ r.req = x.req
    BY <1>1, <1>5, <1>9, <1>10 DEF On, Pending
  <1>12. \A k \in Failing : \E r \in On(s) : r.id = pend[k].id /\ r.req = pend[k].req
    BY <1>5, <1>9, <1>10 DEF On
  <1>13. Told' = Told \cup On(s)
    BY <1>8, <1>11 DEF Told
  <1>14. \A k \in Live' : k \in Live /\ pend'[k] = pend[k]
    BY <1>3 DEF Live, Free
  <1>15. \A k \in Live \ Failing : k \in Live' /\ pend'[k] = pend[k]
    BY <1>1, <1>3 DEF Live
  <1>16. \A x \in Pending : x \in Pending' \/ \E r \in Told' : r.id = x.id /\ r.req = x.req
    BY <1>12, <1>13, <1>15 DEF Pending
  <1> QED BY <1>3, <1>8, <1>11, <1>13, <1>14, <1>16

(* A step that fails some grants, and otherwise only reads a mint's port.  *)
LEMMA FailedGrants ==
    ASSUME IInv, FailOpenMints, QuietLinks, UNCHANGED token,
           UNCHANGED <<scn, lane, next, answers, window, signed, gone>>
    PROVE  Recedes /\ Stays
  <1>1. TypeOK /\ IsPort(http) /\ next \in Nat
    BY DEF IInv, TypeOK
  <1>2. UNCHANGED <<scn, led, wire, mail, next, answers, window, signed, gone, desk, http, lost>>
    BY DEF lane, token
  <1>3. Desk' = Desk /\ Ended' = Ended /\ Sent' = Sent
    BY <1>2, PartsAlike DEF QuietLinks
  <1>4. /\ IsPort(outq)' /\ pend' = [k \in Slots |-> pend'[k]]
        /\ \A k \in Live' : k \in Live /\ pend'[k] = pend[k]
        /\ \A r \in Told' : r \in Told \/ (r.status = "mint_failed"
                                /\ \E x \in Pending : r.id = x.id /\ r.req = x.req)
        /\ Told \subseteq Told'
        /\ \A x \in Pending : x \in Pending' \/ \E r \in Told' : r.id = x.id /\ r.req = x.req
    BY FailOpenParts
  <1>5. Pending' \subseteq Pending
    BY <1>4 DEF Pending
  <1>6. Carries
    BY <1>1, <1>2, <1>3, <1>4, <1>5, StaysCarried DEF Seen
  <1>7. \A r \in Told' : r \in Told \/ r.status # "ok"
    BY <1>4
  <1>8. Recedes
    BY <1>1, <1>2, <1>3, <1>4, <1>6, <1>7, QuietRecedes DEF TypeOK
  <1>9. Deserved
    BY <1>3, <1>4 DEF Deserved, Verdicts, Faults
  <1>10. ASSUME AllPresent PROVE AllPresent'
    BY <1>2, <1>3, <1>4, <1>10 DEF AllPresent, Home
  <1> QED BY <1>2, <1>8, <1>9, <1>10 DEF Stays, RInv, Remembers

LEMMA FailGrantsStays == ASSUME IInv, FailGrants, UNCHANGED token PROVE Recedes /\ Stays
  <1>1. QuietLinks
    BY LinksAlike DEF FailGrants, links
  <1> QED BY <1>1, FailedGrants DEF FailGrants, world

LEMMA OnGrantMintStays == ASSUME IInv, OnGrantMint, UNCHANGED token PROVE Recedes /\ Stays
  <1>1. PICK r : r = Head(replies["grant"])
    OBVIOUS
  <1>2. /\ TypeOK /\ IsPort(http) /\ IsPort(outq) /\ Clears(outq)
        /\ replies["grant"] # <<>> /\ replies' = [replies EXCEPT !["grant"] = Tail(replies["grant"])]
    BY DEF IInv, TypeOK, OnGrantMint, GrantRoom
  <1>3. "grant" \in LinkNames
    BY DEF LinkNames
  <1>4. /\ UNCHANGED <<scn, led, wire, mail, next, answers, window, signed, gone, lost, calls, desk,
                       http>>
        /\ UNCHANGED lane
    BY DEF OnGrantMint, lane, world, token
  <1>5. /\ PortsOK(replies)' /\ r \in On(replies["grant"])
        /\ \A j \in LinkNames : On(replies'[j]) \subseteq On(replies[j])
    BY <1>1, <1>2, <1>3, RepliesShrink
  <1>6. QuietLinks
    BY <1>4, <1>5 DEF QuietLinks
  <1>7. Desk' = Desk /\ Sent' = Sent /\ Ended' = Ended
    BY <1>4, PartsAlike
  <1>8. CASE pend' = pend /\ outq' = outq
    <2>1. Live' = Live /\ Pending' = Pending /\ Told' = Told
      BY <1>8, PartsAlike
    <2>2. Carries
      BY <1>2, <1>4, <1>7, <2>1, StaysCarried DEF Seen, TypeOK
    <2>3. Recedes
      BY <1>2, <1>4, <1>6, <1>7, <1>8, <2>1, <2>2, QuietRecedes DEF TypeOK
    <2>4. Deserved
      BY <1>7, <2>1 DEF Deserved
    <2>5. ASSUME AllPresent PROVE AllPresent'
      BY <1>4, <1>7, <2>1, <2>5 DEF AllPresent, Home
    <2> QED BY <1>4, <2>3, <2>4, <2>5 DEF Stays, RInv, Remembers
  <1>9. CASE FailOpenMints
    BY <1>4, <1>6, <1>9, FailedGrants
  <1>10. ASSUME ~IsNews(r), NEW k \in Awaiting, pend[k].id = r.id,
                pend' = [pend EXCEPT ![k] = Free],
                outq' = Placed(outq, IF r.status = "ok" THEN Verdict(pend[k], "ok", r.body)
                                     ELSE Verdict(pend[k], "mint_failed", Nothing))
         PROVE  Recedes /\ Stays
    <2>1. k \in Live /\ pend[k].stage = "mint"
      BY <1>10 DEF Awaiting
    <2>2. PICK e : e = pend[k]
      OBVIOUS
    <2>3. /\ \A j \in Live' : j \in Live /\ j # k /\ pend'[j] = pend[j]
          /\ Pending' \subseteq Pending /\ Pending \subseteq Pending' \cup {e}
          /\ e \in Pending /\ pend' = [j \in Slots |-> pend'[j]]
      BY <1>2, <1>10, <2>1, <2>2, SlotFreed
    <2>4. PICK status, body : /\ outq' = Append(outq, Verdict(e, status, body))
                              /\ status \in {"ok", "mint_failed"}
                              /\ status = "ok" => r.status = "ok" /\ body = r.body
      <3>1. CASE r.status = "ok"
        BY <1>2, <1>10, <2>2, <3>1 DEF Placed
      <3>2. CASE r.status # "ok"
        BY <1>2, <1>10, <2>2, <3>2 DEF Placed
      <3> QED BY <3>1, <3>2
    <2>5. PICK v : v = Verdict(e, status, body)
      OBVIOUS
    <2>6. v.id = e.id /\ v.req = e.req /\ v.status = status /\ v.body = body /\ ~IsNews(v)
      BY <2>5, NewsIsNews
    <2>7. IsPort(outq)' /\ Told' = Told \cup {v}
      BY <1>2, <2>4, <2>5, <2>6, ToldAppends
    <2>8. v.status = "ok" => v.req.via # "http" /\ TokenFor(v.body, v)
      <3>1. ReplyOK(r) /\ e \in Seen
        BY <1>5, <1>10, <2>3 DEF IInv, MintsOK, Seen
      <3>2. e.req.via = "grant"
        BY <2>1, <2>2, <2>3 DEF IInv, DoorsOK
      <3> QED BY <1>10, <2>2, <2>4, <2>6, <3>1, <3>2 DEF ReplyOK, TokenFor
    <2>9. Carries
      BY <1>2, <1>4, <1>7, <2>3, <2>6, <2>7, StaysCarried DEF Seen, TypeOK
    <2>10. Recedes
      BY <1>2, <1>4, <1>6, <1>7, <2>3, <2>7, <2>8, <2>9, QuietRecedes DEF TypeOK
    <2>11. Deserved
      BY <1>7, <2>4, <2>6, <2>7 DEF Deserved, Verdicts, Faults
    <2>12. ASSUME AllPresent PROVE AllPresent'
      BY <1>4, <1>7, <2>3, <2>6, <2>7, <2>12 DEF AllPresent, Home
    <2> QED BY <1>4, <2>10, <2>11, <2>12 DEF Stays, RInv, Remembers
  <1>11. slots' = slots => pend' = pend /\ outq' = outq
    BY DEF slots
  <1> QED BY <1>1, <1>8, <1>9, <1>10, <1>11 DEF OnGrantMint

(***************************************************************************)
(* A restart.                                                              *)
(***************************************************************************)
LEMMA RestartStays == ASSUME IInv, Restart PROVE Recedes /\ Stays
  <1>1. /\ TypeOK /\ next \in Nat /\ scn' = scn /\ led' = led /\ wire' = wire /\ next' = next
        /\ answers' = answers /\ mail' = {} /\ window' = {} /\ signed' = signed /\ gone' = gone
        /\ outq' = <<>> /\ http' = <<>>
        /\ pend' = [k \in Slots |-> Free] /\ desk' = [k \in Slots |-> Free]
        /\ calls' = [l \in LinkNames |-> <<>>] /\ replies' = [l \in LinkNames |-> <<>>]
        /\ lost' = {i \in 1 .. next - 1 : ~\E a \in answers : a.id = i}
    BY DEF IInv, TypeOK, Restart, ForgetAll, lane, world
  <1>2. IsPort(<<>>) /\ On(<<>>) = {}
    BY EmptyPort
  <1>3. Live' = {} /\ Pending' = {} /\ Desk' = {} /\ Told' = {} /\ Ended' = answers
    BY <1>1, <1>2 DEF Live, Pending, Seated, Desk, Told, Ended, Free
  <1>4. \A l \in LinkNames : calls'[l] = <<>> /\ replies'[l] = <<>>
    BY <1>1
  <1>5. PortsOK(calls)' /\ PortsOK(replies)' /\ \A l \in LinkNames : On(calls'[l]) = {}
                                                                 /\ On(replies'[l]) = {}
    BY <1>1, <1>2, <1>4 DEF PortsOK
  <1>6. Sent' = {} /\ Distinct(calls'["admit"])
    BY <1>4, <1>5 DEF Sent, LinkNames, Distinct
  <1>7. TypeOK'
    BY <1>1, <1>2, <1>5 DEF TypeOK
  <1>8. Carries
    BY <1>1, <1>3, <1>6, StaysCarried DEF Seen, Ended
  <1>9. Recedes
    BY <1>1, <1>3, <1>5, <1>6, <1>7, <1>8 DEF Recedes, SentKept, LinkNames, Ended
  <1>10. Deserved
    BY <1>3 DEF Deserved, Ended
  <1>11. AllPresent'
    BY <1>1, <1>3 DEF AllPresent, Home
  <1> QED BY <1>1, <1>9, <1>10, <1>11 DEF Stays, Remembers

(***************************************************************************)
(* Requests taken at the endpoint.                                         *)
(***************************************************************************)
LEMMA DrawnIsReq ==
    ASSUME TypeOK, next <= scn.reqs, NEW b \in scn.bodies
    PROVE  /\ Drawn(next, b) \in Reqs /\ Drawn(next, b).via = b.via /\ next \in Ids
           /\ Drawn(next, b).wrong = b.wrong
           /\ "admit" \in scn.drops => b.via = "http"
  <1>1. /\ scn.reqs \in 0 .. MaxReqs /\ b \in Bodies /\ next \in Nat /\ 1 <= next
        /\ MaxReqs \in Nat /\ ("admit" \in scn.drops => b.via = "http")
    BY AdBounds, AdScenarios DEF TypeOK
  <1>2. next \in Ids /\ next # 0
    BY <1>1 DEF Ids
  <1>3. CASE b.proof = 0
    <2>1. Drawn(next, b) = [b EXCEPT !.proof = next]
      BY <1>3 DEF Drawn
    <2>2. /\ [b EXCEPT !.proof = next] \in Bodies /\ [b EXCEPT !.proof = next].proof = next
          /\ [b EXCEPT !.proof = next].via = b.via /\ [b EXCEPT !.proof = next].wrong = b.wrong
      BY <1>1, <1>2 DEF Bodies
    <2> QED BY <1>1, <1>2, <2>1, <2>2 DEF Reqs
  <1>4. CASE b.proof # 0
    BY <1>1, <1>2, <1>4 DEF Drawn, Reqs
  <1> QED BY <1>3, <1>4

(* One more request, the entry e of which is all that is new of it.        *)
LEMMA OneMore ==
    ASSUME TypeOK, SeenOK, scn' = scn, next' = next + 1, NEW b \in Reqs,
           "admit" \in scn.drops => b.via = "http",
           \A x \in Seen' : \/ \E y \in Seen : y.id = x.id /\ y.req = x.req
                            \/ x.id = next /\ x.req = b
    PROVE  Carries
  <1>1. next \in Nat
    BY DEF TypeOK
  <1> QED BY <1>1 DEF Carries

LEMMA TakeHttpStays == ASSUME IInv, TakeHttp PROVE Recedes /\ Stays
  <1>1. PICK b \in scn.bodies :
          LET e == NewEntry(next, Drawn(next, b)) IN
          /\ b.via = "http"
          /\ \/ /\ Turned(b) # "none" /\ Tells(e, Turned(b), Nothing)
                /\ UNCHANGED <<desk, calls>>
             \/ /\ Turned(b) = "none" /\ (down["admit"] \/ Seated = Slots)
                /\ Tells(e, "503", Nothing) /\ UNCHANGED <<desk, calls>>
             \/ /\ Turned(b) = "none" /\ ~down["admit"] /\ Seated # Slots
                /\ desk' = [desk EXCEPT ![FreeSeat] = [e EXCEPT !.stage = "admit"]]
                /\ calls' = [calls EXCEPT !["admit"] = Placed(@, [id |-> next, req |-> e.req])]
                /\ UNCHANGED http
    BY DEF TakeHttp
  <1>2. PICK q, n : q = Drawn(next, b) /\ n = next
    OBVIOUS
  <1>3. PICK e : e = NewEntry(n, q)
    OBVIOUS
  <1>4. /\ TypeOK /\ IsPort(http) /\ IsPort(outq) /\ PortsOK(calls) /\ PortsOK(replies)
        /\ SeenOK /\ Clears(http) /\ Clears(calls["admit"]) /\ next \in Nat /\ next' = next + 1
        /\ Distinct(calls["admit"]) /\ "admit" \in LinkNames
    BY DEF IInv, TypeOK, TakeHttp, TableOK, Distinct, LinkNames
  <1>5. /\ q \in Reqs /\ q.via = "http" /\ n \in Ids /\ q.wrong = b.wrong
    BY <1>1, <1>2, <1>4, DrawnIsReq DEF TakeHttp
  <1>6. /\ UNCHANGED <<scn, led, wire, mail, pend, outq, answers, window, replies, signed, gone,
                       lost>>
    BY DEF TakeHttp, lane, slots, world
  <1>7. /\ Live' = Live /\ Pending' = Pending /\ Told' = Told
    BY <1>6, PartsAlike
  <1>8. e.id = n /\ e.req = q
    BY <1>3 DEF NewEntry
  <1>9. next' \in Nat /\ 1 <= next' /\ next' <= MaxReqs + 1
    BY <1>2, <1>4, <1>5, AdBounds DEF Ids
  <1>10. ASSUME NEW status, Tells(e, status, Nothing), desk' = desk, calls' = calls,
                status # "ok" /\ status # "replay",
                status = "401" => q.wrong # "none"
         PROVE  Recedes /\ Stays
    <2>1. PICK v : v = Verdict(e, status, Nothing)
      OBVIOUS
    <2>2. /\ IsPort(http)' /\ Ended' = Ended \cup {v} /\ v.id = n /\ v.req = q /\ v.status = status
      BY <1>4, <1>6, <1>8, <1>10, <2>1, TellsEnds
    <2>3. Desk' = Desk /\ Sent' = Sent
      BY <1>10, PartsAlike
    <2>4. Carries
      BY <1>2, <1>4, <1>5, <1>6, <1>7, <2>2, <2>3, OneMore DEF Seen
    <2>5. TypeOK'
      <3>1. PortsOK(calls)' /\ PortsOK(replies)' /\ IsPort(outq)'
        BY <1>4, <1>6, <1>10 DEF PortsOK
      <3> QED BY <1>4, <1>6, <1>9, <1>10, <2>2, <3>1 DEF TypeOK
    <2>6. Recedes
      BY <1>4, <1>6, <1>7, <1>10, <2>2, <2>3, <2>4, <2>5
         DEF Recedes, SentKept, LinkNames, IInv, DoorsOK
    <2>7. Deserved
      BY <1>7, <1>10, <2>2 DEF Deserved, Blamed
    <2>8. ASSUME AllPresent PROVE AllPresent'
      <3>1. \A i : (Home(i) => Home(i)') /\ (i = n => Home(i)')
        BY <1>6, <1>7, <2>2, <2>3 DEF Home
      <3> QED BY <1>2, <1>4, <1>6, <2>8, <3>1, HomesKept
    <2> QED BY <1>6, <2>6, <2>7, <2>8 DEF Stays, RInv, Remembers
  <1>11. CASE Turned(b) # "none" /\ Tells(e, Turned(b), Nothing) /\ UNCHANGED <<desk, calls>>
    <2>1. Turned(b) \in {"405", "400", "401"} /\ (Turned(b) = "401" => b.wrong = "bare")
      BY <1>11 DEF Turned
    <2> QED BY <1>5, <1>10, <1>11, <2>1
  <1>12. CASE Tells(e, "503", Nothing) /\ UNCHANGED <<desk, calls>>
    BY <1>10, <1>12
  <1>13. CASE /\ Seated # Slots /\ desk' = [desk EXCEPT ![FreeSeat] = [e EXCEPT !.stage = "admit"]]
              /\ calls' = [calls EXCEPT !["admit"] = Placed(calls["admit"], [id |-> n, req |-> q])]
              /\ http' = http
    <2>1. PICK k \in Slots \ Seated : k = FreeSeat
      BY <1>13, FreeSeatIsFree
    <2>2. PICK x : x = [e EXCEPT !.stage = "admit"]
      OBVIOUS
    <2>3. x.id = n /\ x.req = q /\ x # Free
      BY <1>3, <2>2 DEF NewEntry, Free
    <2>4. /\ Desk' \subseteq Desk \cup {x} /\ x \in Desk' /\ Desk \subseteq Desk'
          /\ desk' = [j \in Slots |-> desk'[j]]
      BY <1>4, <1>13, <2>1, <2>2, <2>3, SeatTaken, ZenonT(40)
    <2>5. PICK c : c = [id |-> n, req |-> q]
      OBVIOUS
    <2>6. c.id = n /\ c.req = q
      BY <2>5
    <2>7. PICK port : port = Append(calls["admit"], c)
      OBVIOUS
    <2>8. IsPort(calls["admit"])
      BY <1>4 DEF PortsOK
    <2>9. IsPort(port) /\ On(port) = On(calls["admit"]) \cup {c}
      BY <2>7, <2>8, AppendPort
    <2>10. calls' = [calls EXCEPT !["admit"] = port]
      BY <1>4, <1>13, <2>5, <2>7 DEF Placed
    <2>11. /\ PortsOK(calls') /\ calls'["admit"] = port
           /\ \A j \in LinkNames \ {"admit"} : calls'[j] = calls[j]
      BY <1>4, <2>9, <2>10 DEF PortsOK
    <2>12. Sent' = Sent \cup {c}
      BY <2>9, <2>11 DEF Sent
    <2>13. \A y \in Seen : y.id # n
      BY <1>2, <1>4 DEF SeenOK, Presents
    <2>14. Distinct(calls'["admit"])
      <3>1. \A y \in On(calls["admit"]) : y.id # c.id
        BY <2>6, <2>13 DEF Seen, Sent
      <3> QED BY <1>4, <2>7, <2>8, <2>11, <3>1, DistinctAppend
    <2>15. Ended' = Ended
      BY <1>6, <1>13, PartsAlike
    <2>16. Carries
      BY <1>2, <1>4, <1>5, <1>6, <1>7, <2>3, <2>4, <2>6, <2>12, <2>15, OneMore DEF Seen
    <2>17. TypeOK'
      <3>1. PortsOK(replies)' /\ IsPort(outq)' /\ IsPort(http)'
        BY <1>4, <1>6, <1>13 DEF PortsOK
      <3> QED BY <1>4, <1>6, <1>9, <2>4, <2>11, <3>1 DEF TypeOK
    <2>18. \A l \in {"mint", "grant"} : calls'[l] = calls[l]
      BY <2>11 DEF LinkNames
    <2>19. /\ \A y \in (Desk \cup Sent)' : y.req.via = "http"
           /\ \A y \in Desk' : IsEntry(y)
      <3>1. IsEntry(x)
        BY <1>3, <2>2 DEF IsEntry, NewEntry
      <3> QED BY <1>5, <2>3, <2>4, <2>6, <2>12, <3>1 DEF IInv, DoorsOK
    <2>20. SentKept
      BY <1>2, <1>4, <2>6, <2>12 DEF SentKept
    <2>21. Recedes
      BY <1>4, <1>6, <1>7, <2>14, <2>15, <2>16, <2>17, <2>18, <2>19, <2>20 DEF Recedes
    <2>22. Deserved
      BY <1>7, <2>15 DEF Deserved
    <2>23. ASSUME AllPresent PROVE AllPresent'
      <3>1. \A i : (Home(i) => Home(i)') /\ (i = n => Home(i)')
        BY <1>6, <1>7, <2>3, <2>4, <2>15 DEF Home
      <3> QED BY <1>2, <1>4, <1>6, <2>23, <3>1, HomesKept
    <2> QED BY <1>6, <2>21, <2>22, <2>23 DEF Stays, RInv, Remembers
  <1>14. NewEntry(next, Drawn(next, b)) = e /\ e.req = q /\ n = next
    BY <1>2, <1>3, <1>8
  <1> QED BY <1>1, <1>11, <1>12, <1>13, <1>14

(***************************************************************************)
(* Admission's verdicts, at the endpoint.                                  *)
(***************************************************************************)
LEMMA OnAdmitStays ==
    ASSUME IInv, OnAdmit, calls' = calls PROVE Recedes /\ Stays
  <1>1. PICK r : r = Head(outq)
    OBVIOUS
  <1>2. /\ TypeOK /\ IsPort(http) /\ IsPort(outq) /\ Clears(http) /\ outq # <<>>
        /\ outq' = Tail(outq) /\ QuietLinks
    BY LinksAlike DEF IInv, TypeOK, OnAdmit
  <1>3. UNCHANGED <<scn, led, wire, mail, pend, next, answers, window, signed, gone, lost>>
    BY DEF OnAdmit, lane, world
  <1>4. /\ Live' = Live /\ Pending' = Pending /\ Sent' = Sent
    BY <1>2, <1>3, PartsAlike DEF QuietLinks
  <1>5. /\ IsPort(outq)' /\ Told' \subseteq Told /\ Told \subseteq Told' \cup {r}
        /\ r \in On(outq)
    BY <1>1, <1>2, ToldTail
  <1>6. ASSUME desk' = desk, http' = http, IsNews(r) \/ r.req.via = "http"
        PROVE  Recedes /\ Stays
    <2>1. Desk' = Desk /\ Ended' = Ended
      BY <1>3, <1>6, PartsAlike
    <2>2. Carries
      BY <1>2, <1>3, <1>4, <1>5, <2>1, StaysCarried DEF Seen, TypeOK
    <2>3. Recedes
      BY <1>2, <1>3, <1>4, <1>5, <1>6, <2>1, <2>2, QuietRecedes DEF TypeOK
    <2>4. Deserved
      BY <1>5, <2>1 DEF Deserved
    <2>5. ASSUME AllPresent PROVE AllPresent'
      <3>1. \A x \in Told : x.req.via = "grant" => x \in Told'
        BY <1>5, <1>6 DEF Told
      <3> QED BY <1>3, <1>4, <2>1, <2>5, <3>1 DEF AllPresent, Home
    <2> QED BY <1>3, <2>3, <2>4, <2>5 DEF Stays, RInv, Remembers
  <1>7. ASSUME ~IsNews(r), r.req.via = "http", NEW k \in SeatOf(r.id, "admit"), NEW status, NEW x,
               x.id = desk[k].id, x.req = desk[k].req, Tells(x, status, Nothing),
               desk' = [desk EXCEPT ![k] = Free],
               status = "503" \/ status = StatusOf(r.status)
        PROVE  Recedes /\ Stays
    <2>1. k \in Seated /\ desk[k].id = r.id
      BY <1>7 DEF SeatOf
    <2>2. PICK e : e = desk[k]
      OBVIOUS
    <2>3. /\ Desk' \subseteq Desk /\ Desk \subseteq Desk' \cup {e} /\ e \in Desk
          /\ desk' = [j \in Slots |-> desk'[j]]
      BY <1>2, <1>7, <2>1, <2>2, SeatFreed
    <2>4. PICK v : v = Verdict(x, status, Nothing)
      OBVIOUS
    <2>5. /\ IsPort(http)' /\ Ended' = Ended \cup {v} /\ v.id = e.id /\ v.req = e.req
          /\ v.status = status
      BY <1>2, <1>3, <1>7, <2>2, <2>4, TellsEnds
    <2>6. status \in {"401", "503"}
      BY <1>7 DEF StatusOf
    <2>7. Carries
      BY <1>2, <1>3, <1>4, <1>5, <2>3, <2>5, StaysCarried DEF Seen, TypeOK
    <2>8. Recedes
      BY <1>2, <1>3, <1>4, <1>5, <2>3, <2>5, <2>6, <2>7, QuietRecedes DEF TypeOK
    <2>9. ASSUME BlameOK PROVE Deserved
      <3>1. r \in Told /\ e \in Seen /\ r \in Seen
        BY <1>5, <1>7, <2>3 DEF Told, Seen
      <3>2. r.req = e.req /\ r.id = e.id
        BY <2>1, <2>2, <3>1 DEF IInv, SeenOK
      <3>3. status = "401" => r.status \in Faults
        BY <1>7, <2>9, <3>1 DEF StatusOf, BlameOK, Verdicts, Faults
      <3>4. status = "401" => Blamed(r)
        BY <2>9, <3>1, <3>3 DEF BlameOK
      <3>5. status = "401" => Blamed(v)
        BY <2>5, <3>2, <3>4 DEF Blamed, Twin, Crowd, FilledBy
      <3> QED BY <1>5, <2>5, <2>6, <3>5 DEF Deserved
    <2>10. ASSUME AllPresent PROVE AllPresent'
      <3>1. \A y \in Told : y.req.via = "grant" => y \in Told'
        BY <1>5, <1>7 DEF Told
      <3> QED BY <1>3, <1>4, <2>3, <2>5, <2>10, <3>1 DEF AllPresent, Home
    <2> QED BY <1>3, <2>8, <2>9, <2>10 DEF Stays, RInv, Remembers
  <1>8. CASE IsNews(r)
    <2>1. desk' = desk /\ http' = http
      BY <1>1, <1>8 DEF OnAdmit
    <2> QED BY <1>6, <1>8, <2>1
  <1>9. CASE ~IsNews(r) /\ r.req.via = "http" /\ UNCHANGED <<desk, http>>
    BY <1>6, <1>9
  <1>10. ASSUME ~IsNews(r), r.req.via = "http", NEW k \in SeatOf(r.id, "admit"),
                DispatchMint(k, [desk[k] EXCEPT !.facts = r.body])
         PROVE  Recedes /\ Stays
    <2>1. PICK x : x = [desk[k] EXCEPT !.facts = r.body]
      OBVIOUS
    <2>2. x.id = desk[k].id /\ x.req = desk[k].req
      <3>1. IsEntry(desk[k])
        BY <1>10 DEF IInv, DoorsOK, SeatOf, Desk
      <3> QED BY <2>1, <3>1 DEF IsEntry
    <2>3. CASE Tells(x, "503", Nothing) /\ desk' = [desk EXCEPT ![k] = Free]
      BY <1>7, <1>10, <2>2, <2>3
    <2>4. calls' # [calls EXCEPT !["mint"] = Placed(calls["mint"], MintCall(x))]
      <3>1. PICK port : port = Append(calls["mint"], MintCall(x))
        OBVIOUS
      <3>2. IsPort(calls["mint"]) /\ calls = [l \in LinkNames |-> calls[l]] /\ "mint" \in LinkNames
        BY <1>2 DEF TypeOK, PortsOK, LinkNames
      <3>3. Clears(calls["mint"]) /\ Placed(calls["mint"], MintCall(x)) = port
        BY <3>1 DEF OnAdmit, Placed
      <3>4. Len(port) # Len(calls["mint"])
        <4>1. /\ Len(calls["mint"]) \in Nat /\ DOMAIN calls["mint"] = 1 .. Len(calls["mint"])
              /\ DOMAIN port = 1 .. Len(calls["mint"]) + 1
          BY <3>1, <3>2, PortForm, AppendPort
        <4>2. Len(calls["mint"]) + 1 \in DOMAIN port /\ Len(calls["mint"]) + 1 \notin DOMAIN calls["mint"]
          BY <4>1
        <4>3. port # calls["mint"]
          BY <4>2
        <4>4. IsPort(port) /\ Len(port) \in Nat /\ DOMAIN port = 1 .. Len(port)
          BY <3>1, <3>2, AppendPort, PortForm
        <4> QED BY <4>1, <4>2, <4>4
      <3> QED BY <3>2, <3>3, <3>4
    <2> QED BY <1>10, <2>1, <2>3, <2>4 DEF DispatchMint
  <1>11. ASSUME ~IsNews(r), r.req.via = "http", NEW k \in SeatOf(r.id, "admit"), r.status # "ok",
                Tells(desk[k], StatusOf(r.status), Nothing), desk' = [desk EXCEPT ![k] = Free]
         PROVE  Recedes /\ Stays
    BY <1>7, <1>11
  <1> QED BY <1>1, <1>8, <1>9, <1>10, <1>11 DEF OnAdmit

(***************************************************************************)
(* Presentations that admission takes: from the token endpoint, or from a  *)
(* caller that asks for a token outright.                                  *)
(***************************************************************************)
IsNew(e) ==
    \/ next' = next /\ \E c \in Sent : c.id = e.id /\ c.req = e.req
    \/ next' = next + 1 /\ e.id = next /\ e.req.via = "grant" /\ "admit" \notin scn.drops

Takes(e) ==
    /\ e = NewEntry(e.id, e.req) /\ e.req \in Reqs /\ IsNew(e)
    /\ next' \in Nat /\ next' <= MaxReqs + 1 /\ Clears(outq)
    /\ UNCHANGED <<scn, led, gone, signed, mail, answers, replies, desk, http, lost>>
    /\ PortsOK(calls)' /\ Distinct(calls'["admit"]) /\ Sent' \subseteq Sent
    /\ \A l \in LinkNames : On(calls'[l]) \subseteq On(calls[l])
    /\ \A c \in Sent' : c.id # e.id
    /\ Recorded(e.req)

LEMMA TakesFresh ==
    ASSUME IInv, NEW e, Takes(e)
    PROVE  /\ e.id \in Nat /\ 1 <= e.id /\ e.id < next' /\ next \in Nat
           /\ \A x \in Pending : x.id # e.id
           /\ \A w \in wire \cup mail : w.corr[1] # e.id
           /\ \A i, p : Offers(i, p) => i # e.id
  <1>1. next \in Nat /\ 1 <= next
    BY DEF IInv, TypeOK
  <1>2. /\ \A x \in Seen : x.id \in Nat /\ 1 <= x.id /\ x.id < next
        /\ \A w \in wire \cup mail : w.corr[1] < next /\ w.corr[1] \in Nat
    BY DEF IInv, SeenOK, Presents, LaneOK, Asking, Corr
  <1>3. CASE e.id = next /\ next' = next + 1
    BY <1>1, <1>2, <1>3 DEF Seen, Offers, ProofOf
  <1>4. ASSUME NEW c \in Sent, c.id = e.id, next' = next
        PROVE  /\ e.id \in Nat /\ 1 <= e.id /\ e.id < next'
               /\ \A x \in Pending : x.id # e.id
               /\ \A w \in wire \cup mail : w.corr[1] # e.id
               /\ \A i, p : Offers(i, p) => i # e.id
    BY <1>1, <1>2, <1>4 DEF IInv, TableOK, Seen, Offers
  <1> QED BY <1>1, <1>3, <1>4 DEF Takes, IsNew

LEMMA TakesCarries ==
    ASSUME IInv, NEW e, Takes(e),
           \A x \in (Pending \cup Told)' : x \in Pending \cup Told \/ (x.id = e.id /\ x.req = e.req)
    PROVE  Carries /\ SentKept
  <1>1. Desk' = Desk /\ Ended' = Ended /\ Sent' \subseteq Sent /\ scn' = scn
    BY PartsAlike DEF Takes
  <1>2. \A x \in Seen' : x \in Seen \/ (x.id = e.id /\ x.req = e.req)
    BY <1>1 DEF Seen
  <1>3. CASE next' = next /\ \E c \in Sent : c.id = e.id /\ c.req = e.req
    <2>1. \A x \in Seen' : \E y \in Seen : y.id = x.id /\ y.req = x.req
      BY <1>2, <1>3 DEF Seen
    <2> QED BY <1>1, <1>3, <2>1, StaysCarried DEF IInv, TypeOK, SentKept
  <1>4. CASE next' = next + 1 /\ e.id = next /\ "admit" \notin scn.drops
    <2>1. e.req \in Reqs
      BY DEF Takes
    <2> QED BY <1>1, <1>2, <1>4, <2>1, OneMore DEF IInv, SentKept
  <1> QED BY <1>3, <1>4 DEF Takes, IsNew

LEMMA TakesOffers ==
    ASSUME IInv, NEW e, Takes(e), Carries, NEW z \in Seen', z.id = e.id, z.req = e.req
    PROVE  Offers(e.id, e.req.proof)' /\ e.id \in 1 .. next' - 1
  <1>1. SeenOK' /\ next' \in Nat
    BY CarriesOver DEF IInv
  <1>2. e.id \in 1 .. next' - 1
    BY <1>1, TakesFresh
  <1>3. \A x \in Seen' : x.id = e.id => x.req = e.req
    BY <1>1 DEF SeenOK
  <1> QED BY <1>2, <1>3 DEF Offers, ProofOf, Takes

LEMMA NoRoom ==
    ASSUME TypeOK, NEW p, ~Offered(p) PROVE p \in window \/ Cardinality(window) >= WindowSize
  <1>1. MaxReqs \in Nat /\ WindowSize \in Nat /\ window \subseteq 1 .. MaxReqs /\ 1 \in Int
    BY AdBounds DEF TypeOK, Proofs, Ids
  <1>2. IsFiniteSet(1 .. MaxReqs)
    BY <1>1, FS_Interval
  <1>3. IsFiniteSet(window)
    BY <1>1, <1>2, FS_Subset
  <1>4. Cardinality(window) \in Nat
    BY <1>3, FS_CardinalityType
  <1> QED BY <1>1, <1>4 DEF Offered

LEMMA HandleForms ==
    ASSUME NEW e, e = NewEntry(e.id, e.req), NEW o \in Handle(e), PerformNew(o)
    PROVE  \/ /\ pend' = pend /\ wire' = wire
              /\ \E s \in {"unauthenticated", "replay", "unavailable"} :
                    /\ outq' = Placed(outq, Verdict(e, s, Nothing))
                    /\ s = "unauthenticated" => e.req.wrong # "none"
                    /\ s = "replay" => ~Offered(e.req.proof)
           \/ /\ Live # Slots /\ pend' = [pend EXCEPT ![FirstFree] = [e EXCEPT !.stage = "claim"]]
              /\ wire' = wire \cup {Request(e, "claim", Question(e.req, "claim"))}
              /\ outq' = outq
  <1>1. ASSUME NEW s, o.keep = Free, o.asks = {}, o.says = <<Verdict(e, s, Nothing)>>
        PROVE  pend' = pend /\ wire' = wire /\ outq' = Placed(outq, Verdict(e, s, Nothing))
    BY <1>1 DEF PerformNew, PerformLoose
  <1>2. \A s : /\ Refuses(e, s).keep = Free /\ Refuses(e, s).asks = {}
               /\ Refuses(e, s).says = <<Verdict(e, s, Nothing)>>
               /\ [Refuses(e, s) EXCEPT !.fault = 1].keep = Free
               /\ [Refuses(e, s) EXCEPT !.fault = 1].asks = {}
               /\ [Refuses(e, s) EXCEPT !.fault = 1].says = <<Verdict(e, s, Nothing)>>
    BY DEF Refuses, Says
  <1>3. CASE ~Authentic(e.req)
    <2>1. o = Refuses(e, "unauthenticated")
      BY <1>3 DEF Handle
    <2>2. pend' = pend /\ wire' = wire /\ outq' = Placed(outq, Verdict(e, "unauthenticated", Nothing))
      BY <1>1, <1>2, <2>1
    <2> QED BY <1>3, <2>2 DEF Authentic
  <1>4. CASE Authentic(e.req) /\ ~Offered(e.req.proof)
    <2>1. o = Refuses(e, "replay")
      BY <1>4 DEF Handle
    <2>2. pend' = pend /\ wire' = wire /\ outq' = Placed(outq, Verdict(e, "replay", Nothing))
      BY <1>1, <1>2, <2>1
    <2> QED BY <1>4, <2>2
  <1>5. CASE Authentic(e.req) /\ Offered(e.req.proof) /\ Live = Slots
    <2>1. o = Refuses(e, "unavailable")
      BY <1>5 DEF Handle
    <2>2. pend' = pend /\ wire' = wire /\ outq' = Placed(outq, Verdict(e, "unavailable", Nothing))
      BY <1>1, <1>2, <2>1
    <2> QED BY <2>2
  <1>6. CASE Authentic(e.req) /\ Offered(e.req.proof) /\ Live # Slots
    <2>1. PICK x : x = [e EXCEPT !.stage = "claim"]
      OBVIOUS
    <2>2. PICK w : w = Request(e, "claim", Question(e.req, "claim"))
      OBVIOUS
    <2>3. \/ o = [keep |-> x, asks |-> {w}, says |-> <<>>, fault |-> 0]
          \/ o = [Refuses(e, "unavailable") EXCEPT !.fault = 1]
      BY <1>6, <2>1, <2>2 DEF Handle, Asks, Question
    <2>4. CASE o = [Refuses(e, "unavailable") EXCEPT !.fault = 1]
      <3>1. pend' = pend /\ wire' = wire /\ outq' = Placed(outq, Verdict(e, "unavailable", Nothing))
        BY <1>1, <1>2, <2>4
      <3> QED BY <3>1
    <2>5. CASE o = [keep |-> x, asks |-> {w}, says |-> <<>>, fault |-> 0]
      <3>1. o.keep = x /\ o.asks = {w} /\ o.says = <<>>
        BY <2>5
      <3>2. CASE o.keep # Free
        BY <1>6, <2>1, <2>2, <3>1, <3>2 DEF PerformNew, Perform
      <3>3. CASE o.keep = Free
        <4>1. x.stage = "claim" /\ Free.stage = "free"
          BY <2>1 DEF NewEntry, Free
        <4> QED BY <3>1, <3>3, <4>1
      <3> QED BY <3>2, <3>3
    <2> QED BY <2>3, <2>4, <2>5
  <1> QED BY <1>3, <1>4, <1>5, <1>6

(* Admission turns it away.                                                *)
LEMMA TakesRefused ==
    ASSUME IInv, NEW e, Takes(e), UNCHANGED <<pend, wire>>,
           NEW s \in {"unauthenticated", "replay", "unavailable"},
           outq' = Placed(outq, Verdict(e, s, Nothing)),
           s = "unauthenticated" => e.req.wrong # "none",
           s = "replay" => ~Offered(e.req.proof)
    PROVE  Recedes /\ Stays
  <1>1. PICK v : v = Verdict(e, s, Nothing)
    OBVIOUS
  <1>2. v.id = e.id /\ v.req = e.req /\ v.status = s /\ ~IsNews(v)
    BY <1>1, NewsIsNews
  <1>3. TypeOK /\ IsPort(outq) /\ next \in Nat
    BY DEF IInv, TypeOK
  <1>4. IsPort(outq)' /\ Told' = Told \cup {v}
    <2>1. outq' = Append(outq, v)
      BY <1>1 DEF Takes, Placed
    <2> QED BY <1>2, <1>3, <2>1, ToldAppends
  <1>5. Live' = Live /\ Pending' = Pending /\ Desk' = Desk /\ Ended' = Ended
    BY PartsAlike DEF Takes
  <1>6. Carries /\ SentKept
    BY <1>2, <1>4, <1>5, TakesCarries
  <1>7. e.req.proof \in Proofs
    BY DEF Takes, Reqs, Bodies, Proofs
  <1>8. TypeOK'
    <2>1. IsPort(http)' /\ PortsOK(replies)' /\ PortsOK(calls)'
      BY <1>3 DEF Takes, TypeOK, PortsOK
    <2>2. window' \subseteq Proofs
      BY <1>3, <1>7 DEF Takes, Recorded, TypeOK
    <2>3. 1 <= next'
      BY TakesFresh, <1>3 DEF Takes, IsNew, TypeOK
    <2> QED BY <1>3, <1>4, <2>1, <2>2, <2>3 DEF TypeOK, Takes
  <1>9. Recedes
    <2>1. \A l \in {"mint", "grant"} : On(calls'[l]) \subseteq On(calls[l])
      BY DEF Takes, LinkNames
    <2>2. \A r \in Told' : r \in Told \/ r.status # "ok"
      BY <1>2, <1>4
    <2>3. /\ \A x \in (Desk \cup Sent)' : x.req.via = "http"
          /\ \A x \in Desk' : IsEntry(x)
      BY <1>5 DEF IInv, DoorsOK, Takes
    <2> QED BY <1>5, <1>6, <1>8, <2>1, <2>2, <2>3 DEF Recedes, Takes
  <1>10. v \in Seen' /\ Offers(e.id, e.req.proof)' /\ e.id \in 1 .. next' - 1
    <2>1. v \in Seen'
      BY <1>4 DEF Seen
    <2> QED BY <1>2, <1>6, <2>1, TakesOffers
  <1>11. Remembers
    <2>1. \A p \in window' : p \in window \/ p = e.req.proof
      BY DEF Takes, Recorded
    <2> QED BY <1>10, <2>1 DEF Remembers
  <1>12. ASSUME UsedOK PROVE Deserved
    <2>1. ASSUME s = "replay" PROVE Blamed(v)
      <3>1. \A p \in window : \E i \in 1 .. next - 1 : i # v.id /\ ProofOf(i, p)
        BY <1>2, <1>12, TakesFresh DEF UsedOK, Offers
      <3>2. CASE e.req.proof \in window
        BY <1>2, <3>1, <3>2 DEF Blamed, Twin
      <3>3. CASE Cardinality(window) >= WindowSize
        <4>1. window \subseteq Proofs
          BY <1>3 DEF TypeOK
        <4>2. FilledBy(v, window)
          BY <3>1, <3>3, <4>1 DEF FilledBy
        <4> QED BY <4>2 DEF Blamed, Crowd
      <3> QED BY <1>3, <2>1, <3>2, <3>3, NoRoom
    <2>2. ASSUME s = "unauthenticated" PROVE Blamed(v)
      BY <1>2, <2>2 DEF Blamed
    <2>3. s \in Verdicts /\ (s \in Faults => Blamed(v))
      BY <2>1, <2>2 DEF Verdicts, Faults
    <2> QED BY <1>2, <1>4, <1>5, <2>3 DEF Deserved
  <1>13. ASSUME AllPresent PROVE AllPresent'
    <2>1. \A i : Home(i) => Home(i)'
      BY <1>4, <1>5 DEF Home
    <2>2. ASSUME NEW i, i = next, next' = next + 1 PROVE Home(i)'
      BY <1>2, <1>3, <1>4, <2>2 DEF Home, Takes, IsNew
    <2>3. next' \in {next, next + 1} /\ lost' = lost
      BY DEF Takes, IsNew
    <2> QED BY <1>3, <1>13, <2>1, <2>2, <2>3, HomesKept
  <1> QED BY <1>9, <1>11, <1>12, <1>13 DEF Stays, RInv

(* Admission asks the ledger whether its proof was claimed before.         *)
LEMMA TakesAsked ==
    ASSUME IInv, NEW e, Takes(e), Live # Slots, outq' = outq,
           pend' = [pend EXCEPT ![FirstFree] = [e EXCEPT !.stage = "claim"]],
           wire' = wire \cup {Request(e, "claim", Question(e.req, "claim"))}
    PROVE  IInv' /\ (RInv => RInv')
  <1>1. PICK k \in Slots \ Live : k = FirstFree
    BY FirstFreeIsFree
  <1>2. PICK x : x = [e EXCEPT !.stage = "claim"]
    OBVIOUS
  <1>3. PICK w : w = Request(e, "claim", Question(e.req, "claim"))
    OBVIOUS
  <1>4. /\ x.id = e.id /\ x.req = e.req /\ x.stage = "claim" /\ IsEntry(x)
        /\ w.corr = <<e.id, "claim">> /\ w.corr[1] = e.id /\ w.corr[2] = "claim"
        /\ w.q = Question(e.req, "claim")
    BY <1>2, <1>3 DEF Takes, NewEntry, Request, IsEntry
  <1>5. /\ TypeOK /\ SeenOK /\ DoorsOK /\ TableOK /\ LaneOK /\ ClaimsOK /\ MintsOK /\ SignedOK
        /\ VerdictsOK
    BY DEF IInv
  <1>6. /\ \A j \in Live' : j = k \/ (j \in Live /\ pend'[j] = pend[j])
        /\ pend'[k] = x /\ Pending' \subseteq Pending \cup {x} /\ x \in Pending'
        /\ Pending \subseteq Pending' /\ pend' = [j \in Slots |-> pend'[j]]
    BY <1>1, <1>2, <1>4, <1>5, SlotTaken
  <1>7. wire' = wire \cup {w}
    BY <1>3
  <1>8. /\ e.id \in Nat /\ 1 <= e.id /\ e.id < next' /\ next \in Nat
        /\ \A y \in Pending : y.id # e.id
        /\ \A y \in wire \cup mail : y.corr[1] # e.id
        /\ \A i, p : Offers(i, p) => i # e.id
    BY TakesFresh
  <1>9. Told' = Told /\ Desk' = Desk /\ Ended' = Ended
    BY PartsAlike DEF Takes
  <1>10. Carries /\ SentKept
    BY <1>4, <1>6, <1>9, TakesCarries
  <1>11. SeenOK' /\ x \in Seen'
    BY <1>5, <1>6, <1>10, CarriesOver DEF Seen
  <1>12. led' = led /\ gone' = gone /\ signed' = signed /\ mail' = mail /\ lost' = lost
    BY DEF Takes
  <1>13. e.req \in Reqs /\ e.req.proof \in Proofs
    BY DEF Takes, Reqs, Bodies, Proofs
  <1>14. TypeOK'
    <2>1. IsPort(http)' /\ IsPort(outq)' /\ PortsOK(replies)' /\ PortsOK(calls)'
      BY <1>5 DEF Takes, TypeOK, PortsOK
    <2>2. window' \subseteq Proofs
      BY <1>5, <1>13 DEF Takes, Recorded, TypeOK
    <2>3. 1 <= next'
      BY <1>8 DEF Takes
    <2> QED BY <1>5, <1>6, <2>1, <2>2, <2>3 DEF TypeOK, Takes
  <1>15. DoorsOK'
    BY <1>4, <1>5, <1>6, <1>9 DEF DoorsOK, Takes
  <1>16. TableOK'
    <2>1. ASSUME NEW i \in Live', NEW j \in Live', pend'[i].id = pend'[j].id PROVE i = j
      <3>1. \A n \in Live : pend[n].id # e.id
        BY <1>8 DEF Pending
      <3>2. CASE i = k
        BY <1>4, <1>6, <2>1, <3>1, <3>2
      <3>3. CASE j = k
        BY <1>4, <1>6, <2>1, <3>1, <3>3
      <3>4. CASE i # k /\ j # k
        <4>1. i \in Live /\ j \in Live /\ pend[i].id = pend[j].id
          BY <1>6, <2>1, <3>4
        <4> QED BY <1>5, <4>1 DEF TableOK
      <3> QED BY <3>2, <3>3, <3>4
    <2>2. ASSUME NEW c \in Sent'
          PROVE  /\ \A y \in Pending' : y.id # c.id
                 /\ \A y \in wire' \cup mail' : y.corr[1] # c.id
      <3>1. c \in Sent /\ c.id # e.id
        BY DEF Takes
      <3> QED BY <1>4, <1>5, <1>6, <1>7, <1>12, <3>1 DEF TableOK
    <2>3. Distinct(calls'["admit"])
      BY DEF Takes
    <2> QED BY <2>1, <2>2, <2>3 DEF TableOK, Distinct
  <1>17. LaneOK'
    <2>1. \A y \in wire : Asking(y)'
      BY <1>5, <1>10, AskingKept DEF LaneOK
    <2>2. Asking(w)'
      <3>1. Corr(w)'
        BY <1>4, <1>8 DEF Corr
      <3>2. \A y \in Seen' : y.id = e.id => y.req = e.req
        BY <1>4, <1>11 DEF SeenOK
      <3> QED BY <1>4, <1>13, <3>1, <3>2 DEF Asking
    <2>3. \A y, z \in wire' : y.corr = z.corr => y = z
      BY <1>4, <1>5, <1>7, <1>8 DEF LaneOK
    <2>4. \A m \in mail' : Corr(m)' /\ (m.corr[2] = "device" => DeviceTold(m)')
      <3>1. \A m \in mail : Corr(m)'
        BY <1>5, <1>10, CorrKept DEF LaneOK
      <3>2. \A m \in mail : m.corr[2] = "device" => DeviceTold(m)'
        BY <1>5, <1>10, <1>12, DeviceToldKept DEF LaneOK
      <3> QED BY <1>12, <3>1, <3>2
    <2>5. ASSUME NEW y \in Pending', y.stage = "claim", NEW z \in wire' \cup mail'
          PROVE  z.corr # <<y.id, "device">>
      <3>1. CASE z = w
        BY <1>4, <3>1
      <3>2. CASE z # w /\ y = x
        BY <1>4, <1>7, <1>8, <1>12, <3>2
      <3>3. CASE z # w /\ y \in Pending
        BY <1>5, <1>7, <1>12, <2>5, <3>3 DEF LaneOK
      <3> QED BY <1>6, <3>1, <3>2, <3>3
    <2> QED BY <1>7, <2>1, <2>2, <2>3, <2>4, <2>5 DEF LaneOK
  <1>18. ClaimsOK'
    <2>1. \A i, p : WonInSlot(i, p)' => WonInSlot(i, p)
      BY <1>4, <1>6, <1>8, <1>12 DEF WonInSlot
    <2>2. \A i, p : WonAtDoor(i, p)' => WonAtDoor(i, p)
      BY <1>9 DEF WonAtDoor
    <2>3. \A i, p : WonAtMint(i, p)' => WonAtMint(i, p)
      BY DEF WonAtMint, Takes, LinkNames
    <2>4. \A i, p : Won(i, p)' => Won(i, p)
      BY <1>12, <2>1, <2>2, <2>3 DEF Won
    <2> QED BY <1>5, <1>12, <2>4, ClaimsKept
  <1>19. MintsOK'
    <2>1. /\ \A l \in {"mint", "grant"} : On(calls'[l]) \subseteq On(calls[l])
          /\ \A l \in {"mint", "grant"} : \A r \in On(replies'[l]) : IsNews(r) \/ r \in On(replies[l])
      BY DEF Takes, LinkNames
    <2> QED BY <1>5, <1>10, <1>12, <2>1, MintsKept
  <1>20. SignedOK'
    BY <1>5, <1>10, <1>12, SignedKept
  <1>21. VerdictsOK'
    BY <1>5, <1>9, <1>12 DEF VerdictsOK, TokenFor
  <1>22. IInv'
    BY <1>11, <1>14, <1>15, <1>16, <1>17, <1>18, <1>19, <1>20, <1>21 DEF IInv
  <1>23. ASSUME RInv PROVE RInv'
    <2>1. AllPresent /\ UsedOK /\ BlameOK
      BY <1>23 DEF RInv
    <2>2. Offers(e.id, e.req.proof)' /\ e.id \in 1 .. next' - 1
      BY <1>4, <1>10, <1>11, TakesOffers
    <2>3. \A p \in window' : \E i \in 1 .. next' - 1 : Offers(i, p)'
      <3> SUFFICES ASSUME NEW p \in window, p # e.req.proof
                   PROVE  \E i \in 1 .. next' - 1 : Offers(i, p)'
        BY <2>2 DEF Takes, Recorded
      <3>1. PICK i \in 1 .. next - 1 : Offers(i, p)
        BY <2>1 DEF UsedOK
      <3> QED BY <1>5, <1>10, <3>1, OffersKept
    <2>4. ASSUME NEW p \in Proofs, led'[ReplayKey(p)] = Claim
          PROVE  \E i \in 1 .. next' - 1 : Offers(i, p)' /\ \A y \in wire' : y.corr # <<i, "claim">>
      <3>1. PICK i \in 1 .. next - 1 : Offers(i, p) /\ \A y \in wire : y.corr # <<i, "claim">>
        BY <1>12, <2>1, <2>4 DEF UsedOK
      <3>2. Offers(i, p)' /\ i \in 1 .. next' - 1
        BY <1>5, <1>10, <3>1, OffersKept
      <3>3. i # e.id
        BY <1>8, <3>1
      <3> QED BY <1>4, <1>7, <3>1, <3>2, <3>3
    <2>5. ASSUME NEW m \in mail', m.corr[2] = "claim" /\ m.status = "conflict"
          PROVE  \E p \in Proofs : ProofOf(m.corr[1], p)'
                     /\ \E i \in 1 .. next' - 1 : i # m.corr[1] /\ ProofOf(i, p)'
      <3>1. PICK p \in Proofs : ProofOf(m.corr[1], p)
               /\ \E i \in 1 .. next - 1 : i # m.corr[1] /\ ProofOf(i, p)
        BY <1>12, <2>1, <2>5 DEF UsedOK
      <3>2. PICK i \in 1 .. next - 1 : i # m.corr[1] /\ ProofOf(i, p)
        BY <3>1
      <3>3. ProofOf(m.corr[1], p)' /\ ProofOf(i, p)' /\ i \in 1 .. next' - 1
        BY <1>5, <1>10, <3>1, <3>2, ProofOfKept
      <3> QED BY <3>2, <3>3
    <2>6. UsedOK'
      BY <2>3, <2>4, <2>5 DEF UsedOK
    <2>7. BlameOK'
      <3>1. Deserved
        BY <1>9 DEF Deserved
      <3> QED BY <1>5, <1>10, <1>12, <2>1, <3>1, BlameKept
    <2>8. AllPresent'
      <3>1. \A i : Home(i) => Home(i)'
        BY <1>6, <1>9 DEF Home
      <3>2. ASSUME NEW i, i = next, next' = next + 1 PROVE Home(i)'
        BY <1>4, <1>6, <1>8, <3>2 DEF Home, Takes, IsNew
      <3>3. next' \in {next, next + 1}
        BY DEF Takes, IsNew
      <3> QED BY <1>8, <1>12, <2>1, <3>1, <3>2, <3>3, HomesKept
    <2> QED BY <2>6, <2>7, <2>8 DEF RInv
  <1> QED BY <1>22, <1>23

(* Either way.                                                             *)
Keeps == IInv' /\ (RInv => RInv')

LEMMA RecedesKeeps == ASSUME IInv, Recedes, Stays PROVE Keeps
  BY RecedesInv, RecedesR DEF Keeps

LEMMA TakesKeeps ==
    ASSUME IInv, NEW e, Takes(e), NEW o \in Handle(e), PerformNew(o) PROVE Keeps
  <1>1. \/ /\ pend' = pend /\ wire' = wire
           /\ \E s \in {"unauthenticated", "replay", "unavailable"} :
                 /\ outq' = Placed(outq, Verdict(e, s, Nothing))
                 /\ s = "unauthenticated" => e.req.wrong # "none"
                 /\ s = "replay" => ~Offered(e.req.proof)
        \/ /\ Live # Slots /\ pend' = [pend EXCEPT ![FirstFree] = [e EXCEPT !.stage = "claim"]]
           /\ wire' = wire \cup {Request(e, "claim", Question(e.req, "claim"))}
           /\ outq' = outq
    BY HandleForms DEF Takes
  <1> QED BY <1>1, TakesRefused, TakesAsked, RecedesKeeps DEF Keeps

LEMMA TakeAdmitKeeps == ASSUME IInv, TakeAdmit, UNCHANGED token PROVE Keeps
  <1>1. PICK c : c = Head(calls["admit"])
    OBVIOUS
  <1>2. PICK e : e = NewEntry(c.id, c.req)
    OBVIOUS
  <1>3. e.id = c.id /\ e.req = c.req
    BY <1>2 DEF NewEntry
  <1>4. PICK o \in Handle(e) : PerformNew(o) /\ Recorded(e.req)
    BY <1>1, <1>2 DEF TakeAdmit
  <1>5. /\ PortsOK(calls) /\ IsPort(calls["admit"]) /\ calls["admit"] # <<>> /\ "admit" \in LinkNames
        /\ Distinct(calls["admit"]) /\ next \in Nat /\ next <= MaxReqs + 1 /\ Clears(outq)
    BY DEF IInv, TypeOK, PortsOK, TakeAdmit, TableOK, Distinct, LinkNames, Room
  <1>6. PICK port : port = Tail(calls["admit"])
    OBVIOUS
  <1>7. /\ IsPort(port) /\ On(port) \subseteq On(calls["admit"]) /\ c \in On(calls["admit"])
        /\ Distinct(port) /\ \A x \in On(port) : x.id # c.id
    BY <1>1, <1>5, <1>6, TailPort, DistinctTail
  <1>8. calls' = [calls EXCEPT !["admit"] = port]
    BY <1>6 DEF TakeAdmit
  <1>9. /\ PortsOK(calls)' /\ Distinct(calls'["admit"]) /\ Sent' \subseteq Sent
        /\ \A j \in LinkNames : On(calls'[j]) \subseteq On(calls[j])
    BY <1>5, <1>7, <1>8, CallsShrink
  <1>10. \A x \in Sent' : x.id # c.id
    <2>1. calls'["admit"] = port
      BY <1>5, <1>8 DEF PortsOK
    <2> QED BY <1>7, <2>1 DEF Sent
  <1>11. UNCHANGED <<scn, led, gone, signed, mail, answers, replies, desk, http, lost, next>>
    BY DEF TakeAdmit, token, world
  <1>12. IsNew(e) /\ e.req \in Reqs
    BY <1>3, <1>7, <1>11 DEF IsNew, Sent, IInv, SeenOK, Seen, Presents
  <1>13. Takes(e)
    BY <1>2, <1>3, <1>4, <1>5, <1>9, <1>10, <1>11, <1>12 DEF Takes
  <1> QED BY <1>4, <1>13, TakesKeeps

LEMMA TakeGrantKeeps == ASSUME IInv, TakeGrant, UNCHANGED token PROVE Keeps
  <1>1. PICK b \in scn.bodies : /\ b.via = "grant"
                                /\ LET e == NewEntry(next, Drawn(next, b))
                                   IN \E o \in Handle(e) : PerformNew(o) /\ Recorded(e.req)
    BY DEF TakeGrant
  <1>2. PICK q, n : q = Drawn(next, b) /\ n = next
    OBVIOUS
  <1>3. PICK e : e = NewEntry(n, q)
    OBVIOUS
  <1>4. e.id = n /\ e.req = q
    BY <1>3 DEF NewEntry
  <1>5. PICK o \in Handle(e) : PerformNew(o) /\ Recorded(e.req)
    BY <1>1, <1>2, <1>3
  <1>6. /\ TypeOK /\ next \in Nat /\ next' = next + 1 /\ Clears(outq) /\ next <= scn.reqs
    BY DEF IInv, TypeOK, TakeGrant, Room
  <1>7. q \in Reqs /\ q.via = "grant" /\ n \in Ids /\ "admit" \notin scn.drops
    BY <1>1, <1>2, <1>6, DrawnIsReq
  <1>8. /\ UNCHANGED <<scn, led, gone, signed, mail, answers, replies, desk, http, lost, calls>>
    BY DEF TakeGrant, token, world, links
  <1>9. PortsOK(calls)' /\ Distinct(calls'["admit"]) /\ Sent' = Sent
    BY <1>6, <1>8, PartsAlike DEF TypeOK, PortsOK, IInv, TableOK, Distinct
  <1>10. \A c \in Sent' : c.id # n
    BY <1>2, <1>6, <1>9 DEF IInv, SeenOK, Seen, Presents
  <1>11. next' <= MaxReqs + 1
    BY <1>2, <1>6, <1>7, AdBounds DEF Ids
  <1>12. Takes(e)
    BY <1>2, <1>3, <1>4, <1>5, <1>6, <1>7, <1>8, <1>9, <1>10, <1>11 DEF Takes, IsNew
  <1> QED BY <1>5, <1>12, TakesKeeps

(***************************************************************************)
(* The ledger's answers.                                                   *)
(***************************************************************************)
Reads(m) ==
    /\ UNCHANGED <<scn, led, next, answers, window, replies, signed, gone, desk, http, lost>>
    /\ mail' = mail \ {m} /\ Clears(outq) /\ Clears(calls["grant"])

Admits(m, e) == e.stage = "device" /\ m.status = "ok" /\ m.val = Device(FALSE)

GrantCall(e) == [id |-> e.id, facts |-> Facts(e.req)]

LEMMA AtForms ==
    ASSUME IInv, NEW m, NEW k, At(m, k)
    PROVE  /\ k \in Live /\ pend[k] \in Pending /\ pend[k] \in Seen /\ m \in mail
           /\ pend[k].stage \in {"claim", "device"} /\ IsEntry(pend[k])
           /\ m.corr = <<pend[k].id, pend[k].stage>>
           /\ m.corr[1] = pend[k].id /\ m.corr[2] = pend[k].stage
           /\ pend[k].id \in Nat /\ 1 <= pend[k].id /\ pend[k].id < next /\ pend[k].req \in Reqs
           /\ pend[k].stage = "device" => DeviceTold(m)
  <1>1. k \in Live /\ m \in mail /\ m.corr = <<pend[k].id, pend[k].stage>>
    BY DEF At
  <1>2. pend[k] \in Pending /\ pend[k] \in Seen
    BY <1>1 DEF Pending, Seen
  <1>3. m.corr[1] = pend[k].id /\ m.corr[2] = pend[k].stage
    BY <1>1
  <1>4. Corr(m) /\ (m.corr[2] = "device" => DeviceTold(m))
    BY <1>1 DEF IInv, LaneOK
  <1> QED BY <1>1, <1>2, <1>3, <1>4 DEF IInv, DoorsOK, SeenOK, Presents, Corr

(* What it comes to in slot k, whose entry is e.                           *)
Gives(m, k, e) ==
    \/ /\ pend' = [pend EXCEPT ![k] = Free] /\ wire' = wire /\ calls' = calls
       /\ \E s \in Verdicts \ {"ok"} :
             /\ outq' = Append(outq, Verdict(e, s, Nothing))
             /\ s = "replay" => e.stage = "claim" /\ m.status = "conflict"
             /\ s = "revoked" => /\ e.stage = "device" /\ m.status = "ok"
                                 /\ m.val = Device(TRUE)
             /\ s = "unauthenticated" => e.req.otp = "wrong"
    \/ /\ e.stage = "claim" /\ m.status = "ok" /\ outq' = outq /\ calls' = calls
       /\ pend' = [pend EXCEPT ![k] = [e EXCEPT !.stage = "device"]]
       /\ wire' = wire \cup {Request(e, "device", Question(e.req, "device"))}
    \/ /\ Admits(m, e) /\ e.req.via # "grant" /\ wire' = wire /\ calls' = calls
       /\ pend' = [pend EXCEPT ![k] = Free]
       /\ outq' = Append(outq, Verdict(e, "ok", Facts(e.req)))
    \/ /\ Admits(m, e) /\ e.req.via = "grant" /\ wire' = wire /\ outq' = outq
       /\ pend' = [pend EXCEPT ![k] = [stage |-> "mint", id |-> e.id, req |-> e.req,
                                       facts |-> Facts(e.req)]]
       /\ calls' = [calls EXCEPT !["grant"] = Append(calls["grant"], GrantCall(e))]

LEMMA LedgerForms ==
    ASSUME IInv, NEW m, NEW k \in Slots, OnLedger(m, k), UNCHANGED token, NEW e, e = pend[k]
    PROVE  /\ Reads(m)
           /\ Gives(m, k, e)
  <1>1. Reads(m)
    BY DEF OnLedger, Taken, Room, world, token, Reads
  <1>2. At(m, k)
    BY DEF OnLedger
  <1>3. /\ e.stage \in {"claim", "device"} /\ IsEntry(e)
        /\ e.stage = "device" => DeviceTold(m)
    BY <1>2, AtForms
  <1>4. PICK o \in Advanced(e, m) :
          /\ Perform(k, o)
          /\ calls' = IF o.keep # Free /\ o.keep.stage = "mint"
                        THEN [calls EXCEPT !["grant"] = Placed(@, MintCall(o.keep))]
                        ELSE calls
    BY DEF OnLedger
  <1>5. Clears(outq) /\ Clears(calls["grant"])
    BY <1>1 DEF Reads
  <1>6. ASSUME NEW s, NEW body, o.keep = Free, o.asks = {}, o.says = <<Verdict(e, s, body)>>
        PROVE  /\ pend' = [pend EXCEPT ![k] = Free] /\ wire' = wire /\ calls' = calls
               /\ outq' = Append(outq, Verdict(e, s, body))
    BY <1>4, <1>5, <1>6 DEF Perform, Placed
  <1>7. \A s, body, x : x.id = e.id /\ x.req = e.req => Verdict(x, s, body) = Verdict(e, s, body)
    BY DEF Verdict
  <1>8. \A s : /\ Refuses(e, s).keep = Free /\ Refuses(e, s).asks = {}
               /\ Refuses(e, s).says = <<Verdict(e, s, Nothing)>>
               /\ [Refuses(e, s) EXCEPT !.fault = 1].keep = Free
               /\ [Refuses(e, s) EXCEPT !.fault = 1].asks = {}
               /\ [Refuses(e, s) EXCEPT !.fault = 1].says = <<Verdict(e, s, Nothing)>>
    BY DEF Refuses, Says
  <1>9. ASSUME NEW s \in Verdicts \ {"ok"},
               o = Refuses(e, s) \/ o = [Refuses(e, s) EXCEPT !.fault = 1]
        PROVE  /\ pend' = [pend EXCEPT ![k] = Free] /\ wire' = wire /\ calls' = calls
               /\ outq' = Append(outq, Verdict(e, s, Nothing))
    <2>1. o.keep = Free /\ o.asks = {} /\ o.says = <<Verdict(e, s, Nothing)>>
      BY <1>8, <1>9
    <2> QED BY <1>6, <2>1
  <1>10. {"replay", "revoked", "unauthenticated", "unavailable", "mint_failed"}
           \subseteq Verdicts \ {"ok"}
    BY DEF Verdicts, Faults
  <1>11. CASE e.stage = "claim"
    <2>1. o \in ClaimDone(e, m)
      BY <1>4, <1>11 DEF Advanced
    <2>2. CASE m.status = "ok"
      <3>1. PICK x : x = [e EXCEPT !.stage = "device"]
        OBVIOUS
      <3>2. PICK w : w = Request(e, "device", Question(e.req, "device"))
        OBVIOUS
      <3>3. \/ o = [keep |-> x, asks |-> {w}, says |-> <<>>, fault |-> 0]
            \/ o = [Refuses(e, "unavailable") EXCEPT !.fault = 1]
        BY <2>1, <2>2, <3>1, <3>2 DEF ClaimDone, Asks, Question
      <3>4. CASE o = [keep |-> x, asks |-> {w}, says |-> <<>>, fault |-> 0]
        <4>1. o.keep = x /\ o.asks = {w} /\ o.says = <<>>
          BY <3>4
        <4>2. x.stage = "device"
          BY <1>3, <3>1 DEF IsEntry
        <4>3. pend' = [pend EXCEPT ![k] = x] /\ wire' = wire \cup {w} /\ outq' = outq /\ calls' = calls
          BY <1>4, <4>1, <4>2 DEF Perform
        <4> QED BY <1>1, <1>11, <2>2, <3>1, <3>2, <4>3 DEF Gives
      <3>5. CASE o = [Refuses(e, "unavailable") EXCEPT !.fault = 1]
        <4>1. /\ pend' = [pend EXCEPT ![k] = Free] /\ wire' = wire /\ calls' = calls
              /\ outq' = Append(outq, Verdict(e, "unavailable", Nothing))
          BY <1>9, <1>10, <3>5
        <4> QED BY <1>1, <1>10, <4>1 DEF Gives
      <3> QED BY <3>3, <3>4, <3>5
    <2>3. CASE m.status = "conflict"
      <3>1. o = Refuses(e, "replay")
        BY <2>1, <2>3 DEF ClaimDone
      <3>2. /\ pend' = [pend EXCEPT ![k] = Free] /\ wire' = wire /\ calls' = calls
            /\ outq' = Append(outq, Verdict(e, "replay", Nothing))
        BY <1>9, <1>10, <3>1
      <3> QED BY <1>1, <1>10, <1>11, <2>3, <3>2 DEF Gives
    <2>4. CASE m.status \notin {"ok", "conflict"}
      <3>1. o = Refuses(e, "unavailable")
        BY <2>1, <2>4 DEF ClaimDone
      <3>2. /\ pend' = [pend EXCEPT ![k] = Free] /\ wire' = wire /\ calls' = calls
            /\ outq' = Append(outq, Verdict(e, "unavailable", Nothing))
        BY <1>9, <1>10, <3>1
      <3> QED BY <1>1, <1>10, <3>2 DEF Gives
    <2> QED BY <2>2, <2>3, <2>4
  <1>12. CASE e.stage = "device"
    <2>1. o = DeviceDone(e, m)
      BY <1>4, <1>12 DEF Advanced
    <2>2. m.status \in {"ok", "unavailable"}
      BY <1>3, <1>12 DEF DeviceTold
    <2>3. CASE m.status = "unavailable"
      <3>1. o = Refuses(e, "unavailable")
        BY <2>1, <2>3 DEF DeviceDone
      <3>2. /\ pend' = [pend EXCEPT ![k] = Free] /\ wire' = wire /\ calls' = calls
            /\ outq' = Append(outq, Verdict(e, "unavailable", Nothing))
        BY <1>9, <1>10, <3>1
      <3> QED BY <1>1, <1>10, <3>2 DEF Gives
    <2>4. CASE m.status = "ok" /\ m.val = Device(TRUE)
      <3>1. o = Refuses(e, "revoked")
        BY <2>1, <2>4 DEF DeviceDone, Device
      <3>2. /\ pend' = [pend EXCEPT ![k] = Free] /\ wire' = wire /\ calls' = calls
            /\ outq' = Append(outq, Verdict(e, "revoked", Nothing))
        BY <1>9, <1>10, <3>1
      <3> QED BY <1>1, <1>10, <1>12, <2>4, <3>2 DEF Gives
    <2>5. CASE m.status = "ok" /\ m.val = Device(FALSE) /\ e.req.otp = "wrong"
      <3>1. o = Refuses(e, "unauthenticated")
        BY <2>1, <2>5 DEF DeviceDone, Device
      <3>2. /\ pend' = [pend EXCEPT ![k] = Free] /\ wire' = wire /\ calls' = calls
            /\ outq' = Append(outq, Verdict(e, "unauthenticated", Nothing))
        BY <1>9, <1>10, <3>1
      <3> QED BY <1>1, <1>10, <2>5, <3>2 DEF Gives
    <2>6. CASE m.status = "ok" /\ m.val = Device(FALSE) /\ e.req.otp # "wrong"
      <3>0. PICK f : f = Facts(e.req)
        OBVIOUS
      <3>1. PICK x : x = [e EXCEPT !.facts = f]
        OBVIOUS
      <3>2. x = [stage |-> e.stage, id |-> e.id, req |-> e.req, facts |-> f]
        BY <1>3, <3>1 DEF IsEntry
      <3>3. Established(e) = f
        BY <3>0 DEF Facts, Established
      <3>4. o = IF e.req.via = "grant" THEN EmitMint(x) ELSE Says(x, "ok", f)
        BY <2>1, <2>6, <3>1, <3>2, <3>3 DEF DeviceDone, Device
      <3>5. Admits(m, e)
        BY <1>12, <2>6 DEF Admits
      <3>6. CASE e.req.via # "grant"
        <4>1. o.keep = Free /\ o.asks = {} /\ o.says = <<Verdict(x, "ok", f)>>
          BY <3>4, <3>6 DEF Says
        <4>2. Verdict(x, "ok", f) = Verdict(e, "ok", f)
          BY <3>2 DEF Verdict
        <4>3. /\ pend' = [pend EXCEPT ![k] = Free] /\ wire' = wire /\ calls' = calls
              /\ outq' = Append(outq, Verdict(e, "ok", f))
          BY <1>6, <4>1, <4>2
        <4> QED BY <1>1, <3>0, <3>5, <3>6, <4>3 DEF Gives
      <3>7. CASE e.req.via = "grant" /\ down["grant"]
        <4>1. o = Refuses(x, "mint_failed")
          BY <3>4, <3>7 DEF EmitMint
        <4>2. Verdict(x, "mint_failed", Nothing) = Verdict(e, "mint_failed", Nothing)
          BY <3>2 DEF Verdict
        <4>3. o.keep = Free /\ o.asks = {} /\ o.says = <<Verdict(e, "mint_failed", Nothing)>>
          BY <4>1, <4>2 DEF Refuses, Says
        <4>4. /\ pend' = [pend EXCEPT ![k] = Free] /\ wire' = wire /\ calls' = calls
              /\ outq' = Append(outq, Verdict(e, "mint_failed", Nothing))
          BY <1>6, <4>3
        <4> QED BY <1>1, <1>10, <4>4 DEF Gives
      <3>8. CASE e.req.via = "grant" /\ ~down["grant"]
        <4>1. PICK y : y = [stage |-> "mint", id |-> e.id, req |-> e.req, facts |-> f]
          OBVIOUS
        <4>2. o = [keep |-> y, asks |-> {}, says |-> <<>>, fault |-> 0]
          BY <3>2, <3>4, <3>8, <4>1 DEF EmitMint
        <4>3. o.keep = y /\ o.asks = {} /\ o.says = <<>> /\ y.stage = "mint" /\ y # Free
          BY <4>1, <4>2 DEF Free
        <4>4. pend' = [pend EXCEPT ![k] = y] /\ wire' = wire /\ outq' = outq
          BY <1>4, <4>3 DEF Perform
        <4>5. MintCall(y) = GrantCall(e)
          BY <3>0, <4>1 DEF MintCall, GrantCall
        <4>6. calls' = [calls EXCEPT !["grant"] = Append(calls["grant"], GrantCall(e))]
          BY <1>4, <1>5, <4>3, <4>5 DEF Placed
        <4> QED BY <1>1, <3>0, <3>5, <3>8, <4>1, <4>4, <4>6 DEF Gives
      <3> QED BY <3>6, <3>7, <3>8
    <2>7. m.status = "ok" => m.val \in {Device(TRUE), Device(FALSE)}
      BY <1>3, <1>12 DEF DeviceTold
    <2> QED BY <2>2, <2>3, <2>4, <2>5, <2>6, <2>7
  <1> QED BY <1>3, <1>11, <1>12

(* Refused, for a reason that holds.                                       *)
LEMMA LedgerRefuses ==
    ASSUME IInv, NEW m, NEW k, At(m, k), Reads(m), NEW e, e = pend[k],
           pend' = [pend EXCEPT ![k] = Free], wire' = wire, calls' = calls,
           NEW s \in Verdicts \ {"ok"}, outq' = Append(outq, Verdict(e, s, Nothing)),
           s = "replay" => e.stage = "claim" /\ m.status = "conflict",
           s = "revoked" => e.stage = "device" /\ m.status = "ok" /\ m.val = Device(TRUE),
           s = "unauthenticated" => e.req.otp = "wrong"
    PROVE  Recedes /\ Stays
  <1>1. PICK v : v = Verdict(e, s, Nothing)
    OBVIOUS
  <1>2. v.id = e.id /\ v.req = e.req /\ v.status = s /\ ~IsNews(v)
    BY <1>1, NewsIsNews
  <1>3. TypeOK /\ IsPort(outq) /\ IsPort(http) /\ QuietLinks
    BY LinksAlike DEF IInv, TypeOK, Reads
  <1>4. IsPort(outq)' /\ Told' = Told \cup {v}
    BY <1>1, <1>2, <1>3, ToldAppends
  <1>5. UNCHANGED <<scn, led, next, answers, window, replies, signed, gone, desk, http, lost>>
        /\ mail' \subseteq mail
    BY DEF Reads
  <1>6. Desk' = Desk /\ Ended' = Ended /\ Sent' = Sent
    BY <1>5, PartsAlike
  <1>7. /\ \A j \in Live' : j \in Live /\ pend'[j] = pend[j]
        /\ Pending' \subseteq Pending /\ Pending \subseteq Pending' \cup {e} /\ e \in Pending
        /\ pend' = [j \in Slots |-> pend'[j]]
    BY <1>3, AtForms, SlotFreed
  <1>8. Carries
    BY <1>2, <1>3, <1>4, <1>5, <1>6, <1>7, StaysCarried DEF Seen, TypeOK
  <1>9. Recedes
    <2>1. \A r \in Told' : r \in Told \/ r.status # "ok"
      BY <1>2, <1>4
    <2> QED BY <1>3, <1>4, <1>5, <1>6, <1>7, <1>8, <2>1, QuietRecedes DEF TypeOK
  <1>10. ASSUME UsedOK PROVE Deserved
    <2>0. e \in Seen /\ m \in mail /\ m.corr[1] = e.id /\ m.corr[2] = e.stage
          /\ (e.stage = "device" => DeviceTold(m))
      BY AtForms
    <2>1. ASSUME s = "replay" PROVE Blamed(v)
      <3>1. PICK p \in Proofs : ProofOf(m.corr[1], p)
               /\ \E i \in 1 .. next - 1 : i # m.corr[1] /\ ProofOf(i, p)
        BY <1>10, <2>0, <2>1 DEF UsedOK
      <3>2. e.req.proof = p
        BY <2>0, <3>1 DEF ProofOf
      <3> QED BY <1>2, <2>0, <3>1, <3>2 DEF Blamed, Twin
    <2>2. ASSUME s = "revoked" PROVE Blamed(v)
      <3>1. led[DeviceKey(e.req.dev)] = Device(TRUE)
        BY <2>0, <2>2 DEF DeviceTold
      <3> QED BY <1>2, <3>1 DEF Blamed
    <2>3. ASSUME s = "unauthenticated" PROVE Blamed(v)
      BY <1>2, <2>3 DEF Blamed
    <2>4. s \in Faults => Blamed(v)
      BY <2>1, <2>2, <2>3 DEF Faults
    <2> QED BY <1>2, <1>4, <1>6, <2>4 DEF Deserved
  <1>11. ASSUME AllPresent PROVE AllPresent'
    BY <1>2, <1>4, <1>5, <1>6, <1>7, <1>11 DEF AllPresent, Home
  <1> QED BY <1>5, <1>9, <1>10, <1>11 DEF Stays, RInv, Remembers

(* Admitted, for the token endpoint.                                       *)
LEMMA LedgerAdmits ==
    ASSUME IInv, NEW m, NEW k, At(m, k), Reads(m), NEW e, e = pend[k],
           Admits(m, e), e.req.via # "grant",
           pend' = [pend EXCEPT ![k] = Free], wire' = wire, calls' = calls,
           outq' = Append(outq, Verdict(e, "ok", Facts(e.req)))
    PROVE  Keeps
  <1>1. PICK v : v = Verdict(e, "ok", Facts(e.req))
    OBVIOUS
  <1>2. /\ v.id = e.id /\ v.req = e.req /\ v.status = "ok" /\ ~IsNews(v)
        /\ v.body = Facts(v.req)
    BY <1>1, NewsIsNews
  <1>3. /\ TypeOK /\ SeenOK /\ DoorsOK /\ TableOK /\ LaneOK /\ ClaimsOK /\ MintsOK /\ SignedOK
        /\ VerdictsOK /\ IsPort(outq)
    BY DEF IInv, TypeOK
  <1>4. IsPort(outq)' /\ Told' = Told \cup {v}
    BY <1>1, <1>2, <1>3, ToldAppends
  <1>5. UNCHANGED <<scn, led, next, answers, window, replies, signed, gone, desk, http, lost>>
        /\ mail' \subseteq mail
    BY DEF Reads
  <1>6. Desk' = Desk /\ Ended' = Ended /\ Sent' = Sent
    BY <1>5, PartsAlike
  <1>7. /\ \A j \in Live' : j \in Live /\ j # k /\ pend'[j] = pend[j]
        /\ Pending' \subseteq Pending /\ Pending \subseteq Pending' \cup {e} /\ e \in Pending
        /\ pend' = [j \in Slots |-> pend'[j]]
    BY <1>3, AtForms, SlotFreed
  <1>8. e \in Seen /\ m \in mail /\ m.corr[1] = e.id /\ DeviceTold(m) /\ e.stage = "device"
    BY AtForms DEF Admits
  <1>9. Carries /\ SentKept
    BY <1>2, <1>3, <1>4, <1>5, <1>6, <1>7, StaysCarried DEF Seen, TypeOK, SentKept
  <1>10. SeenOK'
    BY <1>3, <1>9, CarriesOver
  <1>11. TypeOK'
    <2>1. IsPort(http)' /\ PortsOK(replies)' /\ PortsOK(calls)'
      BY <1>3, <1>5 DEF TypeOK, PortsOK
    <2> QED BY <1>3, <1>4, <1>5, <1>7, <2>1 DEF TypeOK
  <1>12. DoorsOK'
    BY <1>3, <1>6, <1>7 DEF DoorsOK
  <1>13. TableOK'
    <2>1. Distinct(calls'["admit"])
      BY <1>3 DEF TableOK, Distinct
    <2>2. \A c \in Sent' : c \in Sent
      BY <1>6
    <2> QED BY <1>3, <1>5, <1>7, <1>9, <1>10, <2>1, <2>2, TableKept
  <1>14. LaneOK'
    BY <1>3, <1>5, <1>7, <1>9, LaneKept
  <1>15. v.id < gone[v.req.dev]
    <2>1. Device(FALSE) # Device(TRUE)
      BY DEF Device
    <2> QED BY <1>2, <1>8, <2>1 DEF DeviceTold, Admits
  <1>16. ClaimsOK'
    <2>1. \A i, p : WonInSlot(i, p)' => WonInSlot(i, p)
      BY <1>5, <1>7 DEF WonInSlot
    <2>2. \A i, p : WonAtDoor(i, p)' => WonAtDoor(i, p) \/ WonInSlot(i, p)
      <3>1. WonInSlot(v.id, v.req.proof)
        BY <1>2, <1>7, <1>8 DEF WonInSlot
      <3> QED BY <1>4, <3>1 DEF WonAtDoor
    <2>3. \A i, p : WonAtMint(i, p)' => WonAtMint(i, p)
      BY DEF WonAtMint
    <2>4. \A i, p : Won(i, p)' => Won(i, p)
      BY <1>5, <2>1, <2>2, <2>3 DEF Won
    <2> QED BY <1>3, <1>5, <2>4, ClaimsKept
  <1>17. MintsOK'
    <2>1. /\ \A l \in {"mint", "grant"} : On(calls'[l]) \subseteq On(calls[l])
          /\ \A l \in {"mint", "grant"} : \A r \in On(replies'[l]) : IsNews(r) \/ r \in On(replies[l])
      BY <1>5
    <2> QED BY <1>3, <1>5, <1>9, <2>1, MintsKept
  <1>18. SignedOK'
    BY <1>3, <1>5, <1>9, SignedKept
  <1>19. VerdictsOK'
    <2>1. \A r \in Told' : r.status = "ok" =>
            IF r.req.via = "http" THEN r.body = Facts(r.req) /\ r.id < gone'[r.req.dev]
                                  ELSE TokenFor(r.body, r)
      <3>1. v.req.via = "http"
        BY <1>2, <1>8 DEF IInv, SeenOK, Presents, Reqs, Bodies
      <3>2. ASSUME NEW r \in Told', r.status = "ok"
            PROVE  IF r.req.via = "http" THEN r.body = Facts(r.req) /\ r.id < gone[r.req.dev]
                                         ELSE TokenFor(r.body, r)
        <4>1. CASE r = v
          BY <1>2, <1>15, <3>1, <4>1
        <4>2. CASE r \in Told
          BY <1>3, <3>2, <4>2 DEF VerdictsOK
        <4> QED BY <1>4, <3>2, <4>1, <4>2
      <3> QED BY <1>5, <3>2
    <2>2. \A a \in Ended' : a.status = "ok" => TokenFor(a.body, a)
      BY <1>3, <1>6 DEF VerdictsOK
    <2> QED BY <2>1, <2>2 DEF VerdictsOK, TokenFor
  <1>20. IInv'
    BY <1>10, <1>11, <1>12, <1>13, <1>14, <1>16, <1>17, <1>18, <1>19 DEF IInv
  <1>21. ASSUME RInv PROVE RInv'
    <2>1. AllPresent /\ UsedOK /\ BlameOK
      BY <1>21 DEF RInv
    <2>2. UsedOK'
      <3>1. Remembers
        BY <1>5 DEF Remembers
      <3> QED BY <1>3, <1>5, <1>9, <2>1, <3>1, UsedKept
    <2>3. BlameOK'
      <3>1. Deserved
        BY <1>2, <1>4, <1>6 DEF Deserved, Verdicts, Faults
      <3> QED BY <1>3, <1>5, <1>9, <2>1, <3>1, BlameKept
    <2>4. AllPresent'
      BY <1>4, <1>5, <1>6, <1>7, <2>1 DEF AllPresent, Home
    <2> QED BY <2>2, <2>3, <2>4 DEF RInv
  <1> QED BY <1>20, <1>21 DEF Keeps

(* Kept in the slot, a stage further.                                      *)
Moves(e, y) ==
    /\ TypeOK' /\ SeenOK' /\ DoorsOK' /\ TableOK' /\ SignedOK' /\ VerdictsOK'
    /\ Carries /\ SentKept /\ Told' = Told
    /\ y \in Pending' /\ \A z \in Pending' : z = y \/ (z \in Pending /\ z.id # e.id)
    /\ (AllPresent => AllPresent') /\ (BlameOK => BlameOK')

LEMMA LedgerMoves ==
    ASSUME IInv, NEW m, NEW k, At(m, k), Reads(m), NEW e, e = pend[k], outq' = outq,
           NEW y, IsEntry(y), y.id = e.id, y.req = e.req, y.stage \in {"device", "mint"},
           y.stage = "mint" => e.req.via = "grant", pend' = [pend EXCEPT ![k] = y],
           PortsOK(calls)', calls'["admit"] = calls["admit"],
           \A w \in wire' : w \in wire \/ w.corr[1] = e.id
    PROVE  Moves(e, y)
  <1>1. /\ TypeOK /\ SeenOK /\ DoorsOK /\ TableOK /\ LaneOK /\ SignedOK /\ VerdictsOK
    BY DEF IInv
  <1>2. k \in Live /\ k \in Slots /\ e \in Pending /\ e \in Seen
    BY AtForms DEF Live
  <1>3. /\ \A j \in Live' : j = k \/ (j \in Live /\ pend'[j] = pend[j])
        /\ pend'[k] = y /\ Pending' \subseteq Pending \cup {y} /\ y \in Pending'
        /\ Pending \subseteq Pending' \cup {e} /\ pend' = [j \in Slots |-> pend'[j]]
    <2>1. y.stage # "free"
      OBVIOUS
    <2> QED BY <1>1, <1>2, <2>1, SlotTaken
  <1>4. UNCHANGED <<scn, led, next, answers, window, replies, signed, gone, desk, http, lost>>
        /\ mail' \subseteq mail
    BY DEF Reads
  <1>5. Told' = Told /\ Desk' = Desk /\ Ended' = Ended /\ Sent' = Sent
    <2>1. Sent' = Sent
      BY DEF Sent
    <2> QED BY <1>4, <2>1, PartsAlike
  <1>6. \A z \in Pending' : z = y \/ (z \in Pending /\ z.id # e.id)
    <2>1. \A j \in Live : j # k => pend[j].id # e.id
      BY <1>1, <1>2 DEF TableOK
    <2>2. \A j \in Live' : pend'[j] = y \/ (pend'[j] \in Pending /\ pend'[j].id # e.id)
      BY <1>3, <2>1 DEF Pending
    <2> QED BY <2>2 DEF Pending
  <1>7. Carries /\ SentKept
    <2>1. \A x \in Seen' : \E z \in Seen : z.id = x.id /\ z.req = x.req
      BY <1>2, <1>3, <1>5 DEF Seen
    <2> QED BY <1>1, <1>4, <1>5, <2>1, StaysCarried DEF TypeOK, SentKept
  <1>8. SeenOK'
    BY <1>1, <1>7, CarriesOver
  <1>9. TypeOK'
    <2>1. IsPort(http)' /\ IsPort(outq)' /\ PortsOK(replies)'
      BY <1>1, <1>4 DEF TypeOK, PortsOK
    <2> QED BY <1>1, <1>3, <1>4, <2>1 DEF TypeOK
  <1>10. DoorsOK'
    BY <1>1, <1>3, <1>5 DEF DoorsOK
  <1>11. TableOK'
    <2>1. ASSUME NEW i \in Live', NEW j \in Live', pend'[i].id = pend'[j].id PROVE i = j
      <3>1. \A n \in Live : n # k => pend[n].id # e.id
        BY <1>1, <1>2 DEF TableOK
      <3>2. CASE i = k
        BY <1>3, <2>1, <3>1, <3>2
      <3>3. CASE j = k
        BY <1>3, <2>1, <3>1, <3>3
      <3>4. CASE i # k /\ j # k
        <4>1. i \in Live /\ j \in Live /\ pend[i].id = pend[j].id
          BY <1>3, <2>1, <3>4
        <4> QED BY <1>1, <4>1 DEF TableOK
      <3> QED BY <3>2, <3>3, <3>4
    <2>2. ASSUME NEW c \in Sent'
          PROVE  /\ \A x \in Pending' : x.id # c.id
                 /\ \A w \in wire' \cup mail' : w.corr[1] # c.id
      <3>1. c \in Sent /\ c.id # e.id
        BY <1>1, <1>2, <1>5 DEF TableOK
      <3> QED BY <1>1, <1>3, <1>4, <3>1 DEF TableOK
    <2> QED BY <1>1, <2>1, <2>2 DEF TableOK
  <1>12. SignedOK'
    BY <1>1, <1>4, <1>7, SignedKept
  <1>13. VerdictsOK'
    BY <1>1, <1>4, <1>5 DEF VerdictsOK, TokenFor
  <1>14. AllPresent => AllPresent'
    BY <1>2, <1>3, <1>4, <1>5 DEF AllPresent, Home
  <1>15. BlameOK => BlameOK'
    <2>1. Deserved
      BY <1>5 DEF Deserved
    <2> QED BY <1>1, <1>4, <1>7, <2>1, BlameKept
  <1> QED BY <1>3, <1>5, <1>6, <1>7, <1>8, <1>9, <1>10, <1>11, <1>12, <1>13, <1>14, <1>15
          DEF Moves

(* Its proof is claimed: the device's record is asked for.                 *)
LEMMA LedgerAsked ==
    ASSUME IInv, NEW m, NEW k, At(m, k), Reads(m), NEW e, e = pend[k],
           e.stage = "claim", m.status = "ok", outq' = outq, calls' = calls,
           pend' = [pend EXCEPT ![k] = [e EXCEPT !.stage = "device"]],
           wire' = wire \cup {Request(e, "device", Question(e.req, "device"))}
    PROVE  Keeps
  <1>1. PICK y : y = [e EXCEPT !.stage = "device"]
    OBVIOUS
  <1>2. PICK w : w = Request(e, "device", Question(e.req, "device"))
    OBVIOUS
  <1>3. /\ e \in Pending /\ e \in Seen /\ IsEntry(e) /\ m \in mail /\ m.corr = <<e.id, "claim">>
        /\ e.id \in Nat /\ 1 <= e.id /\ e.id < next /\ e.req \in Reqs
    BY AtForms
  <1>4. /\ y.id = e.id /\ y.req = e.req /\ y.stage = "device" /\ IsEntry(y)
        /\ w.corr = <<e.id, "device">> /\ w.corr[1] = e.id /\ w.corr[2] = "device"
        /\ w.q = Question(e.req, "device") /\ wire' = wire \cup {w}
    BY <1>1, <1>2, <1>3 DEF Request, IsEntry
  <1>5. PortsOK(calls)'
    BY DEF IInv, TypeOK, PortsOK
  <1>6. Moves(e, y)
    BY <1>1, <1>4, <1>5, LedgerMoves, ZenonT(40)
  <1>7. /\ TypeOK /\ SeenOK /\ LaneOK /\ ClaimsOK /\ MintsOK
        /\ UNCHANGED <<scn, led, next, window, replies, signed, gone, lost>>
        /\ mail' \subseteq mail
    BY DEF IInv, Reads
  <1>8. /\ Carries /\ SentKept /\ SeenOK' /\ Told' = Told
        /\ y \in Pending' /\ \A z \in Pending' : z = y \/ (z \in Pending /\ z.id # e.id)
    BY <1>6 DEF Moves
  <1>9. LaneOK'
    <2>1. \A z \in wire : Asking(z)'
      BY <1>7, <1>8, AskingKept DEF LaneOK
    <2>2. Asking(w)'
      <3>1. Corr(w)'
        BY <1>3, <1>4, <1>7 DEF Corr
      <3>2. \A z \in Seen' : z.id = e.id => z.req = e.req
        <4>1. y \in Seen'
          BY <1>8 DEF Seen
        <4> QED BY <1>4, <1>8, <4>1 DEF SeenOK
      <3> QED BY <1>3, <1>4, <3>1, <3>2 DEF Asking
    <2>3. \A z \in wire : z.corr # <<e.id, "device">>
      BY <1>3, <1>7 DEF LaneOK
    <2>4. \A u, z \in wire' : u.corr = z.corr => u = z
      BY <1>4, <1>7, <2>3 DEF LaneOK
    <2>5. \A z \in mail' : Corr(z)' /\ (z.corr[2] = "device" => DeviceTold(z)')
      <3>1. \A z \in mail : Corr(z)'
        BY <1>7, <1>8, CorrKept DEF LaneOK
      <3>2. \A z \in mail : z.corr[2] = "device" => DeviceTold(z)'
        BY <1>7, <1>8, DeviceToldKept DEF LaneOK
      <3> QED BY <1>7, <3>1, <3>2
    <2>6. ASSUME NEW x \in Pending', x.stage = "claim", NEW z \in wire' \cup mail'
          PROVE  z.corr # <<x.id, "device">>
      <3>1. x \in Pending /\ x.id # e.id
        BY <1>4, <1>8, <2>6
      <3>2. CASE z = w
        BY <1>4, <3>1, <3>2
      <3>3. CASE z # w
        BY <1>4, <1>7, <2>6, <3>1, <3>3 DEF LaneOK
      <3> QED BY <3>2, <3>3
    <2> QED BY <1>4, <2>1, <2>2, <2>4, <2>5, <2>6 DEF LaneOK
  <1>10. ClaimsOK'
    <2>1. \A i, p : WonInSlot(i, p)' => WonInSlot(i, p)
      <3>1. WonInSlot(e.id, e.req.proof)
        BY <1>3 DEF WonInSlot
      <3> QED BY <1>4, <1>7, <1>8, <3>1 DEF WonInSlot
    <2>2. \A i, p : WonAtDoor(i, p)' => WonAtDoor(i, p)
      BY <1>8 DEF WonAtDoor
    <2>3. \A i, p : WonAtMint(i, p)' => WonAtMint(i, p)
      BY DEF WonAtMint
    <2>4. \A i, p : Won(i, p)' => Won(i, p)
      BY <1>7, <2>1, <2>2, <2>3 DEF Won
    <2> QED BY <1>7, <2>4, ClaimsKept
  <1>11. MintsOK'
    <2>1. /\ \A l \in {"mint", "grant"} : On(calls'[l]) \subseteq On(calls[l])
          /\ \A l \in {"mint", "grant"} : \A r \in On(replies'[l]) : IsNews(r) \/ r \in On(replies[l])
      BY <1>7
    <2> QED BY <1>7, <1>8, <2>1, MintsKept
  <1>12. IInv'
    BY <1>6, <1>9, <1>10, <1>11 DEF IInv, Moves
  <1>13. ASSUME RInv PROVE RInv'
    <2>1. AllPresent /\ UsedOK /\ BlameOK
      BY <1>13 DEF RInv
    <2>2. \A p \in window' : \E i \in 1 .. next' - 1 : Offers(i, p)'
      <3> SUFFICES ASSUME NEW p \in window PROVE \E i \in 1 .. next' - 1 : Offers(i, p)'
        BY <1>7
      <3>1. PICK i \in 1 .. next - 1 : Offers(i, p)
        BY <2>1 DEF UsedOK
      <3> QED BY <1>7, <1>8, <3>1, OffersKept
    <2>3. ASSUME NEW p \in Proofs, led'[ReplayKey(p)] = Claim
          PROVE  \E i \in 1 .. next' - 1 : Offers(i, p)' /\ \A z \in wire' : z.corr # <<i, "claim">>
      <3>1. PICK i \in 1 .. next - 1 : Offers(i, p) /\ \A z \in wire : z.corr # <<i, "claim">>
        BY <1>7, <2>1, <2>3 DEF UsedOK
      <3>2. Offers(i, p)' /\ i \in 1 .. next' - 1
        BY <1>7, <1>8, <3>1, OffersKept
      <3>3. w.corr # <<i, "claim">>
        BY <1>4
      <3> QED BY <1>4, <3>1, <3>2, <3>3
    <2>4. ASSUME NEW z \in mail', z.corr[2] = "claim" /\ z.status = "conflict"
          PROVE  \E p \in Proofs : ProofOf(z.corr[1], p)'
                     /\ \E i \in 1 .. next' - 1 : i # z.corr[1] /\ ProofOf(i, p)'
      <3>1. PICK p \in Proofs : ProofOf(z.corr[1], p)
               /\ \E i \in 1 .. next - 1 : i # z.corr[1] /\ ProofOf(i, p)
        BY <1>7, <2>1, <2>4 DEF UsedOK
      <3>2. PICK i \in 1 .. next - 1 : i # z.corr[1] /\ ProofOf(i, p)
        BY <3>1
      <3>3. ProofOf(z.corr[1], p)' /\ ProofOf(i, p)' /\ i \in 1 .. next' - 1
        BY <1>7, <1>8, <3>1, <3>2, ProofOfKept
      <3> QED BY <3>2, <3>3
    <2>5. UsedOK'
      BY <2>2, <2>3, <2>4 DEF UsedOK
    <2> QED BY <1>6, <2>1, <2>5 DEF Moves, RInv
  <1> QED BY <1>12, <1>13 DEF Keeps

(* Admitted, for a grant: its mint call is placed.                         *)
LEMMA LedgerMints ==
    ASSUME IInv, NEW m, NEW k, At(m, k), Reads(m), NEW e, e = pend[k],
           Admits(m, e), e.req.via = "grant", wire' = wire, outq' = outq,
           pend' = [pend EXCEPT ![k] = [stage |-> "mint", id |-> e.id, req |-> e.req,
                                        facts |-> Facts(e.req)]],
           calls' = [calls EXCEPT !["grant"] = Append(calls["grant"], GrantCall(e))]
    PROVE  Keeps
  <1>1. PICK y : y = [stage |-> "mint", id |-> e.id, req |-> e.req, facts |-> Facts(e.req)]
    OBVIOUS
  <1>2. y.id = e.id /\ y.req = e.req /\ y.stage = "mint" /\ IsEntry(y)
    BY <1>1 DEF IsEntry
  <1>3. PICK c : c = GrantCall(e)
    OBVIOUS
  <1>4. c.id = e.id /\ c.facts = Facts(e.req)
    BY <1>3 DEF GrantCall
  <1>5. \A b : Facts(b).sub = b.dev /\ Facts(b).proof = b.proof
    BY DEF Facts, Established
  <1>6. /\ e \in Pending /\ e \in Seen /\ m \in mail /\ m.corr[1] = e.id /\ e.stage = "device"
        /\ e.id \in Nat /\ 1 <= e.id /\ e.id < next /\ e.req \in Reqs /\ DeviceTold(m)
    BY AtForms DEF Admits
  <1>7. PICK port : port = Append(calls["grant"], c)
    OBVIOUS
  <1>8. /\ PortsOK(calls) /\ IsPort(calls["grant"]) /\ "grant" \in LinkNames
        /\ "admit" \in LinkNames /\ "mint" \in LinkNames
    BY DEF IInv, TypeOK, PortsOK, LinkNames
  <1>9. IsPort(port) /\ On(port) = On(calls["grant"]) \cup {c}
    BY <1>7, <1>8, AppendPort
  <1>10. calls' = [calls EXCEPT !["grant"] = port]
    BY <1>3, <1>7
  <1>11. /\ PortsOK(calls') /\ calls'["grant"] = port
         /\ calls'["admit"] = calls["admit"] /\ calls'["mint"] = calls["mint"]
    BY <1>8, <1>9, <1>10 DEF PortsOK
  <1>12. Moves(e, y)
    BY <1>1, <1>2, <1>11, LedgerMoves
  <1>13. /\ TypeOK /\ SeenOK /\ LaneOK /\ ClaimsOK /\ MintsOK
         /\ UNCHANGED <<scn, led, next, window, replies, signed, gone, lost>>
         /\ mail' \subseteq mail
    BY DEF IInv, Reads
  <1>14. /\ Carries /\ SentKept /\ SeenOK' /\ Told' = Told
         /\ y \in Pending' /\ \A z \in Pending' : z = y \/ (z \in Pending /\ z.id # e.id)
    BY <1>12 DEF Moves
  <1>15. LaneOK'
    <2>1. \A z \in wire' : Asking(z)'
      BY <1>13, <1>14, AskingKept DEF LaneOK
    <2>2. \A z \in mail' : Corr(z)' /\ (z.corr[2] = "device" => DeviceTold(z)')
      <3>1. \A z \in mail : Corr(z)'
        BY <1>13, <1>14, CorrKept DEF LaneOK
      <3>2. \A z \in mail : z.corr[2] = "device" => DeviceTold(z)'
        BY <1>13, <1>14, DeviceToldKept DEF LaneOK
      <3> QED BY <1>13, <3>1, <3>2
    <2>3. \A x \in Pending' : x.stage = "claim" => x \in Pending
      BY <1>2, <1>14
    <2> QED BY <1>13, <2>1, <2>2, <2>3 DEF LaneOK
  <1>16. ClaimsOK'
    <2>0. WonInSlot(e.id, e.req.proof)
      BY <1>6 DEF WonInSlot
    <2>1. \A i, p : WonInSlot(i, p)' => WonInSlot(i, p)
      BY <1>2, <1>13, <1>14, <2>0 DEF WonInSlot
    <2>2. \A i, p : WonAtDoor(i, p)' => WonAtDoor(i, p)
      BY <1>14 DEF WonAtDoor
    <2>3. \A i, p : WonAtMint(i, p)' => WonAtMint(i, p) \/ WonInSlot(i, p)
      <3>1. \A l \in {"mint", "grant"} : \A z \in On(calls'[l]) : z \in On(calls[l]) \/ z = c
        BY <1>9, <1>11
      <3>2. WonInSlot(c.id, c.facts.proof)
        BY <1>4, <1>5, <2>0
      <3> QED BY <3>1, <3>2 DEF WonAtMint
    <2>4. \A i, p : Won(i, p)' => Won(i, p)
      BY <1>13, <2>1, <2>2, <2>3 DEF Won
    <2> QED BY <1>13, <2>4, ClaimsKept
  <1>17. MintsOK'
    <2>1. \A z \in On(calls["mint"]) \cup On(calls["grant"]) : CallOK(z)'
      BY <1>13, <1>14, CallKept DEF MintsOK
    <2>2. CallOK(c)'
      <3>1. e.id < gone[e.req.dev]
        <4>1. Device(FALSE) # Device(TRUE)
          BY DEF Device
        <4> QED BY <1>6, <4>1 DEF DeviceTold, Admits
      <3>2. \A x \in Seen' : x.id = e.id => x.req = e.req
        <4>1. y \in Seen'
          BY <1>14 DEF Seen
        <4> QED BY <1>2, <1>14, <4>1 DEF SeenOK
      <3> QED BY <1>4, <1>5, <1>6, <1>13, <3>1, <3>2 DEF CallOK
    <2>3. \A l \in {"mint", "grant"} : \A r \in On(replies'[l]) : IsNews(r) \/ ReplyOK(r)'
      BY <1>13, <1>14, ReplyKept DEF MintsOK
    <2>4. \A l \in {"mint", "grant"} : \A z \in On(calls'[l]) : CallOK(z)'
      BY <1>9, <1>11, <2>1, <2>2
    <2> QED BY <2>3, <2>4 DEF MintsOK
  <1>18. IInv'
    BY <1>12, <1>15, <1>16, <1>17 DEF IInv, Moves
  <1>19. ASSUME RInv PROVE RInv'
    <2>1. AllPresent /\ UsedOK /\ BlameOK
      BY <1>19 DEF RInv
    <2>2. UsedOK'
      <3>1. Remembers
        BY <1>13 DEF Remembers
      <3> QED BY <1>13, <1>14, <2>1, <3>1, UsedKept
    <2> QED BY <1>12, <2>1, <2>2 DEF Moves, RInv
  <1> QED BY <1>18, <1>19 DEF Keeps

LEMMA OnLedgerKeeps ==
    ASSUME IInv, NEW m, NEW k \in Slots, OnLedger(m, k), UNCHANGED token PROVE Keeps
  <1>1. PICK e : e = pend[k]
    OBVIOUS
  <1>2. At(m, k)
    BY DEF OnLedger
  <1>3. Reads(m)
    BY <1>1, LedgerForms
  <1>4. ASSUME pend' = [pend EXCEPT ![k] = Free], wire' = wire, calls' = calls,
               NEW s \in Verdicts \ {"ok"}, outq' = Append(outq, Verdict(e, s, Nothing)),
               s = "replay" => e.stage = "claim" /\ m.status = "conflict",
               s = "revoked" => e.stage = "device" /\ m.status = "ok" /\ m.val = Device(TRUE),
               s = "unauthenticated" => e.req.otp = "wrong"
        PROVE  Keeps
    BY <1>1, <1>2, <1>3, <1>4, LedgerRefuses, RecedesKeeps
  <1>5. ASSUME e.stage = "claim", m.status = "ok", outq' = outq, calls' = calls,
               pend' = [pend EXCEPT ![k] = [e EXCEPT !.stage = "device"]],
               wire' = wire \cup {Request(e, "device", Question(e.req, "device"))}
        PROVE  Keeps
    BY <1>1, <1>2, <1>3, <1>5, LedgerAsked
  <1>6. ASSUME Admits(m, e), e.req.via # "grant", wire' = wire, calls' = calls,
               pend' = [pend EXCEPT ![k] = Free],
               outq' = Append(outq, Verdict(e, "ok", Facts(e.req)))
        PROVE  Keeps
    BY <1>1, <1>2, <1>3, <1>6, LedgerAdmits
  <1>7. ASSUME Admits(m, e), e.req.via = "grant", wire' = wire, outq' = outq,
               pend' = [pend EXCEPT ![k] = [stage |-> "mint", id |-> e.id, req |-> e.req,
                                            facts |-> Facts(e.req)]],
               calls' = [calls EXCEPT !["grant"] = Append(calls["grant"], GrantCall(e))]
        PROVE  Keeps
    BY <1>1, <1>2, <1>3, <1>7, LedgerMints
  <1>8. Gives(m, k, e)
    BY <1>1, LedgerForms
  <1> QED BY <1>4, <1>5, <1>6, <1>7, <1>8 DEF Gives

(***************************************************************************)
(* What admission established goes to the mint, which signs it.            *)
(***************************************************************************)
LEMMA DispatchKeeps ==
    ASSUME IInv, OnAdmit, NEW r, r = Head(outq), ~IsNews(r), r.req.via = "http",
           r.status = "ok", NEW k \in SeatOf(r.id, "admit"),
           desk' = [desk EXCEPT ![k] = [[desk[k] EXCEPT !.facts = r.body] EXCEPT !.stage = "mint"]],
           calls' = [calls EXCEPT !["mint"] =
                        Placed(calls["mint"], MintCall([desk[k] EXCEPT !.facts = r.body]))],
           http' = http
    PROVE  Keeps
  <1>1. PICK e : e = desk[k]
    OBVIOUS
  <1>2. k \in Seated /\ k \in Slots /\ e.id = r.id /\ e \in Desk /\ e \in Seen
    BY <1>1 DEF SeatOf, Seated, Desk, Seen
  <1>3. IsEntry(e) /\ e.req.via = "http"
    BY <1>2 DEF IInv, DoorsOK
  <1>4. PICK x : x = [e EXCEPT !.facts = r.body]
    OBVIOUS
  <1>5. PICK y : y = [x EXCEPT !.stage = "mint"]
    OBVIOUS
  <1>6. x = [stage |-> e.stage, id |-> e.id, req |-> e.req, facts |-> r.body]
    BY <1>3, <1>4 DEF IsEntry
  <1>7. y = [stage |-> "mint", id |-> e.id, req |-> e.req, facts |-> r.body]
    BY <1>5, <1>6
  <1>8. y.id = e.id /\ y.req = e.req /\ IsEntry(y) /\ y # Free
    <2>1. Free.stage = "free" /\ y.stage = "mint"
      BY <1>7 DEF Free
    <2> QED BY <1>7, <2>1 DEF IsEntry
  <1>9. PICK c : c = MintCall(x)
    OBVIOUS
  <1>10. c.id = e.id /\ c.facts = r.body
    BY <1>6, <1>9 DEF MintCall
  <1>11. /\ TypeOK /\ SeenOK /\ DoorsOK /\ TableOK /\ LaneOK /\ ClaimsOK /\ MintsOK /\ SignedOK
         /\ VerdictsOK /\ IsPort(outq) /\ PortsOK(calls)
    BY DEF IInv, TypeOK
  <1>12. /\ UNCHANGED <<scn, led, wire, mail, pend, next, answers, window, replies, signed, gone,
                        lost, http>>
         /\ outq # <<>> /\ outq' = Tail(outq) /\ Clears(calls["mint"])
    BY DEF OnAdmit, lane, world
  <1>13. /\ IsPort(outq)' /\ Told' \subseteq Told /\ Told \subseteq Told' \cup {r} /\ r \in Told
    BY <1>11, <1>12, ToldTail DEF Told
  <1>14. PICK port : port = Append(calls["mint"], c)
    OBVIOUS
  <1>15. IsPort(calls["mint"]) /\ "mint" \in LinkNames /\ "admit" \in LinkNames /\ "grant" \in LinkNames
    BY <1>11 DEF PortsOK, LinkNames
  <1>16. IsPort(port) /\ On(port) = On(calls["mint"]) \cup {c}
    BY <1>14, <1>15, AppendPort
  <1>17. calls' = [calls EXCEPT !["mint"] = port]
    BY <1>1, <1>4, <1>9, <1>12, <1>14 DEF Placed
  <1>18. /\ PortsOK(calls') /\ calls'["mint"] = port
         /\ calls'["admit"] = calls["admit"] /\ calls'["grant"] = calls["grant"]
    BY <1>11, <1>15, <1>16, <1>17 DEF PortsOK
  <1>19. /\ Live' = Live /\ Pending' = Pending /\ Ended' = Ended /\ Sent' = Sent
    BY <1>12, <1>18, PartsAlike DEF Sent
  <1>20. /\ Desk' \subseteq Desk \cup {y} /\ y \in Desk' /\ Desk \subseteq Desk' \cup {e}
         /\ desk' = [j \in Slots |-> desk'[j]]
    BY <1>1, <1>2, <1>4, <1>5, <1>8, <1>11, SeatTaken
  <1>21. Carries /\ SentKept
    <2>1. \A z \in Seen' : \E v \in Seen : v.id = z.id /\ v.req = z.req
      BY <1>2, <1>8, <1>13, <1>19, <1>20 DEF Seen
    <2> QED BY <1>11, <1>12, <1>19, <2>1, StaysCarried DEF TypeOK, SentKept
  <1>22. SeenOK'
    BY <1>11, <1>21, CarriesOver
  <1>23. TypeOK'
    <2>1. IsPort(http)' /\ PortsOK(replies)'
      BY <1>11, <1>12 DEF TypeOK, PortsOK
    <2> QED BY <1>11, <1>12, <1>13, <1>18, <1>20, <2>1 DEF TypeOK
  <1>24. DoorsOK'
    BY <1>3, <1>8, <1>11, <1>19, <1>20 DEF DoorsOK
  <1>25. TableOK'
    <2>1. Distinct(calls'["admit"])
      BY <1>11, <1>18 DEF TableOK, Distinct
    <2> QED BY <1>11, <1>12, <1>19, <1>21, <1>22, <2>1, TableKept
  <1>26. LaneOK'
    BY <1>11, <1>12, <1>19, <1>21, LaneKept
  <1>27. r \in Seen /\ r.req = e.req
    <2>1. r \in Seen
      BY <1>13 DEF Seen
    <2> QED BY <1>2, <1>11, <2>1 DEF SeenOK
  <1>28. c.facts = Facts(e.req) /\ e.id < gone[e.req.dev]
    BY <1>2, <1>3, <1>10, <1>11, <1>13, <1>27 DEF VerdictsOK
  <1>29. \A b : Facts(b).sub = b.dev /\ Facts(b).proof = b.proof
    BY DEF Facts, Established
  <1>30. ClaimsOK'
    <2>1. \A i, p : WonInSlot(i, p)' => WonInSlot(i, p)
      BY <1>12, <1>19 DEF WonInSlot
    <2>2. \A i, p : WonAtDoor(i, p)' => WonAtDoor(i, p)
      BY <1>13 DEF WonAtDoor
    <2>3. \A i, p : WonAtMint(i, p)' => WonAtMint(i, p) \/ WonAtDoor(i, p)
      <3>1. \A l \in {"mint", "grant"} : \A z \in On(calls'[l]) : z \in On(calls[l]) \/ z = c
        BY <1>16, <1>18
      <3>2. WonAtDoor(c.id, c.facts.proof)
        BY <1>2, <1>10, <1>13, <1>27, <1>28, <1>29, ZenonT(40) DEF WonAtDoor
      <3> QED BY <3>1, <3>2 DEF WonAtMint
    <2>4. \A i, p : Won(i, p)' => Won(i, p)
      BY <1>12, <2>1, <2>2, <2>3 DEF Won
    <2> QED BY <1>11, <1>12, <2>4, ClaimsKept
  <1>31. MintsOK'
    <2>1. \A z \in On(calls["mint"]) \cup On(calls["grant"]) : CallOK(z)'
      BY <1>11, <1>12, <1>21, CallKept DEF MintsOK
    <2>2. CallOK(c)'
      <3>1. e.id \in Nat /\ e.id < next /\ e.req \in Reqs
        BY <1>2, <1>11 DEF SeenOK, Presents
      <3>2. \A z \in Seen' : z.id = e.id => z.req = e.req
        <4>1. y \in Seen'
          BY <1>20 DEF Seen
        <4> QED BY <1>8, <1>22, <4>1 DEF SeenOK
      <3> QED BY <1>10, <1>12, <1>28, <1>29, <3>1, <3>2 DEF CallOK
    <2>3. \A l \in {"mint", "grant"} : \A z \in On(replies'[l]) : IsNews(z) \/ ReplyOK(z)'
      BY <1>11, <1>12, <1>21, ReplyKept DEF MintsOK
    <2>4. \A l \in {"mint", "grant"} : \A z \in On(calls'[l]) : CallOK(z)'
      BY <1>16, <1>18, <2>1, <2>2
    <2> QED BY <2>3, <2>4 DEF MintsOK
  <1>32. SignedOK'
    BY <1>11, <1>12, <1>21, SignedKept
  <1>33. VerdictsOK'
    BY <1>11, <1>12, <1>13, <1>19 DEF VerdictsOK, TokenFor
  <1>34. IInv'
    BY <1>22, <1>23, <1>24, <1>25, <1>26, <1>30, <1>31, <1>32, <1>33 DEF IInv
  <1>35. ASSUME RInv PROVE RInv'
    <2>1. AllPresent /\ UsedOK /\ BlameOK
      BY <1>35 DEF RInv
    <2>2. UsedOK'
      <3>1. Remembers
        BY <1>12 DEF Remembers
      <3> QED BY <1>11, <1>12, <1>21, <2>1, <3>1, UsedKept
    <2>3. BlameOK'
      <3>1. Deserved
        BY <1>13, <1>19 DEF Deserved
      <3> QED BY <1>11, <1>12, <1>21, <2>1, <3>1, BlameKept
    <2>4. AllPresent'
      <3>1. \A z \in Told : z.req.via = "grant" => z \in Told'
        BY <1>13
      <3> QED BY <1>8, <1>12, <1>19, <1>20, <2>1, <3>1 DEF AllPresent, Home
    <2> QED BY <2>2, <2>3, <2>4 DEF RInv
  <1> QED BY <1>34, <1>35 DEF Keeps

LEMMA OnAdmitKeeps == ASSUME IInv, OnAdmit PROVE Keeps
  <1>1. CASE calls' = calls
    BY <1>1, OnAdmitStays, RecedesKeeps
  <1>2. CASE calls' # calls
    <2>1. PICK r : r = Head(outq)
      OBVIOUS
    <2>2. PICK k \in SeatOf(r.id, "admit") :
            /\ r.status = "ok" /\ DispatchMint(k, [desk[k] EXCEPT !.facts = r.body])
            /\ ~IsNews(r) /\ r.req.via = "http"
      BY <1>2, <2>1 DEF OnAdmit
    <2>3. /\ desk' = [desk EXCEPT ![k] = [[desk[k] EXCEPT !.facts = r.body] EXCEPT !.stage = "mint"]]
          /\ calls' = [calls EXCEPT !["mint"] =
                          Placed(calls["mint"], MintCall([desk[k] EXCEPT !.facts = r.body]))]
          /\ http' = http
      BY <1>2, <2>2 DEF DispatchMint
    <2> QED BY <2>1, <2>2, <2>3, DispatchKeeps
  <1> QED BY <1>1, <1>2

LEMMA MintKeeps == ASSUME IInv, NEW l, Mint(l), UNCHANGED token PROVE Keeps
  <1>1. PICK c : c = Head(calls[l])
    OBVIOUS
  <1>2. PICK t : t = [kind |-> "token", id |-> c.id, sub |-> c.facts.sub, proof |-> c.facts.proof]
    OBVIOUS
  <1>3. t.id = c.id /\ t.sub = c.facts.sub /\ t.proof = c.facts.proof
    BY <1>2
  <1>4. /\ l \in {"mint", "grant"} /\ l \in LinkNames /\ l # "admit" /\ calls[l] # <<>>
        /\ Clears(replies[l])
        /\ calls' = [calls EXCEPT ![l] = Tail(calls[l])]
        /\ UNCHANGED <<scn, led, wire, mail, pend, outq, next, answers, window, gone, desk, http,
                       lost>>
    BY DEF Mint, lane, slots, token, LinkNames
  <1>5. PICK status, body :
          /\ status = "ok" => body = t /\ signed' = signed \cup {t}
          /\ signed' = signed \cup {t} \/ signed' = signed
          /\ replies' = [replies EXCEPT ![l] =
                            Placed(replies[l], [id |-> c.id, status |-> status, body |-> body])]
    <2>1. \/ /\ signed' = signed \cup {t}
             /\ replies' = [replies EXCEPT ![l] =
                               Placed(replies[l], [id |-> c.id, status |-> "ok", body |-> t])]
          \/ /\ signed' = signed
             /\ replies' = [replies EXCEPT ![l] =
                               Placed(replies[l], [id |-> c.id, status |-> "refused", body |-> Nothing])]
      BY <1>1, <1>2 DEF Mint
    <2>2. "refused" # "ok"
      OBVIOUS
    <2> QED BY <2>1, <2>2
  <1>6. PICK r : r = [id |-> c.id, status |-> status, body |-> body]
    OBVIOUS
  <1>7. r.id = c.id /\ r.status = status /\ r.body = body
    BY <1>6
  <1>8. /\ TypeOK /\ SeenOK /\ DoorsOK /\ TableOK /\ LaneOK /\ ClaimsOK /\ MintsOK /\ SignedOK
        /\ VerdictsOK /\ PortsOK(calls) /\ PortsOK(replies) /\ IsPort(calls[l]) /\ IsPort(replies[l])
    BY <1>4 DEF IInv, TypeOK, PortsOK
  <1>9. PICK port : port = Tail(calls[l])
    OBVIOUS
  <1>10. IsPort(port) /\ On(port) \subseteq On(calls[l]) /\ c \in On(calls[l])
    BY <1>1, <1>4, <1>8, <1>9, TailPort
  <1>11. /\ PortsOK(calls)' /\ Distinct(calls'["admit"]) /\ Sent' \subseteq Sent
         /\ \A j \in LinkNames : On(calls'[j]) \subseteq On(calls[j])
    BY <1>4, <1>9, <1>10, CallsShrink
  <1>12. PICK rport : rport = Append(replies[l], r)
    OBVIOUS
  <1>13. IsPort(rport) /\ On(rport) = On(replies[l]) \cup {r}
    BY <1>8, <1>12, AppendPort
  <1>14. replies' = [replies EXCEPT ![l] = rport]
    BY <1>4, <1>5, <1>6, <1>12 DEF Placed
  <1>15. /\ PortsOK(replies') /\ replies'[l] = rport
         /\ \A j \in LinkNames \ {l} : replies'[j] = replies[j]
    BY <1>4, <1>8, <1>13, <1>14 DEF PortsOK
  <1>16. \A j \in LinkNames : \A z \in On(replies'[j]) : z \in On(replies[j]) \/ z = r
    BY <1>13, <1>15
  <1>17. /\ Live' = Live /\ Pending' = Pending /\ Ended' = Ended /\ Desk' = Desk /\ Told' = Told
    BY <1>4, PartsAlike
  <1>18. Carries /\ SentKept
    <2>1. \A z \in Seen' : \E v \in Seen : v.id = z.id /\ v.req = z.req
      BY <1>11, <1>17 DEF Seen
    <2> QED BY <1>4, <1>8, <1>11, <2>1, StaysCarried DEF TypeOK, SentKept
  <1>19. SeenOK'
    BY <1>8, <1>18, CarriesOver
  <1>20. TypeOK'
    <2>1. IsPort(http)' /\ IsPort(outq)'
      BY <1>4, <1>8 DEF TypeOK
    <2> QED BY <1>4, <1>8, <1>11, <1>15, <2>1 DEF TypeOK
  <1>21. DoorsOK'
    BY <1>8, <1>11, <1>17 DEF DoorsOK
  <1>22. TableOK'
    BY <1>4, <1>8, <1>11, <1>17, <1>18, <1>19, TableKept
  <1>23. LaneOK'
    BY <1>4, <1>8, <1>17, <1>18, LaneKept
  <1>24. CallOK(c)
    BY <1>4, <1>8, <1>10 DEF MintsOK
  <1>25. ClaimsOK'
    <2>1. \A i, p : WonInSlot(i, p)' => WonInSlot(i, p)
      BY <1>4, <1>17 DEF WonInSlot
    <2>2. \A i, p : WonAtDoor(i, p)' => WonAtDoor(i, p)
      BY <1>17 DEF WonAtDoor
    <2>3. \A i, p : WonAtMint(i, p)' => WonAtMint(i, p)
      BY <1>11 DEF WonAtMint, LinkNames
    <2>4. WonAtMint(t.id, t.proof)
      BY <1>3, <1>4, <1>10 DEF WonAtMint
    <2>5. \A i, p : Won(i, p)' => Won(i, p)
      BY <1>5, <2>1, <2>2, <2>3, <2>4 DEF Won
    <2> QED BY <1>4, <1>8, <2>5, ClaimsKept
  <1>26. \A b : Facts(b).sub = b.dev
    BY DEF Facts, Established
  <1>27. MintsOK'
    <2>1. \A j \in {"mint", "grant"} : \A z \in On(calls'[j]) : CallOK(z)'
      <3>1. \A j \in {"mint", "grant"} : \A z \in On(calls'[j]) : CallOK(z)
        BY <1>8, <1>11 DEF MintsOK, LinkNames
      <3> QED BY <1>4, <1>8, <1>18, <3>1, CallKept
    <2>2. ReplyOK(r)
      <3>1. status = "ok" => \A x \in Seen : x.id = r.id => TokenFor(r.body, x)
        BY <1>3, <1>5, <1>7, <1>24, <1>26 DEF CallOK, TokenFor
      <3> QED BY <1>7, <1>24, <3>1 DEF ReplyOK, CallOK
    <2>3. \A j \in {"mint", "grant"} : \A z \in On(replies'[j]) : IsNews(z) \/ ReplyOK(z)
      BY <1>8, <1>16, <2>2 DEF MintsOK, LinkNames
    <2>4. \A j \in {"mint", "grant"} : \A z \in On(replies'[j]) : IsNews(z) \/ ReplyOK(z)'
      BY <1>8, <1>18, <2>3, ReplyKept
    <2> QED BY <2>1, <2>4 DEF MintsOK
  <1>28. SignedOK'
    <2>1. t.sub \in Devices /\ t.id \in Nat /\ t.id < next /\ t.id < gone[t.sub]
      BY <1>3, <1>24, <1>26 DEF CallOK, Reqs, Bodies
    <2>2. signed' \subseteq signed \cup {t}
      BY <1>5
    <2> QED BY <1>4, <1>8, <2>1, <2>2 DEF SignedOK
  <1>29. VerdictsOK'
    BY <1>4, <1>8, <1>17 DEF VerdictsOK, TokenFor
  <1>30. IInv'
    BY <1>19, <1>20, <1>21, <1>22, <1>23, <1>25, <1>27, <1>28, <1>29 DEF IInv
  <1>31. ASSUME RInv PROVE RInv'
    <2>1. AllPresent /\ UsedOK /\ BlameOK
      BY <1>31 DEF RInv
    <2>2. UsedOK'
      <3>1. Remembers
        BY <1>4 DEF Remembers
      <3> QED BY <1>4, <1>8, <1>18, <2>1, <3>1, UsedKept
    <2>3. BlameOK'
      <3>1. Deserved
        BY <1>17 DEF Deserved
      <3> QED BY <1>4, <1>8, <1>18, <2>1, <3>1, BlameKept
    <2>4. AllPresent'
      BY <1>4, <1>17, <2>1 DEF AllPresent, Home
    <2> QED BY <2>2, <2>3, <2>4 DEF RInv
  <1> QED BY <1>30, <1>31 DEF Keeps

(***************************************************************************)
(* The ledger decides, or fails; a device is revoked.                      *)
(***************************************************************************)
(* What becomes of request w: the claim of an unclaimed proof may be       *)
(* applied, and a device's record is what is read.                         *)
Claims(w, m) ==
    \E p \in Proofs :
        /\ w.q = PutIfAbsent(ReplayKey(p), Claim)
        /\ \/ /\ led[ReplayKey(p)] = Nothing /\ led' = [led EXCEPT ![ReplayKey(p)] = Claim]
              /\ m.status \in {"ok", "unavailable"}
           \/ led[ReplayKey(p)] # Nothing /\ led' = led /\ m.status = "conflict"
           \/ led' = led /\ m.status = "unavailable"

Looks(w, m) ==
    \E d \in Devices :
        /\ w.q = Get(DeviceKey(d)) /\ led' = led
        /\ \/ m.status = "ok" /\ m.val = led[DeviceKey(d)]
           \/ m.status = "unavailable"

Settles(w, m) ==
    /\ w \in wire /\ wire' = wire \ {w} /\ m.corr = w.corr /\ mail' = mail \cup {m}
    /\ UNCHANGED <<scn, pend, outq, next, answers, window, calls, replies, signed, gone, desk, http,
                   lost>>
    /\ (w.corr[2] = "claim" /\ Claims(w, m)) \/ (w.corr[2] = "device" /\ Looks(w, m))

LEMMA LedgerSettles ==
    ASSUME IInv, Ledger, UNCHANGED token PROVE \E w, m : Settles(w, m)
  <1>1. PICK w \in wire : LedgerDecides(w, led) \/ LedgerFails(w)
    BY DEF Ledger
  <1>2. PICK out : Settle(w, out) /\ (out \in Decided(led, w.q) \/ out \in Failed(led, w.q))
    <2>1. CASE LedgerDecides(w, led)
      BY <2>1 DEF LedgerDecides
    <2>2. CASE LedgerFails(w)
      BY <2>2 DEF LedgerFails
    <2> QED BY <1>1, <2>1, <2>2
  <1>3. PICK m : m = [corr |-> w.corr, status |-> out.status, val |-> out.val]
    OBVIOUS
  <1>4. m.corr = w.corr /\ m.status = out.status /\ m.val = out.val
    BY <1>3
  <1>5. /\ wire' = wire \ {w} /\ mail' = mail \cup {m}
        /\ led' = IF w.q.op = "get" THEN led ELSE out.led
        /\ UNCHANGED <<scn, pend, outq, next, answers>>
    BY <1>2, <1>3 DEF Settle, slots
  <1>6. UNCHANGED <<window, calls, replies, signed, gone, desk, http, lost>>
    BY DEF Ledger, links, world, token
  <1>7. Asking(w) /\ TypeOK
    BY DEF IInv, LaneOK
  <1>8. PICK b \in Reqs : w.q = Question(b, w.corr[2])
    BY <1>7 DEF Asking
  <1>9. b.proof \in Proofs /\ b.dev \in Devices
    BY DEF Reqs, Bodies, Proofs
  <1>10. \A status, val, l : /\ Outcome(status, val, l).status = status
                             /\ Outcome(status, val, l).val = val
                             /\ Outcome(status, val, l).led = l
    BY DEF Outcome
  <1>11. CASE w.corr[2] = "claim"
    <2>1. PICK key : key = ReplayKey(b.proof)
      OBVIOUS
    <2>2. /\ w.q = PutIfAbsent(key, Claim) /\ w.q.op = "put" /\ w.q.key = key
          /\ w.q.old = Nothing /\ w.q.new = Claim
      BY <1>8, <1>11, <2>1 DEF Question, PutIfAbsent
    <2>3. Claim # Nothing
      BY DEF Claim, Nothing
    <2>4. PICK l : l = Applied(led, w.q)
      OBVIOUS
    <2>5. l = [led EXCEPT ![key] = Claim]
      BY <2>2, <2>4 DEF Applied
    <2>6. led' = out.led
      BY <1>5, <2>2
    <2>7. CASE out \in Decided(led, w.q)
      <3>1. CASE led[key] = Nothing
        <4>1. out = Outcome("ok", Nothing, l)
          BY <2>2, <2>3, <2>4, <2>7, <3>1 DEF Decided
        <4>2. led' = [led EXCEPT ![key] = Claim] /\ m.status = "ok"
          BY <1>4, <1>10, <2>5, <2>6, <4>1
        <4> QED BY <1>4, <1>5, <1>6, <1>9, <1>11, <2>1, <2>2, <3>1, <4>2 DEF Settles, Claims
      <3>2. CASE led[key] # Nothing
        <4>1. out = Outcome("conflict", Nothing, led)
          BY <2>2, <2>3, <2>7, <3>2 DEF Decided
        <4>2. led' = led /\ m.status = "conflict"
          BY <1>4, <1>10, <2>6, <4>1
        <4> QED BY <1>4, <1>5, <1>6, <1>9, <1>11, <2>1, <2>2, <3>2, <4>2 DEF Settles, Claims
      <3> QED BY <3>1, <3>2
    <2>8. CASE out \in Failed(led, w.q)
      <3>1. \/ out = Outcome("unavailable", Nothing, led)
            \/ led[key] = Nothing /\ out = Outcome("unavailable", Nothing, l)
        BY <2>2, <2>4, <2>8 DEF Failed
      <3>2. m.status = "unavailable"
        BY <1>4, <1>10, <3>1
      <3>3. led' = led \/ (led[key] = Nothing /\ led' = [led EXCEPT ![key] = Claim])
        BY <1>10, <2>5, <2>6, <3>1
      <3> QED BY <1>4, <1>5, <1>6, <1>9, <1>11, <2>1, <2>2, <3>2, <3>3 DEF Settles, Claims
    <2> QED BY <1>2, <2>7, <2>8
  <1>12. CASE w.corr[2] = "device"
    <2>1. PICK key : key = DeviceKey(b.dev)
      OBVIOUS
    <2>2. w.q = Get(key) /\ w.q.op = "get" /\ w.q.key = key
      BY <1>8, <1>12, <2>1 DEF Question, Get
    <2>3. led[key] # Nothing
      BY <1>7, <1>9, <2>1 DEF TypeOK, Device, Nothing
    <2>4. CASE out \in Decided(led, w.q)
      <3>1. out = Outcome("ok", led[key], led)
        BY <2>2, <2>3, <2>4 DEF Decided
      <3>2. m.status = "ok" /\ m.val = led[key]
        BY <1>4, <1>10, <3>1
      <3> QED BY <1>4, <1>5, <1>6, <1>9, <1>12, <2>1, <2>2, <3>2 DEF Settles, Looks
    <2>5. CASE out \in Failed(led, w.q)
      <3>1. out = Outcome("unavailable", Nothing, led)
        BY <2>2, <2>5 DEF Failed
      <3>2. m.status = "unavailable"
        BY <1>4, <1>10, <3>1
      <3> QED BY <1>4, <1>5, <1>6, <1>9, <1>12, <2>1, <2>2, <3>2 DEF Settles, Looks
    <2> QED BY <1>2, <2>4, <2>5
  <1> QED BY <1>7, <1>11, <1>12 DEF Asking, Corr

LEMMA KeysDiffer ==
    /\ \A p, d : ReplayKey(p) # DeviceKey(d)
    /\ \A p, q : ReplayKey(p) = ReplayKey(q) => p = q
    /\ \A c, d : DeviceKey(c) = DeviceKey(d) => c = d
    /\ \A p \in Proofs : ReplayKey(p) \in Keys
    /\ \A d \in Devices : DeviceKey(d) \in Keys
    /\ Claim # Nothing /\ Device(TRUE) # Device(FALSE)
  BY DEF ReplayKey, DeviceKey, Keys, Claim, Nothing, Device

(* A claim, once made, stays, and no device's record is touched.           *)
LEMMA SettlesLed ==
    ASSUME IInv, NEW w, NEW m, Settles(w, m)
    PROVE  /\ led' = [x \in Keys |-> led'[x]]
           /\ \A p \in Proofs : led'[ReplayKey(p)] \in {Nothing, Claim}
           /\ \A p \in Proofs : led[ReplayKey(p)] = Claim => led'[ReplayKey(p)] = Claim
           /\ \A d \in Devices : led'[DeviceKey(d)] = led[DeviceKey(d)]
  <1>1. /\ led = [x \in Keys |-> led[x]]
        /\ \A p \in Proofs : led[ReplayKey(p)] \in {Nothing, Claim}
    BY DEF IInv, TypeOK
  <1>2. CASE led' = led
    BY <1>1, <1>2
  <1>3. ASSUME NEW p \in Proofs, led' = [led EXCEPT ![ReplayKey(p)] = Claim]
        PROVE  /\ led' = [x \in Keys |-> led'[x]]
               /\ \A q \in Proofs : led'[ReplayKey(q)] \in {Nothing, Claim}
               /\ \A q \in Proofs : led[ReplayKey(q)] = Claim => led'[ReplayKey(q)] = Claim
               /\ \A d \in Devices : led'[DeviceKey(d)] = led[DeviceKey(d)]
    <2>1. PICK key : key = ReplayKey(p)
      OBVIOUS
    <2>2. key \in Keys /\ \A d : key # DeviceKey(d)
      BY <2>1, KeysDiffer
    <2>3. /\ led' = [x \in Keys |-> led'[x]]
          /\ \A x \in Keys : led'[x] = IF x = key THEN Claim ELSE led[x]
      BY <1>1, <1>3, <2>1, <2>2
    <2>4. ASSUME NEW q \in Proofs
          PROVE  /\ led'[ReplayKey(q)] \in {Nothing, Claim}
                 /\ led[ReplayKey(q)] = Claim => led'[ReplayKey(q)] = Claim
      BY <1>1, <2>3, KeysDiffer
    <2>5. \A d \in Devices : led'[DeviceKey(d)] = led[DeviceKey(d)]
      BY <2>2, <2>3, KeysDiffer
    <2> QED BY <2>3, <2>4, <2>5
  <1> QED BY <1>2, <1>3 DEF Settles, Claims, Looks

LEMMA LedgerKeeps == ASSUME IInv, Ledger, UNCHANGED token PROVE Keeps
  <1>1. PICK w, m : Settles(w, m)
    BY LedgerSettles
  <1>2. /\ w \in wire /\ wire' = wire \ {w} /\ m.corr = w.corr /\ mail' = mail \cup {m}
        /\ UNCHANGED <<scn, pend, outq, next, answers, window, calls, replies, signed, gone, desk,
                       http, lost>>
        /\ (w.corr[2] = "claim" /\ Claims(w, m)) \/ (w.corr[2] = "device" /\ Looks(w, m))
    BY <1>1 DEF Settles
  <1>3. /\ TypeOK /\ SeenOK /\ DoorsOK /\ TableOK /\ LaneOK /\ ClaimsOK /\ MintsOK /\ SignedOK
        /\ VerdictsOK
    BY DEF IInv
  <1>4. /\ led' = [x \in Keys |-> led'[x]]
        /\ \A p \in Proofs : led'[ReplayKey(p)] \in {Nothing, Claim}
        /\ \A p \in Proofs : led[ReplayKey(p)] = Claim => led'[ReplayKey(p)] = Claim
        /\ \A d \in Devices : led'[DeviceKey(d)] = led[DeviceKey(d)]
    BY <1>1, SettlesLed
  <1>5. /\ Live' = Live /\ Pending' = Pending /\ Ended' = Ended /\ Desk' = Desk /\ Told' = Told
        /\ Sent' = Sent
    BY <1>2, PartsAlike
  <1>6. Seen' = Seen
    BY <1>5 DEF Seen
  <1>7. Carries /\ SentKept
    BY <1>2, <1>3, <1>5, <1>6, StaysCarried DEF TypeOK, SentKept
  <1>8. SeenOK'
    BY <1>3, <1>7, CarriesOver
  <1>9. TypeOK'
    <2>1. IsPort(http)' /\ IsPort(outq)' /\ PortsOK(calls)' /\ PortsOK(replies)'
      BY <1>2, <1>3 DEF TypeOK, PortsOK
    <2> QED BY <1>2, <1>3, <1>4, <2>1 DEF TypeOK
  <1>10. DoorsOK'
    BY <1>3, <1>5 DEF DoorsOK
  <1>11. TableOK'
    <2>1. \A x \in wire' \cup mail' : \E z \in wire \cup mail : x.corr = z.corr
      BY <1>2
    <2>2. ASSUME NEW c \in Sent'
          PROVE  /\ \A x \in Pending' : x.id # c.id
                 /\ \A x \in wire' \cup mail' : x.corr[1] # c.id
      BY <1>3, <1>5, <2>1 DEF TableOK
    <2> QED BY <1>2, <1>3, <1>5, <2>2 DEF TableOK
  <1>12. Asking(w)
    BY <1>2, <1>3 DEF LaneOK
  <1>13. LaneOK'
    <2>1. \A z \in wire' : Asking(z)'
      BY <1>2, <1>3, <1>7, AskingKept DEF LaneOK
    <2>2. \A z \in mail \cup {m} : Corr(z)'
      <3>1. Corr(m)
        BY <1>2, <1>12 DEF Asking, Corr
      <3> QED BY <1>3, <1>7, <3>1, CorrKept DEF LaneOK
    <2>3. \A x \in Seen : x.req.dev \in Devices
      BY <1>3 DEF SeenOK, Presents, Reqs, Bodies
    <2>4. ASSUME NEW z \in mail, z.corr[2] = "device" PROVE DeviceTold(z)'
      <3>1. DeviceTold(z)
        BY <1>3, <2>4 DEF LaneOK
      <3> QED BY <1>2, <1>4, <1>6, <2>3, <3>1 DEF DeviceTold
    <2>5. ASSUME m.corr[2] = "device" PROVE DeviceTold(m)'
      <3>1. PICK d \in Devices : /\ w.q = Get(DeviceKey(d))
                                 /\ \/ m.status = "ok" /\ m.val = led[DeviceKey(d)]
                                    \/ m.status = "unavailable"
        BY <1>2, <2>5 DEF Looks
      <3>2. \A x \in Seen : x.id = m.corr[1] => x.req.dev = d
        <4>1. \A x \in Seen : x.id = m.corr[1] => w.q = Question(x.req, "device")
          BY <1>2, <1>12, <2>5 DEF Asking
        <4>2. \A b : Question(b, "device") = Get(DeviceKey(b.dev))
          BY DEF Question
        <4>3. \A k : Get(k).key = k
          BY DEF Get
        <4>4. \A x \in Seen : x.id = m.corr[1] => DeviceKey(x.req.dev) = DeviceKey(d)
          BY <3>1, <4>1, <4>2, <4>3
        <4> QED BY <4>4, KeysDiffer
      <3>3. /\ led[DeviceKey(d)] \in {Device(FALSE), Device(TRUE)}
            /\ led[DeviceKey(d)] = Device(FALSE) => gone[d] = MaxReqs + 1
        BY <1>3 DEF TypeOK
      <3>4. \A x \in Seen : x.id \in Nat /\ x.id < MaxReqs + 1
        BY <1>3, AdBounds DEF TypeOK, SeenOK, Presents
      <3>5. ASSUME m.status = "ok", NEW x \in Seen, x.id = m.corr[1]
            PROVE  IF m.val = Device(TRUE) THEN led[DeviceKey(x.req.dev)] = Device(TRUE)
                                           ELSE x.id < gone[x.req.dev]
        <4>1. x.req.dev = d /\ m.val = led[DeviceKey(d)]
          BY <3>1, <3>2, <3>5
        <4> QED BY <3>3, <3>4, <4>1
      <3>6. DeviceTold(m)
        BY <3>1, <3>3, <3>5 DEF DeviceTold
      <3> QED BY <1>2, <1>4, <1>6, <2>3, <3>6 DEF DeviceTold
    <2>6. ASSUME NEW x \in Pending, x.stage = "claim", NEW z \in wire' \cup mail'
          PROVE  z.corr # <<x.id, "device">>
      BY <1>2, <1>3, <2>6 DEF LaneOK
    <2> QED BY <1>2, <1>3, <1>5, <2>1, <2>2, <2>4, <2>5, <2>6 DEF LaneOK
  (* Whose claim it is.                                                    *)
  <1>14. ASSUME NEW p \in Proofs, w.q = PutIfAbsent(ReplayKey(p), Claim), w.corr[2] = "claim"
         PROVE  \A x \in Seen : x.id = w.corr[1] => x.req.proof = p
    <2>1. \A x \in Seen : x.id = w.corr[1] => w.q = Question(x.req, "claim")
      BY <1>12, <1>14 DEF Asking
    <2>2. \A b : Question(b, "claim") = PutIfAbsent(ReplayKey(b.proof), Claim)
      BY DEF Question
    <2>3. \A k : PutIfAbsent(k, Claim).key = k
      BY DEF PutIfAbsent
    <2>4. \A x \in Seen : x.id = w.corr[1] => ReplayKey(x.req.proof) = ReplayKey(p)
      BY <1>14, <2>1, <2>2, <2>3
    <2> QED BY <2>4, KeysDiffer
  <1>15. \A i, p : WonAtDoor(i, p)' => WonAtDoor(i, p)
    BY <1>5 DEF WonAtDoor
  <1>16. \A i, p : WonAtMint(i, p)' => WonAtMint(i, p)
    BY <1>2 DEF WonAtMint
  <1>17. ClaimsOK'
    <2>1. CASE ~(w.corr[2] = "claim" /\ m.status = "ok")
      <3>1. \A i, p : WonInSlot(i, p)' => WonInSlot(i, p)
        <4>1. ASSUME NEW i, NEW z \in mail', z.corr = <<i, "claim">>, z.status = "ok"
              PROVE  z \in mail
          <5>1. CASE z = m
            <6>1. m.corr[2] = "claim"
              BY <4>1, <5>1
            <6> QED BY <1>2, <2>1, <4>1, <5>1, <6>1
          <5> QED BY <1>2, <5>1
        <4> QED BY <1>5, <4>1 DEF WonInSlot
      <3>2. \A i, p : Won(i, p)' => Won(i, p)
        BY <1>2, <1>15, <1>16, <3>1 DEF Won
      <3> QED BY <1>3, <1>4, <3>2, ClaimsKept
    <2>2. CASE w.corr[2] = "claim" /\ m.status = "ok"
      <3>1. PICK p \in Proofs : /\ w.q = PutIfAbsent(ReplayKey(p), Claim)
                                /\ led[ReplayKey(p)] = Nothing
                                /\ led' = [led EXCEPT ![ReplayKey(p)] = Claim]
        BY <1>2, <2>2 DEF Claims
      <3>2. PICK n : n = w.corr[1]
        OBVIOUS
      <3>3. \A x \in Seen : x.id = n => x.req.proof = p
        BY <1>14, <2>2, <3>1, <3>2
      <3>4. \A i, q : Won(i, q)' => Won(i, q) \/ (i = n /\ q = p)
        <4>1. ASSUME NEW i, NEW q, WonInSlot(i, q)' PROVE WonInSlot(i, q) \/ (i = n /\ q = p)
          <5>1. PICK x \in Pending :
                  /\ x.id = i /\ x.req.proof = q
                  /\ x.stage # "claim" \/ \E z \in mail' : z.corr = <<i, "claim">> /\ z.status = "ok"
            BY <1>5, <4>1 DEF WonInSlot
          <5>2. CASE x.stage # "claim" \/ \E z \in mail : z.corr = <<i, "claim">> /\ z.status = "ok"
            BY <5>1, <5>2 DEF WonInSlot
          <5>3. CASE m.corr = <<i, "claim">>
            <6>1. i = n
              BY <1>2, <3>2, <5>3
            <6>2. x \in Seen
              BY DEF Seen
            <6> QED BY <3>3, <5>1, <6>1, <6>2
          <5> QED BY <1>2, <5>1, <5>2, <5>3
        <4> QED BY <1>2, <1>15, <1>16, <4>1 DEF Won
      <3>5. \A i : ~Won(i, p)
        BY <1>3, <3>1, KeysDiffer DEF ClaimsOK
      <3>6. led'[ReplayKey(p)] = Claim
        BY <1>3, <3>1, KeysDiffer DEF TypeOK
      <3>7. ASSUME NEW i, NEW q, Won(i, q)' PROVE q \in Proofs /\ led'[ReplayKey(q)] = Claim
        BY <1>3, <1>4, <3>4, <3>6, <3>7 DEF ClaimsOK
      <3>8. ASSUME NEW i, NEW j, NEW q, Won(i, q)', Won(j, q)' PROVE i = j
        BY <1>3, <3>4, <3>5, <3>8 DEF ClaimsOK
      <3> QED BY <3>7, <3>8 DEF ClaimsOK
    <2> QED BY <2>1, <2>2
  <1>18. MintsOK'
    <2>1. /\ \A l \in {"mint", "grant"} : On(calls'[l]) \subseteq On(calls[l])
          /\ \A l \in {"mint", "grant"} : \A r \in On(replies'[l]) : IsNews(r) \/ r \in On(replies[l])
      BY <1>2
    <2> QED BY <1>2, <1>3, <1>7, <2>1, MintsKept
  <1>19. SignedOK'
    BY <1>2, <1>3, <1>7, SignedKept
  <1>20. VerdictsOK'
    BY <1>2, <1>3, <1>5 DEF VerdictsOK, TokenFor
  <1>21. IInv'
    BY <1>8, <1>9, <1>10, <1>11, <1>13, <1>17, <1>18, <1>19, <1>20 DEF IInv
  <1>22. ASSUME RInv PROVE RInv'
    <2>1. AllPresent /\ UsedOK /\ BlameOK
      BY <1>22 DEF RInv
    <2>2. \A p \in window' : \E i \in 1 .. next' - 1 : Offers(i, p)'
      <3> SUFFICES ASSUME NEW p \in window PROVE \E i \in 1 .. next' - 1 : Offers(i, p)'
        BY <1>2
      <3>1. PICK i \in 1 .. next - 1 : Offers(i, p)
        BY <2>1 DEF UsedOK
      <3> QED BY <1>3, <1>7, <3>1, OffersKept
    (* The claim's own request offers its proof.                           *)
    <2>3. ASSUME w.corr[2] = "claim", NEW p \in Proofs, w.q = PutIfAbsent(ReplayKey(p), Claim)
          PROVE  /\ w.corr[1] \in 1 .. next - 1 /\ Offers(w.corr[1], p)
                 /\ w.corr = <<w.corr[1], "claim">>
                 /\ \A z \in wire' : z.corr # <<w.corr[1], "claim">>
      <3>1. /\ w.corr = <<w.corr[1], "claim">> /\ w.corr[1] \in Nat /\ 1 <= w.corr[1]
            /\ w.corr[1] < next /\ next \in Nat
        BY <1>3, <1>12, <2>3 DEF Asking, Corr, TypeOK
      <3>2. w.corr[1] \in 1 .. next - 1
        BY <3>1
      <3>3. \A c \in Sent : c.id # w.corr[1]
        BY <1>2, <1>3 DEF TableOK
      <3>4. \A z \in wire' : z.corr # w.corr
        BY <1>2, <1>3 DEF LaneOK
      <3> QED BY <1>14, <2>3, <3>1, <3>2, <3>3, <3>4 DEF Offers, ProofOf
    <2>4. ASSUME NEW p \in Proofs, led'[ReplayKey(p)] = Claim
          PROVE  \E i \in 1 .. next' - 1 : Offers(i, p)' /\ \A z \in wire' : z.corr # <<i, "claim">>
      <3>1. PICK i \in 1 .. next - 1 : Offers(i, p) /\ \A z \in wire' : z.corr # <<i, "claim">>
        <4>1. CASE led[ReplayKey(p)] = Claim
          <5>1. wire' \subseteq wire
            BY <1>2
          <5> QED BY <2>1, <4>1, <5>1 DEF UsedOK
        <4>2. CASE led[ReplayKey(p)] # Claim
          <5>1. PICK q \in Proofs : /\ w.q = PutIfAbsent(ReplayKey(q), Claim) /\ w.corr[2] = "claim"
                                    /\ led' = [led EXCEPT ![ReplayKey(q)] = Claim]
            BY <1>2, <2>4, <4>2 DEF Claims, Looks
          <5>2. q = p
            BY <1>3, <2>4, <4>2, <5>1, KeysDiffer DEF TypeOK
          <5> QED BY <2>3, <5>1, <5>2
        <4> QED BY <4>1, <4>2
      <3>2. Offers(i, p)' /\ i \in 1 .. next' - 1
        BY <1>3, <1>7, <3>1, OffersKept
      <3> QED BY <3>1, <3>2
    <2>5. ASSUME NEW z \in mail', z.corr[2] = "claim" /\ z.status = "conflict"
          PROVE  \E p \in Proofs : ProofOf(z.corr[1], p)'
                     /\ \E i \in 1 .. next' - 1 : i # z.corr[1] /\ ProofOf(i, p)'
      <3>1. PICK p \in Proofs : ProofOf(z.corr[1], p)
               /\ \E i \in 1 .. next - 1 : i # z.corr[1] /\ ProofOf(i, p)
        <4>1. CASE z \in mail
          BY <2>1, <2>5, <4>1 DEF UsedOK
        <4>2. CASE z = m
          <5>1. PICK p \in Proofs : /\ w.q = PutIfAbsent(ReplayKey(p), Claim)
                                    /\ led[ReplayKey(p)] # Nothing
            BY <1>2, <2>5, <4>2 DEF Claims
          <5>2. led[ReplayKey(p)] = Claim
            BY <1>3, <5>1 DEF TypeOK
          <5>3. PICK i \in 1 .. next - 1 : Offers(i, p) /\ \A y \in wire : y.corr # <<i, "claim">>
            BY <2>1, <5>2 DEF UsedOK
          <5>4. w.corr[2] = "claim" /\ z.corr = w.corr
            BY <1>2, <2>5, <4>2
          <5>5. Offers(w.corr[1], p) /\ w.corr = <<w.corr[1], "claim">>
            BY <2>3, <5>1, <5>4
          <5>6. i # w.corr[1]
            BY <1>2, <5>3, <5>5
          <5> QED BY <5>3, <5>4, <5>5, <5>6 DEF Offers
        <4> QED BY <1>2, <4>1, <4>2
      <3>2. PICK i \in 1 .. next - 1 : i # z.corr[1] /\ ProofOf(i, p)
        BY <3>1
      <3>3. ProofOf(z.corr[1], p)' /\ ProofOf(i, p)' /\ i \in 1 .. next' - 1
        BY <1>3, <1>7, <3>1, <3>2, ProofOfKept
      <3> QED BY <3>2, <3>3
    <2>6. UsedOK'
      BY <2>2, <2>4, <2>5 DEF UsedOK
    <2>7. BlameOK'
      <3>1. \A r \in Seen : r.req.dev \in Devices
        BY <1>3 DEF SeenOK, Presents, Reqs, Bodies
      <3>2. \A r \in Told \cup Ended : Blamed(r) => Blamed(r)'
        BY <1>3, <1>4, <1>7, <3>1, BlamedKept DEF Seen
      <3> QED BY <1>5, <2>1, <3>2 DEF BlameOK
    <2>8. AllPresent'
      BY <1>2, <1>5, <2>1 DEF AllPresent, Home
    <2> QED BY <2>6, <2>7, <2>8 DEF RInv
  <1> QED BY <1>21, <1>22 DEF Keeps

LEMMA RevokeKeeps == ASSUME IInv, NEW d, Revoke(d), UNCHANGED token PROVE Keeps
  <1>1. /\ TypeOK /\ SeenOK /\ DoorsOK /\ TableOK /\ LaneOK /\ ClaimsOK /\ MintsOK /\ SignedOK
        /\ VerdictsOK
    BY DEF IInv
  <1>2. d \in Devices
    BY <1>1, AdScenarios DEF TypeOK, Revoke
  <1>3. PICK key : key = DeviceKey(d)
    OBVIOUS
  <1>4. /\ led' = [led EXCEPT ![key] = Device(TRUE)] /\ gone' = [gone EXCEPT ![d] = next]
        /\ UNCHANGED <<scn, wire, mail, pend, outq, next, answers, window, calls, replies, signed,
                       desk, http, lost>>
    BY <1>3 DEF Revoke, slots, links, token
  <1>5. key \in Keys /\ \A p : ReplayKey(p) # key
    BY <1>2, <1>3, KeysDiffer
  <1>6. /\ led' = [x \in Keys |-> led'[x]]
        /\ \A x \in Keys : led'[x] = IF x = key THEN Device(TRUE) ELSE led[x]
        /\ gone' = [c \in Devices |-> gone'[c]]
        /\ \A c \in Devices : gone'[c] = IF c = d THEN next ELSE gone[c]
    BY <1>1, <1>2, <1>4, <1>5 DEF TypeOK
  <1>7. /\ \A p \in Proofs : led'[ReplayKey(p)] = led[ReplayKey(p)]
        /\ \A c \in Devices : led'[DeviceKey(c)] = IF c = d THEN Device(TRUE)
                                                            ELSE led[DeviceKey(c)]
    BY <1>2, <1>3, <1>5, <1>6, KeysDiffer
  <1>8. next \in Nat /\ \A c \in Devices, i \in Nat : i < next /\ i < gone[c] => i < gone'[c]
    BY <1>1, <1>6 DEF TypeOK
  <1>9. /\ Live' = Live /\ Pending' = Pending /\ Ended' = Ended /\ Desk' = Desk /\ Told' = Told
        /\ Sent' = Sent
    BY <1>4, PartsAlike
  <1>10. Seen' = Seen
    BY <1>9 DEF Seen
  <1>11. Carries /\ SentKept
    BY <1>1, <1>4, <1>9, <1>10, StaysCarried DEF TypeOK, SentKept
  <1>12. SeenOK'
    BY <1>1, <1>11, CarriesOver
  <1>13. \A x \in Seen : x.req.dev \in Devices /\ x.id \in Nat /\ x.id < next
    BY <1>1 DEF SeenOK, Presents, Reqs, Bodies
  <1>14. TypeOK'
    <2>1. IsPort(http)' /\ IsPort(outq)' /\ PortsOK(calls)' /\ PortsOK(replies)'
      BY <1>1, <1>4 DEF TypeOK, PortsOK
    <2>2. \A p \in Proofs : led'[ReplayKey(p)] \in {Nothing, Claim}
      BY <1>1, <1>7 DEF TypeOK
    <2>3. ASSUME NEW c \in Devices
          PROVE  /\ led'[DeviceKey(c)] \in {Device(FALSE), Device(TRUE)}
                 /\ gone'[c] \in Nat
                 /\ led'[DeviceKey(c)] = Device(FALSE) => gone'[c] = MaxReqs + 1
      <3>1. CASE c = d
        BY <1>6, <1>7, <1>8, <3>1, KeysDiffer
      <3>2. CASE c # d
        BY <1>1, <1>6, <1>7, <3>2 DEF TypeOK
      <3> QED BY <3>1, <3>2
    <2> QED BY <1>1, <1>4, <1>6, <2>1, <2>2, <2>3 DEF TypeOK
  <1>15. DoorsOK' /\ TableOK'
    BY <1>1, <1>4, <1>9 DEF DoorsOK, TableOK
  <1>16. LaneOK'
    <2>1. \A z \in wire' : Asking(z)'
      BY <1>1, <1>4, <1>11, AskingKept DEF LaneOK
    <2>2. \A z \in mail' : Corr(z)'
      BY <1>1, <1>4, <1>11, CorrKept DEF LaneOK
    <2>3. ASSUME NEW z \in mail, z.corr[2] = "device" PROVE DeviceTold(z)'
      <3>1. DeviceTold(z)
        BY <1>1, <2>3 DEF LaneOK
      <3>2. ASSUME z.status = "ok", NEW x \in Seen, x.id = z.corr[1]
            PROVE  IF z.val = Device(TRUE) THEN led'[DeviceKey(x.req.dev)] = Device(TRUE)
                                           ELSE x.id < gone'[x.req.dev]
        BY <1>7, <1>8, <1>13, <3>1, <3>2 DEF DeviceTold
      <3> QED BY <1>10, <3>1, <3>2 DEF DeviceTold
    <2> QED BY <1>1, <1>4, <1>9, <2>1, <2>2, <2>3 DEF LaneOK
  <1>17. ClaimsOK'
    <2>1. \A i, p : Won(i, p)' => Won(i, p)
      BY <1>4, <1>9 DEF Won, WonInSlot, WonAtDoor, WonAtMint
    <2> QED BY <1>1, <1>7, <2>1, ClaimsKept
  <1>18. MintsOK'
    <2>1. ASSUME NEW c, CallOK(c) PROVE CallOK(c)'
      <3>1. c.facts.sub \in Devices
        BY <2>1 DEF CallOK, Facts, Established, Reqs, Bodies
      <3> QED BY <1>4, <1>8, <1>10, <2>1, <3>1 DEF CallOK
    <2>2. ASSUME NEW r, ReplyOK(r) PROVE ReplyOK(r)'
      BY <1>4, <1>10, <2>2 DEF ReplyOK, TokenFor
    <2> QED BY <1>1, <1>4, <2>1, <2>2 DEF MintsOK
  <1>19. SignedOK'
    BY <1>1, <1>4, <1>8 DEF SignedOK
  <1>20. VerdictsOK'
    <2>1. ASSUME NEW r \in Told, r.status = "ok"
          PROVE  IF r.req.via = "http" THEN r.body = Facts(r.req) /\ r.id < gone'[r.req.dev]
                                       ELSE TokenFor(r.body, r)
      <3>1. r \in Seen
        BY DEF Seen
      <3> QED BY <1>1, <1>8, <1>13, <2>1, <3>1 DEF VerdictsOK
    <2> QED BY <1>1, <1>9, <2>1 DEF VerdictsOK, TokenFor
  <1>21. IInv'
    BY <1>12, <1>14, <1>15, <1>16, <1>17, <1>18, <1>19, <1>20 DEF IInv
  <1>22. ASSUME RInv PROVE RInv'
    <2>1. AllPresent /\ UsedOK /\ BlameOK
      BY <1>22 DEF RInv
    <2>2. \A i, p : (ProofOf(i, p) => ProofOf(i, p)') /\ (Offers(i, p) => Offers(i, p)')
      BY <1>4, <1>9, <1>10 DEF Offers, ProofOf
    <2>3. UsedOK'
      BY <1>4, <1>7, <2>1, <2>2, ZenonT(40) DEF UsedOK
    <2>4. BlameOK'
      <3>1. \A r \in Told \cup Ended : Blamed(r) => Blamed(r)'
        BY <1>1, <1>7, <1>11, <1>13, BlamedKept DEF Seen
      <3> QED BY <1>9, <2>1, <3>1 DEF BlameOK
    <2>5. AllPresent'
      BY <1>4, <1>9, <2>1 DEF AllPresent, Home
    <2> QED BY <2>3, <2>4, <2>5 DEF RInv
  <1> QED BY <1>21, <1>22 DEF Keeps

(***************************************************************************)
(* The two invariants.                                                     *)
(***************************************************************************)
LEMMA StutterKeeps == ASSUME IInv, UNCHANGED vars PROVE Keeps
  <1>1. UNCHANGED <<scn, led, wire, mail, pend, outq, next, answers, window, calls, replies, signed,
                    gone, desk, http, lost>>
    BY DEF vars, frame, lane, slots, links, world, token
  <1>2. /\ Live' = Live /\ Pending' = Pending /\ Ended' = Ended /\ Desk' = Desk /\ Told' = Told
        /\ Sent' = Sent /\ TypeOK /\ QuietLinks
    BY <1>1, PartsAlike, LinksAlike DEF IInv
  <1>3. Carries
    BY <1>1, <1>2, StaysCarried DEF Seen, TypeOK
  <1>4. Recedes
    BY <1>1, <1>2, <1>3, QuietRecedes DEF TypeOK
  <1>5. Deserved
    BY <1>2 DEF Deserved
  <1>6. ASSUME AllPresent PROVE AllPresent'
    BY <1>1, <1>2, <1>6 DEF AllPresent, Home
  <1>7. Stays
    BY <1>1, <1>5, <1>6 DEF Stays, RInv, Remembers
  <1> QED BY <1>4, <1>7, RecedesKeeps

LEMMA NextKeeps == IInv /\ [Next]_vars => Keeps
  <1> SUFFICES ASSUME IInv, [Next]_vars PROVE Keeps
    OBVIOUS
  <1>1. CASE TakeAdmit /\ UNCHANGED token
    BY <1>1, TakeAdmitKeeps
  <1>2. CASE OnGrantMint /\ UNCHANGED token
    BY <1>2, OnGrantMintStays, RecedesKeeps
  <1>3. CASE FailGrants /\ UNCHANGED token
    BY <1>3, FailGrantsStays, RecedesKeeps
  <1>4. CASE ReadGrant /\ UNCHANGED token
    BY <1>4, ReadGrantStays, RecedesKeeps
  <1>5. ASSUME NEW m \in mail, Ignore(m), UNCHANGED token PROVE Keeps
    BY <1>5, IgnoreStays, RecedesKeeps
  <1>6. ASSUME NEW m \in mail, NEW k \in Slots, OnLedger(m, k), UNCHANGED token PROVE Keeps
    BY <1>6, OnLedgerKeeps
  <1>7. ASSUME NEW l \in LinkNames, Mint(l), UNCHANGED token PROVE Keeps
    BY <1>7, MintKeeps
  <1>8. ASSUME NEW l \in LinkNames, Discard(l), UNCHANGED token PROVE Keeps
    BY <1>8, DiscardStays, RecedesKeeps
  <1>9. CASE Ledger /\ UNCHANGED token
    BY <1>9, LedgerKeeps
  <1>10. CASE OnAdmit
    BY <1>10, OnAdmitKeeps
  <1>11. CASE OnMint
    BY <1>11, OnMintStays, RecedesKeeps
  <1>12. CASE ReadHttp
    BY <1>12, ReadHttpStays, RecedesKeeps
  <1>13. ASSUME NEW k \in Slots, FailDowned(k) PROVE Keeps
    BY <1>13, FailDownedStays, RecedesKeeps
  <1>14. CASE TakeGrant /\ UNCHANGED token
    BY <1>14, TakeGrantKeeps
  <1>15. ASSUME NEW l \in LinkNames, LinkDown(l), UNCHANGED token PROVE Keeps
    BY <1>15, LinkDownStays, RecedesKeeps
  <1>16. ASSUME NEW l \in LinkNames, LinkUp(l), UNCHANGED token PROVE Keeps
    BY <1>16, LinkUpStays, RecedesKeeps
  <1>17. ASSUME NEW d \in Devices, Revoke(d), UNCHANGED token PROVE Keeps
    BY <1>17, RevokeKeeps
  <1>18. CASE TakeHttp
    BY <1>18, TakeHttpStays, RecedesKeeps
  <1>19. CASE Restart
    BY <1>19, RestartStays, RecedesKeeps
  <1>20. CASE UNCHANGED vars
    BY <1>20, StutterKeeps
  <1>21. CASE AdmissionWorks /\ UNCHANGED token
    BY <1>1, <1>2, <1>3, <1>4, <1>5, <1>6, <1>7, <1>8, <1>9, <1>21 DEF AdmissionWorks
  <1>22. CASE EndpointWorks
    BY <1>10, <1>11, <1>12, <1>13, <1>22 DEF EndpointWorks
  <1>23. CASE Environment /\ UNCHANGED token
    BY <1>14, <1>15, <1>16, <1>17, <1>23 DEF Environment
  <1> QED BY <1>18, <1>19, <1>20, <1>21, <1>22, <1>23 DEF Next, Progress

LEMMA InitInv == Init => IInv /\ RInv
  <1> SUFFICES ASSUME Init PROVE IInv /\ RInv
    OBVIOUS
  <1>1. /\ scn \in Scenarios /\ answers = {} /\ next = 1 /\ wire = {} /\ mail = {} /\ outq = <<>>
        /\ led = [k \in Keys |-> IF k[1] = "device" THEN Device(FALSE) ELSE Nothing]
        /\ pend = [k \in Slots |-> Free] /\ desk = [k \in Slots |-> Free]
        /\ window = {} /\ signed = {} /\ gone = [d \in Devices |-> MaxReqs + 1]
        /\ calls = [l \in LinkNames |-> <<>>] /\ replies = [l \in LinkNames |-> <<>>]
        /\ http = <<>> /\ lost = {}
    BY DEF Init, AdmissionInit, FrameInit
  <1>2. IsPort(<<>>) /\ On(<<>>) = {}
    BY EmptyPort
  <1>3. Live = {} /\ Pending = {} /\ Desk = {} /\ Told = {} /\ Ended = {}
    BY <1>1, <1>2 DEF Live, Pending, Seated, Desk, Told, Ended, Free
  <1>4. \A l \in LinkNames : calls[l] = <<>> /\ replies[l] = <<>>
    BY <1>1
  <1>5. PortsOK(calls) /\ PortsOK(replies) /\ \A l \in LinkNames : On(calls[l]) = {}
                                                                /\ On(replies[l]) = {}
    BY <1>1, <1>2, <1>4 DEF PortsOK
  <1>6. Sent = {} /\ calls["admit"] = <<>>
    BY <1>4, <1>5 DEF Sent, LinkNames
  <1>7. Seen = {}
    BY <1>3, <1>6 DEF Seen
  <1>8. /\ \A p \in Proofs : led[ReplayKey(p)] = Nothing
        /\ \A d \in Devices : led[DeviceKey(d)] = Device(FALSE)
    <2>1. \A p : ReplayKey(p)[1] # "device"
      BY DEF ReplayKey
    <2>2. \A d : DeviceKey(d)[1] = "device"
      BY DEF DeviceKey
    <2>3. \A k \in Keys : led[k] = IF k[1] = "device" THEN Device(FALSE) ELSE Nothing
      BY <1>1
    <2> QED BY <2>1, <2>2, <2>3, KeysDiffer
  <1>9. TypeOK
    <2>1. led = [k \in Keys |-> led[k]]
      BY <1>1
    <2>2. \A d \in Devices : gone[d] = MaxReqs + 1
      BY <1>1
    <2>3. gone = [d \in Devices |-> gone[d]]
      BY <1>1
    <2>4. /\ next \in Nat /\ 1 <= next /\ next <= MaxReqs + 1 /\ MaxReqs + 1 \in Nat
          /\ window \subseteq Proofs
      BY <1>1, AdBounds
    <2>5. pend = [k \in Slots |-> pend[k]] /\ desk = [k \in Slots |-> desk[k]]
      BY <1>1
    <2>6. IsPort(outq) /\ IsPort(http)
      BY <1>1, <1>2
    <2>7. /\ \A p \in Proofs : led[ReplayKey(p)] \in {Nothing, Claim}
          /\ \A d \in Devices : led[DeviceKey(d)] \in {Device(FALSE), Device(TRUE)}
          /\ \A d \in Devices : gone[d] \in Nat /\ gone[d] = MaxReqs + 1
      BY <1>8, <2>2, <2>4
    <2> QED BY <1>1, <1>5, <2>1, <2>3, <2>4, <2>5, <2>6, <2>7 DEF TypeOK
  <1>10. SeenOK /\ DoorsOK /\ TableOK /\ LaneOK
    BY <1>1, <1>3, <1>6, <1>7 DEF SeenOK, DoorsOK, TableOK, LaneOK
  <1>11. \A i, p : ~Won(i, p)
    BY <1>1, <1>3, <1>5 DEF Won, WonInSlot, WonAtDoor, WonAtMint, LinkNames
  <1>12. ClaimsOK /\ SignedOK /\ VerdictsOK
    BY <1>1, <1>3, <1>11 DEF ClaimsOK, SignedOK, VerdictsOK
  <1>13. MintsOK
    BY <1>5 DEF MintsOK, LinkNames
  <1>14. AllPresent
    BY <1>1 DEF AllPresent
  <1>15. UsedOK
    BY <1>1, <1>8, KeysDiffer DEF UsedOK
  <1>16. BlameOK
    BY <1>3 DEF BlameOK
  <1> QED BY <1>9, <1>10, <1>12, <1>13, <1>14, <1>15, <1>16 DEF IInv, RInv

LEMMA SpecInv == Spec => []IInv
  <1>1. Init => IInv
    BY InitInv
  <1>2. IInv /\ [Next]_vars => IInv'
    BY NextKeeps DEF Keeps
  <1> QED BY <1>1, <1>2, PTL DEF Spec

(* One proof earns one token, however often it is presented and to which   *)
(* door, and no token is signed for a device that was revoked before the   *)
(* request was presented (claim_replay; drain_state's revocation check).   *)
THEOREM OneTokenAProof == Spec => []TokensAreAdmitted
  <1>1. IInv => TokensAreAdmitted
    <2> SUFFICES ASSUME IInv, NEW t \in signed
                 PROVE  /\ t.id < gone[t.sub]
                        /\ \A u \in signed : t.proof = u.proof => t.id = u.id
      BY DEF TokensAreAdmitted
    <2>1. t.id < gone[t.sub]
      BY DEF IInv, SignedOK
    <2>2. \A u \in signed : Won(u.id, u.proof)
      BY DEF Won
    <2> QED BY <2>1, <2>2 DEF IInv, ClaimsOK
  <1> QED BY <1>1, SpecInv, PTL

(* What a caller is handed is the token signed for its own request and its *)
(* own device, whatever came late to which slot (drain_mint_replies and    *)
(* drain_mint correlate by id).                                            *)
THEOREM AnswersCarryTheirToken == Spec => []TokenIsItsCallers
  <1>1. IInv => TokenIsItsCallers
    BY DEF IInv, VerdictsOK, TokenFor, TokenIsItsCallers, Ended
  <1> QED BY <1>1, SpecInv, PTL

(* A refusal that names the presenter is deserved, until a restart forgets *)
(* who presented what, but for a window that others' proofs fill           *)
(* (drain_admit: "NOT refusals of the presenter"; handle: offer).          *)
THEOREM RefusalIsDeserved == Spec => []RefusalIsOfThePresenter
  <1>1. IInv /\ RInv => RefusalIsOfThePresenter
    <2> SUFFICES ASSUME IInv, RInv, NEW a \in answers, a.status \in {"401", "replay"}
                 PROVE  \/ a.req.wrong # "none" \/ a.req.otp = "wrong"
                        \/ led[DeviceKey(a.req.dev)].revoked
                        \/ \E r \in Presented : r.id # a.id /\ r.req.proof = a.req.proof
                        \/ Crowded(a)
                        \/ lost # {}
      BY DEF RefusalIsOfThePresenter
    <2>1. Blamed(a)
      BY DEF RInv, BlameOK, Ended
    <2>2. CASE led[DeviceKey(a.req.dev)] = Device(TRUE)
      BY <2>2 DEF Device
    <2>3. ASSUME lost = {}, NEW p, NEW i \in 1 .. next - 1, i # a.id, ProofOf(i, p)
          PROVE  \E r \in Presented : r.id # a.id /\ r.req.proof = p
      <3>1. PICK x \in Desk \cup Ended \cup Pending \cup Told : x.id = i
        BY <2>3 DEF RInv, AllPresent, Home
      <3>2. x \in Seen /\ x \in Presented
        BY <3>1 DEF Seen, Presented, Desk, Ended, Pending, Told, On
      <3>3. x.req.proof = p
        BY <2>3, <3>1, <3>2 DEF ProofOf
      <3> QED BY <2>3, <3>1, <3>2, <3>3
    <2>4. CASE Twin(a) /\ lost = {}
      BY <2>3, <2>4 DEF Twin
    <2>5. CASE Crowd(a) /\ lost = {}
      <3>1. PICK S : FilledBy(a, S)
        BY <2>5 DEF Crowd
      <3>2. \A p \in S : \E r \in Presented : r.id # a.id /\ r.req.proof = p
        BY <2>3, <2>5, <3>1 DEF FilledBy
      <3>3. PICK T : T = {r.req.proof : r \in {x \in Presented : x.id # a.id}}
        OBVIOUS
      <3>4. S \subseteq T
        BY <3>2, <3>3
      <3>5. IsFiniteSet(T)
        <4>1. Presented \subseteq Seen
          BY DEF Seen, Presented, Desk, Ended, Pending, Told, On
        <4>2. \A x \in Seen : x.req.proof \in Proofs
          BY DEF IInv, SeenOK, Presents, Reqs, Bodies, Proofs
        <4>3. T \subseteq 1 .. MaxReqs /\ MaxReqs \in Int /\ 1 \in Int
          BY <3>3, <4>1, <4>2, AdBounds DEF Proofs, Ids
        <4> QED BY <4>3, FS_Interval, FS_Subset
      <3>6. Cardinality(S) <= Cardinality(T) /\ IsFiniteSet(S)
        BY <3>4, <3>5, FS_Subset
      <3>7. /\ Cardinality(S) \in Nat /\ Cardinality(T) \in Nat /\ WindowSize \in Nat
            /\ Cardinality(S) >= WindowSize
        BY <3>1, <3>5, <3>6, FS_CardinalityType, AdBounds DEF FilledBy
      <3> QED BY <3>3, <3>6, <3>7 DEF Crowded
    <2> QED BY <2>1, <2>2, <2>4, <2>5 DEF Blamed
  <1>2. Init => IInv /\ RInv
    BY InitInv
  <1>3. IInv /\ RInv /\ [Next]_vars => (IInv /\ RInv)'
    BY NextKeeps DEF Keeps
  <1> QED BY <1>1, <1>2, <1>3, PTL DEF Spec
=============================================================================
