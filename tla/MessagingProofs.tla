-------------------------- MODULE MessagingProofs ---------------------------
(***************************************************************************)
(* For every number of exchanges, devices, packages and endpoints, and     *)
(* however records queue, are held or are aborted: a one-time package goes *)
(* to one claimer, the commits of an endpoint form one line, and a         *)
(* credential is what its own exchange asked for.                          *)
(***************************************************************************)
EXTENDS Messaging, WellFoundedInduction, TLAPS

(***************************************************************************)
(* Shapes.                                                                 *)
(***************************************************************************)
On(port)     == {port[n] : n \in DOMAIN port}
IsPort(port) == port \in Seq(On(port))

IsList(s, n) == s = [i \in 1 .. n |-> s[i]]

AskOK(a) ==
    /\ a.at \in Nat /\ a.at <= now
    /\ a.since \subseteq {x \in Xs : stage[x] = "answered"}
    /\ a.path = "publish" => a.gen \in Nat /\ a.until \in Nat
    /\ a.path = "commit" =>
          a.expected \in Nat /\ a.marker.epoch \in Nat /\ a.marker.gen \in Nat
    /\ a.path = "credential" => a.names \in DOMAIN dir

TypeOK ==
    /\ scn \in Scenarios /\ now \in Nat
    /\ Opened \in Nat /\ IsList(ask, Opened)
    /\ IsList(stage, Opened) /\ IsList(got, Opened) /\ IsList(was, Opened)
    /\ \A x \in Xs : AskOK(ask[x])
    /\ \A x \in Xs : stage[x] # "answered" => got[x] = [status |-> "none"]
    /\ DOMAIN dir = DOMAIN scn.dir

(***************************************************************************)
(* The edges to the endpoints.                                             *)
(***************************************************************************)
IsRec(r) == r.x \in Xs /\ \E kind \in {"head", "body", "abort"} : r = Rec(kind, r.x)

(* An exchange has one head.                                               *)
Distinct(port) ==
    \A m, n \in DOMAIN port : port[m].kind = "head" /\ port[m] = port[n] => m = n

IsLane(e) ==
    /\ IsPort(lanes[e]) /\ Distinct(lanes[e])
    /\ \A r \in On(lanes[e]) : IsRec(r) /\ (r.kind = "head" => Owner(ask[r.x]) = e)

EdgesOK ==
    /\ IsPort(requests) /\ Distinct(requests) /\ \A r \in On(requests) : IsRec(r)
    /\ \/ held = <<>>
       \/ /\ held = <<held[1], held[2]>> /\ IsRec(held[1]) /\ held[2] \in Lanes
          /\ held[1].kind = "head" => Owner(ask[held[1].x]) = held[2]
    /\ lanes = [e \in Lanes |-> lanes[e]] /\ collecting = [e \in Lanes |-> collecting[e]]
    /\ \A e \in Lanes : IsLane(e)
    /\ \A e \in Lanes : \A x \in collecting[e] : x \in Xs /\ Owner(ask[x]) = e
    /\ IsPort(routes) /\ \A r \in On(routes) : r.e \in Lanes

HeldIs(x)  == held # <<>> /\ held[1] = Rec("head", x)
InLane(x)  == \E e \in Lanes : Rec("head", x) \in On(lanes[e])
Collected(x) == \E e \in Lanes : x \in collecting[e]

(* A request that no endpoint has handled is in one place.                 *)
OnePlace ==
    \A x \in Xs :
        /\ Rec("head", x) \in On(requests) => ~HeldIs(x) /\ ~InLane(x) /\ ~Collected(x)
        /\ HeldIs(x) => ~InLane(x) /\ ~Collected(x)
        /\ InLane(x) => ~Collected(x)

Unhandled(x) == Rec("head", x) \in On(requests) \/ HeldIs(x) \/ InLane(x) \/ Collected(x)

(***************************************************************************)
(* The answers.                                                            *)
(***************************************************************************)
Answer(x, says) == [kind |-> "answer", x |-> x, says |-> says]

Sent == (UNION {On(outs[e]) : e \in Lanes}) \cup On(answer) \cup On(responses)

(* On their way or read.                                                   *)
Said == {r \in Sent : r.kind = "answer"}
        \cup {Answer(x, got[x]) : x \in {y \in Xs : stage[y] = "answered"}}

SentOK ==
    /\ outs = [e \in Lanes |-> outs[e]] /\ \A e \in Lanes : IsPort(outs[e])
    /\ IsPort(answer) /\ IsPort(responses) /\ turn \in 0 .. 2
    /\ \A r \in Sent : r.x \in Xs /\ (r = Rec("grant", r.x) \/ r = Answer(r.x, r.says))

(* A request is answered once.                                             *)
AnsweredOnce ==
    /\ \A a, b \in Said : a.x = b.x => a = b
    /\ \A a \in Said : ~Unhandled(a.x)
    /\ \A p \in pending : p.x \in Xs /\ ~Unhandled(p.x)
    /\ \A p \in pending, a \in Said : a.x # p.x
    /\ \A p, q \in pending : p.x = q.x \/ p.corr = q.corr => p = q

(***************************************************************************)
(* Packages.                                                               *)
(***************************************************************************)
(* A package is what was published, by a request that is over.             *)
IsPackage(p) ==
    /\ p.of \in Xs /\ ~Unhandled(p.of)
    /\ ask[p.of].path = "publish" /\ p = Package(p.of, ask[p.of])

IsPool(pool) ==
    /\ pool = [dev |-> pool.dev, gen |-> pool.gen, packages |-> pool.packages]
    /\ pool.gen \in Nat /\ pool.packages = [i \in 1 .. MaxPackages |-> pool.packages[i]]
    /\ \A i \in 1 .. MaxPackages :
          \/ pool.packages[i] = Spent
          \/ /\ IsPackage(pool.packages[i]) /\ ask[pool.packages[i].of].dev = pool.dev
             /\ pool.packages[i].gen = pool.gen

PoolsOK ==
    /\ IsPort(pools) /\ \A pool \in On(pools) : IsPool(pool)
    /\ \A m, n \in DOMAIN pools : pools[m].dev = pools[n].dev => m = n
    /\ \A m, n \in DOMAIN pools, i, j \in 1 .. MaxPackages :
          /\ pools[m].packages[i].live /\ pools[n].packages[j].live
          /\ pools[m].packages[i].of = pools[n].packages[j].of
          => m = n /\ i = j

Listed(a) == a.says.status = "published"
Claimed(a)    == a.says.status = "claimed"

PublishedOK(a) ==
    /\ ask[a.x].path = "publish"
    /\ \E n \in DOMAIN pools : pools[n].dev = ask[a.x].dev /\ ask[a.x].gen <= pools[n].gen

ClaimedOK(a) ==
    LET p == a.says.package IN
    /\ IsPackage(p) /\ ask[p.of].dev = ask[a.x].names /\ ask[a.x].at < p.until
    /\ p.once => \A n \in DOMAIN pools, i \in 1 .. MaxPackages :
                    pools[n].packages[i].live => pools[n].packages[i].of # p.of
    /\ \A y \in ask[a.x].since :
          got[y].status = "published" /\ ask[y].dev = ask[a.x].names => ask[y].gen <= p.gen

PackagesOK ==
    /\ PoolsOK
    /\ \A a \in Said : (Listed(a) => PublishedOK(a)) /\ (Claimed(a) => ClaimedOK(a))
    /\ \A a, b \in Said :
          Claimed(a) /\ Claimed(b) /\ a.x # b.x /\ a.says.package.once =>
              a.says.package.of # b.says.package.of

(***************************************************************************)
(* Ratchet states.                                                         *)
(***************************************************************************)
IsCommit(k) ==
    LET s == states[k] IN
    /\ s = [revision |-> s.revision, marker |-> s.marker, of |-> s.of, poisoned |-> s.poisoned]
    /\ s.of \in Xs /\ ~Unhandled(s.of) /\ ask[s.of].path = "commit" /\ ask[s.of].key = k
    /\ s.marker = ask[s.of].marker /\ s.revision = ask[s.of].expected + 1

Committed(a) == a.says.status = "committed"
Loaded(a)    == a.says.status = "loaded"
Stopped(a)   == a.says.status \in {"rolled_back", "poisoned"}

(* A commit is the one that stands, or the one that stands went past it.   *)
CommittedOK(a) ==
    LET k == ask[a.x].key IN
    /\ ask[a.x].path = "commit" /\ a.says.revision = ask[a.x].expected + 1
    /\ k \in DOMAIN states /\ a.says.revision <= states[k].revision
    /\ a.says.revision = states[k].revision => states[k].of = a.x
    /\ a.says.revision < states[k].revision => AdvancesOn(states[k].marker, ask[a.x].marker)

LoadedOK(a) ==
    LET k == ask[a.x].key IN
    \/ a.says.revision = 0
    \/ /\ k \in DOMAIN states /\ a.says.revision \in Nat
       /\ a.says.revision <= states[k].revision
       /\ a.says.revision = states[k].revision =>
             a.says.of = states[k].of /\ a.says.marker = states[k].marker

(* An answer that names a revision came after what had been answered.      *)
InLine(a) ==
    \A y \in ask[a.x].since :
        /\ got[y].status \in {"committed", "loaded"} /\ ask[y].key = ask[a.x].key =>
              got[y].revision <= a.says.revision
        /\ got[y].status \in {"rolled_back", "poisoned"} => ask[y].key # ask[a.x].key

(* No two answers tell of different lines.                                 *)
Agree(a, b) ==
    Committed(a) /\ (Committed(b) \/ Loaded(b)) /\ a.x # b.x /\ ask[a.x].key = ask[b.x].key =>
        /\ Committed(b) =>
              /\ a.says.revision # b.says.revision
              /\ a.says.revision < b.says.revision => AdvancesOn(ask[b.x].marker, ask[a.x].marker)
        /\ Loaded(b) /\ a.says.revision = b.says.revision =>
              b.says.of = a.x /\ b.says.marker = ask[a.x].marker

StatesOK ==
    /\ \A k \in DOMAIN states : IsCommit(k)
    /\ \A a \in Said :
          /\ "revision" \in DOMAIN a.says <=> Committed(a) \/ Loaded(a)
          /\ Committed(a) => CommittedOK(a) /\ InLine(a)
          /\ Loaded(a) => LoadedOK(a) /\ InLine(a)
          /\ Stopped(a) => ask[a.x].key \in DOMAIN states /\ states[ask[a.x].key].poisoned
    /\ \A a, b \in Said : Agree(a, b)

(***************************************************************************)
(* Credentials.                                                            *)
(***************************************************************************)
Issued(a) == a.says.status = "issued"

IssuedOK(a) ==
    /\ a.says.sub = ask[a.x].names /\ a.says.jwk = ask[a.x].proves /\ a.says.kid = a.says.by
    /\ \E r \in was[a.x] : r.status = "ok" /\ r.jkt = a.says.jwk /\ r.tid = a.says.tid

CredentialsOK ==
    /\ signing # 0 => kid = signing
    /\ nextCorr \in Nat /\ IsPort(lookups) /\ IsPort(found)
    /\ \A x \in Xs : ask[x].path = "credential" => dir[ask[x].names] \in was[x]
    /\ \A p \in pending :
          /\ p = [corr |-> p.corr, x |-> p.x, ask |-> ask[p.x]] /\ p.ask.path = "credential"
          /\ p.corr \in Nat /\ p.corr < nextCorr
    /\ \A l \in On(lookups) : l.corr \in Nat /\ l.corr < nextCorr
    /\ \A r \in On(found)   : r.corr \in Nat /\ r.corr < nextCorr
    /\ \A p \in pending, l \in On(lookups) : p.corr = l.corr => l.dev = p.ask.names
    /\ \A p \in pending, r \in On(found) :
          p.corr = r.corr /\ r.holds.status = "ok" => r.holds \in was[p.x]
    /\ \A a \in Said : Issued(a) => IssuedOK(a)

(***************************************************************************)
(* What no step takes back.                                                *)
(***************************************************************************)
Keeps ==
    /\ \A x \in Xs : x \in Xs' /\ ask'[x] = ask[x] /\ was[x] \subseteq was'[x]
    /\ \A x \in Xs : stage[x] = "answered" => stage'[x] = "answered" /\ got'[x] = got[x]
    /\ \A x \in Xs : Unhandled(x)' => Unhandled(x)

IInv ==
    /\ TypeOK /\ EdgesOK /\ OnePlace /\ SentOK /\ AnsweredOnce
    /\ PackagesOK /\ StatesOK /\ CredentialsOK
(***************************************************************************)
(* Sequences.                                                              *)
(***************************************************************************)
LEMMA EmptyPort == IsPort(<<>>) /\ On(<<>>) = {}
  BY DEF IsPort, On

LEMMA AppendPort ==
    ASSUME NEW port, NEW r, IsPort(port)
    PROVE  IsPort(Append(port, r)) /\ On(Append(port, r)) = On(port) \cup {r}
  <1> DEFINE p == Append(port, r)
  <1> USE DEF IsPort
  <1>1. port \in Seq(On(port) \cup {r})
    BY DEF On
  <1>2. /\ Len(p) = Len(port) + 1 /\ DOMAIN p = 1 .. Len(port) + 1
        /\ \A n \in 1 .. Len(port) : p[n] = port[n]
        /\ p[Len(port) + 1] = r
    BY <1>1
  <1>3. On(p) = On(port) \cup {r}
    BY <1>1, <1>2 DEF On
  <1>4. p \in Seq(On(port) \cup {r})
    BY <1>1
  <1> QED BY <1>3, <1>4

LEMMA PlacedPort ==
    ASSUME NEW port, NEW r, IsPort(port)
    PROVE  IsPort(Placed(port, r)) /\ On(Placed(port, r)) \subseteq On(port) \cup {r}
  <1>1. CASE Clears(port)
    BY <1>1, AppendPort DEF Placed
  <1>2. CASE ~Clears(port)
    <2> DEFINE p == [port EXCEPT ![Len(port)] = r]
    <2>1. port \in Seq(On(port)) /\ Len(port) \in Nat /\ DOMAIN port = 1 .. Len(port)
      BY DEF IsPort
    <2>2. /\ DOMAIN p = 1 .. Len(port) /\ p = [n \in 1 .. Len(port) |-> p[n]]
          /\ \A n \in 1 .. Len(port) : p[n] = IF n = Len(port) THEN r ELSE port[n]
      BY <2>1
    <2>3. On(p) \subseteq On(port) \cup {r}
      BY <2>1, <2>2 DEF On
    <2>4. \A n \in 1 .. Len(port) : p[n] \in On(p)
      BY <2>2 DEF On
    <2> HIDE DEF p
    <2>5. p \in Seq(On(p))
      BY <2>1, <2>2, <2>4
    <2> QED BY <1>2, <2>3, <2>5 DEF Placed, IsPort, p
  <1> QED BY <1>1, <1>2

LEMMA TailPort ==
    ASSUME NEW port, IsPort(port), port # <<>>
    PROVE  /\ IsPort(Tail(port)) /\ On(Tail(port)) \subseteq On(port)
           /\ Head(port) \in On(port)
  <1> DEFINE p == Tail(port)
  <1>1. port \in Seq(On(port)) /\ Len(port) \in Nat /\ Len(port) >= 1
    BY DEF IsPort
  <1>2. /\ p \in Seq(On(port)) /\ DOMAIN p = 1 .. Len(port) - 1
        /\ \A n \in 1 .. Len(port) - 1 : p[n] = port[n + 1]
    BY <1>1
  <1>3. On(p) \subseteq On(port)
    BY <1>1, <1>2 DEF On
  <1>4. \A n \in DOMAIN p : p[n] \in On(p)
    BY DEF On
  <1> HIDE DEF p
  <1>5. p \in Seq(On(p))
    BY <1>2, <1>4
  <1>6. Head(port) = port[1] /\ 1 \in DOMAIN port
    BY <1>1
  <1> QED BY <1>3, <1>5, <1>6 DEF IsPort, On, p

(* A record that was taken out of the middle.                              *)
LEMMA WithoutPort ==
    ASSUME NEW port, NEW n \in DOMAIN port, IsPort(port)
    PROVE  LET p == SubSeq(port, 1, n - 1) \o SubSeq(port, n + 1, Len(port))
           IN IsPort(p) /\ On(p) \subseteq On(port)
  <1> DEFINE N == Len(port)
             s == SubSeq(port, 1, n - 1)
             t == SubSeq(port, n + 1, N)
             p == s \o t
             S == On(port)
  <1>1. port \in Seq(S) /\ N \in Nat /\ DOMAIN port = 1 .. N /\ n \in 1 .. N
    BY DEF IsPort
  <1>2. \A i \in 1 .. N : port[i] \in S
    BY <1>1
  <1>3. s \in Seq(S) /\ t \in Seq(S)
    BY <1>1, <1>2
  <1>4. p \in Seq(S)
    BY <1>3
  <1> HIDE DEF p
  <1>5. On(p) \subseteq S /\ \A i \in DOMAIN p : p[i] \in On(p)
    BY <1>4 DEF On
  <1>6. p \in Seq(On(p))
    BY <1>4, <1>5
  <1> QED BY <1>5, <1>6 DEF IsPort, p

(* A list of n with one more.                                              *)
Extends(m, s, n, v) ==
    IsList(m, n + 1) /\ m[n + 1] = v /\ \A i \in 1 .. n : m[i] = s[i]

LEMMA AppendList ==
    ASSUME NEW s, NEW n \in Nat, NEW v, IsList(s, n)
    PROVE  Extends(Append(s, v), s, n, v)
  <1> DEFINE S == {s[i] : i \in 1 .. n} \cup {v}
  <1>1. \A i \in 1 .. n : s[i] \in S
    OBVIOUS
  <1>2. s \in Seq(S) /\ v \in S
    BY <1>1 DEF IsList
  <1>3. Len(s) = n
    BY <1>2 DEF IsList
  <1> HIDE DEF S
  <1> QED BY <1>2, <1>3 DEF IsList, Extends

(* A position of the tail is one further on in the whole.                  *)
LEMMA TailPlaces ==
    ASSUME NEW port, IsPort(port), port # <<>>
    PROVE  /\ Len(port) \in Nat /\ DOMAIN port = 1 .. Len(port)
           /\ DOMAIN Tail(port) = 1 .. Len(port) - 1 /\ Head(port) = port[1]
           /\ \A n \in 1 .. Len(port) - 1 : Tail(port)[n] = port[n + 1]
           /\ 1 \in DOMAIN port
  <1>1. port \in Seq(On(port)) /\ Len(port) >= 1
    BY DEF IsPort
  <1> QED BY <1>1

LEMMA TailDistinct ==
    ASSUME NEW port, IsPort(port), port # <<>>, Distinct(port)
    PROVE  Distinct(Tail(port)) /\ (Head(port).kind = "head" => Head(port) \notin On(Tail(port)))
  <1>1. Distinct(Tail(port))
    <2> SUFFICES ASSUME NEW m \in DOMAIN Tail(port), NEW n \in DOMAIN Tail(port),
                        Tail(port)[m].kind = "head", Tail(port)[m] = Tail(port)[n]
                 PROVE  m = n
      BY DEF Distinct
    <2>1. /\ m \in 1 .. Len(port) - 1 /\ n \in 1 .. Len(port) - 1 /\ Len(port) \in Nat
          /\ m + 1 \in DOMAIN port /\ n + 1 \in DOMAIN port
          /\ port[m + 1].kind = "head" /\ port[m + 1] = port[n + 1]
      BY TailPlaces
    <2>2. m + 1 = n + 1
      BY <2>1 DEF Distinct
    <2> QED BY <2>1, <2>2
  <1>2. ASSUME Head(port).kind = "head", Head(port) \in On(Tail(port))
        PROVE  FALSE
    <2>1. PICK n \in DOMAIN Tail(port) : Head(port) = Tail(port)[n]
      BY <1>2 DEF On
    <2>2. /\ n \in 1 .. Len(port) - 1 /\ Len(port) \in Nat /\ n + 1 \in DOMAIN port
          /\ 1 \in DOMAIN port /\ port[1] = port[n + 1] /\ port[1].kind = "head"
      BY <1>2, <2>1, TailPlaces
    <2>3. 1 = n + 1
      BY <2>2 DEF Distinct
    <2> QED BY <2>2, <2>3
  <1> QED BY <1>1, <1>2

LEMMA AppendDistinct ==
    ASSUME NEW port, NEW r, IsPort(port), Distinct(port), r.kind = "head" => r \notin On(port)
    PROVE  Distinct(Append(port, r))
  <1>1. /\ Len(port) \in Nat /\ DOMAIN port = 1 .. Len(port)
        /\ DOMAIN Append(port, r) = 1 .. Len(port) + 1
        /\ \A n \in 1 .. Len(port) : Append(port, r)[n] = port[n] /\ port[n] \in On(port)
        /\ Append(port, r)[Len(port) + 1] = r
    BY DEF IsPort, On
  <1> SUFFICES ASSUME NEW m \in 1 .. Len(port) + 1, NEW n \in 1 .. Len(port) + 1,
                      Append(port, r)[m].kind = "head", Append(port, r)[m] = Append(port, r)[n]
               PROVE  m = n
    BY <1>1 DEF Distinct
  <1>2. CASE m \in 1 .. Len(port) /\ n \in 1 .. Len(port)
    BY <1>1, <1>2 DEF Distinct
  <1>3. CASE m = Len(port) + 1 /\ n \in 1 .. Len(port)
    BY <1>1, <1>3
  <1>4. CASE n = Len(port) + 1 /\ m \in 1 .. Len(port)
    BY <1>1, <1>4
  <1> QED BY <1>1, <1>2, <1>3, <1>4

(***************************************************************************)
(* The edges.                                                              *)
(***************************************************************************)
LEMMA RecIs ==
    ASSUME NEW k, NEW x
    PROVE  Rec(k, x).kind = k /\ Rec(k, x).x = x
  BY DEF Rec

LEMMA LaneStays ==
    ASSUME NEW e, IsLane(e), lanes'[e] = lanes[e], ask' = ask
    PROVE  IsLane(e)'
  BY DEF IsLane, IsRec, Xs, Opened

(* What is carried does not change.                                        *)
LEMMA EdgesStay ==
    ASSUME EdgesOK, OnePlace, UNCHANGED <<ask, requests, held, lanes, collecting, routes>>
    PROVE  EdgesOK' /\ OnePlace' /\ \A x \in Xs : Unhandled(x)' => Unhandled(x)
  <1> USE DEF Xs, Opened
  <1>1. EdgesOK'
    <2>1. \A e \in Lanes : IsLane(e)'
      BY LaneStays DEF EdgesOK
    <2>2. Lanes' = Lanes
      BY DEF Lanes
    <2> QED BY <2>1, <2>2 DEF EdgesOK, IsRec
  <1>2. OnePlace'
    BY DEF OnePlace, HeldIs, InLane, Collected, On
  <1>3. \A x \in Xs : Unhandled(x)' => Unhandled(x)
    BY DEF Unhandled, HeldIs, InLane, Collected, On
  <1> QED BY <1>1, <1>2, <1>3

(* A record goes on to a lane or is held, from wherever it was.            *)
LEMMA Forwards ==
    ASSUME EdgesOK, OnePlace, UNCHANGED <<ask, collecting>>,
           NEW r, IsRec(r), NEW e \in Lanes, Forward(r, e),
           r.kind = "head" => /\ Owner(ask[r.x]) = e /\ r \notin On(requests')
                              /\ ~InLane(r.x) /\ ~Collected(r.x),
           held = <<>> \/ held[1] = r,
           IsPort(requests'), Distinct(requests'), On(requests') \subseteq On(requests),
           IsPort(routes'), \A t \in On(routes') : t.e \in Lanes
    PROVE  /\ EdgesOK' /\ OnePlace'
           /\ \A x \in Xs : Unhandled(x)' => Unhandled(x) \/ r = Rec("head", x)
  <1> USE DEF Xs, Opened
  <1>1. PICK kind \in {"head", "body", "abort"} : r = Rec(kind, r.x) /\ r.x \in Xs
    BY DEF IsRec
  <1>2. \A x : Rec("head", x) = r => r.kind = "head" /\ r.x = x
    BY <1>1, RecIs
  <1>3. CASE HasRoom(lanes[e])
    <2>1. /\ lanes' = [lanes EXCEPT ![e] = Append(lanes[e], r)] /\ held' = <<>>
          /\ lanes = [f \in Lanes |-> lanes[f]]
      BY <1>3 DEF Forward, EdgesOK
    <2>2. \A f \in Lanes : lanes'[f] = IF f = e THEN Append(lanes[e], r) ELSE lanes[f]
      BY <2>1
    <2>3. IsLane(e) /\ (r.kind = "head" => r \notin On(lanes[e]))
      <3>1. IsLane(e)
        BY DEF EdgesOK
      <3>2. r.kind = "head" => r = Rec("head", r.x)
        BY <1>1, RecIs
      <3> QED BY <3>1, <3>2 DEF InLane
    <2>4. /\ IsPort(lanes'[e]) /\ On(lanes'[e]) = On(lanes[e]) \cup {r}
          /\ Distinct(lanes'[e])
      BY <2>2, <2>3, AppendPort, AppendDistinct DEF IsLane
    <2>5. \A f \in Lanes : IsLane(f)'
      <3> SUFFICES ASSUME NEW f \in Lanes PROVE IsLane(f)'
        OBVIOUS
      <3>1. IsLane(f)
        BY DEF EdgesOK
      <3>2. CASE f = e
        BY <2>3, <2>4, <3>2 DEF IsLane, IsRec
      <3>3. CASE f # e
        <4>1. lanes'[f] = lanes[f]
          BY <2>2, <3>3
        <4> QED BY <3>1, <4>1 DEF IsLane, IsRec
      <3> QED BY <3>2, <3>3
    <2>6. EdgesOK'
      <3>1. lanes' = [f \in Lanes |-> lanes'[f]]
        BY <2>1
      <3>2. Lanes' = Lanes
        BY DEF Lanes
      <3> QED BY <2>1, <2>5, <3>1, <3>2 DEF EdgesOK, IsRec
    <2>7. \A x : InLane(x)' <=> InLane(x) \/ r = Rec("head", x)
      <3>1. \A f \in Lanes : On(lanes'[f]) = IF f = e THEN On(lanes[e]) \cup {r} ELSE On(lanes[f])
        BY <2>2, <2>4
      <3>2. \A x : InLane(x)' <=> \E f \in Lanes : Rec("head", x) \in On(lanes'[f])
        BY DEF InLane, Lanes, On
      <3> QED BY <3>1, <3>2 DEF InLane
    <2>8. \A x : ~HeldIs(x)' /\ (Collected(x)' <=> Collected(x))
      BY <2>1 DEF HeldIs, Collected, Lanes
    <2>9. OnePlace'
      <3> SUFFICES ASSUME NEW x \in Xs
                   PROVE  /\ Rec("head", x) \in On(requests') => ~InLane(x)' /\ ~Collected(x)'
                          /\ InLane(x)' => ~Collected(x)'
        BY <2>8 DEF OnePlace, On
      <3> QED BY <1>2, <2>7, <2>8 DEF OnePlace
    <2>10. \A x \in Xs : Unhandled(x)' => Unhandled(x) \/ r = Rec("head", x)
      BY <2>7, <2>8 DEF Unhandled, On
    <2> QED BY <2>6, <2>9, <2>10
  <1>4. CASE ~HasRoom(lanes[e])
    <2>1. held' = <<r, e>> /\ lanes' = lanes
      BY <1>4 DEF Forward
    <2>2. held'[1] = r /\ held'[2] = e /\ held' # <<>>
      BY <2>1
    <2>3. EdgesOK'
      <3>1. \A f \in Lanes : IsLane(f)'
        BY <2>1, LaneStays DEF EdgesOK
      <3>2. Lanes' = Lanes
        BY DEF Lanes
      <3> QED BY <2>1, <2>2, <3>1, <3>2 DEF EdgesOK, IsRec
    <2>4. \A x : /\ InLane(x)' <=> InLane(x)
                 /\ Collected(x)' <=> Collected(x)
                 /\ HeldIs(x)' <=> r = Rec("head", x)
      BY <2>1, <2>2 DEF InLane, Collected, HeldIs, Lanes, On
    <2>5. OnePlace'
      <3> SUFFICES ASSUME NEW x \in Xs
                   PROVE  /\ Rec("head", x) \in On(requests') =>
                                ~HeldIs(x)' /\ ~InLane(x)' /\ ~Collected(x)'
                          /\ HeldIs(x)' => ~InLane(x)' /\ ~Collected(x)'
                          /\ InLane(x)' => ~Collected(x)'
        BY DEF OnePlace, On
      <3> QED BY <1>2, <2>4 DEF OnePlace
    <2>6. \A x \in Xs : Unhandled(x)' => Unhandled(x) \/ r = Rec("head", x)
      BY <2>4 DEF Unhandled, On
    <2> QED BY <2>3, <2>5, <2>6
  <1> QED BY <1>3, <1>4

(* The listener sends what is not a head.                                  *)
LEMMA Follows ==
    ASSUME EdgesOK, OnePlace, UNCHANGED <<ask, held, lanes, collecting, routes>>,
           NEW r, IsRec(r), r.kind # "head", requests' = Append(requests, r)
    PROVE  EdgesOK' /\ OnePlace' /\ \A x \in Xs : Unhandled(x)' => Unhandled(x)
  <1> USE DEF Xs, Opened
  <1>1. /\ IsPort(requests') /\ On(requests') = On(requests) \cup {r} /\ Distinct(requests')
        /\ \A t \in On(requests') : IsRec(t)
    BY AppendPort, AppendDistinct DEF EdgesOK
  <1>2. EdgesOK'
    <2>1. \A e \in Lanes : IsLane(e)'
      BY LaneStays DEF EdgesOK
    <2>2. Lanes' = Lanes
      BY DEF Lanes
    <2> QED BY <1>1, <2>1, <2>2 DEF EdgesOK, IsRec
  <1>3. \A x : Rec("head", x) # r
    BY RecIs
  <1>4. \A x : /\ Rec("head", x) \in On(requests') <=> Rec("head", x) \in On(requests)
               /\ HeldIs(x)' <=> HeldIs(x)
               /\ InLane(x)' <=> InLane(x)
               /\ Collected(x)' <=> Collected(x)
    BY <1>1, <1>3 DEF HeldIs, InLane, Collected, Lanes, On
  <1>5. \A x : (Rec("head", x) \in On(requests))' <=> Rec("head", x) \in On(requests')
    BY DEF On
  <1> QED BY <1>2, <1>4, <1>5 DEF OnePlace, Unhandled

(* It opens an exchange.                                                   *)
LEMMA Opening ==
    ASSUME EdgesOK, OnePlace, NEW z, z = Opened + 1, Opened \in Nat, Opened' = z,
           \A x \in Xs : ask'[x] = ask[x],
           UNCHANGED <<held, lanes, collecting, routes>>,
           requests' = Append(requests, Rec("head", z))
    PROVE  EdgesOK' /\ OnePlace' /\ \A x \in Xs : Unhandled(x)' => Unhandled(x)
  <1>1. Xs \subseteq Xs' /\ z \in Xs' /\ z \notin Xs /\ \A x \in Xs' : x \in Xs \/ x = z
    BY DEF Xs
  <1>2. \A r : IsRec(r) => IsRec(r)' /\ r.x # z
    BY <1>1 DEF IsRec, Rec
  <1>3. Rec("head", z) \notin On(requests) /\ IsRec(Rec("head", z))'
    <2>1. Rec("head", z) \notin On(requests)
      BY <1>2, RecIs DEF EdgesOK
    <2>2. \A r : r = Rec("head", z) => IsRec(r)'
      BY <1>1, RecIs DEF IsRec
    <2> QED BY <2>1, <2>2
  <1>4. /\ IsPort(requests') /\ On(requests') = On(requests) \cup {Rec("head", z)}
        /\ Distinct(requests')
    BY <1>3, AppendPort, AppendDistinct DEF EdgesOK
  <1>5. \A r : IsRec(r) => ask'[r.x] = ask[r.x]
    BY DEF IsRec
  <1>6. EdgesOK'
    <2>1. \A e \in Lanes : IsLane(e)'
      BY <1>2, <1>5 DEF EdgesOK, IsLane
    <2>2. Lanes' = Lanes
      BY DEF Lanes
    <2>3. \A r \in On(requests') : IsRec(r)'
      BY <1>2, <1>3, <1>4 DEF EdgesOK
    <2>4. \A e \in Lanes : \A x \in collecting[e] : x \in Xs' /\ Owner(ask'[x]) = e
      BY <1>1 DEF EdgesOK
    <2> QED BY <1>2, <1>4, <1>5, <2>1, <2>2, <2>3, <2>4 DEF EdgesOK
  <1>7. \A x : /\ HeldIs(x)' <=> HeldIs(x)
               /\ InLane(x)' <=> InLane(x)
               /\ Collected(x)' <=> Collected(x)
               /\ (Rec("head", x) \in On(requests))' <=> Rec("head", x) \in On(requests')
    BY DEF HeldIs, InLane, Collected, Lanes, On
  <1>8. ~HeldIs(z) /\ ~InLane(z) /\ ~Collected(z)
    BY <1>1, <1>2, RecIs DEF EdgesOK, IsLane, HeldIs, InLane, Collected
  <1>9. \A x \in Xs : Rec("head", x) # Rec("head", z)
    BY <1>1, RecIs
  <1>10. OnePlace'
    <2> SUFFICES ASSUME NEW x \in Xs'
                 PROVE  /\ Rec("head", x) \in On(requests') =>
                              ~HeldIs(x)' /\ ~InLane(x)' /\ ~Collected(x)'
                        /\ HeldIs(x)' => ~InLane(x)' /\ ~Collected(x)'
                        /\ InLane(x)' => ~Collected(x)'
      BY <1>7 DEF OnePlace
    <2>1. CASE x \in Xs
      BY <1>4, <1>7, <1>9, <2>1 DEF OnePlace
    <2>2. CASE x = z
      BY <1>7, <1>8, <2>2
    <2> QED BY <1>1, <2>1, <2>2
  <1>11. \A x \in Xs : Unhandled(x)' => Unhandled(x)
    BY <1>4, <1>7, <1>9 DEF Unhandled
  <1> QED BY <1>6, <1>10, <1>11

(* The router drops a record.                                              *)
LEMMA Drops ==
    ASSUME EdgesOK, OnePlace, UNCHANGED <<ask, held, lanes, collecting, routes>>,
           requests # <<>>, requests' = Tail(requests)
    PROVE  /\ EdgesOK' /\ OnePlace' /\ \A x \in Xs : Unhandled(x)' => Unhandled(x)
           /\ IsRec(Head(requests))
           /\ \A x : Head(requests) = Rec("head", x) => Unhandled(x) /\ ~Unhandled(x)'
  <1> USE DEF Xs, Opened
  <1> DEFINE r == Head(requests)
  <1>1. /\ IsPort(requests') /\ On(requests') \subseteq On(requests) /\ r \in On(requests)
        /\ Distinct(requests') /\ (r.kind = "head" => r \notin On(requests'))
        /\ IsRec(r) /\ \A t \in On(requests') : IsRec(t)
    BY TailPort, TailDistinct DEF EdgesOK
  <1>2. EdgesOK'
    <2>1. \A e \in Lanes : IsLane(e)'
      BY LaneStays DEF EdgesOK
    <2>2. Lanes' = Lanes
      BY DEF Lanes
    <2> QED BY <1>1, <2>1, <2>2 DEF EdgesOK, IsRec
  <1>3. \A x : /\ HeldIs(x)' <=> HeldIs(x)
               /\ InLane(x)' <=> InLane(x)
               /\ Collected(x)' <=> Collected(x)
               /\ (Rec("head", x) \in On(requests))' <=> Rec("head", x) \in On(requests')
    BY DEF HeldIs, InLane, Collected, Lanes, On
  <1>4. OnePlace' /\ \A x \in Xs : Unhandled(x)' => Unhandled(x)
    BY <1>1, <1>3 DEF OnePlace, Unhandled
  <1>5. ASSUME NEW x, r = Rec("head", x)
        PROVE  Unhandled(x) /\ ~Unhandled(x)'
    <2>1. r.kind = "head" /\ x \in Xs
      BY <1>1, <1>5, RecIs DEF IsRec
    <2>2. ~HeldIs(x) /\ ~InLane(x) /\ ~Collected(x)
      BY <1>1, <1>5, <2>1 DEF OnePlace
    <2> QED BY <1>1, <1>3, <1>5, <2>1, <2>2 DEF Unhandled
  <1> QED BY <1>1, <1>2, <1>4, <1>5

(* An endpoint takes a record off its edge, and c are those whose body it  *)
(* waits for then.                                                         *)
LEMMA Takes ==
    ASSUME EdgesOK, OnePlace, UNCHANGED <<ask, requests, held, routes>>,
           NEW e \in Lanes, lanes[e] # <<>>, lanes' = [lanes EXCEPT ![e] = Tail(lanes[e])],
           NEW c, collecting' = [collecting EXCEPT ![e] = c],
           \A x \in c : x \in collecting[e] \/ Head(lanes[e]) = Rec("head", x)
    PROVE  LET r == Head(lanes[e]) IN
           /\ EdgesOK' /\ OnePlace' /\ \A x \in Xs : Unhandled(x)' => Unhandled(x)
           /\ IsRec(r) /\ (r.kind = "head" => Owner(ask[r.x]) = e)
           /\ r.kind = "head" => r.x \notin collecting[e]
           /\ \A x : x = r.x /\ (r.kind = "head" \/ x \in collecting[e]) /\ x \notin c =>
                 Unhandled(x) /\ ~Unhandled(x)' /\ x \in Xs /\ Owner(ask[x]) = e
  <1> USE DEF Xs, Opened
  <1> DEFINE r == Head(lanes[e])
  <1>1. /\ IsLane(e) /\ lanes = [f \in Lanes |-> lanes[f]]
        /\ collecting = [f \in Lanes |-> collecting[f]]
    BY DEF EdgesOK
  <1>2. /\ \A f \in Lanes : lanes'[f] = IF f = e THEN Tail(lanes[e]) ELSE lanes[f]
        /\ \A f \in Lanes : collecting'[f] = IF f = e THEN c ELSE collecting[f]
        /\ lanes' = [f \in Lanes |-> lanes'[f]] /\ collecting' = [f \in Lanes |-> collecting'[f]]
    BY <1>1
  <1>3. /\ IsPort(lanes'[e]) /\ On(lanes'[e]) \subseteq On(lanes[e]) /\ r \in On(lanes[e])
        /\ Distinct(lanes'[e]) /\ (r.kind = "head" => r \notin On(lanes'[e]))
        /\ IsRec(r) /\ (r.kind = "head" => Owner(ask[r.x]) = e)
    BY <1>1, <1>2, TailPort, TailDistinct DEF IsLane
  <1>4. ASSUME r.kind = "head" PROVE r = Rec("head", r.x) /\ r.x \in Xs /\ InLane(r.x)
    BY <1>3, <1>4, RecIs DEF IsRec, InLane
  <1>5. \A x \in c : x \in Xs /\ Owner(ask[x]) = e
    BY <1>3, RecIs DEF EdgesOK, IsRec
  <1>6. EdgesOK'
    <2>1. \A f \in Lanes : IsLane(f)'
      <3> SUFFICES ASSUME NEW f \in Lanes PROVE IsLane(f)'
        OBVIOUS
      <3>1. CASE f = e
        BY <1>1, <1>3, <3>1 DEF IsLane, IsRec
      <3>2. CASE f # e
        <4>1. lanes'[f] = lanes[f] /\ IsLane(f)
          BY <1>2, <3>2 DEF EdgesOK
        <4> QED BY <4>1, LaneStays
      <3> QED BY <3>1, <3>2
    <2>2. Lanes' = Lanes
      BY DEF Lanes
    <2> QED BY <1>2, <1>5, <2>1, <2>2 DEF EdgesOK, IsRec
  <1>7. \A x : /\ HeldIs(x)' <=> HeldIs(x)
               /\ InLane(x)' <=> \E f \in Lanes : Rec("head", x) \in On(lanes'[f])
               /\ Collected(x)' <=> \E f \in Lanes : x \in collecting'[f]
               /\ (Rec("head", x) \in On(requests))' <=> Rec("head", x) \in On(requests)
    BY DEF HeldIs, InLane, Collected, Lanes, On
  <1>8. \A x : InLane(x)' => InLane(x)
    BY <1>2, <1>3, <1>7 DEF InLane
  <1>9. \A x : Collected(x)' => Collected(x) \/ (r = Rec("head", x) /\ x \in c)
    BY <1>2, <1>7 DEF Collected
  <1>11. \A x \in Xs : r = Rec("head", x) => ~InLane(x)' /\ ~Collected(x)
    <2> SUFFICES ASSUME NEW x \in Xs, r = Rec("head", x)
                 PROVE  ~InLane(x)' /\ ~Collected(x)
      OBVIOUS
    <2>1. r.kind = "head" /\ r.x = x
      BY RecIs
    <2>2. InLane(x) /\ Owner(ask[x]) = e
      BY <1>3, <1>4, <2>1
    <2>3. \A f \in Lanes : Rec("head", x) \in On(lanes'[f]) => f = e
      <3> SUFFICES ASSUME NEW f \in Lanes, f # e, Rec("head", x) \in On(lanes'[f])
                   PROVE  FALSE
        OBVIOUS
      <3>1. Rec("head", x) \in On(lanes[f]) /\ IsLane(f)
        BY <1>2 DEF EdgesOK
      <3> QED BY <2>2, <3>1, RecIs DEF IsLane
    <2> QED BY <1>3, <1>7, <2>1, <2>2, <2>3 DEF OnePlace
  <1>12. OnePlace'
    <2> SUFFICES ASSUME NEW x \in Xs
                 PROVE  /\ Rec("head", x) \in On(requests) =>
                              ~HeldIs(x)' /\ ~InLane(x)' /\ ~Collected(x)'
                        /\ HeldIs(x)' => ~InLane(x)' /\ ~Collected(x)'
                        /\ InLane(x)' => ~Collected(x)'
      BY <1>7 DEF OnePlace
    <2>1. r = Rec("head", x) => InLane(x)
      BY <1>3 DEF InLane
    <2> QED BY <1>7, <1>8, <1>9, <1>11, <2>1 DEF OnePlace
  <1>13. \A x \in Xs : Unhandled(x)' => Unhandled(x)
    <2>1. \A x : r = Rec("head", x) => InLane(x)
      BY <1>3 DEF InLane
    <2> QED BY <1>7, <1>8, <1>9, <2>1 DEF Unhandled
  <1>14. r.kind = "head" => r.x \notin collecting[e]
    BY <1>4, <1>11 DEF Collected
  <1>15. ASSUME NEW x, x = r.x, r.kind = "head" \/ x \in collecting[e], x \notin c
         PROVE  Unhandled(x) /\ ~Unhandled(x)' /\ x \in Xs /\ Owner(ask[x]) = e
    <2>1. CASE r.kind = "head"
      <3>1. r = Rec("head", x) /\ x \in Xs /\ InLane(x) /\ Owner(ask[x]) = e
        BY <1>3, <1>4, <1>15, <2>1
      <3>2. ~HeldIs(x) /\ Rec("head", x) \notin On(requests)
        BY <3>1 DEF OnePlace
      <3>3. ~InLane(x)' /\ ~Collected(x)
        BY <1>11, <3>1
      <3> QED BY <1>7, <1>9, <1>15, <3>1, <3>2, <3>3 DEF Unhandled
    <2>2. CASE x \in collecting[e]
      <3>1. Collected(x) /\ x \in Xs /\ Owner(ask[x]) = e
        BY <2>2 DEF Collected, EdgesOK
      <3>2. ~HeldIs(x) /\ Rec("head", x) \notin On(requests) /\ ~InLane(x)
        BY <3>1 DEF OnePlace
      <3>3. \A f \in Lanes : x \notin collecting'[f]
        BY <1>2, <1>15, <3>1 DEF EdgesOK
      <3> QED BY <1>7, <1>8, <3>1, <3>2, <3>3 DEF Unhandled
    <2> QED BY <1>15, <2>1, <2>2
  <1> QED BY <1>3, <1>6, <1>12, <1>13, <1>14, <1>15

(***************************************************************************)
(* The answers.                                                            *)
(***************************************************************************)
LEMMA ConcatPorts ==
    ASSUME NEW port, NEW s, IsPort(port), IsPort(s)
    PROVE  IsPort(port \o s) /\ On(port \o s) \subseteq On(port) \cup On(s)
  <1> DEFINE p == port \o s
             S == On(port) \cup On(s)
  <1>1. port \in Seq(On(port)) /\ s \in Seq(On(s))
    BY DEF IsPort
  <1>2. On(port) \subseteq S /\ On(s) \subseteq S
    OBVIOUS
  <1> HIDE DEF S
  <1>3. port \in Seq(S) /\ s \in Seq(S)
    BY <1>1, <1>2
  <1>4. p \in Seq(S)
    BY <1>3
  <1> HIDE DEF p
  <1>5. On(p) \subseteq S /\ \A n \in DOMAIN p : p[n] \in On(p)
    BY <1>4 DEF On
  <1>6. p \in Seq(On(p))
    BY <1>4, <1>5
  <1> QED BY <1>5, <1>6 DEF IsPort, p, S

LEMMA SaidIs ==
    ASSUME SentOK
    PROVE  \A a \in Said : a.x \in Xs /\ a = Answer(a.x, a.says) /\ a.kind = "answer"
  BY DEF SentOK, Said, Answer, Rec

LEMMA SentNext ==
    Sent' = (UNION {On(outs'[e]) : e \in Lanes}) \cup On(answer') \cup On(responses')
  BY DEF Sent, On, Lanes

(* No more is on its way, and who has read what is the same.               *)
LEMMA Hears ==
    ASSUME SentOK, NEW N, Sent' \subseteq Sent \cup N, UNCHANGED <<ask, stage, got>>
    PROVE  Said' \subseteq Said \cup {a \in N : a.kind = "answer"}
  BY DEF Said, Answer, Xs, Opened

LEMMA AnswersStay ==
    ASSUME SentOK, UNCHANGED <<ask, stage, got, outs, answer, responses, turn>>
    PROVE  SentOK' /\ Said' = Said
  <1>1. Sent' = Sent
    BY SentNext DEF Sent
  <1> QED BY <1>1, ZenonT(60) DEF SentOK, Said, Answer, Xs, Opened, Lanes, IsPort, On

(* An endpoint places a record, or holds it.                               *)
LEMMA Places ==
    ASSUME SentOK, NEW e \in Lanes, NEW x \in Xs, NEW r,
           r = Rec("grant", x) \/ \E s : r = Answer(x, s),
           outs' = [outs EXCEPT ![e] = Placed(outs[e], r)],
           UNCHANGED <<ask, stage, got, answer, responses, turn>>
    PROVE  SentOK' /\ Said' \subseteq Said \cup {a \in {r} : a.kind = "answer"}
  <1>1. \A f \in Lanes : outs'[f] = IF f = e THEN Placed(outs[e], r) ELSE outs[f]
    BY DEF SentOK
  <1>2. IsPort(outs'[e]) /\ On(outs'[e]) \subseteq On(outs[e]) \cup {r}
    BY <1>1, PlacedPort DEF SentOK
  <1>3. Sent' \subseteq Sent \cup {r}
    BY <1>1, <1>2, SentNext DEF Sent
  <1>4. r.x = x /\ (r = Rec("grant", r.x) \/ r = Answer(r.x, r.says))
    BY DEF Rec, Answer
  <1>5. SentOK'
    <2>1. \A t \in Sent' : t.x \in Xs /\ (t = Rec("grant", t.x) \/ t = Answer(t.x, t.says))
      BY <1>3, <1>4 DEF SentOK
    <2>2. outs' = [f \in Lanes |-> outs'[f]] /\ \A f \in Lanes : IsPort(outs'[f])
      BY <1>1, <1>2 DEF SentOK
    <2>3. Xs' = Xs /\ Lanes' = Lanes
      BY DEF Xs, Opened, Lanes
    <2>4. IsPort(answer)' /\ IsPort(responses)'
      BY DEF SentOK, IsPort, On
    <2>5. (turn \in 0 .. 2)'
      BY DEF SentOK
    <2> QED BY <2>1, <2>2, <2>3, <2>4, <2>5 DEF SentOK
  <1> QED BY <1>3, <1>5, Hears

LEMMA Responds ==
    ASSUME SentOK, NEW e \in Lanes, NEW x \in Xs, NEW says, Respond(e, x, says),
           UNCHANGED <<ask, stage, got, answer, responses, turn>>
    PROVE  SentOK' /\ Said' \subseteq Said \cup {Answer(x, says)}
  <1>1. CASE ask[x].credit
    <2>1. outs' = [outs EXCEPT ![e] = Placed(outs[e], Answer(x, says))]
      BY <1>1 DEF Respond, Answer, SentOK
    <2>2. \A r : r = Answer(x, says) =>
             SentOK' /\ Said' \subseteq Said \cup {a \in {r} : a.kind = "answer"}
      BY <2>1, Places
    <2> QED BY <2>2
  <1>2. CASE ~ask[x].credit
    BY <1>2, AnswersStay DEF Respond
  <1> QED BY <1>1, <1>2

(* The router's own answer.                                                *)
LEMMA Replies ==
    ASSUME SentOK, NEW x \in Xs, NEW status, Reply(x, status),
           UNCHANGED <<ask, stage, got, answer, outs, turn>>
    PROVE  SentOK' /\ Said' \subseteq Said \cup {Answer(x, [status |-> status])}
  <1> DEFINE r == Answer(x, [status |-> status])
  <1>1. CASE HasRoom(responses) /\ ask[x].credit
    <2>1. responses' = Append(responses, r)
      BY <1>1 DEF Reply, Answer
    <2>2. IsPort(responses') /\ On(responses') = On(responses) \cup {r}
      BY <2>1, AppendPort DEF SentOK
    <2>3. Sent' \subseteq Sent \cup {r}
      BY <2>2, SentNext DEF Sent
    <2>4. r.x = x /\ r = Answer(r.x, r.says)
      BY DEF Answer
    <2>5. \A t \in Sent' : t.x \in Xs /\ (t = Rec("grant", t.x) \/ t = Answer(t.x, t.says))
      BY <2>3, <2>4 DEF SentOK
    <2>6. SentOK'
      <3>1. Xs' = Xs /\ Lanes' = Lanes
        BY DEF Xs, Opened, Lanes
      <3>2. IsPort(answer)' /\ \A e \in Lanes : IsPort(outs'[e])
        <4>1. IsPort(answer)'
          BY DEF SentOK, IsPort, On
        <4>2. outs' = outs
          OBVIOUS
        <4> QED BY <4>1, <4>2 DEF SentOK
      <3>3. outs' = [e \in Lanes |-> outs'[e]] /\ (turn \in 0 .. 2)'
        BY DEF SentOK
      <3> QED BY <2>2, <2>5, <3>1, <3>2, <3>3 DEF SentOK
    <2> QED BY <2>3, <2>6, Hears
  <1>2. CASE ~(HasRoom(responses) /\ ask[x].credit)
    BY <1>2, AnswersStay DEF Reply
  <1> QED BY <1>1, <1>2

(***************************************************************************)
(* Packages.                                                               *)
(***************************************************************************)
LEMMA PackageKept ==
    ASSUME Keeps
    PROVE  \A p : IsPackage(p) => IsPackage(p)' /\ ask'[p.of] = ask[p.of]
  BY DEF Keeps, IsPackage

LEMMA PoolKept ==
    ASSUME Keeps
    PROVE  \A pool : IsPool(pool) => IsPool(pool)'
  BY PackageKept DEF IsPool

(* What was asked before an exchange was opened is still so.               *)
LEMMA SinceKept ==
    ASSUME TypeOK, Keeps
    PROVE  \A x \in Xs : /\ ask'[x] = ask[x]
                         /\ \A y \in ask[x].since : ask'[y] = ask[y] /\ got'[y] = got[y]
  BY DEF TypeOK, AskOK, Keeps

(* A claim that was answered still stands, when the pools only lost what   *)
(* is in them or took what is not of it.                                   *)
LEMMA ClaimKept ==
    ASSUME TypeOK, Keeps, NEW a, a.x \in Xs, ClaimedOK(a),
           a.says.package.once =>
              \A n \in DOMAIN pools', i \in 1 .. MaxPackages :
                 pools'[n].packages[i].live => pools'[n].packages[i].of # a.says.package.of
    PROVE  ClaimedOK(a)'
  <1>1. IsPackage(a.says.package)' /\ ask'[a.says.package.of] = ask[a.says.package.of]
    BY PackageKept DEF ClaimedOK
  <1>2. /\ ask'[a.x] = ask[a.x]
        /\ \A y \in ask[a.x].since : ask'[y] = ask[y] /\ got'[y] = got[y]
    BY SinceKept
  <1> QED BY <1>1, <1>2 DEF ClaimedOK

LEMMA PackagesStay ==
    ASSUME TypeOK, SentOK, PackagesOK, Keeps, pools' = pools,
           NEW N, Said' \subseteq Said \cup N,
           \A a \in N : a.says.status \notin {"published", "claimed"}
    PROVE  PackagesOK'
  <1>1. PoolsOK'
    BY PoolKept DEF PackagesOK, PoolsOK, IsPort, On
  <1>2. ASSUME NEW a \in Said', Listed(a) \/ Claimed(a)
        PROVE  a \in Said /\ a.x \in Xs
    BY <1>2, SaidIs DEF Listed, Claimed
  <1>3. ASSUME NEW a \in Said', Listed(a)
        PROVE  PublishedOK(a)'
    BY <1>2, <1>3 DEF PackagesOK, PublishedOK, Keeps
  <1>4. ASSUME NEW a \in Said', Claimed(a)
        PROVE  ClaimedOK(a)'
    <2>1. a \in Said /\ a.x \in Xs /\ ClaimedOK(a)
      BY <1>2, <1>4 DEF PackagesOK
    <2> QED BY <2>1, ClaimKept DEF ClaimedOK
  <1>5. \A a, b \in Said' :
          Claimed(a) /\ Claimed(b) /\ a.x # b.x /\ a.says.package.once =>
              a.says.package.of # b.says.package.of
    BY <1>2 DEF PackagesOK
  <1> QED BY <1>1, <1>3, <1>4, <1>5 DEF PackagesOK, Listed, Claimed

LEMMA MinIs ==
    ASSUME NEW S \in SUBSET Nat, S # {} PROVE Min(S) \in S
  <1> DEFINE Below == {ss \in Nat \X Nat : ss[1] < ss[2]}
  <1>1. IsWellFoundedOn(Below, Nat)
    BY NatLessThanWellFounded, Zenon DEF OpToRel
  <1> HIDE DEF Below
  <1>2. PICK i \in S : \A j \in S : <<j, i>> \notin Below
    BY <1>1, WFMin
  <1>3. ASSUME NEW j \in S PROVE i <= j
    <2>1. ~(j < i)
      BY <1>2 DEF Below
    <2> QED BY <2>1
  <1>4. \E k \in S : \A j \in S : k =< j
    BY <1>3
  <1> QED BY <1>4 DEF Min

LEMMA PackageIs ==
    ASSUME NEW x, NEW b
    PROVE  LET p == Package(x, b) IN
           p.live /\ p.of = x /\ p.gen = b.gen /\ p.until = b.until /\ p.once = b.once
  BY DEF Package

(* What a pool's places hold.                                              *)
LEMMA PlaceIs ==
    ASSUME PoolsOK
    PROVE  /\ \A n \in DOMAIN pools : pools[n] \in On(pools) /\ IsPool(pools[n])
           /\ \A n \in DOMAIN pools, i \in 1 .. MaxPackages :
                 pools[n].packages[i].live =>
                    /\ IsPackage(pools[n].packages[i])
                    /\ ask[pools[n].packages[i].of].dev = pools[n].dev
                    /\ pools[n].packages[i].gen = pools[n].gen
  <1>1. \A n \in DOMAIN pools : pools[n] \in On(pools) /\ IsPool(pools[n])
    BY DEF PoolsOK, On
  <1>2. ~Spent.live
    BY DEF Spent
  <1> QED BY <1>1, <1>2 DEF IsPool

LEMMA EmptyIs ==
    ASSUME NEW dev, NEW gen \in Nat, NEW pool,
           pool = [dev |-> dev, gen |-> gen, packages |-> EmptyPool]
    PROVE  /\ IsPool(pool) /\ pool.dev = dev /\ pool.gen = gen
           /\ \A i \in 1 .. MaxPackages : ~pool.packages[i].live
  BY DEF IsPool, EmptyPool, Spent

(* pool_for: nothing is added, and no pool goes back a generation.         *)
PoolFound(dev, gen, at, then) ==
    /\ IsPort(then) /\ \A pool \in On(then) : IsPool(pool)
    /\ \A m, n \in DOMAIN then : then[m].dev = then[n].dev => m = n
    /\ \A n \in DOMAIN then, i \in 1 .. MaxPackages :
          then[n].packages[i].live =>
             n \in DOMAIN pools /\ pools[n].packages[i] = then[n].packages[i]
    /\ \A n \in DOMAIN pools : /\ n \in DOMAIN then /\ then[n].dev = pools[n].dev
                               /\ pools[n].gen <= then[n].gen
    /\ at # 0 => at \in DOMAIN then /\ then[at].dev = dev /\ then[at].gen = gen


LEMMA PoolForIs ==
    ASSUME PoolsOK, NEW dev, NEW gen \in Nat, NEW at, NEW then,
           PoolFor(dev, gen)[1] = at, PoolFor(dev, gen)[2] = then
    PROVE  PoolFound(dev, gen, at, then)
  <1>1. /\ IsPort(pools) /\ Len(pools) \in Nat /\ DOMAIN pools = 1 .. Len(pools)
        /\ \A n \in DOMAIN pools :
              pools[n] \in On(pools) /\ IsPool(pools[n]) /\ pools[n].gen \in Nat
    <2>1. \A n \in DOMAIN pools : pools[n] \in On(pools) /\ IsPool(pools[n])
      BY PlaceIs
    <2>2. \A pool : IsPool(pool) => pool.gen \in Nat
      BY DEF IsPool
    <2>3. IsPort(pools)
      BY DEF PoolsOK
    <2> QED BY <2>1, <2>2, <2>3 DEF IsPort
  <1>2. CASE PoolsOf(dev) # {}
    <2> DEFINE n == Min(PoolsOf(dev))
    <2>1. n \in DOMAIN pools /\ pools[n].dev = dev
      <3>1. PoolsOf(dev) \in SUBSET Nat
        BY <1>1 DEF PoolsOf
      <3>2. n \in PoolsOf(dev)
        BY <1>2, <3>1, MinIs
      <3> QED BY <3>2 DEF PoolsOf
    <2> HIDE DEF n
    <2>2. CASE gen < pools[n].gen
      <3>1. PoolFor(dev, gen) = <<0, pools>>
        BY <1>2, <2>2 DEF PoolFor, n
      <3> QED BY <1>1, <3>1 DEF PoolsOK, PoolFound
    <2>3. CASE gen = pools[n].gen
      <3>1. PoolFor(dev, gen) = <<n, pools>>
        BY <1>1, <1>2, <2>1, <2>3 DEF PoolFor, n
      <3> QED BY <1>1, <2>1, <2>3, <3>1 DEF PoolsOK, PoolFound
    <2>4. CASE gen > pools[n].gen
      <3> DEFINE new == [dev |-> dev, gen |-> gen, packages |-> EmptyPool]
      <3>1. PoolFor(dev, gen) = <<n, [pools EXCEPT ![n] = new]>>
        <4>1. ~(gen < pools[n].gen) /\ gen # pools[n].gen
          BY <1>1, <2>1, <2>4
        <4> QED BY <1>2, <4>1 DEF PoolFor, n
      <3>2. at = n /\ then = [pools EXCEPT ![n] = new]
        BY <3>1
      <3>3. IsPool(new) /\ new.dev = dev /\ new.gen = gen
            /\ \A i \in 1 .. MaxPackages : ~new.packages[i].live
        BY EmptyIs
      <3> HIDE DEF new
      <3>4. /\ DOMAIN then = DOMAIN pools
            /\ \A m \in DOMAIN pools : then[m] = IF m = n THEN new ELSE pools[m]
        BY <2>1, <3>2
      <3>5. IsPort(then)
        <4>1. \A m \in 1 .. Len(pools) : then[m] \in On(then)
          BY <1>1, <3>4 DEF On
        <4>2. then = [m \in 1 .. Len(pools) |-> then[m]]
          BY <1>1, <3>2
        <4> QED BY <1>1, <4>1, <4>2 DEF IsPort
      <3>6. \A pool \in On(then) : IsPool(pool)
        BY <1>1, <3>3, <3>4 DEF On
      <3>7. \A m \in DOMAIN then : then[m].dev = pools[m].dev /\ pools[m].gen <= then[m].gen
        BY <1>1, <2>1, <2>4, <3>3, <3>4
      <3>8. \A m \in DOMAIN then, i \in 1 .. MaxPackages :
               then[m].packages[i].live => pools[m].packages[i] = then[m].packages[i]
        BY <3>3, <3>4
      <3>9. then[at].dev = dev /\ then[at].gen = gen
        BY <2>1, <3>2, <3>3, <3>4
      <3>10. \A m, k \in DOMAIN then : then[m].dev = then[k].dev => m = k
        BY <3>4, <3>7 DEF PoolsOK
      <3>11. at \in DOMAIN then
        BY <2>1, <3>2, <3>4
      <3> QED BY <3>4, <3>5, <3>6, <3>7, <3>8, <3>9, <3>10, <3>11 DEF PoolFound
    <2> QED BY <1>1, <2>1, <2>2, <2>3, <2>4
  <1>3. CASE PoolsOf(dev) = {} /\ Len(pools) < MaxDevices
    <2> DEFINE new == [dev |-> dev, gen |-> gen, packages |-> EmptyPool]
    <2>1. at = Len(pools) + 1 /\ then = Append(pools, new)
      BY <1>3 DEF PoolFor
    <2>2. IsPool(new) /\ new.dev = dev /\ new.gen = gen
          /\ \A i \in 1 .. MaxPackages : ~new.packages[i].live
      BY EmptyIs
    <2> HIDE DEF new
    <2>3. IsPort(then) /\ On(then) = On(pools) \cup {new}
      BY <1>1, <2>1, AppendPort
    <2>4. /\ DOMAIN then = 1 .. Len(pools) + 1 /\ then[Len(pools) + 1] = new
          /\ \A n \in DOMAIN pools : then[n] = pools[n]
      BY <1>1, <2>1 DEF IsPort
    <2>5. \A n \in DOMAIN pools : pools[n].dev # dev
      BY <1>3 DEF PoolsOf
    <2>6. \A n \in DOMAIN then : n \in DOMAIN pools \/ n = Len(pools) + 1
      BY <1>1, <2>4
    <2>7. \A m, n \in DOMAIN then : then[m].dev = then[n].dev => m = n
      BY <2>2, <2>4, <2>5, <2>6 DEF PoolsOK
    <2>8. \A n \in DOMAIN pools : n \in DOMAIN then /\ pools[n].gen <= then[n].gen
      BY <1>1, <2>4
    <2>9. at \in DOMAIN then /\ then[at] = new
      BY <1>1, <2>1, <2>4
    <2>10. \A pool \in On(then) : IsPool(pool)
      BY <2>2, <2>3 DEF PoolsOK
    <2>11. \A n \in DOMAIN then, i \in 1 .. MaxPackages :
              then[n].packages[i].live =>
                 n \in DOMAIN pools /\ pools[n].packages[i] = then[n].packages[i]
      BY <2>2, <2>4, <2>6
    <2> QED BY <2>2, <2>3, <2>4, <2>7, <2>8, <2>9, <2>10, <2>11 DEF PoolFound
  <1>4. CASE PoolsOf(dev) = {} /\ ~(Len(pools) < MaxDevices)
    <2>1. PoolFor(dev, gen) = <<0, pools>>
      BY <1>4 DEF PoolFor
    <2> QED BY <1>1, <2>1 DEF PoolsOK, PoolFound
  <1> QED BY <1>2, <1>3, <1>4

(* A request is answered, and the pools have by then lost packages, or     *)
(* taken its own.                                                          *)
LEMMA PackagesStep ==
    ASSUME TypeOK, SentOK, AnsweredOnce, PackagesOK, Keeps, PoolsOK',
           NEW x \in Xs, Unhandled(x), NEW says, Said' \subseteq Said \cup {Answer(x, says)},
           \A n \in DOMAIN pools : /\ n \in DOMAIN pools' /\ pools'[n].dev = pools[n].dev
                                   /\ pools[n].gen <= pools'[n].gen,
           \A n \in DOMAIN pools', i \in 1 .. MaxPackages :
              pools'[n].packages[i].live =>
                 \/ pools'[n].packages[i].of = x
                 \/ /\ n \in DOMAIN pools /\ pools[n].packages[i].live
                    /\ pools[n].packages[i].of = pools'[n].packages[i].of,
           says.status = "published" => PublishedOK(Answer(x, says))',
           says.status = "claimed" =>
              /\ ClaimedOK(Answer(x, says))'
              /\ \A c \in Said : Claimed(c) /\ (c.says.package.once \/ says.package.once) =>
                                    c.says.package.of # says.package.of
    PROVE  PackagesOK'
  <1> DEFINE new == Answer(x, says)
  <1>1. new.x = x /\ new.says = says
    BY DEF Answer
  <1>2. \A a \in Said : a.x \in Xs /\ a.x # x
    BY SaidIs DEF AnsweredOnce
  <1>3. ASSUME NEW a \in Said, Listed(a)
        PROVE  PublishedOK(a)'
    <2>1. PublishedOK(a) /\ ask'[a.x] = ask[a.x] /\ ask[a.x].gen \in Nat
      BY <1>2, <1>3 DEF PackagesOK, Keeps, TypeOK, AskOK, PublishedOK
    <2>2. PICK n \in DOMAIN pools : pools[n].dev = ask[a.x].dev /\ ask[a.x].gen <= pools[n].gen
      BY <2>1 DEF PublishedOK
    <2>3. pools[n].gen \in Nat /\ pools'[n].gen \in Nat /\ n \in DOMAIN pools'
      <3>1. \A pool : IsPool(pool) => pool.gen \in Nat
        BY DEF IsPool
      <3>2. \A pool : IsPool(pool)' => pool.gen \in Nat
        BY DEF IsPool
      <3>3. pools[n] \in On(pools) /\ pools'[n] \in On(pools') /\ n \in DOMAIN pools'
        BY DEF On
      <3> QED BY <3>1, <3>2, <3>3 DEF PackagesOK, PoolsOK
    <2>4. pools'[n].dev = ask'[a.x].dev /\ ask'[a.x].gen <= pools'[n].gen
      BY <2>1, <2>2, <2>3
    <2> QED BY <2>1, <2>3, <2>4 DEF PublishedOK
  <1>4. ASSUME NEW a \in Said, Claimed(a)
        PROVE  ClaimedOK(a)'
    <2>1. ClaimedOK(a) /\ a.x \in Xs
      BY <1>2, <1>4 DEF PackagesOK
    <2>2. a.says.package.of # x
      BY <2>1 DEF ClaimedOK, IsPackage
    <2>3. a.says.package.once =>
             \A n \in DOMAIN pools', i \in 1 .. MaxPackages :
                pools'[n].packages[i].live => pools'[n].packages[i].of # a.says.package.of
      BY <2>1, <2>2 DEF ClaimedOK
    <2> QED BY <2>1, <2>3, ClaimKept
  <1>5. \A a \in Said' : (Listed(a) => PublishedOK(a)') /\ (Claimed(a) => ClaimedOK(a)')
    <2> SUFFICES ASSUME NEW a \in Said'
                 PROVE  (Listed(a) => PublishedOK(a)') /\ (Claimed(a) => ClaimedOK(a)')
      OBVIOUS
    <2>1. CASE a \in Said
      BY <1>3, <1>4, <2>1
    <2>2. CASE a = new
      <3>1. /\ says.status = "published" => \A c : c = new => PublishedOK(c)'
            /\ says.status = "claimed" => \A c : c = new => ClaimedOK(c)'
        BY DEF PublishedOK, ClaimedOK
      <3> QED BY <1>1, <2>2, <3>1 DEF Listed, Claimed
    <2> QED BY <2>1, <2>2
  <1>6. \A a, b \in Said' :
          Claimed(a) /\ Claimed(b) /\ a.x # b.x /\ a.says.package.once =>
              a.says.package.of # b.says.package.of
    <2> SUFFICES ASSUME NEW a \in Said', NEW b \in Said', Claimed(a), Claimed(b), a.x # b.x,
                        a.says.package.once
                 PROVE  a.says.package.of # b.says.package.of
      OBVIOUS
    <2>1. CASE a \in Said /\ b \in Said
      BY <2>1 DEF PackagesOK
    <2>2. CASE a = new /\ b \in Said
      BY <1>1, <2>2 DEF Claimed
    <2>3. CASE a \in Said /\ b = new
      BY <1>1, <2>3 DEF Claimed
    <2> QED BY <1>1, <2>1, <2>2, <2>3
  <1> QED BY <1>5, <1>6 DEF PackagesOK, Listed, Claimed

(* A package is put in a place that was free.                              *)
LEMMA PublishStep ==
    ASSUME TypeOK, SentOK, AnsweredOnce, PackagesOK, Keeps,
           NEW x \in Xs, Unhandled(x), ~Unhandled(x)', ask[x].path = "publish",
           NEW o, o = Publish(x, ask[x]),
           Said' \subseteq Said \cup {Answer(x, o.says)}, pools' = o.pools
    PROVE  PackagesOK'
  <1> DEFINE b == ask[x]
  <1>a. PICK at, then : at = PoolFor(b.dev, b.gen)[1] /\ then = PoolFor(b.dev, b.gen)[2]
    OBVIOUS
  <1>b. PICK p : p = Package(x, b)
    OBVIOUS
  <1> DEFINE free == {n \in 1 .. MaxPackages : ~then[at].packages[n].live}
  <1>c. PICK k : k = Min(free)
    OBVIOUS
  <1>1. CASE b.names \notin {"none", b.dev} \/ b.wrong = "malformed"
    <2>1. o = [says |-> [status |-> "malformed"], pools |-> pools]
      BY <1>1 DEF Publish
    <2>2. pools' = pools /\ o.says.status = "malformed"
      BY <2>1
    <2>3. \A a \in {Answer(x, o.says)} : a.says.status \notin {"published", "claimed"}
      BY <2>2 DEF Answer
    <2> QED BY <2>2, <2>3, PackagesStay
  <1>2. CASE ~(b.names \notin {"none", b.dev} \/ b.wrong = "malformed")
    <2>1. PoolsOK /\ b.gen \in Nat /\ ask'[x] = b /\ x \in Xs'
      BY DEF PackagesOK, TypeOK, AskOK, Keeps
    <2>2. /\ IsPort(then) /\ \A pool \in On(then) : IsPool(pool)
          /\ \A m, n \in DOMAIN then : then[m].dev = then[n].dev => m = n
          /\ \A n \in DOMAIN then, i \in 1 .. MaxPackages :
                then[n].packages[i].live =>
                   n \in DOMAIN pools /\ pools[n].packages[i] = then[n].packages[i]
          /\ \A n \in DOMAIN pools : /\ n \in DOMAIN then /\ then[n].dev = pools[n].dev
                                     /\ pools[n].gen <= then[n].gen
          /\ at # 0 => at \in DOMAIN then /\ then[at].dev = b.dev /\ then[at].gen = b.gen
      <3>1. b.gen \in Nat /\ PoolFor(b.dev, b.gen)[1] = at /\ PoolFor(b.dev, b.gen)[2] = then
        BY <1>a, <2>1
      <3>2. PICK dev, gen : dev = b.dev /\ gen = b.gen
        OBVIOUS
      <3>3. PoolsOK /\ gen \in Nat /\ PoolFor(dev, gen)[1] = at /\ PoolFor(dev, gen)[2] = then
        BY <2>1, <3>1, <3>2
      <3> HIDE DEF b
      <3>4. PoolFound(dev, gen, at, then)
        BY <3>3, PoolForIs
      <3> QED BY <3>2, <3>4 DEF PoolFound
    <2>3. CASE at = 0
      <3>1. o = [says |-> [status |-> "unavailable"], pools |-> pools]
        BY <1>2, <1>a, <2>3 DEF Publish
      <3>2. pools' = pools /\ o.says.status = "unavailable"
        BY <3>1
      <3>3. \A a \in {Answer(x, o.says)} : a.says.status \notin {"published", "claimed"}
        BY <3>2 DEF Answer
      <3> QED BY <3>2, <3>3, PackagesStay
    <2>4. CASE at # 0 /\ free = {}
      <3>1. o = [says |-> [status |-> "pool_full"], pools |-> then]
        BY <1>2, <1>a, <2>4 DEF Publish
      <3>2. pools' = then /\ o.says.status = "pool_full"
        BY <3>1
      <3>3. PoolsOK'
        <4>1. \A pool \in On(pools') : IsPool(pool)'
          BY <2>2, <3>2, PoolKept
        <4> QED BY <2>1, <2>2, <3>2, <4>1 DEF PoolsOK
      <3> QED BY <2>2, <3>2, <3>3, PackagesStep
    <2>5. CASE at # 0 /\ free # {}
      <3>1. o = [says  |-> [status |-> "published"],
                 pools |-> [then EXCEPT ![at].packages[k] = p]]
        BY <1>2, <1>a, <1>b, <1>c, <2>5 DEF Publish
      <3>2. pools' = [then EXCEPT ![at].packages[k] = p] /\ o.says.status = "published"
        BY <3>1
      <3>3. k \in 1 .. MaxPackages /\ ~then[at].packages[k].live
        <4>1. free \in SUBSET Nat /\ free # {}
          BY <2>5
        <4>2. k \in free
          BY <1>c, <4>1, MinIs
        <4> QED BY <4>2
      <3> HIDE DEF free
      <3>4. p.live /\ p.of = x /\ p.gen = b.gen /\ p = Package(x, ask'[x])
        BY <1>b, <2>1, PackageIs
      <3>5. /\ IsPool(then[at]) /\ at \in DOMAIN then
            /\ then = [n \in DOMAIN then |-> then[n]]
        BY <2>2, <2>5 DEF On, IsPort
      <3>6. /\ DOMAIN pools' = DOMAIN then
            /\ \A n \in DOMAIN then : n # at => pools'[n] = then[n]
            /\ pools'[at] = [then[at] EXCEPT !.packages = [then[at].packages EXCEPT ![k] = p]]
        BY <3>2, <3>5
      <3>7. /\ pools'[at].dev = b.dev /\ pools'[at].gen = b.gen
            /\ pools'[at] = [dev |-> pools'[at].dev, gen |-> pools'[at].gen,
                             packages |-> pools'[at].packages]
            /\ pools'[at].packages = [i \in 1 .. MaxPackages |-> pools'[at].packages[i]]
            /\ \A i \in 1 .. MaxPackages :
                  pools'[at].packages[i] = IF i = k THEN p ELSE then[at].packages[i]
        <4>1. /\ then[at] = [dev |-> then[at].dev, gen |-> then[at].gen,
                             packages |-> then[at].packages]
              /\ then[at].packages = [i \in 1 .. MaxPackages |-> then[at].packages[i]]
          BY <3>5 DEF IsPool
        <4> QED BY <2>2, <2>5, <3>3, <3>6, <4>1, ZenonT(60)
      <3>8. IsPackage(p)'
        BY <2>1, <3>4 DEF IsPackage
      <3>9. \A pool : pool = pools'[at] => IsPool(pool)'
        <4> SUFFICES ASSUME NEW pool, pool = pools'[at] PROVE IsPool(pool)'
          OBVIOUS
        <4>1. \A i \in 1 .. MaxPackages :
                 \/ pool.packages[i] = Spent
                 \/ /\ IsPackage(pool.packages[i])'
                    /\ ask'[pool.packages[i].of].dev = pool.dev
                    /\ pool.packages[i].gen = pool.gen
          <5> SUFFICES ASSUME NEW i \in 1 .. MaxPackages
                       PROVE  \/ pool.packages[i] = Spent
                              \/ /\ IsPackage(pool.packages[i])'
                                 /\ ask'[pool.packages[i].of].dev = pool.dev
                                 /\ pool.packages[i].gen = pool.gen
            OBVIOUS
          <5>1. CASE i = k
            <6>1. pool.packages[i] = p
              BY <3>3, <3>7, <5>1
            <6>2. \A q : q = p => IsPackage(q)'
              BY <3>8 DEF IsPackage
            <6> QED BY <2>1, <3>4, <3>7, <6>1, <6>2, SMTT(60)
          <5>2. CASE i # k
            <6>1. pool.packages[i] = then[at].packages[i]
              BY <3>7, <5>2
            <6>2. pool.dev = then[at].dev /\ pool.gen = then[at].gen
              BY <2>2, <2>5, <3>7
            <6> QED BY <3>5, <6>1, <6>2, PackageKept DEF IsPool
          <5> QED BY <5>1, <5>2
        <4> QED BY <2>1, <3>7, <4>1 DEF IsPool
      <3>10. \A n \in DOMAIN then : pools'[n].dev = then[n].dev /\ pools'[n].gen = then[n].gen
        BY <2>2, <2>5, <3>6, <3>7
      <3>11. \A n \in DOMAIN then, i \in 1 .. MaxPackages :
                pools'[n].packages[i].live =>
                   \/ n = at /\ i = k /\ pools'[n].packages[i].of = x
                   \/ /\ n \in DOMAIN pools /\ pools[n].packages[i].live
                      /\ pools[n].packages[i].of = pools'[n].packages[i].of
                      /\ pools[n].packages[i].of # x
        <4>1. \A n \in DOMAIN pools, i \in 1 .. MaxPackages :
                 pools[n].packages[i].live => pools[n].packages[i].of # x
          BY <2>1, PlaceIs DEF IsPackage
        <4>2. \A n \in DOMAIN then, i \in 1 .. MaxPackages :
                 pools'[n].packages[i] = IF n = at /\ i = k THEN p ELSE then[n].packages[i]
          BY <3>6, <3>7, ZenonT(60)
        <4> QED BY <2>2, <3>4, <4>1, <4>2
      <3>12. PoolsOK'
        <4>1. \A pool \in On(pools') : IsPool(pool)'
          <5> SUFFICES ASSUME NEW n \in DOMAIN then, NEW pool, pool = pools'[n] PROVE IsPool(pool)'
            BY <3>6 DEF On
          <5>1. CASE n = at
            BY <3>9, <5>1
          <5>2. CASE n # at
            <6>1. pool = then[n] /\ then[n] \in On(then)
              BY <3>6, <5>2 DEF On
            <6> QED BY <2>2, <6>1, PoolKept
          <5> QED BY <5>1, <5>2
        <4>2. IsPort(pools')
          <5>1. Len(then) \in Nat /\ DOMAIN then = 1 .. Len(then)
            BY <2>2 DEF IsPort
          <5>2. pools' = [n \in 1 .. Len(then) |-> pools'[n]]
            BY <3>2, <3>5, <5>1
          <5>3. \A n \in 1 .. Len(then) : pools'[n] \in On(pools')
            BY <3>6, <5>1 DEF On
          <5> QED BY <5>1, <5>2, <5>3 DEF IsPort
        <4>3. \A m, n \in DOMAIN pools' : pools'[m].dev = pools'[n].dev => m = n
          BY <2>2, <3>6, <3>10
        <4>4. \A m, n \in DOMAIN pools', i, j \in 1 .. MaxPackages :
                 /\ pools'[m].packages[i].live /\ pools'[n].packages[j].live
                 /\ pools'[m].packages[i].of = pools'[n].packages[j].of
                 => m = n /\ i = j
          <5> SUFFICES ASSUME NEW m \in DOMAIN then, NEW n \in DOMAIN then,
                              NEW i \in 1 .. MaxPackages, NEW j \in 1 .. MaxPackages,
                              pools'[m].packages[i].live, pools'[n].packages[j].live,
                              pools'[m].packages[i].of = pools'[n].packages[j].of
                       PROVE  m = n /\ i = j
            BY <3>6, SMTT(60)
          <5>1. CASE pools'[m].packages[i].of = x
            <6>1. m = at /\ i = k
              BY <3>11, <5>1
            <6>2. n = at /\ j = k
              BY <3>11, <5>1
            <6> QED BY <6>1, <6>2
          <5>2. CASE pools'[m].packages[i].of # x
            <6>1. /\ m \in DOMAIN pools /\ pools[m].packages[i].live
                  /\ n \in DOMAIN pools /\ pools[n].packages[j].live
                  /\ pools[m].packages[i].of = pools[n].packages[j].of
              BY <3>11, <5>2
            <6> QED BY <2>1, <6>1 DEF PoolsOK
          <5> QED BY <5>1, <5>2
        <4> QED BY <4>1, <4>2, <4>3, <4>4 DEF PoolsOK
      <3>13. PublishedOK(Answer(x, o.says))'
        <4>1. \A a : a = Answer(x, o.says) => PublishedOK(a)'
          <5> SUFFICES ASSUME NEW a, a.x = x PROVE PublishedOK(a)'
            BY DEF Answer
          <5>1. at \in DOMAIN pools' /\ pools'[at].dev = b.dev /\ b.gen <= pools'[at].gen
            BY <2>1, <3>5, <3>6, <3>7
          <5> QED BY <2>1, <5>1 DEF PublishedOK
        <4> QED BY <4>1
      <3>14. /\ \A n \in DOMAIN pools : /\ n \in DOMAIN pools' /\ pools'[n].dev = pools[n].dev
                                        /\ pools[n].gen <= pools'[n].gen
             /\ \A n \in DOMAIN pools', i \in 1 .. MaxPackages :
                   pools'[n].packages[i].live =>
                      \/ pools'[n].packages[i].of = x
                      \/ /\ n \in DOMAIN pools /\ pools[n].packages[i].live
                         /\ pools[n].packages[i].of = pools'[n].packages[i].of
        BY <2>2, <3>6, <3>10, <3>11, SMTT(60)
      <3> QED BY <3>2, <3>12, <3>13, <3>14, PackagesStep
    <2> QED BY <2>3, <2>4, <2>5
  <1> QED BY <1>1, <1>2

(* One place of a pool is put right.                                       *)
LEMMA PlacePut ==
    ASSUME NEW pool, NEW q, NEW k \in 1 .. MaxPackages, NEW p,
           pool = [dev |-> pool.dev, gen |-> pool.gen, packages |-> pool.packages],
           pool.packages = [i \in 1 .. MaxPackages |-> pool.packages[i]],
           q = [pool EXCEPT !.packages = [pool.packages EXCEPT ![k] = p]]
    PROVE  /\ q.dev = pool.dev /\ q.gen = pool.gen
           /\ q = [dev |-> q.dev, gen |-> q.gen, packages |-> q.packages]
           /\ q.packages = [i \in 1 .. MaxPackages |-> q.packages[i]]
           /\ \A i \in 1 .. MaxPackages : q.packages[i] = IF i = k THEN p ELSE pool.packages[i]
  <1>1. /\ q.dev = pool.dev /\ q.gen = pool.gen
        /\ q.packages = [pool.packages EXCEPT ![k] = p]
        /\ q = [dev |-> q.dev, gen |-> q.gen, packages |-> q.packages]
    OBVIOUS
  <1> QED BY <1>1

(* A package is handed out; a one-time package is spent.                   *)
LEMMA ClaimStep ==
    ASSUME TypeOK, SentOK, AnsweredOnce, PackagesOK, Keeps,
           NEW x \in Xs, Unhandled(x), ~Unhandled(x)',
           NEW o, o = ClaimPackage(ask[x], now),
           Said' \subseteq Said \cup {Answer(x, o.says)}, pools' = o.pools
    PROVE  PackagesOK'
  <1> DEFINE b == ask[x]
             At == IF PoolsOf(b.names) = {} THEN 0 ELSE Min(PoolsOf(b.names))
             Good(at) == IF at = 0 THEN {}
                         ELSE {n \in 1 .. MaxPackages :
                                 pools[at].packages[n].live /\ now < pools[at].packages[n].until}
             Once(at) == {n \in Good(at) : pools[at].packages[n].once}
  <1>a. PICK at : at = At
    OBVIOUS
  <1>b. PICK k : k = IF Once(at) # {} THEN Min(Once(at)) ELSE Min(Good(at))
    OBVIOUS
  <1>1. CASE b.names = "none"
    <2>1. o = [says |-> [status |-> "malformed"], pools |-> pools]
      BY <1>1 DEF ClaimPackage
    <2>2. pools' = pools /\ o.says.status = "malformed"
      BY <2>1
    <2>3. \A a \in {Answer(x, o.says)} : a.says.status \notin {"published", "claimed"}
      BY <2>2 DEF Answer
    <2> QED BY <2>2, <2>3, PackagesStay
  <1>2. CASE b.names # "none" /\ Good(at) = {}
    <2>1. o = [says |-> [status |-> "no_packages"], pools |-> pools]
      BY <1>2, <1>a DEF ClaimPackage
    <2>2. pools' = pools /\ o.says.status = "no_packages"
      BY <2>1
    <2>3. \A a \in {Answer(x, o.says)} : a.says.status \notin {"published", "claimed"}
      BY <2>2 DEF Answer
    <2> QED BY <2>2, <2>3, PackagesStay
  <1>3. CASE b.names # "none" /\ Good(at) # {}
    <2>1. o = [says  |-> [status |-> "claimed", package |-> pools[at].packages[k]],
               pools |-> Spend(at, k)]
      BY <1>3, <1>a, <1>b DEF ClaimPackage
    <2>2. PICK p : p = pools[at].packages[k]
      OBVIOUS
    <2>3. o.says.status = "claimed" /\ o.says.package = p /\ pools' = Spend(at, k)
      BY <2>1, <2>2
    <2>4. at # 0 /\ PoolsOf(b.names) # {} /\ at \in PoolsOf(b.names)
      <3>1. PoolsOf(b.names) \in SUBSET Nat
        BY DEF PoolsOf, PackagesOK, PoolsOK, IsPort
      <3>2. at # 0
        BY <1>3
      <3> QED BY <1>a, <3>1, <3>2, MinIs
    <2>5. at \in DOMAIN pools /\ pools[at].dev = b.names
      BY <2>4 DEF PoolsOf
    <2>6. k \in Good(at)
      <3>1. Once(at) \in SUBSET Nat /\ Good(at) \in SUBSET Nat /\ Once(at) \subseteq Good(at)
        BY <2>4
      <3> HIDE DEF Good, Once
      <3> QED BY <1>b, <1>3, <3>1, MinIs
    <2>7. k \in 1 .. MaxPackages /\ p.live /\ now < p.until
      BY <2>2, <2>4, <2>6
    <2>8. /\ PoolsOK /\ IsPackage(p) /\ ask[p.of].dev = b.names /\ p.gen = pools[at].gen
          /\ p.of # x
      <3>1. PoolsOK
        BY DEF PackagesOK
      <3>2. IsPackage(p) /\ ask[p.of].dev = pools[at].dev /\ p.gen = pools[at].gen
        BY <2>2, <2>5, <2>7, <3>1, PlaceIs
      <3> QED BY <2>5, <3>1, <3>2 DEF IsPackage
    <2>9. /\ p.until \in Nat /\ p.gen \in Nat /\ b.at \in Nat /\ b.at <= now /\ now \in Nat
          /\ ask'[x] = b /\ x \in Xs'
      <3>1. p.until = ask[p.of].until /\ p.gen = ask[p.of].gen
        BY <2>8, PackageIs DEF IsPackage
      <3> QED BY <2>8, <3>1 DEF TypeOK, AskOK, IsPackage, Keeps
    <2> HIDE DEF At, Good, Once
    <2>10. /\ DOMAIN pools' = DOMAIN pools /\ IsPort(pools')
           /\ \A n \in DOMAIN pools : pools'[n].dev = pools[n].dev /\ pools'[n].gen = pools[n].gen
           /\ \A n \in DOMAIN pools, i \in 1 .. MaxPackages :
                 pools'[n].packages[i] =
                    IF p.once /\ n = at /\ i = k THEN Spent ELSE pools[n].packages[i]
           /\ \A pool \in On(pools') : IsPool(pool)'
      <3>1. \A n \in DOMAIN pools : \A pool : pool = pools[n] => IsPool(pool)'
        BY <2>8, PlaceIs, PoolKept
      <3>2. CASE p.once
        <4>1. pools' = [pools EXCEPT ![at].packages[k] = Spent]
          BY <2>2, <2>3, <3>2 DEF Spend
        <4>2. /\ DOMAIN pools' = DOMAIN pools
              /\ \A n \in DOMAIN pools : n # at => pools'[n] = pools[n]
              /\ pools'[at] = [pools[at] EXCEPT !.packages =
                                  [pools[at].packages EXCEPT ![k] = Spent]]
          BY <2>5, <4>1
        <4>3. IsPort(pools')
          <5>1. Len(pools) \in Nat /\ DOMAIN pools = 1 .. Len(pools)
            BY <2>8 DEF PoolsOK, IsPort
          <5>2. pools' = [n \in 1 .. Len(pools) |-> pools'[n]]
            BY <4>1, <5>1
          <5>3. \A n \in 1 .. Len(pools) : pools'[n] \in On(pools')
            BY <4>2, <5>1 DEF On
          <5> QED BY <5>1, <5>2, <5>3 DEF IsPort
        <4>4. IsPool(pools[at])
          BY <2>5, <2>8, PlaceIs
        <4>a. PICK old, q : old = pools[at] /\ q = pools'[at]
          OBVIOUS
        <4>b. IsPool(old) /\ IsPool(old)'
          BY <2>5, <3>1, <4>4, <4>a
        <4>5. /\ q.dev = old.dev /\ q.gen = old.gen
              /\ q = [dev |-> q.dev, gen |-> q.gen, packages |-> q.packages]
              /\ q.packages = [i \in 1 .. MaxPackages |-> q.packages[i]]
              /\ \A i \in 1 .. MaxPackages :
                    q.packages[i] = IF i = k THEN Spent ELSE old.packages[i]
          <5>1. /\ old = [dev |-> old.dev, gen |-> old.gen, packages |-> old.packages]
                /\ old.packages = [i \in 1 .. MaxPackages |-> old.packages[i]]
                /\ q = [old EXCEPT !.packages = [old.packages EXCEPT ![k] = Spent]]
            BY <4>2, <4>a, <4>b DEF IsPool
          <5>2. k \in 1 .. MaxPackages
            BY <2>7
          <5> QED BY <5>1, <5>2, PlacePut
        <4>6. IsPool(q)'
          <5>1. \A i \in 1 .. MaxPackages : q.packages[i] = Spent \/ q.packages[i] = old.packages[i]
            BY <4>5
          <5>2. \A i \in 1 .. MaxPackages :
                   \/ q.packages[i] = Spent
                   \/ /\ IsPackage(q.packages[i])' /\ ask'[q.packages[i].of].dev = q.dev
                      /\ q.packages[i].gen = q.gen
            BY <4>5, <4>b, <5>1 DEF IsPool
          <5>3. q.gen \in Nat
            BY <4>5, <4>b DEF IsPool
          <5> QED BY <4>5, <5>2, <5>3 DEF IsPool
        <4>7. \A pool \in On(pools') : IsPool(pool)'
          <5> SUFFICES ASSUME NEW n \in DOMAIN pools, NEW pool, pool = pools'[n] PROVE IsPool(pool)'
            BY <4>2 DEF On
          <5>1. CASE n = at
            BY <4>6, <4>a, <5>1
          <5>2. CASE n # at
            BY <3>1, <4>2, <5>2
          <5> QED BY <5>1, <5>2
        <4>8. \A n \in DOMAIN pools : pools'[n].dev = pools[n].dev /\ pools'[n].gen = pools[n].gen
          BY <4>2, <4>5, <4>a
        <4>9. \A n \in DOMAIN pools, i \in 1 .. MaxPackages :
                 pools'[n].packages[i] = IF n = at /\ i = k THEN Spent ELSE pools[n].packages[i]
          BY <4>2, <4>5, <4>a
        <4> QED BY <3>2, <4>2, <4>3, <4>7, <4>8, <4>9
      <3>3. CASE ~p.once
        <4>1. pools' = pools
          BY <2>2, <2>3, <3>3 DEF Spend
        <4>2. IsPort(pools')
          BY <2>8, <4>1 DEF PoolsOK
        <4>3. \A pool \in On(pools') : IsPool(pool)'
          BY <3>1, <4>1 DEF On
        <4> QED BY <3>3, <4>1, <4>2, <4>3
      <3> QED BY <3>2, <3>3
    <2>11. DOMAIN pools' = DOMAIN pools
      BY <2>10
    <2>12. \A n \in DOMAIN pools, i \in 1 .. MaxPackages :
              pools'[n].packages[i].live =>
                 /\ pools[n].packages[i].live
                 /\ pools[n].packages[i].of = pools'[n].packages[i].of
                 /\ p.once => ~(n = at /\ i = k)
      BY <2>10 DEF Spent
    <2>13. PoolsOK'
      <3>2. \A m, n \in DOMAIN pools' : pools'[m].dev = pools'[n].dev => m = n
        BY <2>8, <2>10 DEF PoolsOK
      <3>3. \A m, n \in DOMAIN pools', i, j \in 1 .. MaxPackages :
               /\ pools'[m].packages[i].live /\ pools'[n].packages[j].live
               /\ pools'[m].packages[i].of = pools'[n].packages[j].of
               => m = n /\ i = j
        <4> SUFFICES ASSUME NEW m \in DOMAIN pools, NEW n \in DOMAIN pools,
                            NEW i \in 1 .. MaxPackages, NEW j \in 1 .. MaxPackages,
                            pools'[m].packages[i].live, pools'[n].packages[j].live,
                            pools'[m].packages[i].of = pools'[n].packages[j].of
                     PROVE  m = n /\ i = j
          BY <2>11, SMTT(60)
        <4>1. /\ pools[m].packages[i].live /\ pools[n].packages[j].live
              /\ pools[m].packages[i].of = pools[n].packages[j].of
          BY <2>12
        <4> QED BY <2>8, <4>1 DEF PoolsOK
      <3> QED BY <2>10, <3>2, <3>3 DEF PoolsOK
    <2>14. \A n \in DOMAIN pools : /\ n \in DOMAIN pools' /\ pools'[n].dev = pools[n].dev
                                   /\ pools[n].gen <= pools'[n].gen
      <3>1. \A n \in DOMAIN pools : pools[n].gen \in Nat
        BY <2>8, PlaceIs DEF IsPool
      <3> QED BY <2>10, <3>1
    <2>15. \A n \in DOMAIN pools', i \in 1 .. MaxPackages :
              pools'[n].packages[i].live =>
                 \/ pools'[n].packages[i].of = x
                 \/ /\ n \in DOMAIN pools /\ pools[n].packages[i].live
                    /\ pools[n].packages[i].of = pools'[n].packages[i].of
      BY <2>10, <2>12
    <2>16. \A y \in b.since :
              got[y].status = "published" /\ ask[y].dev = b.names => ask[y].gen <= p.gen
      <3> SUFFICES ASSUME NEW y \in b.since, got[y].status = "published", ask[y].dev = b.names
                   PROVE  ask[y].gen <= p.gen
        OBVIOUS
      <3>1. y \in Xs /\ stage[y] = "answered"
        BY DEF TypeOK, AskOK
      <3>2. \A a : a = Answer(y, got[y]) => a \in Said /\ Listed(a) /\ a.x = y
        BY <3>1 DEF Said, Listed, Answer
      <3>3. \A a : a = Answer(y, got[y]) => PublishedOK(a) /\ a.x = y
        BY <3>2 DEF PackagesOK
      <3>4. \E n \in DOMAIN pools : pools[n].dev = ask[y].dev /\ ask[y].gen <= pools[n].gen
        BY <3>3 DEF PublishedOK
      <3> QED BY <2>5, <2>8, <3>4 DEF PoolsOK
    <2>17. ClaimedOK(Answer(x, o.says))'
      <3>1. \A a : a = Answer(x, o.says) => ClaimedOK(a)'
        <4> SUFFICES ASSUME NEW a, a.x = x, a.says.package = p PROVE ClaimedOK(a)'
          BY <2>3 DEF Answer
        <4>1. IsPackage(p)' /\ ask'[p.of] = ask[p.of]
          BY <2>8, PackageKept
        <4>2. ask'[x].at < p.until
          BY <2>7, <2>9
        <4>3. p.once => \A n \in DOMAIN pools', i \in 1 .. MaxPackages :
                           pools'[n].packages[i].live => pools'[n].packages[i].of # p.of
          <5> SUFFICES ASSUME p.once, NEW n \in DOMAIN pools, NEW i \in 1 .. MaxPackages,
                              pools'[n].packages[i].live, pools'[n].packages[i].of = p.of
                       PROVE  FALSE
            BY <2>10
          <5>1. pools[n].packages[i].live /\ pools[n].packages[i].of = p.of /\ ~(n = at /\ i = k)
            BY <2>12
          <5> QED BY <2>2, <2>5, <2>7, <2>8, <5>1 DEF PoolsOK
        <4>4. \A y \in b.since : ask'[y] = ask[y] /\ got'[y] = got[y]
          BY SinceKept
        <4>5. \A y \in ask'[x].since :
                 got'[y].status = "published" /\ ask'[y].dev = ask'[x].names =>
                    ask'[y].gen <= p.gen
          BY <2>9, <2>16, <4>4
        <4>6. ask'[p.of].dev = ask'[x].names
          BY <2>8, <2>9, <4>1
        <4> QED BY <4>1, <4>2, <4>3, <4>5, <4>6 DEF ClaimedOK
      <3> QED BY <3>1
    <2>18. \A c \in Said : Claimed(c) /\ (c.says.package.once \/ o.says.package.once) =>
                              c.says.package.of # o.says.package.of
      <3> SUFFICES ASSUME NEW c \in Said, Claimed(c), c.says.package.once \/ p.once,
                          c.says.package.of = p.of
                   PROVE  FALSE
        BY <2>3
      <3>1. ClaimedOK(c)
        BY DEF PackagesOK
      <3>2. c.says.package = p
        BY <2>8, <3>1 DEF ClaimedOK, IsPackage
      <3> QED BY <2>2, <2>5, <2>7, <3>1, <3>2 DEF ClaimedOK
    <2> QED BY <2>3, <2>13, <2>14, <2>15, <2>17, <2>18, PackagesStep
  <1> QED BY <1>1, <1>2, <1>3

(***************************************************************************)
(* Ratchet states.                                                         *)
(***************************************************************************)
LEMMA AdvancesOver ==
    ASSUME NEW m, NEW n, NEW o, AdvancesOn(o, n), AdvancesOn(n, m),
           m.epoch \in Nat, m.gen \in Nat, n.epoch \in Nat, n.gen \in Nat,
           o.epoch \in Nat, o.gen \in Nat
    PROVE  AdvancesOn(o, m)
  BY DEF AdvancesOn

LEMMA CommitIs ==
    ASSUME TypeOK, StatesOK
    PROVE  \A k \in DOMAIN states :
              /\ states[k].revision \in Nat /\ states[k].revision >= 1
              /\ states[k].marker.epoch \in Nat /\ states[k].marker.gen \in Nat
              /\ states[k].of \in Xs /\ states[k].marker = ask[states[k].of].marker
  BY DEF StatesOK, IsCommit, TypeOK, AskOK

LEMMA CommitKept ==
    ASSUME Keeps, NEW k \in DOMAIN states, IsCommit(k), states'[k] = states[k]
    PROVE  IsCommit(k)'
  BY DEF IsCommit, Keeps

LEMMA LineKept ==
    ASSUME TypeOK, Keeps, NEW a, a.x \in Xs, InLine(a)
    PROVE  InLine(a)'
  BY SinceKept DEF InLine

LEMMA StatesStay ==
    ASSUME TypeOK, SentOK, StatesOK, Keeps, states' = states,
           NEW N, Said' \subseteq Said \cup N,
           \A a \in N : /\ a.says.status \notin {"committed", "loaded", "rolled_back", "poisoned"}
                        /\ "revision" \notin DOMAIN a.says
    PROVE  StatesOK'
  <1>1. \A k \in DOMAIN states' : IsCommit(k)'
    BY CommitKept DEF StatesOK
  <1>2. \A a \in Said : a.x \in Xs /\ ask'[a.x] = ask[a.x]
    BY SaidIs DEF Keeps
  <1>3. ASSUME NEW a \in Said'
        PROVE  /\ "revision" \in DOMAIN a.says <=> Committed(a) \/ Loaded(a)
               /\ Committed(a) \/ Loaded(a) \/ Stopped(a) => a \in Said
    BY <1>3 DEF StatesOK, Committed, Loaded, Stopped
  <1>4. \A a \in Said' : Committed(a) => CommittedOK(a)' /\ InLine(a)'
    BY <1>2, <1>3, LineKept DEF StatesOK, CommittedOK
  <1>5. \A a \in Said' : Loaded(a) => LoadedOK(a)' /\ InLine(a)'
    BY <1>2, <1>3, LineKept DEF StatesOK, LoadedOK
  <1>6. \A a \in Said' : Stopped(a) => /\ ask'[a.x].key \in DOMAIN states
                                         /\ states[ask'[a.x].key].poisoned
    BY <1>2, <1>3 DEF StatesOK
  <1>7. \A a, b \in Said' : Agree(a, b)'
    <2> SUFFICES ASSUME NEW a \in Said', NEW b \in Said', Committed(a), Committed(b) \/ Loaded(b)
                 PROVE  Agree(a, b)'
      BY DEF Agree, Committed, Loaded
    <2>1. Agree(a, b) /\ ask'[a.x] = ask[a.x] /\ ask'[b.x] = ask[b.x]
      BY <1>2, <1>3 DEF StatesOK
    <2> QED BY <2>1 DEF Agree, Committed, Loaded
  <1> QED BY <1>1, <1>3, <1>4, <1>5, <1>6, <1>7 DEF StatesOK, Committed, Loaded, Stopped

(* The table moved on by a step at most.                                   *)
Moves ==
    \A k \in DOMAIN states :
        /\ k \in DOMAIN states' /\ (states[k].poisoned => states'[k].poisoned)
        /\ \/ /\ states'[k].revision = states[k].revision /\ states'[k].of = states[k].of
              /\ states'[k].marker = states[k].marker
           \/ /\ states'[k].revision = states[k].revision + 1
              /\ AdvancesOn(states'[k].marker, states[k].marker)
              /\ states'[k].marker.epoch \in Nat /\ states'[k].marker.gen \in Nat

(* A request is answered, and what had been answered still stands.         *)
LEMMA StatesStep ==
    ASSUME TypeOK, SentOK, StatesOK, Keeps, Moves, ask' = ask,
           \A k \in DOMAIN states' : IsCommit(k)',
           NEW x \in Xs, NEW says, NEW new, new = Answer(x, says), Said' \subseteq Said \cup {new},
           \A a \in Said : a.x # x,
           "revision" \in DOMAIN says <=> says.status \in {"committed", "loaded"},
           says.status = "committed" => CommittedOK(new)' /\ InLine(new)',
           says.status = "loaded" => LoadedOK(new)' /\ InLine(new)',
           says.status \in {"rolled_back", "poisoned"} =>
              ask[x].key \in DOMAIN states' /\ states'[ask[x].key].poisoned,
           \A a \in Said : Agree(a, new) /\ Agree(new, a)
    PROVE  StatesOK'
  <1>1. new.x = x /\ new.says = says
    BY DEF Answer
  <1>2. \A a \in Said : a.x \in Xs
    BY SaidIs
  <1>3. ASSUME NEW a \in Said, Committed(a)
        PROVE  CommittedOK(a)' /\ InLine(a)'
    <2>1. CommittedOK(a) /\ InLine(a)'
      BY <1>2, <1>3, LineKept DEF StatesOK
    <2>2. PICK k : k = ask[a.x].key
      OBVIOUS
    <2>3. /\ k \in DOMAIN states /\ states[k].revision \in Nat /\ k \in DOMAIN states'
          /\ states[k].marker.epoch \in Nat /\ states[k].marker.gen \in Nat
          /\ ask[a.x].marker.epoch \in Nat /\ ask[a.x].marker.gen \in Nat
          /\ a.says.revision \in Nat /\ a.says.revision <= states[k].revision
          /\ states[k].marker = ask[states[k].of].marker
      BY <1>2, <2>1, <2>2, CommitIs, SMTT(60) DEF CommittedOK, TypeOK, AskOK, Moves
    <2>4. CASE /\ states'[k].revision = states[k].revision /\ states'[k].of = states[k].of
               /\ states'[k].marker = states[k].marker
      BY <2>1, <2>2, <2>3, <2>4 DEF CommittedOK
    <2>5. CASE /\ states'[k].revision = states[k].revision + 1
               /\ AdvancesOn(states'[k].marker, states[k].marker)
               /\ states'[k].marker.epoch \in Nat /\ states'[k].marker.gen \in Nat
      <3>1. a.says.revision < states'[k].revision
        BY <2>3, <2>5
      <3>2. AdvancesOn(states'[k].marker, ask[a.x].marker)
        <4>1. CASE a.says.revision = states[k].revision
          <5>1. states[k].marker = ask[a.x].marker
            BY <2>1, <2>2, <2>3, <4>1 DEF CommittedOK
          <5> QED BY <2>5, <5>1
        <4>2. CASE a.says.revision < states[k].revision
          <5>1. AdvancesOn(states[k].marker, ask[a.x].marker)
            BY <2>1, <2>2, <4>2 DEF CommittedOK
          <5>2. PICK m, n, o : m = ask[a.x].marker /\ n = states[k].marker /\ o = states'[k].marker
            OBVIOUS
          <5>3. AdvancesOn(o, m)
            BY <2>3, <2>5, <5>1, <5>2, AdvancesOver
          <5> QED BY <5>2, <5>3
        <4> QED BY <2>3, <4>1, <4>2
      <3>3. a.says.revision # states'[k].revision /\ a.says.revision <= states'[k].revision
        BY <2>3, <2>5
      <3>4. /\ ask[a.x].path = "commit" /\ a.says.revision = ask[a.x].expected + 1
        BY <2>1 DEF CommittedOK
      <3> QED BY <2>1, <2>2, <2>3, <3>2, <3>3, <3>4 DEF CommittedOK
    <2> QED BY <2>1, <2>3, <2>4, <2>5 DEF Moves
  <1>4. ASSUME NEW a \in Said, Loaded(a)
        PROVE  LoadedOK(a)' /\ InLine(a)'
    <2>1. LoadedOK(a) /\ InLine(a)'
      BY <1>2, <1>4, LineKept DEF StatesOK
    <2>2. PICK k : k = ask[a.x].key
      OBVIOUS
    <2>3. CASE a.says.revision = 0
      BY <2>1, <2>3 DEF LoadedOK
    <2>4. CASE a.says.revision # 0
      <3>1. /\ k \in DOMAIN states /\ a.says.revision \in Nat /\ states[k].revision \in Nat
            /\ a.says.revision <= states[k].revision
            /\ a.says.revision = states[k].revision =>
                  a.says.of = states[k].of /\ a.says.marker = states[k].marker
        BY <2>1, <2>2, <2>4, CommitIs DEF LoadedOK
      <3>2. /\ k \in DOMAIN states' /\ a.says.revision <= states'[k].revision
            /\ a.says.revision = states'[k].revision =>
                  a.says.of = states'[k].of /\ a.says.marker = states'[k].marker
        BY <3>1 DEF Moves
      <3> QED BY <2>1, <2>2, <3>1, <3>2 DEF LoadedOK
    <2> QED BY <2>3, <2>4
  <1>5. ASSUME NEW a \in Said, Stopped(a)
        PROVE  ask[a.x].key \in DOMAIN states' /\ states'[ask[a.x].key].poisoned
    BY <1>5 DEF StatesOK, Moves
  <1>6. \A a \in Said' :
           /\ "revision" \in DOMAIN a.says <=> Committed(a) \/ Loaded(a)
           /\ Committed(a) => CommittedOK(a)' /\ InLine(a)'
           /\ Loaded(a) => LoadedOK(a)' /\ InLine(a)'
           /\ Stopped(a) => ask[a.x].key \in DOMAIN states' /\ states'[ask[a.x].key].poisoned
    <2> SUFFICES ASSUME NEW a \in Said'
                 PROVE  /\ "revision" \in DOMAIN a.says <=> Committed(a) \/ Loaded(a)
                        /\ Committed(a) => CommittedOK(a)' /\ InLine(a)'
                        /\ Loaded(a) => LoadedOK(a)' /\ InLine(a)'
                        /\ Stopped(a) => /\ ask[a.x].key \in DOMAIN states'
                                         /\ states'[ask[a.x].key].poisoned
      OBVIOUS
    <2>1. CASE a \in Said
      BY <1>3, <1>4, <1>5, <2>1 DEF StatesOK
    <2>2. CASE a = new
      BY <1>1, <2>2 DEF Committed, Loaded, Stopped
    <2> QED BY <2>1, <2>2
  <1>7. \A a, b \in Said' : Agree(a, b)
    <2>1. Agree(new, new)
      BY DEF Agree
    <2> QED BY <2>1 DEF StatesOK
  <1>8. \A a, b \in Said' : Agree(a, b)'
    BY <1>7 DEF Agree, Committed, Loaded
  <1> QED BY <1>6, <1>8 DEF StatesOK, Committed, Loaded, Stopped

LEMMA FoundIs ==
    ASSUME NEW k
    PROVE  /\ k \in DOMAIN states => Found(k) = states[k]
           /\ k \notin DOMAIN states =>
                 /\ Found(k).revision = 0 /\ ~Found(k).poisoned /\ Found(k).of = 0
                 /\ Found(k).marker = [epoch |-> 0, gen |-> 0]
  BY DEF Found

(* What has been said of an endpoint that is not stopped.                  *)
LEMMA SaidSoFar ==
    ASSUME TypeOK, SentOK, StatesOK, NEW k, NEW f, f = Found(k), ~f.poisoned
    PROVE  /\ f.revision \in Nat
           /\ \A a \in Said : ask[a.x].key = k =>
                 /\ ~Stopped(a)
                 /\ Committed(a) \/ Loaded(a) =>
                       a.says.revision \in Nat /\ a.says.revision <= f.revision
                 /\ Committed(a) =>
                       /\ a.says.revision >= 1 /\ k \in DOMAIN states
                       /\ a.says.revision = f.revision =>
                             f.of = a.x /\ f.marker = ask[a.x].marker
                       /\ a.says.revision < f.revision => AdvancesOn(f.marker, ask[a.x].marker)
  <1>1. /\ f.revision \in Nat
        /\ k \in DOMAIN states =>
              f = states[k] /\ f.revision >= 1 /\ f.of \in Xs /\ f.marker = ask[f.of].marker
        /\ k \notin DOMAIN states => f.revision = 0
    BY FoundIs, CommitIs
  <1> SUFFICES ASSUME NEW a \in Said, ask[a.x].key = k
               PROVE  /\ ~Stopped(a)
                      /\ Committed(a) \/ Loaded(a) =>
                            a.says.revision \in Nat /\ a.says.revision <= f.revision
                      /\ Committed(a) =>
                            /\ a.says.revision >= 1 /\ k \in DOMAIN states
                            /\ a.says.revision = f.revision =>
                                  f.of = a.x /\ f.marker = ask[a.x].marker
                            /\ a.says.revision < f.revision =>
                                  AdvancesOn(f.marker, ask[a.x].marker)
    BY <1>1
  <1>2. a.x \in Xs
    BY SaidIs
  <1>3. ~Stopped(a)
    BY <1>1 DEF StatesOK
  <1>4. CASE Committed(a)
    <2>1. CommittedOK(a) /\ ask[a.x].expected \in Nat
      BY <1>2, <1>4 DEF StatesOK, CommittedOK, TypeOK, AskOK
    <2>2. ~Loaded(a)
      BY <1>4 DEF Committed, Loaded
    <2> QED BY <1>1, <1>3, <1>4, <2>1 DEF CommittedOK
  <1>5. CASE Loaded(a)
    <2>1. LoadedOK(a)
      BY <1>5 DEF StatesOK
    <2>2. ~Committed(a)
      BY <1>5 DEF Committed, Loaded
    <2> QED BY <1>1, <1>3, <1>5, <2>1, <2>2 DEF LoadedOK
  <1> QED BY <1>3, <1>4, <1>5

(* An answer given now comes after all that had been answered.             *)
LEMMA LineNow ==
    ASSUME TypeOK, SentOK, StatesOK, Keeps, ask' = ask,
           NEW x \in Xs, NEW f, f = Found(ask[x].key), ~f.poisoned,
           NEW a, a.x = x, a.says.revision \in Nat, f.revision <= a.says.revision
    PROVE  InLine(a)'
  <1> SUFFICES ASSUME NEW y \in ask[x].since
               PROVE  /\ got[y].status \in {"committed", "loaded"} /\ ask[y].key = ask[x].key =>
                            got[y].revision <= a.says.revision
                      /\ got[y].status \in {"rolled_back", "poisoned"} => ask[y].key # ask[x].key
    BY SinceKept DEF InLine
  <1>1. y \in Xs /\ stage[y] = "answered"
    BY DEF TypeOK, AskOK
  <1>2. PICK c : c = Answer(y, got[y])
    OBVIOUS
  <1>3. c \in Said /\ c.x = y /\ c.says = got[y]
    BY <1>1, <1>2 DEF Said, Answer
  <1>4. PICK k : k = ask[x].key
    OBVIOUS
  <1>5. ask[y].key = k =>
           /\ ~Stopped(c)
           /\ Committed(c) \/ Loaded(c) => c.says.revision \in Nat /\ c.says.revision <= f.revision
    BY <1>3, <1>4, SaidSoFar
  <1>6. f.revision \in Nat
    BY <1>4, SaidSoFar
  <1> QED BY <1>3, <1>4, <1>5, <1>6 DEF Committed, Loaded, Stopped

LEMMA LoadStep ==
    ASSUME TypeOK, SentOK, StatesOK, Keeps, ask' = ask,
           NEW x \in Xs, \A a \in Said : a.x # x,
           NEW o, o = LoadState(ask[x]),
           Said' \subseteq Said \cup {Answer(x, o.says)}, states' = o.states
    PROVE  StatesOK'
  <1>1. PICK f, k, b : b = ask[x] /\ k = b.key /\ f = Found(k)
    OBVIOUS
  <1>2. PICK new : new = Answer(x, o.says)
    OBVIOUS
  <1>3. new.x = x /\ new.says = o.says
    BY <1>2 DEF Answer
  <1>4. states' = states
    BY DEF LoadState
  <1>5. Moves /\ \A j \in DOMAIN states' : IsCommit(j)'
    BY <1>4, CommitKept DEF Moves, StatesOK
  <1>6. CASE Malformed(b) \/ ~Owns(b.dev, b.key)
    <2>1. o.says = [status |-> "malformed"] \/ o.says = [status |-> "forbidden"]
      BY <1>1, <1>6 DEF LoadState
    <2>2. /\ o.says.status \notin {"committed", "loaded", "rolled_back", "poisoned"}
          /\ "revision" \notin DOMAIN o.says
      BY <2>1
    <2>3. \A a \in {new} :
             /\ a.says.status \notin {"committed", "loaded", "rolled_back", "poisoned"}
             /\ "revision" \notin DOMAIN a.says
      BY <1>3, <2>2
    <2> QED BY <1>2, <1>4, <2>3, StatesStay
  <1>7. CASE ~Malformed(b) /\ Owns(b.dev, b.key) /\ f.poisoned
    <2>1. o.says = [status |-> "poisoned"]
      BY <1>1, <1>7 DEF LoadState
    <2>2. o.says.status = "poisoned" /\ "revision" \notin DOMAIN o.says
      BY <2>1
    <2>3. k \in DOMAIN states' /\ states'[k].poisoned
      BY <1>1, <1>4, <1>7, FoundIs
    <2>4. \A a \in Said : Agree(a, new) /\ Agree(new, a)
      BY <1>3, <2>2 DEF Agree, Committed, Loaded
    <2>5. k = ask[x].key
      BY <1>1
    <2> QED BY <1>2, <1>5, <2>2, <2>3, <2>4, <2>5, StatesStep
  <1>8. CASE ~Malformed(b) /\ Owns(b.dev, b.key) /\ ~f.poisoned
    <2>1. o.says = [status |-> "loaded", revision |-> f.revision, marker |-> f.marker, of |-> f.of]
      BY <1>1, <1>8 DEF LoadState
    <2>2. /\ o.says.status = "loaded" /\ "revision" \in DOMAIN o.says
          /\ new.says.revision = f.revision /\ new.says.marker = f.marker /\ new.says.of = f.of
      BY <1>3, <2>1
    <2>3. f.revision \in Nat
      BY <1>1, <1>8, SaidSoFar
    <2>4. InLine(new)'
      <3>1. f = Found(ask[x].key)
        BY <1>1
      <3> QED BY <1>3, <1>8, <2>2, <2>3, <3>1, LineNow
    <2>5. LoadedOK(new)'
      <3>1. CASE k \in DOMAIN states
        <4>1. f = states[k] /\ ask'[x].key = k
          BY <1>1, <3>1, FoundIs
        <4> QED BY <1>3, <1>4, <2>2, <2>3, <3>1, <4>1 DEF LoadedOK
      <3>2. CASE k \notin DOMAIN states
        BY <1>1, <2>2, <3>2, FoundIs DEF LoadedOK
      <3> QED BY <3>1, <3>2
    <2>6. \A a \in Said : Agree(a, new) /\ Agree(new, a)
      <3> SUFFICES ASSUME NEW a \in Said, Committed(a), ask[a.x].key = k,
                          a.says.revision = new.says.revision
                   PROVE  new.says.of = a.x /\ new.says.marker = ask[a.x].marker
        BY <1>1, <1>3, <2>2 DEF Agree, Committed, Loaded
      <3> QED BY <1>1, <1>8, <2>2, SaidSoFar
    <2> QED BY <1>2, <1>5, <2>2, <2>4, <2>5, <2>6, StatesStep
  <1> QED BY <1>6, <1>7, <1>8

LEMMA CommitStep ==
    ASSUME TypeOK, SentOK, StatesOK, Keeps, ask' = ask,
           NEW x \in Xs, ~Unhandled(x)', \A a \in Said : a.x # x, ask[x].path = "commit",
           NEW o, o = CommitState(x, ask[x]),
           Said' \subseteq Said \cup {Answer(x, o.says)}, states' = o.states
    PROVE  StatesOK'
  <1>1. PICK f, k, b : b = ask[x] /\ k = b.key /\ f = Found(k)
    OBVIOUS
  <1>2. PICK new : new = Answer(x, o.says)
    OBVIOUS
  <1>3. new.x = x /\ new.says = o.says
    BY <1>2 DEF Answer
  <1>4. k = ask[x].key /\ ask'[x] = b
    BY <1>1
  <1> DEFINE Refuses == Malformed(b) \/ ~Owns(b.dev, b.key)
             Repeats == f.revision > 0 /\ b.marker = f.marker
             Back    == f.revision > 0 /\ ~AdvancesOn(b.marker, f.marker)
             Full    == b.key \notin DOMAIN states /\ Cardinality(DOMAIN states) = MaxEndpoints
  <1>5. CASE \/ Refuses
             \/ ~Refuses /\ ~f.poisoned /\ Superseded(b, f)
             \/ ~Refuses /\ ~f.poisoned /\ ~Superseded(b, f) /\ Repeats
             \/ ~Refuses /\ ~f.poisoned /\ ~Superseded(b, f) /\ ~Repeats /\ ~Back /\ Full
    <2>1. \E status \in {"malformed", "forbidden", "superseded", "not_advancing", "unavailable"} :
             o = Says(status)
      BY <1>1, <1>5 DEF CommitState
    <2>2. /\ states' = states
          /\ o.says.status \notin {"committed", "loaded", "rolled_back", "poisoned"}
          /\ "revision" \notin DOMAIN o.says
      BY <2>1 DEF Says
    <2>3. \A a \in {new} :
             /\ a.says.status \notin {"committed", "loaded", "rolled_back", "poisoned"}
             /\ "revision" \notin DOMAIN a.says
      BY <1>3, <2>2
    <2> QED BY <1>2, <2>2, <2>3, StatesStay
  <1>6. CASE ~Refuses /\ f.poisoned
    <2>1. o = Says("poisoned")
      BY <1>1, <1>6 DEF CommitState
    <2>2. states' = states /\ o.says.status = "poisoned" /\ "revision" \notin DOMAIN o.says
      BY <2>1 DEF Says
    <2>3. k \in DOMAIN states' /\ states'[k].poisoned
      BY <1>1, <1>6, <2>2, FoundIs
    <2>4. \A a \in Said : Agree(a, new) /\ Agree(new, a)
      BY <1>3, <2>2 DEF Agree, Committed, Loaded
    <2>5. Moves /\ \A j \in DOMAIN states' : IsCommit(j)'
      BY <2>2, CommitKept DEF Moves, StatesOK
    <2> QED BY <1>2, <1>4, <2>2, <2>3, <2>4, <2>5, StatesStep
  <1>7. CASE ~Refuses /\ ~f.poisoned /\ ~Superseded(b, f) /\ ~Repeats /\ Back
    <2>1. o = [says   |-> [status |-> "rolled_back"],
               states |-> [states EXCEPT ![k] = [f EXCEPT !.poisoned = TRUE]]]
      BY <1>1, <1>7 DEF CommitState
    <2>2. /\ o.says.status = "rolled_back" /\ "revision" \notin DOMAIN o.says
          /\ states' = [states EXCEPT ![k] = [f EXCEPT !.poisoned = TRUE]]
      BY <2>1
    <2>3. k \in DOMAIN states /\ f = states[k] /\ IsCommit(k)
      BY <1>1, <1>7, FoundIs DEF StatesOK
    <2>4. /\ DOMAIN states' = DOMAIN states
          /\ \A j \in DOMAIN states : j # k => states'[j] = states[j]
          /\ states'[k] = [f EXCEPT !.poisoned = TRUE]
      BY <2>2, <2>3
    <2>5. /\ states'[k].revision = states[k].revision /\ states'[k].of = states[k].of
          /\ states'[k].marker = states[k].marker /\ states'[k].poisoned = TRUE
          /\ states'[k] = [revision |-> states[k].revision, marker |-> states[k].marker,
                           of |-> states[k].of, poisoned |-> TRUE]
      BY <2>3, <2>4 DEF IsCommit
    <2>6. Moves
      BY <2>4, <2>5 DEF Moves
    <2>7. \A j \in DOMAIN states' : IsCommit(j)'
      <3> SUFFICES ASSUME NEW j \in DOMAIN states PROVE IsCommit(j)'
        BY <2>4
      <3>1. CASE j = k
        BY <2>3, <2>5, <3>1 DEF IsCommit, Keeps
      <3>2. CASE j # k
        BY <2>4, <3>2, CommitKept DEF StatesOK
      <3> QED BY <3>1, <3>2
    <2>8. k \in DOMAIN states' /\ states'[k].poisoned
      BY <2>3, <2>4, <2>5
    <2>9. \A a \in Said : Agree(a, new) /\ Agree(new, a)
      BY <1>3, <2>2 DEF Agree, Committed, Loaded
    <2> QED BY <1>2, <1>4, <2>2, <2>6, <2>7, <2>8, <2>9, StatesStep
  <1>8. CASE ~Refuses /\ ~f.poisoned /\ ~Superseded(b, f) /\ ~Repeats /\ ~Back /\ ~Full
    <2> DEFINE next == [revision |-> f.revision + 1, marker |-> b.marker, of |-> x,
                        poisoned |-> FALSE]
    <2>1. o = [says   |-> [status |-> "committed", revision |-> f.revision + 1],
               states |-> [j \in DOMAIN states \cup {k} |-> IF j # k THEN states[j] ELSE next]]
      BY <1>1, <1>8 DEF CommitState
    <2>2. /\ o.says.status = "committed" /\ "revision" \in DOMAIN o.says
          /\ new.says.revision = f.revision + 1
          /\ DOMAIN states' = DOMAIN states \cup {k} /\ states'[k] = next
          /\ \A j \in DOMAIN states : j # k => states'[j] = states[j]
      BY <1>3, <2>1
    <2>3. /\ f.revision \in Nat /\ b.expected = f.revision /\ b.path = "commit"
          /\ b.marker.epoch \in Nat /\ b.marker.gen \in Nat
      BY <1>1, <1>8, SaidSoFar DEF Superseded, TypeOK, AskOK
    <2>4. /\ states'[k].revision = f.revision + 1 /\ states'[k].marker = b.marker
          /\ states'[k].of = x /\ states'[k].poisoned = FALSE
      BY <2>2
    <2>5. k \in DOMAIN states =>
             f = states[k] /\ f.revision >= 1 /\ AdvancesOn(b.marker, f.marker)
      BY <1>1, <1>8, <2>3, FoundIs, CommitIs
    <2>6. Moves
      BY <1>8, <2>2, <2>3, <2>4, <2>5 DEF Moves
    <2>7. \A j \in DOMAIN states' : IsCommit(j)'
      <3> SUFFICES ASSUME NEW j \in DOMAIN states \cup {k} PROVE IsCommit(j)'
        BY <2>2
      <3>1. CASE j = k
        <4>1. x \in Xs' /\ ask'[x].path = "commit" /\ ask'[x].key = k /\ ask'[x].marker = b.marker
              /\ ask'[x].expected = f.revision
          BY <1>1, <2>3 DEF Keeps
        <4> QED BY <2>2, <2>4, <3>1, <4>1 DEF IsCommit
      <3>2. CASE j # k
        BY <2>2, <3>2, CommitKept DEF StatesOK
      <3> QED BY <3>1, <3>2
    <2>8. CommittedOK(new)'
      <3>1. k \in DOMAIN states'
        BY <2>2
      <3> QED BY <1>1, <1>3, <2>2, <2>3, <2>4, <3>1 DEF CommittedOK
    <2>9. InLine(new)'
      <3>1. f = Found(ask[x].key) /\ f.revision <= new.says.revision /\ new.says.revision \in Nat
        BY <1>1, <2>2, <2>3
      <3> QED BY <1>3, <1>8, <3>1, LineNow
    <2>10. ASSUME NEW a \in Said
           PROVE  Agree(a, new) /\ Agree(new, a)
      <3> SUFFICES ASSUME ask[a.x].key = k, Committed(a) \/ Loaded(a)
                   PROVE  Agree(a, new) /\ Agree(new, a)
        BY <1>1, <1>3 DEF Agree
      <3>1. /\ a.says.revision \in Nat /\ a.says.revision <= f.revision
            /\ Committed(a) =>
                  /\ k \in DOMAIN states
                  /\ a.says.revision = f.revision => f.marker = ask[a.x].marker
                  /\ a.says.revision < f.revision => AdvancesOn(f.marker, ask[a.x].marker)
        BY <1>1, <1>8, SaidSoFar
      <3>2. Committed(a) => AdvancesOn(b.marker, ask[a.x].marker)
        <4> SUFFICES ASSUME Committed(a) PROVE AdvancesOn(b.marker, ask[a.x].marker)
          OBVIOUS
        <4>1. CASE a.says.revision = f.revision
          BY <2>5, <3>1, <4>1
        <4>2. CASE a.says.revision < f.revision
          <5>1. PICK m, n : m = ask[a.x].marker /\ n = f.marker
            OBVIOUS
          <5>2. m.epoch \in Nat /\ m.gen \in Nat /\ n.epoch \in Nat /\ n.gen \in Nat
            <6>1. a.x \in Xs /\ ask[a.x].path = "commit"
              BY SaidIs DEF StatesOK, CommittedOK
            <6> QED BY <2>5, <3>1, <5>1, <6>1, CommitIs DEF TypeOK, AskOK
          <5>3. AdvancesOn(b.marker, n) /\ AdvancesOn(n, m)
            BY <2>5, <3>1, <4>2, <5>1
          <5>4. PICK t : t = b.marker
            OBVIOUS
          <5>5. AdvancesOn(t, m)
            BY <2>3, <5>2, <5>3, <5>4, AdvancesOver
          <5> QED BY <5>1, <5>4, <5>5
        <4> QED BY <2>3, <3>1, <4>1, <4>2
      <3>3. a.says.revision < new.says.revision /\ a.says.revision # new.says.revision
        BY <2>2, <2>3, <3>1
      <3>4. ~(new.says.revision < a.says.revision)
        BY <2>2, <2>3, <3>1
      <3>5. Committed(new) /\ ~Loaded(new)
        BY <1>3, <2>2 DEF Committed, Loaded
      <3> QED BY <1>1, <1>3, <3>2, <3>3, <3>4, <3>5 DEF Agree
    <2> QED BY <1>2, <2>2, <2>6, <2>7, <2>8, <2>9, <2>10, StatesStep
  <1> QED BY <1>5, <1>6, <1>7, <1>8

(***************************************************************************)
(* Credentials.                                                            *)
(***************************************************************************)
SignsAsNamed == signing # 0 => kid = signing
HeldSince    == \A x \in Xs : ask[x].path = "credential" => dir[ask[x].names] \in was[x]

LEMMA CredentialsStay ==
    ASSUME SentOK, AnsweredOnce, CredentialsOK, Keeps, SignsAsNamed', HeldSince',
           UNCHANGED lookup, NEW N, Said' \subseteq Said \cup N,
           \A a \in N : a.says.status # "issued"
    PROVE  CredentialsOK'
  <1>1. \A p \in pending : p.x \in Xs /\ ask'[p.x] = ask[p.x] /\ was[p.x] \subseteq was'[p.x]
    BY DEF AnsweredOnce, Keeps
  <1>2. pending' = pending /\ nextCorr' = nextCorr /\ lookups' = lookups /\ found' = found
    BY DEF lookup
  <1>3. /\ nextCorr' \in Nat /\ IsPort(lookups)' /\ IsPort(found)'
        /\ On(lookups)' = On(lookups) /\ On(found)' = On(found)
    BY <1>2 DEF CredentialsOK, IsPort, On
  <1>4. \A p \in pending :
           /\ p = [corr |-> p.corr, x |-> p.x, ask |-> ask'[p.x]] /\ p.ask.path = "credential"
           /\ p.corr \in Nat /\ p.corr < nextCorr
    BY <1>1 DEF CredentialsOK
  <1>5. \A p \in pending, r \in On(found) :
           p.corr = r.corr /\ r.holds.status = "ok" => r.holds \in was'[p.x]
    BY <1>1 DEF CredentialsOK
  <1>6. \A a \in Said' : Issued(a) => IssuedOK(a)'
    <2> SUFFICES ASSUME NEW a \in Said', Issued(a) PROVE IssuedOK(a)'
      BY DEF Issued
    <2>1. a \in Said /\ a.x \in Xs /\ IssuedOK(a)
      BY SaidIs DEF CredentialsOK, Issued
    <2>2. ask'[a.x] = ask[a.x] /\ was[a.x] \subseteq was'[a.x]
      BY <2>1 DEF Keeps
    <2> QED BY <2>1, <2>2 DEF IssuedOK
  <1> QED BY <1>2, <1>3, <1>4, <1>5, <1>6 DEF CredentialsOK, SignsAsNamed, HeldSince, Issued

(* A request waits for the directory.                                      *)
LEMMA WaitStep ==
    ASSUME SentOK, AnsweredOnce, CredentialsOK, Keeps, SignsAsNamed', HeldSince',
           NEW x \in Xs, ask' = ask, was' = was, ask[x].path = "credential", Wait(x, ask[x]),
           Said' \subseteq Said
    PROVE  CredentialsOK'
  <1> DEFINE p0 == [corr |-> nextCorr, x |-> x, ask |-> ask[x]]
             l0 == [corr |-> nextCorr, dev |-> ask[x].names]
  <1>1. /\ pending' = pending \cup {p0} /\ lookups' = Append(lookups, l0)
        /\ nextCorr' = nextCorr + 1 /\ found' = found
    BY DEF Wait
  <1>2. /\ p0.corr = nextCorr /\ p0.x = x /\ p0.ask = ask[x]
        /\ l0.corr = nextCorr /\ l0.dev = ask[x].names
    OBVIOUS
  <1>a. p0 = [corr |-> p0.corr, x |-> p0.x, ask |-> ask[p0.x]]
    OBVIOUS
  <1> HIDE DEF p0, l0
  <1>3. IsPort(lookups') /\ On(lookups') = On(lookups) \cup {l0}
    BY <1>1, AppendPort DEF CredentialsOK
  <1>4. IsPort(found)' /\ On(found)' = On(found)
    BY <1>1 DEF CredentialsOK, IsPort, On
  <1>5. /\ nextCorr \in Nat /\ nextCorr' \in Nat
        /\ \A n \in Nat : n < nextCorr => n # nextCorr /\ n < nextCorr'
    BY <1>1 DEF CredentialsOK
  <1>6. \A p \in pending' :
           /\ p = [corr |-> p.corr, x |-> p.x, ask |-> ask'[p.x]] /\ p.ask.path = "credential"
           /\ p.corr \in Nat /\ p.corr < nextCorr'
    <2> SUFFICES ASSUME NEW p \in pending'
                 PROVE  /\ p = [corr |-> p.corr, x |-> p.x, ask |-> ask'[p.x]]
                        /\ p.ask.path = "credential" /\ p.corr \in Nat /\ p.corr < nextCorr'
      OBVIOUS
    <2>1. CASE p \in pending
      BY <1>5, <2>1 DEF CredentialsOK
    <2>2. CASE p = p0
      BY <1>1, <1>2, <1>5, <1>a, <2>2
    <2> QED BY <1>1, <2>1, <2>2
  <1>7. /\ \A l \in On(lookups') : l.corr \in Nat /\ l.corr < nextCorr'
        /\ \A r \in On(found)    : r.corr \in Nat /\ r.corr < nextCorr'
    BY <1>1, <1>2, <1>3, <1>5 DEF CredentialsOK
  <1>8. \A p \in pending', l \in On(lookups') : p.corr = l.corr => l.dev = p.ask.names
    <2> SUFFICES ASSUME NEW p \in pending', NEW l \in On(lookups'), p.corr = l.corr
                 PROVE  l.dev = p.ask.names
      OBVIOUS
    <2>1. CASE p \in pending /\ l \in On(lookups)
      BY <2>1 DEF CredentialsOK
    <2>2. CASE p = p0 /\ l = l0
      BY <1>2, <2>2
    <2>3. CASE p = p0 /\ l \in On(lookups)
      BY <1>2, <1>5, <2>3 DEF CredentialsOK
    <2>4. CASE p \in pending /\ l = l0
      BY <1>2, <1>5, <2>4 DEF CredentialsOK
    <2> QED BY <1>1, <1>3, <2>1, <2>2, <2>3, <2>4
  <1>9. \A p \in pending', r \in On(found) :
           p.corr = r.corr /\ r.holds.status = "ok" => r.holds \in was'[p.x]
    BY <1>1, <1>2, <1>5 DEF CredentialsOK
  <1>10. \A a \in Said' : Issued(a) => IssuedOK(a)'
    BY DEF CredentialsOK, IssuedOK, Issued
  <1>11. On(lookups)' = On(lookups') /\ IsPort(lookups)'
    BY <1>3 DEF On, IsPort
  <1> QED BY <1>4, <1>5, <1>6, <1>7, <1>8, <1>9, <1>10, <1>11
          DEF CredentialsOK, SignsAsNamed, HeldSince, Issued

(* The directory answers with what it holds, or with nothing.              *)
LEMMA LookupStep ==
    ASSUME SentOK, AnsweredOnce, CredentialsOK, UNCHANGED <<ask, dir, was, signing, kid>>,
           NEW n \in DOMAIN lookups, NEW h, h = dir[lookups[n].dev] \/ h.status # "ok",
           lookups' = SubSeq(lookups, 1, n - 1) \o SubSeq(lookups, n + 1, Len(lookups)),
           found' = Append(found, [corr |-> lookups[n].corr, holds |-> h]),
           UNCHANGED <<pending, nextCorr>>, Said' \subseteq Said
    PROVE  CredentialsOK'
  <1>1. PICK l, r : l = lookups[n] /\ r = [corr |-> l.corr, holds |-> h]
    OBVIOUS
  <1>2. r.corr = l.corr /\ r.holds = h /\ l \in On(lookups)
    BY <1>1 DEF On
  <1>3. IsPort(lookups') /\ On(lookups') \subseteq On(lookups)
    BY WithoutPort DEF CredentialsOK
  <1>4. IsPort(found') /\ On(found') = On(found) \cup {r}
    BY <1>1, AppendPort DEF CredentialsOK
  <1>5. \A p \in pending : p.corr = l.corr => l.dev = ask[p.x].names /\ dir[l.dev] \in was[p.x]
    <2> SUFFICES ASSUME NEW p \in pending, p.corr = l.corr
                 PROVE  l.dev = ask[p.x].names /\ dir[l.dev] \in was[p.x]
      OBVIOUS
    <2>1. p = [corr |-> p.corr, x |-> p.x, ask |-> ask[p.x]] /\ p.ask.path = "credential"
          /\ p.x \in Xs
      BY DEF CredentialsOK, AnsweredOnce
    <2>2. p.ask = ask[p.x]
      BY <2>1
    <2>3. l.dev = ask[p.x].names
      BY <1>2, <2>2 DEF CredentialsOK
    <2> QED BY <2>1, <2>2, <2>3 DEF CredentialsOK
  <1>6. \A p \in pending, s \in On(found') :
           p.corr = s.corr /\ s.holds.status = "ok" => s.holds \in was[p.x]
    <2> SUFFICES ASSUME NEW p \in pending, NEW s \in On(found'), p.corr = s.corr,
                        s.holds.status = "ok"
                 PROVE  s.holds \in was[p.x]
      OBVIOUS
    <2>1. CASE s \in On(found)
      BY <2>1 DEF CredentialsOK
    <2>2. CASE s = r
      BY <1>1, <1>2, <1>5, <2>2
    <2> QED BY <1>4, <2>1, <2>2
  <1>7. \A s \in On(found') : s.corr \in Nat /\ s.corr < nextCorr
    BY <1>2, <1>4 DEF CredentialsOK
  <1>8. \A a \in Said' : Issued(a) => IssuedOK(a)'
    BY DEF CredentialsOK, IssuedOK, Issued
  <1>9. /\ IsPort(lookups)' /\ On(lookups)' = On(lookups')
        /\ IsPort(found)' /\ On(found)' = On(found')
    BY <1>3, <1>4 DEF On, IsPort
  <1>10. Xs' = Xs
    BY DEF Xs, Opened
  <1> QED BY <1>3, <1>6, <1>7, <1>8, <1>9, <1>10 DEF CredentialsOK, Issued

(* An answer of the directory is read.                                     *)
LEMMA DrainStep ==
    ASSUME SentOK, AnsweredOnce, CredentialsOK,
           UNCHANGED <<ask, dir, was, signing, kid, nextCorr, lookups>>,
           found # <<>>, found' = Tail(found), pending' = pending \ Waiting(Head(found).corr),
           NEW N, Said' \subseteq Said \cup N,
           \A a \in N : a.says.status # "issued" \/ IssuedOK(a)
    PROVE  CredentialsOK'
  <1>1. IsPort(found') /\ On(found') \subseteq On(found)
    BY TailPort DEF CredentialsOK
  <1>2. pending' \subseteq pending
    OBVIOUS
  <1>3. \A a \in Said' : Issued(a) => IssuedOK(a)'
    <2> SUFFICES ASSUME NEW a \in Said', Issued(a) PROVE IssuedOK(a)
      BY DEF IssuedOK, Issued
    <2> QED BY DEF CredentialsOK, Issued
  <1>4. /\ IsPort(lookups)' /\ On(lookups)' = On(lookups)
        /\ IsPort(found)' /\ On(found)' = On(found')
    BY <1>1 DEF On, IsPort, CredentialsOK
  <1>5. Xs' = Xs
    BY DEF Xs, Opened
  <1> QED BY <1>1, <1>2, <1>3, <1>4, <1>5 DEF CredentialsOK, Issued

(* issue: what is signed binds what the directory held.                    *)
LEMMA IssueIs ==
    ASSUME AnsweredOnce, CredentialsOK, NEW p \in pending, NEW r \in On(found), p.corr = r.corr,
           NEW a, a = Answer(p.x, Issue(p.ask, r.holds)), a.says.status = "issued"
    PROVE  IssuedOK(a)
  <1>1. p = [corr |-> p.corr, x |-> p.x, ask |-> ask[p.x]]
    BY DEF CredentialsOK
  <1>2. PICK b, h, i : b = p.ask /\ h = r.holds /\ i = Issue(b, h)
    OBVIOUS
  <1>3. a.x = p.x /\ a.says = i /\ b = ask[p.x]
    BY <1>1, <1>2 DEF Answer
  <1>4. /\ h.status = "ok" /\ b.jwk = h.jkt /\ b.proves = b.jwk /\ signing # 0
        /\ i = [status |-> "issued", sub |-> b.names, jwk |-> b.jwk, tid |-> h.tid,
                kid |-> kid, by |-> signing]
    <2>1. i.status = "issued"
      BY <1>3
    <2>2. /\ h.status # "ok" => i.status = "unknown_device"
          /\ h.status = "ok" /\ (b.jwk # h.jkt \/ b.proves # b.jwk) => i.status = "bad_possession"
          /\ h.status = "ok" /\ ~(b.jwk # h.jkt \/ b.proves # b.jwk) /\ signing = 0 =>
                i.status = "malformed"
      BY <1>2 DEF Issue
    <2> QED BY <1>2, <2>1, <2>2 DEF Issue
  <1>5. h \in was[p.x]
    BY <1>2, <1>4 DEF CredentialsOK
  <1>6. kid = signing
    BY <1>4 DEF CredentialsOK
  <1>7. /\ i.sub = b.names /\ i.jwk = b.jwk /\ i.tid = h.tid /\ i.kid = kid /\ i.by = signing
    BY <1>4
  <1> QED BY <1>3, <1>4, <1>5, <1>6, <1>7 DEF IssuedOK

(***************************************************************************)
(* A request is answered once.                                             *)
(***************************************************************************)
LEMMA AnsweredStep ==
    ASSUME SentOK, AnsweredOnce, Keeps, NEW N, Said' \subseteq Said \cup N,
           \A a \in N : /\ a.x \in Xs /\ ~Unhandled(a.x)'
                        /\ \A s \in Said : s.x # a.x
                        /\ \A p \in pending' : a.x # p.x,
           \A a, b \in N : a = b,
           \A p \in pending' : /\ p.x \in Xs /\ ~Unhandled(p.x)'
                               /\ \A s \in Said : s.x # p.x,
           \A p, q \in pending' : p.x = q.x \/ p.corr = q.corr => p = q
    PROVE  AnsweredOnce'
  <1>1. \A x \in Xs : x \in Xs' /\ (~Unhandled(x) => ~Unhandled(x)')
    BY DEF Keeps
  <1>2. \A a \in Said : a.x \in Xs /\ ~Unhandled(a.x)'
    BY <1>1, SaidIs DEF AnsweredOnce
  <1>3. \A a, b \in Said' : a.x = b.x => a = b
    BY DEF AnsweredOnce
  <1>4. \A a \in Said' : ~Unhandled(a.x)'
    BY <1>2
  <1>5. \A p \in pending' : p.x \in Xs' /\ ~Unhandled(p.x)'
    BY <1>1
  <1>6. \A p \in pending', a \in Said' : a.x # p.x
    OBVIOUS
  <1> QED BY <1>3, <1>4, <1>5, <1>6 DEF AnsweredOnce

LEMMA PendingStays ==
    ASSUME AnsweredOnce, Keeps, pending' = pending
    PROVE  /\ \A p \in pending' : /\ p.x \in Xs /\ ~Unhandled(p.x)'
                                  /\ \A s \in Said : s.x # p.x
           /\ \A p, q \in pending' : p.x = q.x \/ p.corr = q.corr => p = q
  BY DEF AnsweredOnce, Keeps

LEMMA NothingSaid ==
    ASSUME SentOK, AnsweredOnce, Keeps, pending' = pending, Said' \subseteq Said
    PROVE  AnsweredOnce'
  <1>1. PICK N : N = {}
    OBVIOUS
  <1>2. /\ Said' \subseteq Said \cup N
        /\ \A a \in N : /\ a.x \in Xs /\ ~Unhandled(a.x)'
                         /\ \A s \in Said : s.x # a.x
                         /\ \A p \in pending' : a.x # p.x
        /\ \A a, b \in N : a = b
    BY <1>1
  <1> QED BY <1>2, PendingStays, AnsweredStep

LEMMA Answers ==
    ASSUME SentOK, AnsweredOnce, Keeps, pending' = pending,
           NEW x \in Xs, Unhandled(x), ~Unhandled(x)', NEW says,
           Said' \subseteq Said \cup {Answer(x, says)}
    PROVE  AnsweredOnce'
  <1>1. Answer(x, says).x = x
    BY DEF Answer
  <1>2. \A s \in Said : s.x # x
    BY DEF AnsweredOnce
  <1>3. \A p \in pending' : x # p.x
    BY DEF AnsweredOnce
  <1>4. PICK N : N = {Answer(x, says)}
    OBVIOUS
  <1>5. Said' \subseteq Said \cup N /\ \A a \in N : a.x = x
    BY <1>1, <1>4
  <1>6. \A a, b \in N : a = b
    BY <1>4
  <1>7. \A y : y = x => ~Unhandled(y)'
    OBVIOUS
  <1>8. \A a \in N : /\ a.x \in Xs /\ ~Unhandled(a.x)'
                     /\ \A s \in Said : s.x # a.x
                     /\ \A p \in pending' : a.x # p.x
    BY <1>2, <1>3, <1>5, <1>7
  <1> QED BY <1>5, <1>6, <1>8, PendingStays, AnsweredStep

(***************************************************************************)
(* Steps that leave most of it alone.                                      *)
(***************************************************************************)
LEMMA Steady ==
    ASSUME UNCHANGED <<ask, stage, got, was>>, \A x \in Xs : Unhandled(x)' => Unhandled(x)
    PROVE  Keeps
  BY DEF Keeps, Xs, Opened

LEMMA TypeStays ==
    ASSUME TypeOK, UNCHANGED <<ask, stage, got, was, scn, now, dir>>
    PROVE  TypeOK'
  BY DEF TypeOK, AskOK, Xs, Opened

LEMMA HeldStays ==
    ASSUME CredentialsOK, UNCHANGED <<ask, was, dir>>
    PROVE  HeldSince'
  BY DEF CredentialsOK, HeldSince, Xs, Opened

LEMMA NamedStays ==
    ASSUME CredentialsOK, UNCHANGED <<signing, kid>>
    PROVE  SignsAsNamed'
  BY DEF CredentialsOK, SignsAsNamed

(* Nothing is said.                                                        *)
LEMMA Quiet ==
    ASSUME IInv, TypeOK', EdgesOK', OnePlace', SentOK', Keeps, SignsAsNamed', HeldSince',
           UNCHANGED <<pools, states, lookup>>, Said' \subseteq Said
    PROVE  IInv'
  <1>1. TypeOK /\ SentOK /\ AnsweredOnce /\ PackagesOK /\ StatesOK /\ CredentialsOK
    BY DEF IInv
  <1>2. pending' = pending
    BY DEF lookup
  <1>3. AnsweredOnce'
    BY <1>1, <1>2, NothingSaid
  <1>4. PICK N : N = {}
    OBVIOUS
  <1>5. /\ Said' \subseteq Said \cup N /\ \A a \in N : FALSE
    BY <1>4
  <1>6. PackagesOK'
    BY <1>1, <1>5, PackagesStay
  <1>7. StatesOK'
    BY <1>1, <1>5, StatesStay
  <1>8. CredentialsOK'
    BY <1>1, <1>5, CredentialsStay
  <1> QED BY <1>3, <1>6, <1>7, <1>8 DEF IInv

Plain == {"not_found", "unavailable", "invalid_client", "no_key", "malformed", "busy",
          "unknown_device", "bad_possession", "none"}

LEMMA PlainIs ==
    ASSUME NEW x, NEW status \in Plain, NEW N, N = {Answer(x, [status |-> status])}
    PROVE  \A a \in N :
              /\ a.x = x
              /\ a.says.status \notin {"published", "claimed", "issued"}
              /\ a.says.status \notin {"committed", "loaded", "rolled_back", "poisoned"}
              /\ "revision" \notin DOMAIN a.says
  BY DEF Answer, Plain

(* A request is refused.                                                   *)
LEMMA Aside ==
    ASSUME IInv, TypeOK', EdgesOK', OnePlace', SentOK', Keeps, SignsAsNamed', HeldSince',
           UNCHANGED <<pools, states, lookup>>,
           NEW x \in Xs, Unhandled(x), ~Unhandled(x)', NEW status \in Plain,
           Said' \subseteq Said \cup {Answer(x, [status |-> status])}
    PROVE  IInv'
  <1>1. TypeOK /\ SentOK /\ AnsweredOnce /\ PackagesOK /\ StatesOK /\ CredentialsOK
    BY DEF IInv
  <1>2. pending' = pending
    BY DEF lookup
  <1>3. AnsweredOnce'
    BY <1>1, <1>2, Answers
  <1>4. PICK N : N = {Answer(x, [status |-> status])}
    OBVIOUS
  <1>5. Said' \subseteq Said \cup N
    BY <1>4
  <1>6. PackagesOK'
    BY <1>1, <1>4, <1>5, PlainIs, PackagesStay, SMTT(60)
  <1>7. StatesOK'
    BY <1>1, <1>4, <1>5, PlainIs, StatesStay
  <1>8. CredentialsOK'
    <2>1. \A a \in N : a.says.status # "issued"
      BY <1>4, PlainIs
    <2> QED BY <1>1, <1>5, <2>1, CredentialsStay
  <1> QED BY <1>3, <1>6, <1>7, <1>8 DEF IInv

(***************************************************************************)
(* The endpoints.                                                          *)
(***************************************************************************)
Apart == <<ask, stage, got, was, scn, now, dir, answer, responses, turn, signing, kid>>

LEMMA Taking ==
    ASSUME IInv, EdgesOK', OnePlace', UNCHANGED Apart,
           \A x \in Xs : Unhandled(x)' => Unhandled(x)
    PROVE  /\ TypeOK /\ EdgesOK /\ OnePlace /\ SentOK /\ AnsweredOnce
           /\ PackagesOK /\ StatesOK /\ CredentialsOK
           /\ TypeOK' /\ Keeps /\ SignsAsNamed' /\ HeldSince'
           /\ ask' = ask /\ stage' = stage /\ got' = got /\ was' = was /\ dir' = dir
           /\ answer' = answer /\ responses' = responses /\ turn' = turn
  <1>1. UNCHANGED <<ask, stage, got, was, scn, now, dir, answer, responses, turn, signing, kid>>
    BY DEF Apart
  <1>2. TypeOK /\ CredentialsOK
    BY DEF IInv
  <1>3. TypeOK'
    BY <1>1, <1>2, TypeStays
  <1>4. Keeps
    BY <1>1, Steady
  <1>5. SignsAsNamed' /\ HeldSince'
    BY <1>1, <1>2, HeldStays, NamedStays
  <1> QED BY <1>1, <1>3, <1>4, <1>5 DEF IInv

LEMMA RefusedIs ==
    ASSUME NEW e, NEW b
    PROVE  Refused(e, b) \in Plain
  BY DEF Refused, Plain

LEMMA HandlesPackages ==
    ASSUME IInv, EdgesOK', OnePlace', UNCHANGED Apart,
           \A y \in Xs : Unhandled(y)' => Unhandled(y),
           NEW x \in Xs, Unhandled(x), ~Unhandled(x)', Owner(ask[x]) = "keypackages",
           HandlePackages(x, ask[x]), UNCHANGED <<states, lookup>>
    PROVE  IInv'
  <1>1. /\ TypeOK /\ SentOK /\ AnsweredOnce /\ PackagesOK /\ StatesOK /\ CredentialsOK
        /\ TypeOK' /\ Keeps /\ SignsAsNamed' /\ HeldSince'
        /\ UNCHANGED <<ask, stage, got, answer, responses, turn>>
    BY Taking
  <1>2. "keypackages" \in Lanes
    BY DEF Lanes, Endpoints
  <1>3. pending' = pending
    BY DEF lookup
  <1>4. ASSUME NEW status \in Plain, Respond("keypackages", x, [status |-> status]),
               UNCHANGED pools
        PROVE  IInv'
    <2>1. SentOK' /\ Said' \subseteq Said \cup {Answer(x, [status |-> status])}
      BY <1>1, <1>2, <1>4, Responds
    <2> QED BY <1>1, <1>4, <2>1, Aside
  <1>5. ASSUME NEW o, Respond("keypackages", x, o.says), pools' = o.pools,
               \/ ask[x].path = "claim" /\ o = ClaimPackage(ask[x], now)
               \/ ask[x].path = "publish" /\ o = Publish(x, ask[x])
        PROVE  IInv'
    <2>1. PICK says : says = o.says
      OBVIOUS
    <2>2. SentOK' /\ Said' \subseteq Said \cup {Answer(x, says)}
      BY <1>1, <1>2, <1>5, <2>1, Responds
    <2>3. /\ says.status \in {"malformed", "no_packages", "claimed", "unavailable", "pool_full",
                              "published"}
          /\ "revision" \notin DOMAIN says
      <3>1. CASE o = ClaimPackage(ask[x], now)
        <4>1. \/ says = [status |-> "malformed"] \/ says = [status |-> "no_packages"]
              \/ \E p : says = [status |-> "claimed", package |-> p]
          BY <2>1, <3>1 DEF ClaimPackage
        <4> QED BY <4>1
      <3>2. CASE o = Publish(x, ask[x])
        <4>1. \/ says = [status |-> "malformed"] \/ says = [status |-> "unavailable"]
              \/ says = [status |-> "pool_full"] \/ says = [status |-> "published"]
          BY <2>1, <3>2 DEF Publish
        <4> QED BY <4>1
      <3> QED BY <1>5, <3>1, <3>2
    <2>4. AnsweredOnce'
      BY <1>1, <1>3, <2>2, Answers
    <2>5. PackagesOK'
      BY <1>1, <1>5, <2>1, <2>2, ClaimStep, PublishStep
    <2>6. PICK N : N = {Answer(x, says)}
      OBVIOUS
    <2>7. /\ Said' \subseteq Said \cup N
          /\ \A a \in N : /\ a.says.status \notin {"committed", "loaded", "rolled_back", "poisoned"}
                          /\ "revision" \notin DOMAIN a.says
                          /\ a.says.status # "issued"
      BY <2>2, <2>3, <2>6 DEF Answer
    <2>8. StatesOK'
      BY <1>1, <2>7, StatesStay
    <2>9. CredentialsOK'
      BY <1>1, <2>7, CredentialsStay
    <2> QED BY <1>1, <2>2, <2>4, <2>5, <2>8, <2>9 DEF IInv
  <1>6. CASE ask[x].path = "keypackages_other" \/ ask[x].wrong = "method"
    BY <1>4, <1>6 DEF HandlePackages, Plain
  <1>7. CASE ~(ask[x].path = "keypackages_other" \/ ask[x].wrong = "method")
    <2>1. PICK why : why = Refused("keypackages", ask[x])
      OBVIOUS
    <2>2. ask[x].path \in {"publish", "claim"}
      BY <1>7 DEF Owner
    <2>3. PICK o : o = IF ask[x].path = "claim" THEN ClaimPackage(ask[x], now)
                                                ELSE Publish(x, ask[x])
      OBVIOUS
    <2>4. IF why # "none"
            THEN Respond("keypackages", x, [status |-> why]) /\ UNCHANGED pools
            ELSE Respond("keypackages", x, o.says) /\ pools' = o.pools
      BY <1>7, <2>1, <2>3 DEF HandlePackages
    <2>5. why \in Plain
      BY <2>1, RefusedIs
    <2> QED BY <1>4, <1>5, <2>2, <2>3, <2>4, <2>5
  <1> QED BY <1>6, <1>7

LEMMA HandlesState ==
    ASSUME IInv, EdgesOK', OnePlace', UNCHANGED Apart,
           \A y \in Xs : Unhandled(y)' => Unhandled(y),
           NEW x \in Xs, Unhandled(x), ~Unhandled(x)', Owner(ask[x]) = "state",
           HandleState(x, ask[x]), UNCHANGED <<pools, lookup>>
    PROVE  IInv'
  <1>1. /\ TypeOK /\ SentOK /\ AnsweredOnce /\ PackagesOK /\ StatesOK /\ CredentialsOK
        /\ TypeOK' /\ Keeps /\ SignsAsNamed' /\ HeldSince'
        /\ UNCHANGED <<ask, stage, got, answer, responses, turn>>
    BY Taking
  <1>2. "state" \in Lanes
    BY DEF Lanes, Endpoints
  <1>3. pending' = pending
    BY DEF lookup
  <1>4. ASSUME NEW status \in Plain, Respond("state", x, [status |-> status]), UNCHANGED states
        PROVE  IInv'
    <2>1. SentOK' /\ Said' \subseteq Said \cup {Answer(x, [status |-> status])}
      BY <1>1, <1>2, <1>4, Responds
    <2> QED BY <1>1, <1>4, <2>1, Aside
  <1>5. ASSUME NEW o, Respond("state", x, o.says), states' = o.states,
               \/ ask[x].path = "load" /\ o = LoadState(ask[x])
               \/ ask[x].path = "commit" /\ o = CommitState(x, ask[x])
        PROVE  IInv'
    <2>1. PICK says : says = o.says
      OBVIOUS
    <2>2. SentOK' /\ Said' \subseteq Said \cup {Answer(x, says)}
      BY <1>1, <1>2, <1>5, <2>1, Responds
    <2>3. says.status \notin {"published", "claimed", "issued"}
      <3>1. CASE o = LoadState(ask[x])
        <4>1. \/ \E s \in {"malformed", "forbidden", "poisoned"} : says = [status |-> s]
              \/ \E f : says = [status |-> "loaded", revision |-> f.revision,
                                marker |-> f.marker, of |-> f.of]
          BY <2>1, <3>1 DEF LoadState
        <4> QED BY <4>1
      <3>2. CASE o = CommitState(x, ask[x])
        <4>1. \/ \E s \in {"malformed", "forbidden", "poisoned", "superseded", "not_advancing",
                           "rolled_back", "unavailable"} : says = [status |-> s]
              \/ \E f : says = [status |-> "committed", revision |-> f.revision + 1]
          BY <2>1, <3>2 DEF CommitState, Says
        <4> QED BY <4>1
      <3> QED BY <1>5, <3>1, <3>2
    <2>4. AnsweredOnce'
      BY <1>1, <1>3, <2>2, Answers
    <2>5. \A a \in Said : a.x # x
      BY <1>1 DEF AnsweredOnce
    <2>6. StatesOK'
      BY <1>1, <1>5, <2>1, <2>2, <2>5, LoadStep, CommitStep
    <2>7. PICK N : N = {Answer(x, says)}
      OBVIOUS
    <2>8. Said' \subseteq Said \cup N /\ \A a \in N : a.says.status \notin {"published", "claimed"}
      BY <2>2, <2>3, <2>7 DEF Answer
    <2>9. \A a \in N : a.says.status # "issued"
      BY <2>3, <2>7 DEF Answer
    <2>10. PackagesOK'
      BY <1>1, <2>8, PackagesStay
    <2>11. CredentialsOK'
      BY <1>1, <2>8, <2>9, CredentialsStay
    <2> QED BY <1>1, <2>2, <2>4, <2>6, <2>10, <2>11 DEF IInv
  <1>6. CASE ask[x].wrong = "method"
    BY <1>4, <1>6 DEF HandleState, Plain
  <1>7. CASE ask[x].wrong # "method"
    <2>1. PICK why : why = Refused("state", ask[x])
      OBVIOUS
    <2>2. ask[x].path \in {"load", "commit"}
      BY DEF Owner
    <2>3. PICK o : o = IF ask[x].path = "load" THEN LoadState(ask[x]) ELSE CommitState(x, ask[x])
      OBVIOUS
    <2>4. IF why # "none" THEN Respond("state", x, [status |-> why]) /\ UNCHANGED states
                          ELSE Respond("state", x, o.says) /\ states' = o.states
      BY <1>7, <2>1, <2>3 DEF HandleState
    <2>5. why \in Plain
      BY <2>1, RefusedIs
    <2> QED BY <1>4, <1>5, <2>2, <2>3, <2>4, <2>5
  <1> QED BY <1>6, <1>7

LEMMA HandlesCredential ==
    ASSUME IInv, EdgesOK', OnePlace', UNCHANGED Apart,
           \A y \in Xs : Unhandled(y)' => Unhandled(y),
           NEW x \in Xs, Unhandled(x), ~Unhandled(x)', Owner(ask[x]) = "credential",
           HandleCredential(x, ask[x]), UNCHANGED tables
    PROVE  IInv'
  <1>1. /\ TypeOK /\ SentOK /\ AnsweredOnce /\ PackagesOK /\ StatesOK /\ CredentialsOK
        /\ TypeOK' /\ Keeps /\ SignsAsNamed' /\ HeldSince' /\ was' = was
        /\ UNCHANGED <<ask, stage, got, answer, responses, turn>>
    BY Taking
  <1>2. "credential" \in Lanes
    BY DEF Lanes, Endpoints
  <1>3. pools' = pools /\ states' = states
    BY DEF tables
  <1>4. ASSUME NEW status \in Plain, Respond("credential", x, [status |-> status]),
               UNCHANGED lookup
        PROVE  IInv'
    <2>1. SentOK' /\ Said' \subseteq Said \cup {Answer(x, [status |-> status])}
      BY <1>1, <1>2, <1>4, Responds
    <2> QED BY <1>1, <1>3, <1>4, <2>1, Aside
  <1>5. CASE ask[x].wrong = "method"
    BY <1>4, <1>5 DEF HandleCredential, Plain
  <1>6. CASE ask[x].wrong # "method" /\ Accept(ask[x]) = "waits"
    <2>1. Wait(x, ask[x]) /\ outs' = outs
      BY <1>6 DEF HandleCredential
    <2>2. SentOK' /\ Said' = Said
      BY <1>1, <2>1, AnswersStay
    <2>3. PICK N : N = {}
      OBVIOUS
    <2>4. Said' \subseteq Said \cup N /\ Said' \subseteq Said /\ \A a \in N : FALSE
      BY <2>2, <2>3
    <2>5. PackagesOK'
      BY <1>1, <1>3, <2>4, PackagesStay
    <2>6. StatesOK'
      BY <1>1, <1>3, <2>4, StatesStay
    <2>7. ask[x].path = "credential"
      BY DEF Owner
    <2>8. CredentialsOK'
      BY <1>1, <2>1, <2>4, <2>7, WaitStep
    <2>9. PICK p0 : p0 = [corr |-> nextCorr, x |-> x, ask |-> ask[x]]
      OBVIOUS
    <2>10. pending' = pending \cup {p0} /\ p0.x = x /\ p0.corr = nextCorr
      BY <2>1, <2>9 DEF Wait
    <2>11. \A p \in pending : /\ p.x \in Xs /\ ~Unhandled(p.x)' /\ p.x # x /\ p.corr # p0.corr
                              /\ \A s \in Said : s.x # p.x
      BY <1>1, <2>10 DEF AnsweredOnce, Keeps, CredentialsOK
    <2>12. \A s \in Said : s.x # x
      BY <1>1 DEF AnsweredOnce
    <2>13. \A y : y = x => ~Unhandled(y)'
      OBVIOUS
    <2>14. \A p \in pending' : /\ p.x \in Xs /\ ~Unhandled(p.x)'
                               /\ \A s \in Said : s.x # p.x
      <3> SUFFICES ASSUME NEW p \in pending'
                   PROVE  /\ p.x \in Xs /\ ~Unhandled(p.x)'
                          /\ \A s \in Said : s.x # p.x
        OBVIOUS
      <3>1. CASE p \in pending
        BY <2>11, <3>1
      <3>2. CASE p = p0
        BY <2>10, <2>12, <2>13, <3>2
      <3> QED BY <2>10, <3>1, <3>2
    <2>15. \A p, q \in pending' : p.x = q.x \/ p.corr = q.corr => p = q
      BY <1>1, <2>10, <2>11 DEF AnsweredOnce
    <2>16. AnsweredOnce'
      BY <1>1, <2>4, <2>14, <2>15, AnsweredStep
    <2> QED BY <1>1, <2>2, <2>5, <2>6, <2>8, <2>16 DEF IInv
  <1>7. CASE ask[x].wrong # "method" /\ Accept(ask[x]) # "waits"
    <2>1. PICK status : status = Accept(ask[x])
      OBVIOUS
    <2>2. status \in Plain
      BY <1>7, <2>1 DEF Accept, Plain
    <2>3. Respond("credential", x, [status |-> status]) /\ UNCHANGED lookup
      BY <1>7, <2>1 DEF HandleCredential
    <2> QED BY <1>4, <2>2, <2>3
  <1> QED BY <1>5, <1>6, <1>7

LEMMA Handles ==
    ASSUME IInv, EdgesOK', OnePlace', UNCHANGED Apart,
           \A y \in Xs : Unhandled(y)' => Unhandled(y), NEW e \in Lanes,
           NEW x \in Xs, Unhandled(x), ~Unhandled(x)', Owner(ask[x]) = e, Handle(e, x)
    PROVE  IInv'
  <1>1. CASE e = "keypackages"
    <2>1. HandlePackages(x, ask[x]) /\ UNCHANGED <<states, lookup>>
      BY <1>1 DEF Handle
    <2> QED BY <1>1, <2>1, HandlesPackages
  <1>2. CASE e = "state"
    <2>1. HandleState(x, ask[x]) /\ UNCHANGED <<pools, lookup>>
      BY <1>2 DEF Handle
    <2> QED BY <1>2, <2>1, HandlesState
  <1>3. CASE e = "credential"
    <2>1. HandleCredential(x, ask[x]) /\ UNCHANGED tables
      BY <1>3 DEF Handle
    <2> QED BY <1>3, <2>1, HandlesCredential
  <1> QED BY <1>1, <1>2, <1>3 DEF Lanes, Endpoints

LEMMA TakeRecordInv ==
    ASSUME IInv, NEW e \in Lanes, TakeRecord(e)
    PROVE  IInv'
  <1> DEFINE r == Head(lanes[e])
  <1>1. /\ lanes[e] # <<>> /\ lanes' = [lanes EXCEPT ![e] = Tail(lanes[e])]
        /\ UNCHANGED <<exchange, router, keyVars, world>>
    BY DEF TakeRecord, IInv, EdgesOK
  <1>2. UNCHANGED Apart /\ UNCHANGED <<ask, stage, got, answer, responses, turn>>
    BY <1>1 DEF Apart, exchange, router, keyVars, world
  <1>3. TypeOK /\ EdgesOK /\ OnePlace /\ SentOK /\ UNCHANGED <<ask, requests, held, routes>>
    BY <1>1 DEF IInv, exchange, router
  <1>4. collecting = [f \in Lanes |-> collecting[f]]
    BY <1>3 DEF EdgesOK
  <1>5. ASSUME NEW c, collecting' = [collecting EXCEPT ![e] = c],
               \A x \in c : x \in collecting[e] \/ r = Rec("head", x)
        PROVE  /\ EdgesOK' /\ OnePlace' /\ \A x \in Xs : Unhandled(x)' => Unhandled(x)
               /\ IsRec(r) /\ (r.kind = "head" => Owner(ask[r.x]) = e)
               /\ r.kind = "head" => r.x \notin collecting[e]
               /\ \A x : x = r.x /\ (r.kind = "head" \/ x \in collecting[e]) /\ x \notin c =>
                     Unhandled(x) /\ ~Unhandled(x)' /\ x \in Xs /\ Owner(ask[x]) = e
    BY <1>1, <1>3, <1>5, Takes
  <1>6. PICK x : x = r.x
    OBVIOUS
  <1>a. IsRec(r)
    BY <1>1, <1>3, TailPort DEF EdgesOK, IsLane
  <1>7. x \in Xs /\ (r.kind = "head" => r = Rec("head", x))
    BY <1>6, <1>a, RecIs DEF IsRec
  <1>8. ASSUME NEW c, collecting' = [collecting EXCEPT ![e] = c],
               \A y \in c : y \in collecting[e] \/ r = Rec("head", y),
               SentOK', Said' \subseteq Said, UNCHANGED <<tables, lookup>>
        PROVE  IInv'
    <2>1. EdgesOK' /\ OnePlace' /\ \A y \in Xs : Unhandled(y)' => Unhandled(y)
      BY <1>5, <1>8
    <2>2. TypeOK' /\ Keeps /\ SignsAsNamed' /\ HeldSince'
      BY <1>2, <2>1, Taking
    <2>3. UNCHANGED <<pools, states, lookup>>
      BY <1>8 DEF tables
    <2> QED BY <1>8, <2>1, <2>2, <2>3, Quiet
  <1>9. CASE r.kind = "head" /\ ~ask[x].streams
    <2>1. Handle(e, x) /\ collecting' = [collecting EXCEPT ![e] = collecting[e]]
      BY <1>4, <1>6, <1>9 DEF TakeRecord
    <2>2. /\ EdgesOK' /\ OnePlace' /\ \A y \in Xs : Unhandled(y)' => Unhandled(y)
          /\ Unhandled(x) /\ ~Unhandled(x)' /\ Owner(ask[x]) = e
      BY <1>5, <1>6, <1>9, <2>1
    <2> QED BY <1>2, <1>7, <2>1, <2>2, Handles
  <1>10. CASE /\ r.kind = "head" /\ ask[x].streams
              /\ Cardinality(collecting[e]) < MaxExchanges
    <2>a. PICK c : c = collecting[e] \cup {r.x}
      OBVIOUS
    <2>1. c = collecting[e] \cup {x}
      BY <1>6, <2>a
    <2>2. PICK g : g = Rec("grant", x)
      OBVIOUS
    <2>3. /\ collecting' = [collecting EXCEPT ![e] = c]
          /\ outs' = [outs EXCEPT ![e] = Placed(outs[e], g)] /\ UNCHANGED <<tables, lookup>>
      <3>1. /\ collecting' = [collecting EXCEPT ![e] = collecting[e] \cup {r.x}]
            /\ outs' = [outs EXCEPT ![e] = Placed(outs[e], Rec("grant", r.x))]
            /\ UNCHANGED <<tables, lookup>>
        BY <1>3, <1>4, <1>6, <1>10 DEF TakeRecord, SentOK
      <3>2. Rec("grant", r.x) = g /\ collecting[e] \cup {r.x} = c
        BY <1>6, <2>a, <2>2
      <3> QED BY <3>1, <3>2, Zenon
    <2>4. SentOK' /\ Said' \subseteq Said \cup {a \in {g} : a.kind = "answer"}
      BY <1>2, <1>3, <1>7, <2>2, <2>3, Places
    <2>5. Said' \subseteq Said
      BY <2>2, <2>4, RecIs
    <2>6. \A y \in c : y \in collecting[e] \/ r = Rec("head", y)
      BY <1>7, <1>10, <2>1
    <2> QED BY <1>8, <2>3, <2>4, <2>5, <2>6
  <1>11. CASE /\ r.kind = "head" /\ ask[x].streams
              /\ ~(Cardinality(collecting[e]) < MaxExchanges)
    <2>0. PICK v : v = Answer(x, [status |-> "unavailable"])
      OBVIOUS
    <2>1. /\ outs' = [outs EXCEPT ![e] = Placed(outs[e], v)] /\ UNCHANGED <<tables, lookup>>
          /\ collecting' = [collecting EXCEPT ![e] = collecting[e]]
      <3>1. /\ outs' = [outs EXCEPT ![e] = Placed(outs[e], Answer(r.x, [status |-> "unavailable"]))]
            /\ UNCHANGED <<collecting, tables, lookup>>
        BY <1>3, <1>6, <1>11 DEF TakeRecord, SentOK, Answer
      <3>2. Answer(r.x, [status |-> "unavailable"]) = v
        BY <1>6, <2>0
      <3>3. collecting' = [collecting EXCEPT ![e] = collecting[e]]
        BY <1>4, <3>1
      <3>4. outs' = [outs EXCEPT ![e] = Placed(outs[e], v)]
        BY <3>1, <3>2, Zenon
      <3> QED BY <3>1, <3>3, <3>4
    <2>2. /\ EdgesOK' /\ OnePlace' /\ \A y \in Xs : Unhandled(y)' => Unhandled(y)
          /\ Unhandled(x) /\ ~Unhandled(x)'
      BY <1>5, <1>6, <1>11, <2>1
    <2>3. SentOK' /\ Said' \subseteq Said \cup {Answer(x, [status |-> "unavailable"])}
      <3>1. SentOK' /\ Said' \subseteq Said \cup {a \in {v} : a.kind = "answer"}
        BY <1>2, <1>3, <1>7, <2>0, <2>1, Places
      <3> QED BY <2>0, <3>1
    <2>4. TypeOK' /\ Keeps /\ SignsAsNamed' /\ HeldSince'
      BY <1>2, <2>2, Taking
    <2>5. "unavailable" \in Plain /\ UNCHANGED <<pools, states, lookup>>
      BY <2>1 DEF Plain, tables
    <2> QED BY <1>7, <2>2, <2>3, <2>4, <2>5, Aside
  <1>12. CASE r.kind = "body" /\ x \in collecting[e]
    <2>a. PICK c : c = collecting[e] \ {r.x}
      OBVIOUS
    <2>1. c = collecting[e] \ {x}
      BY <1>6, <2>a
    <2>2. Handle(e, x) /\ collecting' = [collecting EXCEPT ![e] = c]
      <3>1. Handle(e, r.x) /\ collecting' = [collecting EXCEPT ![e] = collecting[e] \ {r.x}]
        BY <1>4, <1>6, <1>12 DEF TakeRecord
      <3>2. r.x = x /\ collecting[e] \ {r.x} = c
        BY <1>6, <2>a
      <3> QED BY <3>1, <3>2, Zenon
    <2>3. /\ EdgesOK' /\ OnePlace' /\ \A y \in Xs : Unhandled(y)' => Unhandled(y)
          /\ Unhandled(x) /\ ~Unhandled(x)' /\ Owner(ask[x]) = e
      <3>1. \A y \in c : y \in collecting[e] \/ r = Rec("head", y)
        BY <2>1
      <3>2. /\ collecting' = [collecting EXCEPT ![e] = c]
            /\ x = r.x /\ x \in collecting[e] /\ x \notin c
        BY <1>6, <1>12, <2>1, <2>2
      <3> QED BY <1>5, <3>1, <3>2
    <2> QED BY <1>2, <1>7, <2>2, <2>3, Handles
  <1>13. CASE r.kind # "head" /\ ~(r.kind = "body" /\ x \in collecting[e])
    <2>1. PICK c : c = collecting[e] \ {x}
      OBVIOUS
    <2>2. /\ collecting' = [collecting EXCEPT ![e] = c]
          /\ UNCHANGED <<outs, tables, lookup>>
      BY <1>6, <1>13, <2>1 DEF TakeRecord
    <2>3. SentOK' /\ Said' \subseteq Said
      BY <1>2, <1>3, <2>2, AnswersStay
    <2> QED BY <1>8, <2>1, <2>2, <2>3
  <1> QED BY <1>9, <1>10, <1>11, <1>12, <1>13

LEMMA DrainDirectoryInv ==
    ASSUME IInv, DrainDirectory
    PROVE  IInv'
  <1>1. /\ UNCHANGED Apart /\ UNCHANGED <<ask, requests, held, lanes, collecting, routes>>
        /\ UNCHANGED <<pools, states>> /\ UNCHANGED <<nextCorr, lookups, signing, kid>>
        /\ UNCHANGED <<ask, stage, got, answer, responses, turn>>
    BY DEF DrainDirectory, Apart, exchange, router, world, keyVars, tables
  <1>2. EdgesOK' /\ OnePlace' /\ \A x \in Xs : Unhandled(x)' => Unhandled(x)
    BY <1>1, EdgesStay DEF IInv
  <1>3. /\ TypeOK /\ SentOK /\ AnsweredOnce /\ PackagesOK /\ StatesOK /\ CredentialsOK
        /\ TypeOK' /\ Keeps /\ SignsAsNamed' /\ HeldSince' /\ UNCHANGED <<dir, was>>
    BY <1>1, <1>2, Taking
  <1>4. PICK r : r = Head(found)
    OBVIOUS
  <1>5. /\ found # <<>> /\ found' = Tail(found) /\ pending' = pending \ Waiting(Head(found).corr)
        /\ \A p \in pending : p.corr = r.corr => Respond("credential", p.x, Issue(p.ask, r.holds))
        /\ (\A p \in pending : p.corr # r.corr) => outs' = outs
        /\ \A p \in pending' : p \in pending /\ p.corr # r.corr
    BY <1>4 DEF DrainDirectory, Waiting
  <1>6. r \in On(found)
    BY <1>3, <1>4, <1>5, TailPort DEF CredentialsOK
  <1>7. ASSUME NEW N, Said' \subseteq Said \cup N, SentOK',
               \A a, b \in N : a = b,
               \A a \in N : /\ a.says.status \notin {"published", "claimed"}
                            /\ "revision" \notin DOMAIN a.says
                            /\ a.says.status \notin
                                  {"committed", "loaded", "rolled_back", "poisoned"}
                            /\ a.says.status # "issued" \/ IssuedOK(a)
                            /\ \E p \in pending : p.corr = r.corr /\ a.x = p.x
        PROVE  IInv'
    <2>1. PackagesOK'
      BY <1>1, <1>3, <1>7, PackagesStay
    <2>2. StatesOK'
      BY <1>1, <1>3, <1>7, StatesStay
    <2>3. CredentialsOK'
      BY <1>1, <1>3, <1>5, <1>7, DrainStep
    <2>4. \A p \in pending : /\ p.x \in Xs /\ ~Unhandled(p.x)'
                             /\ \A s \in Said : s.x # p.x
      BY <1>3 DEF AnsweredOnce, Keeps
    <2>5. \A p, q \in pending : p.x = q.x \/ p.corr = q.corr => p = q
      BY <1>3 DEF AnsweredOnce
    <2>6. \A a \in N : /\ a.x \in Xs /\ ~Unhandled(a.x)'
                       /\ \A s \in Said : s.x # a.x
                       /\ \A q \in pending' : a.x # q.x
      <3> SUFFICES ASSUME NEW a \in N
                   PROVE  /\ a.x \in Xs /\ ~Unhandled(a.x)'
                          /\ \A s \in Said : s.x # a.x
                          /\ \A q \in pending' : a.x # q.x
        OBVIOUS
      <3>1. PICK p \in pending : p.corr = r.corr /\ a.x = p.x
        BY <1>7
      <3>2. PICK x : x = a.x
        OBVIOUS
      <3>3. x \in Xs /\ ~Unhandled(x)' /\ \A s \in Said : s.x # x
        BY <2>4, <3>1, <3>2
      <3>4. \A q \in pending' : x # q.x
        BY <1>5, <2>5, <3>1, <3>2
      <3> QED BY <3>2, <3>3, <3>4
    <2>7. AnsweredOnce'
      BY <1>3, <1>5, <1>7, <2>4, <2>5, <2>6, AnsweredStep
    <2> QED BY <1>2, <1>3, <1>7, <2>1, <2>2, <2>3, <2>7 DEF IInv
  <1>8. CASE \A p \in pending : p.corr # r.corr
    <2>1. SentOK' /\ Said' = Said
      BY <1>1, <1>3, <1>5, <1>8, AnswersStay
    <2>2. PICK N : N = {}
      OBVIOUS
    <2>3. Said' \subseteq Said \cup N /\ \A a \in N : FALSE
      BY <2>1, <2>2
    <2> QED BY <1>7, <2>1, <2>3
  <1>9. CASE \E p \in pending : p.corr = r.corr
    <2>1. PICK p \in pending : p.corr = r.corr
      BY <1>9
    <2>2. PICK x, says : x = p.x /\ says = Issue(p.ask, r.holds)
      OBVIOUS
    <2>3. Respond("credential", x, says) /\ x \in Xs /\ "credential" \in Lanes
      BY <1>3, <1>5, <2>1, <2>2 DEF AnsweredOnce, Lanes, Endpoints
    <2>4. SentOK' /\ Said' \subseteq Said \cup {Answer(x, says)}
      BY <1>1, <1>3, <2>3, Responds
    <2>5. PICK a : a = Answer(x, says)
      OBVIOUS
    <2>6. a.x = x /\ a.says = says
      BY <2>5 DEF Answer
    <2>7. \/ \E s \in {"unknown_device", "bad_possession", "malformed"} : says = [status |-> s]
          \/ \E b, h : says = [status |-> "issued", sub |-> b.names, jwk |-> b.jwk,
                               tid |-> h.tid, kid |-> kid, by |-> signing]
      BY <2>2 DEF Issue
    <2>8. /\ says.status \notin {"published", "claimed"} /\ "revision" \notin DOMAIN says
          /\ says.status \notin {"committed", "loaded", "rolled_back", "poisoned"}
      BY <2>7
    <2>9. a.says.status = "issued" => IssuedOK(a)
      BY <1>3, <1>6, <2>1, <2>2, <2>5, IssueIs
    <2>10. PICK N : N = {a}
      OBVIOUS
    <2>11. Said' \subseteq Said \cup N /\ \A c, d \in N : c = d
      BY <2>4, <2>5, <2>10
    <2> QED BY <1>7, <2>1, <2>2, <2>4, <2>6, <2>8, <2>9, <2>10, <2>11
  <1> QED BY <1>8, <1>9

LEMMA AnswerLookupInv ==
    ASSUME IInv, AnswerLookup
    PROVE  IInv'
  <1>1. /\ UNCHANGED Apart /\ UNCHANGED <<ask, requests, held, lanes, collecting, routes>>
        /\ UNCHANGED <<pools, states>> /\ UNCHANGED <<signing, kid, pending, nextCorr>>
        /\ UNCHANGED <<ask, stage, got, outs, answer, responses, turn>>
    BY DEF AnswerLookup, Apart, exchange, router, endpoints, world, keyVars, tables
  <1>2. EdgesOK' /\ OnePlace' /\ \A x \in Xs : Unhandled(x)' => Unhandled(x)
    BY <1>1, EdgesStay DEF IInv
  <1>3. /\ TypeOK /\ SentOK /\ AnsweredOnce /\ PackagesOK /\ StatesOK /\ CredentialsOK
        /\ TypeOK' /\ Keeps /\ SignsAsNamed' /\ HeldSince' /\ UNCHANGED <<dir, was>>
    BY <1>1, <1>2, Taking
  <1>4. SentOK' /\ Said' = Said
    BY <1>1, <1>3, AnswersStay
  <1>5. PICK N : N = {}
    OBVIOUS
  <1>6. Said' \subseteq Said \cup N /\ Said' \subseteq Said /\ \A a \in N : FALSE
    BY <1>4, <1>5
  <1>7. AnsweredOnce' /\ PackagesOK' /\ StatesOK'
    BY <1>1, <1>3, <1>6, NothingSaid, PackagesStay, StatesStay
  <1>8. CredentialsOK'
    <2>1. PICK n \in DOMAIN lookups :
             /\ lookups' = SubSeq(lookups, 1, n - 1) \o SubSeq(lookups, n + 1, Len(lookups))
             /\ \E h : /\ h = dir[lookups[n].dev] \/ h = [status |-> "unavailable"]
                       /\ found' = Append(found, [corr |-> lookups[n].corr, holds |-> h])
      BY DEF AnswerLookup
    <2>2. PICK h : /\ h = dir[lookups[n].dev] \/ h = [status |-> "unavailable"]
                   /\ found' = Append(found, [corr |-> lookups[n].corr, holds |-> h])
      BY <2>1
    <2>3. h = dir[lookups[n].dev] \/ h.status # "ok"
      BY <2>2
    <2> QED BY <1>1, <1>3, <1>6, <2>1, <2>2, <2>3, LookupStep
  <1> QED BY <1>2, <1>3, <1>4, <1>7, <1>8 DEF IInv

(***************************************************************************)
(* The router.                                                             *)
(***************************************************************************)
LEMMA RememberPort ==
    ASSUME IsPort(routes), \A r \in On(routes) : r.e \in Lanes, NEW x, NEW e \in Lanes,
           NEW to, to = RememberRoute(x, e)
    PROVE  IsPort(to) /\ \A r \in On(to) : r.e \in Lanes
  <1>1. PICK t : t = [x |-> x, e |-> e]
    OBVIOUS
  <1>2. t.e \in Lanes
    BY <1>1
  <1>3. CASE to = Append(routes, t)
    BY <1>2, <1>3, AppendPort
  <1>4. CASE to = Append(Tail(routes), t) /\ routes # <<>>
    <2>1. IsPort(Tail(routes)) /\ On(Tail(routes)) \subseteq On(routes)
      BY <1>4, TailPort
    <2> QED BY <1>2, <1>4, <2>1, AppendPort
  <1>5. CASE to = Append(Tail(routes), t) /\ routes = <<>>
    <2>1. routes = << >> /\ Tail(routes) = <<>>
      BY <1>5
    <2>2. IsPort(Tail(routes)) /\ On(Tail(routes)) = {}
      BY <2>1, EmptyPort
    <2>3. PICK s : s = Tail(routes)
      OBVIOUS
    <2>4. IsPort(s) /\ On(s) = {} /\ to = Append(s, t)
      BY <1>5, <2>2, <2>3
    <2>5. IsPort(to) /\ On(to) = {} \cup {t}
      BY <2>4, AppendPort
    <2> QED BY <1>2, <2>5
  <1> QED BY <1>1, <1>3, <1>4, <1>5 DEF RememberRoute

LEMMA RouteIs ==
    ASSUME IsPort(routes), \A r \in On(routes) : r.e \in Lanes, NEW x, RoutesOf(x) # {}
    PROVE  Min(RoutesOf(x)) \in DOMAIN routes /\ routes[Min(RoutesOf(x))].e \in Lanes
  <1>1. RoutesOf(x) \in SUBSET Nat /\ RoutesOf(x) \subseteq DOMAIN routes
    BY DEF RoutesOf, IsPort
  <1>2. Min(RoutesOf(x)) \in RoutesOf(x)
    BY <1>1, MinIs
  <1> QED BY <1>1, <1>2 DEF On

LEMMA ForgetPort ==
    ASSUME IsPort(routes), \A r \in On(routes) : r.e \in Lanes, NEW x, RoutesOf(x) # {},
           NEW to, to = ForgetRoute(x)
    PROVE  IsPort(to) /\ \A r \in On(to) : r.e \in Lanes
  <1>1. PICK n, N, S : n = Min(RoutesOf(x)) /\ N = Len(routes) /\ S = On(routes)
    OBVIOUS
  <1>2. /\ routes \in Seq(S) /\ N \in Nat /\ DOMAIN routes = 1 .. N /\ n \in 1 .. N
        /\ \A i \in 1 .. N : routes[i] \in S
    BY <1>1, RouteIs DEF IsPort
  <1>3. PICK s : s = [routes EXCEPT ![n] = routes[N]]
    OBVIOUS
  <1>4. s = [i \in 1 .. N |-> s[i]] /\ \A i \in 1 .. N : s[i] \in S
    <2>1. N \in 1 .. N /\ routes = [i \in 1 .. N |-> routes[i]]
      BY <1>2
    <2>2. DOMAIN s = 1 .. N /\ \A i \in 1 .. N : s[i] = IF i = n THEN routes[N] ELSE routes[i]
      BY <1>2, <1>3, <2>1
    <2>3. s = [i \in 1 .. N |-> s[i]]
      BY <1>3, <2>1
    <2> QED BY <1>2, <2>1, <2>2, <2>3
  <1>5. s \in Seq(S) /\ Len(s) = N
    BY <1>2, <1>4
  <1>6. to = SubSeq(s, 1, N - 1)
    BY <1>1, <1>3 DEF ForgetRoute
  <1>7. to \in Seq(S)
    BY <1>2, <1>4, <1>5, <1>6
  <1>8. On(to) \subseteq S /\ \A i \in DOMAIN to : to[i] \in On(to)
    BY <1>7 DEF On
  <1>9. to \in Seq(On(to))
    BY <1>7, <1>8
  <1> QED BY <1>1, <1>8, <1>9 DEF IsPort

(* Steps of the router and of the listener that leave the endpoints alone. *)
LEMMA Carries ==
    ASSUME IInv, EdgesOK', OnePlace', \A x \in Xs : Unhandled(x)' => Unhandled(x),
           UNCHANGED <<exchange, tables, keyVars, lookup, world>>, SentOK', Said' \subseteq Said
    PROVE  IInv'
  <1>1. /\ UNCHANGED <<ask, stage, got, was, scn, now, dir>> /\ UNCHANGED <<signing, kid>>
        /\ UNCHANGED <<ask, was, dir>> /\ UNCHANGED <<ask, stage, got, was>>
        /\ UNCHANGED <<pools, states, lookup>>
    BY DEF exchange, tables, keyVars, world
  <1>2. TypeOK /\ CredentialsOK
    BY DEF IInv
  <1>3. TypeOK' /\ Keeps /\ SignsAsNamed' /\ HeldSince'
    BY <1>1, <1>2, TypeStays, Steady, HeldStays, NamedStays
  <1> QED BY <1>1, <1>3, Quiet

LEMMA RouteRecordInv ==
    ASSUME IInv, RouteRecord
    PROVE  IInv'
  <1> DEFINE r == Head(requests)
             e == Owner(ask[r.x])
  <1>1. /\ held = <<>> /\ requests # <<>> /\ requests' = Tail(requests)
        /\ UNCHANGED <<exchange, answer, turn, outs, collecting, windows, tables, keyVars, lookup,
                       world>>
    BY DEF RouteRecord
  <1>2. /\ UNCHANGED <<ask, stage, got, was, scn, now, dir>>
        /\ UNCHANGED <<exchange, tables, keyVars, lookup, world>>
        /\ UNCHANGED <<ask, stage, got, answer, outs, turn>> /\ UNCHANGED <<ask, collecting>>
        /\ UNCHANGED <<pools, states, lookup>> /\ UNCHANGED <<signing, kid>>
    BY <1>1 DEF exchange, tables, keyVars, world
  <1>3. TypeOK /\ EdgesOK /\ OnePlace /\ SentOK /\ CredentialsOK
    BY DEF IInv
  <1>4. /\ IsPort(requests') /\ On(requests') \subseteq On(requests) /\ r \in On(requests)
        /\ Distinct(requests') /\ (r.kind = "head" => r \notin On(requests')) /\ IsRec(r)
    BY <1>1, <1>3, TailPort, TailDistinct DEF EdgesOK
  <1>5. PICK x : x = r.x
    OBVIOUS
  <1>6. x \in Xs /\ (r.kind = "head" => r = Rec("head", x))
    BY <1>4, <1>5, RecIs DEF IsRec
  <1>7. ASSUME NEW status \in Plain, Reply(x, status), r.kind = "head",
               UNCHANGED <<held, lanes, routes>>
        PROVE  IInv'
    <2>1. UNCHANGED <<ask, held, lanes, collecting, routes>>
      BY <1>2, <1>7
    <2>2. /\ EdgesOK' /\ OnePlace' /\ \A y \in Xs : Unhandled(y)' => Unhandled(y)
          /\ \A y : r = Rec("head", y) => Unhandled(y) /\ ~Unhandled(y)'
      BY <1>1, <1>3, <2>1, Drops
    <2>3. SentOK' /\ Said' \subseteq Said \cup {Answer(x, [status |-> status])}
      BY <1>2, <1>3, <1>6, <1>7, Replies
    <2>4. TypeOK' /\ Keeps /\ SignsAsNamed' /\ HeldSince'
      BY <1>2, <1>3, <2>2, TypeStays, Steady, HeldStays, NamedStays
    <2> QED BY <1>2, <1>6, <1>7, <2>2, <2>3, <2>4, Aside
  <1>8. ASSUME UNCHANGED <<held, lanes, routes, responses>>
        PROVE  IInv'
    <2>1. UNCHANGED <<ask, held, lanes, collecting, routes>>
      BY <1>2, <1>8
    <2>2. EdgesOK' /\ OnePlace' /\ \A y \in Xs : Unhandled(y)' => Unhandled(y)
      BY <1>1, <1>3, <2>1, Drops
    <2>3. SentOK' /\ Said' = Said
      BY <1>2, <1>3, <1>8, AnswersStay
    <2> QED BY <1>2, <2>2, <2>3, Carries
  <1>9. ASSUME NEW f \in Lanes, Forward(r, f), r.kind = "head" => Owner(ask[x]) = f,
               IsPort(routes'), \A t \in On(routes') : t.e \in Lanes, UNCHANGED responses
        PROVE  IInv'
    <2>1. r.kind = "head" => /\ Owner(ask[r.x]) = f /\ r \notin On(requests')
                             /\ ~InLane(r.x) /\ ~Collected(r.x)
      BY <1>3, <1>4, <1>5, <1>6, <1>9 DEF OnePlace
    <2>2. /\ EdgesOK' /\ OnePlace'
          /\ \A y \in Xs : Unhandled(y)' => Unhandled(y) \/ r = Rec("head", y)
      BY <1>1, <1>2, <1>3, <1>4, <1>9, <2>1, Forwards
    <2>3. \A y \in Xs : Unhandled(y)' => Unhandled(y)
      BY <1>4, <2>2 DEF Unhandled
    <2>4. SentOK' /\ Said' = Said
      BY <1>2, <1>3, <1>9, AnswersStay
    <2> QED BY <1>2, <2>2, <2>3, <2>4, Carries
  <1>10. IsPort(routes) /\ \A t \in On(routes) : t.e \in Lanes
    BY <1>3 DEF EdgesOK
  <1>11. CASE r.kind = "head" /\ (e = "nobody" \/ e \in scn.absent)
    <2>1. /\ UNCHANGED <<held, lanes, routes>>
          /\ Reply(x, "not_found") \/ Reply(x, "unavailable")
      BY <1>5, <1>11 DEF RouteRecord
    <2> QED BY <1>7, <1>11, <2>1 DEF Plain
  <1>12. CASE r.kind = "head" /\ e \notin scn.absent \cup {"nobody"}
    <2>1. routes' = RememberRoute(r.x, e) /\ Forward(r, e) /\ UNCHANGED responses
      BY <1>12 DEF RouteRecord
    <2>2. PICK f : f = e
      OBVIOUS
    <2>3. f \in Lanes
      BY <1>12, <2>2 DEF Owner, Lanes, Endpoints
    <2>4. PICK to : to = RememberRoute(x, f)
      OBVIOUS
    <2>5. routes' = to
      BY <1>5, <2>1, <2>2, <2>4
    <2>6. IsPort(to) /\ \A t \in On(to) : t.e \in Lanes
      BY <1>10, <2>3, <2>4, RememberPort
    <2>7. Forward(r, f) /\ Owner(ask[x]) = f
      BY <1>5, <2>1, <2>2
    <2> QED BY <1>9, <2>1, <2>3, <2>5, <2>6, <2>7
  <1>13. CASE r.kind # "head" /\ RoutesOf(r.x) = {}
    <2>1. UNCHANGED <<held, lanes, routes, responses>>
      BY <1>13 DEF RouteRecord
    <2> QED BY <1>8, <2>1
  <1>14. CASE r.kind # "head" /\ RoutesOf(r.x) # {}
    <2>1. PICK f : f = routes[Min(RoutesOf(x))].e
      OBVIOUS
    <2>2. /\ Forward(r, routes[Min(RoutesOf(r.x))].e) /\ UNCHANGED responses
          /\ routes' = ForgetRoute(r.x) \/ routes' = routes
      BY <1>14 DEF RouteRecord
    <2>3. Forward(r, f)
      BY <1>5, <2>1, <2>2
    <2>4. f \in Lanes
      BY <1>5, <1>10, <1>14, <2>1, RouteIs
    <2>5. PICK to : to = ForgetRoute(x)
      OBVIOUS
    <2>6. IsPort(to) /\ \A t \in On(to) : t.e \in Lanes
      BY <1>5, <1>10, <1>14, <2>5, ForgetPort
    <2>7. IsPort(routes') /\ \A t \in On(routes') : t.e \in Lanes
      BY <1>5, <1>10, <2>2, <2>5, <2>6
    <2> QED BY <1>9, <1>14, <2>2, <2>3, <2>4, <2>7
  <1> QED BY <1>11, <1>12, <1>13, <1>14

LEMMA PlaceHeldInv ==
    ASSUME IInv, PlaceHeld
    PROVE  IInv'
  <1>1. /\ held # <<>> /\ Forward(held[1], held[2])
        /\ UNCHANGED <<exchange, requests, routes, answer, turn, responses, outs, collecting,
                       windows, tables, keyVars, lookup, world>>
    BY DEF PlaceHeld
  <1>2. /\ UNCHANGED <<exchange, tables, keyVars, lookup, world>>
        /\ UNCHANGED <<ask, stage, got, outs, answer, responses, turn>>
        /\ UNCHANGED <<ask, collecting>> /\ requests' = requests /\ routes' = routes
    BY <1>1 DEF exchange
  <1>3. TypeOK /\ EdgesOK /\ OnePlace /\ SentOK
    BY DEF IInv
  <1>4. PICK r, e : r = held[1] /\ e = held[2]
    OBVIOUS
  <1>5. /\ IsRec(r) /\ e \in Lanes /\ Forward(r, e)
        /\ r.kind = "head" => Owner(ask[r.x]) = e /\ HeldIs(r.x) /\ r.x \in Xs
                              /\ r = Rec("head", r.x)
    <2>1. IsRec(r) /\ e \in Lanes /\ (r.kind = "head" => Owner(ask[r.x]) = e)
      BY <1>1, <1>3, <1>4 DEF EdgesOK
    <2>2. r.kind = "head" => r = Rec("head", r.x) /\ r.x \in Xs
      BY <2>1, RecIs DEF IsRec
    <2> QED BY <1>1, <1>4, <2>1, <2>2 DEF HeldIs
  <1>6. r.kind = "head" => /\ Owner(ask[r.x]) = e /\ r \notin On(requests)
                           /\ ~InLane(r.x) /\ ~Collected(r.x)
    BY <1>3, <1>5 DEF OnePlace
  <1>7. /\ IsPort(requests') /\ Distinct(requests') /\ On(requests') = On(requests)
        /\ IsPort(routes') /\ \A t \in On(routes') : t.e \in Lanes
    BY <1>2, <1>3 DEF EdgesOK
  <1>8. /\ EdgesOK' /\ OnePlace'
        /\ \A y \in Xs : Unhandled(y)' => Unhandled(y) \/ r = Rec("head", y)
    BY <1>2, <1>3, <1>4, <1>5, <1>6, <1>7, Forwards
  <1>9. \A y \in Xs : Unhandled(y)' => Unhandled(y)
    BY <1>1, <1>4, <1>8 DEF Unhandled, HeldIs
  <1>10. SentOK' /\ Said' = Said
    BY <1>2, <1>3, AnswersStay
  <1> QED BY <1>2, <1>8, <1>9, <1>10, Carries

LEMMA TakeAnswerInv ==
    ASSUME IInv, TakeAnswer
    PROVE  IInv'
  <1>1. /\ answer = <<>>
        /\ UNCHANGED <<exchange, requests, held, routes, responses, lanes, collecting, windows,
                       tables, keyVars, lookup, world>>
    BY DEF TakeAnswer
  <1>2. /\ UNCHANGED <<exchange, tables, keyVars, lookup, world>>
        /\ UNCHANGED <<ask, requests, held, lanes, collecting, routes>>
        /\ UNCHANGED <<ask, stage, got>> /\ responses' = responses
    BY <1>1 DEF exchange
  <1>3. TypeOK /\ EdgesOK /\ OnePlace /\ SentOK
    BY DEF IInv
  <1>4. PICK step \in 0 .. 2 :
           LET lane == ((turn + step) % 3) + 1
               e    == Endpoints[lane]
           IN /\ outs[e] # <<>> /\ answer' = <<Head(outs[e])>>
              /\ outs' = [outs EXCEPT ![e] = Tail(outs[e])] /\ turn' = lane % 3
    <2>1. outs = [f \in Lanes |-> outs[f]]
      BY <1>3 DEF SentOK
    <2> QED BY <2>1 DEF TakeAnswer
  <1>5. PICK n, e : n = ((turn + step) % 3) + 1 /\ e = Endpoints[n]
    OBVIOUS
  <1>6. n \in 1 .. 3 /\ turn' \in 0 .. 2
    BY <1>3, <1>4, <1>5 DEF SentOK
  <1>7. e \in Lanes
    BY <1>5, <1>6 DEF Lanes
  <1>8. PICK r : r = Head(outs[e])
    OBVIOUS
  <1>9. outs[e] # <<>> /\ answer' = <<r>> /\ outs' = [outs EXCEPT ![e] = Tail(outs[e])]
    BY <1>4, <1>5, <1>8
  <1>10. /\ outs = [f \in Lanes |-> outs[f]] /\ \A f \in Lanes : IsPort(outs[f])
         /\ IsPort(responses) /\ IsPort(outs[e])
    BY <1>3, <1>7 DEF SentOK
  <1>11. /\ IsPort(Tail(outs[e])) /\ On(Tail(outs[e])) \subseteq On(outs[e]) /\ r \in On(outs[e])
    BY <1>8, <1>9, <1>10, TailPort
  <1>12. /\ \A f \in Lanes : outs'[f] = IF f = e THEN Tail(outs[e]) ELSE outs[f]
         /\ outs' = [f \in Lanes |-> outs'[f]]
    BY <1>9, <1>10
  <1>13. IsPort(answer') /\ On(answer') = {r}
    <2>1. IsPort(<<>>) /\ On(<<>>) = {}
      BY EmptyPort
    <2>2. PICK p, q : p = <<>> /\ q = Append(p, r)
      OBVIOUS
    <2>3. IsPort(p) /\ On(p) = {}
      BY <2>1, <2>2
    <2>4. IsPort(q) /\ On(q) = {} \cup {r}
      BY <2>2, <2>3, AppendPort
    <2>5. q = <<r>>
      BY <2>2
    <2> QED BY <1>9, <2>4, <2>5
  <1>14. Sent' \subseteq Sent
    BY <1>2, <1>7, <1>11, <1>12, <1>13, SentNext, ZenonT(60) DEF Sent
  <1>15. SentOK'
    <2>1. \A t \in Sent' : t.x \in Xs /\ (t = Rec("grant", t.x) \/ t = Answer(t.x, t.says))
      BY <1>3, <1>14 DEF SentOK
    <2>2. Xs' = Xs /\ Lanes' = Lanes
      BY <1>2 DEF Xs, Opened, Lanes
    <2>3. \A f \in Lanes : IsPort(outs'[f])
      BY <1>10, <1>11, <1>12
    <2>4. IsPort(responses)'
      BY <1>2, <1>10 DEF IsPort, On
    <2> QED BY <1>6, <1>12, <1>13, <2>1, <2>2, <2>3, <2>4 DEF SentOK
  <1>16. Said' \subseteq Said
    BY <1>2, <1>14 DEF Said, Answer, Xs, Opened
  <1>17. EdgesOK' /\ OnePlace' /\ \A x \in Xs : Unhandled(x)' => Unhandled(x)
    BY <1>2, <1>3, EdgesStay
  <1> QED BY <1>2, <1>15, <1>16, <1>17, Carries

LEMMA PlaceAnswerInv ==
    ASSUME IInv, PlaceAnswer
    PROVE  IInv'
  <1>1. /\ responses' = responses \o answer /\ answer' = <<>>
        /\ UNCHANGED <<exchange, requests, held, routes, turn, endpoints, tables, keyVars, lookup,
                       world>>
    BY DEF PlaceAnswer
  <1>2. /\ UNCHANGED <<exchange, tables, keyVars, lookup, world>>
        /\ UNCHANGED <<ask, requests, held, lanes, collecting, routes>>
        /\ UNCHANGED <<ask, stage, got>> /\ outs' = outs /\ turn' = turn
    BY <1>1 DEF exchange, endpoints
  <1>3. TypeOK /\ EdgesOK /\ OnePlace /\ SentOK
    BY DEF IInv
  <1>4. IsPort(responses') /\ On(responses') \subseteq On(responses) \cup On(answer)
    BY <1>1, <1>3, ConcatPorts DEF SentOK
  <1>5. IsPort(answer') /\ On(answer') = {}
    <2>1. \A p : p = <<>> => IsPort(p) /\ On(p) = {}
      BY EmptyPort
    <2> QED BY <1>1, <2>1
  <1>6. Sent' \subseteq Sent
    BY <1>2, <1>4, <1>5, SentNext DEF Sent
  <1>7. SentOK'
    <2>1. \A t \in Sent' : t.x \in Xs /\ (t = Rec("grant", t.x) \/ t = Answer(t.x, t.says))
      BY <1>3, <1>6 DEF SentOK
    <2>2. Xs' = Xs /\ Lanes' = Lanes
      BY <1>2 DEF Xs, Opened, Lanes
    <2>3. /\ outs' = [f \in Lanes |-> outs'[f]] /\ turn' \in 0 .. 2
          /\ \A f \in Lanes : IsPort(outs'[f])
      BY <1>2, <1>3 DEF SentOK
    <2> QED BY <1>4, <1>5, <2>1, <2>2, <2>3 DEF SentOK
  <1>8. Said' \subseteq Said
    BY <1>2, <1>6 DEF Said, Answer, Xs, Opened
  <1>9. EdgesOK' /\ OnePlace' /\ \A x \in Xs : Unhandled(x)' => Unhandled(x)
    BY <1>2, <1>3, EdgesStay
  <1> QED BY <1>2, <1>7, <1>8, <1>9, Carries

(***************************************************************************)
(* The listener.                                                           *)
(***************************************************************************)
(* An exchange that is not answered moves on, and is not answered yet.     *)
LEMMA Staged ==
    ASSUME TypeOK, SentOK, NEW x \in Xs, NEW s, s # "answered", stage[x] # "answered",
           stage' = [stage EXCEPT ![x] = s],
           UNCHANGED <<ask, got, was, scn, now, dir, outs, answer, turn>>,
           IsPort(responses'), On(responses') \subseteq On(responses),
           \A y \in Xs : Unhandled(y)' => Unhandled(y)
    PROVE  TypeOK' /\ Keeps /\ SentOK' /\ Said' \subseteq Said
  <1> USE DEF Xs, Opened
  <1>1. /\ IsList(stage, Opened) /\ Opened \in Nat
        /\ \A y \in Xs : stage'[y] = IF y = x THEN s ELSE stage[y]
        /\ IsList(stage', Opened)
    BY DEF TypeOK, IsList
  <1>2. \A y \in Xs : stage'[y] = "answered" <=> stage[y] = "answered"
    BY <1>1
  <1>3. TypeOK'
    <2>1. \A a : AskOK(a) => AskOK(a)'
      BY <1>2 DEF AskOK
    <2> QED BY <1>1, <1>2, <2>1 DEF TypeOK, IsList
  <1>4. Keeps
    BY <1>2 DEF Keeps
  <1>5. Sent' \subseteq Sent
    BY SentNext DEF Sent
  <1>6. SentOK'
    <2>1. \A t \in Sent' : t.x \in Xs /\ (t = Rec("grant", t.x) \/ t = Answer(t.x, t.says))
      BY <1>5 DEF SentOK
    <2>2. Lanes' = Lanes
      BY DEF Lanes
    <2>3. /\ outs' = [f \in Lanes |-> outs'[f]] /\ turn' \in 0 .. 2
          /\ \A f \in Lanes : IsPort(outs'[f])
      BY DEF SentOK
    <2>4. IsPort(answer)'
      BY DEF SentOK, IsPort, On
    <2> QED BY <2>1, <2>2, <2>3, <2>4 DEF SentOK
  <1>7. Said' \subseteq Said
    BY <1>2, <1>5 DEF Said, Answer
  <1> QED BY <1>3, <1>4, <1>6, <1>7

LEMMA SendBodyInv ==
    ASSUME IInv, NEW x \in Xs, SendBody(x)
    PROVE  IInv'
  <1>1. /\ stage[x] = "granted" /\ stage' = [stage EXCEPT ![x] = "sent"]
        /\ requests' = Append(requests, Rec("body", x))
        /\ UNCHANGED <<ask, held, lanes, collecting, routes>>
        /\ UNCHANGED <<ask, got, was, scn, now, dir, outs, answer, turn>> /\ responses' = responses
        /\ UNCHANGED <<signing, kid>> /\ UNCHANGED <<ask, was, dir>>
        /\ UNCHANGED <<pools, states, lookup>>
    BY DEF SendBody, endpoints, tables, keyVars, world
  <1>2. TypeOK /\ EdgesOK /\ OnePlace /\ SentOK /\ CredentialsOK
    BY DEF IInv
  <1>3. \A r : r = Rec("body", x) => IsRec(r) /\ r.kind # "head"
    BY RecIs DEF IsRec
  <1>4. EdgesOK' /\ OnePlace' /\ \A y \in Xs : Unhandled(y)' => Unhandled(y)
    BY <1>1, <1>2, <1>3, Follows
  <1>5. IsPort(responses') /\ On(responses') \subseteq On(responses)
    BY <1>1, <1>2 DEF SentOK
  <1>6. TypeOK' /\ Keeps /\ SentOK' /\ Said' \subseteq Said
    BY <1>1, <1>2, <1>4, <1>5, Staged
  <1>7. SignsAsNamed' /\ HeldSince'
    BY <1>1, <1>2, HeldStays, NamedStays
  <1> QED BY <1>1, <1>4, <1>6, <1>7, Quiet

LEMMA AbortExchangeInv ==
    ASSUME IInv, NEW x \in Xs, AbortExchange(x)
    PROVE  IInv'
  <1>1. /\ stage[x] # "answered" /\ stage' = [stage EXCEPT ![x] = "aborted"]
        /\ requests' = Append(requests, Rec("abort", x))
        /\ UNCHANGED <<ask, held, lanes, collecting, routes>>
        /\ UNCHANGED <<ask, got, was, scn, now, dir, outs, answer, turn>> /\ responses' = responses
        /\ UNCHANGED <<signing, kid>> /\ UNCHANGED <<ask, was, dir>>
        /\ UNCHANGED <<pools, states, lookup>>
    BY DEF AbortExchange, endpoints, tables, keyVars
  <1>2. TypeOK /\ EdgesOK /\ OnePlace /\ SentOK /\ CredentialsOK
    BY DEF IInv
  <1>3. \A r : r = Rec("abort", x) => IsRec(r) /\ r.kind # "head"
    BY RecIs DEF IsRec
  <1>4. EdgesOK' /\ OnePlace' /\ \A y \in Xs : Unhandled(y)' => Unhandled(y)
    BY <1>1, <1>2, <1>3, Follows
  <1>5. IsPort(responses') /\ On(responses') \subseteq On(responses)
    BY <1>1, <1>2 DEF SentOK
  <1>6. TypeOK' /\ Keeps /\ SentOK' /\ Said' \subseteq Said
    BY <1>1, <1>2, <1>4, <1>5, Staged
  <1>7. SignsAsNamed' /\ HeldSince'
    BY <1>1, <1>2, HeldStays, NamedStays
  <1> QED BY <1>1, <1>4, <1>6, <1>7, Quiet

LEMMA ReadResponseInv ==
    ASSUME IInv, ReadResponse
    PROVE  IInv'
  <1> USE DEF Xs, Opened
  <1>1. /\ responses # <<>> /\ responses' = Tail(responses)
        /\ UNCHANGED <<ask, requests, held, routes, answer, turn, endpoints, tables, keyVars,
                       lookup, world>>
    BY DEF ReadResponse
  <1>2. /\ UNCHANGED <<ask, requests, held, lanes, collecting, routes>>
        /\ UNCHANGED <<ask, was, scn, now, dir, outs, answer, turn>>
        /\ UNCHANGED <<signing, kid>> /\ UNCHANGED <<ask, was, dir>>
        /\ UNCHANGED <<pools, states, lookup>>
    BY <1>1 DEF endpoints, tables, keyVars, world
  <1>3. TypeOK /\ EdgesOK /\ OnePlace /\ SentOK /\ CredentialsOK
    BY DEF IInv
  <1>4. PICK r, x : r = Head(responses) /\ x = r.x
    OBVIOUS
  <1>5. /\ IsPort(responses') /\ On(responses') \subseteq On(responses) /\ r \in On(responses)
    BY <1>1, <1>3, <1>4, TailPort DEF SentOK
  <1>6. x \in Xs /\ (r.kind = "answer" => r = Answer(x, r.says))
    BY <1>3, <1>4, <1>5, RecIs DEF SentOK, Sent
  <1>7. EdgesOK' /\ OnePlace' /\ \A y \in Xs : Unhandled(y)' => Unhandled(y)
    BY <1>2, <1>3, EdgesStay
  <1>8. SignsAsNamed' /\ HeldSince'
    BY <1>2, <1>3, HeldStays, NamedStays
  <1>9. CASE r.kind = "grant" /\ stage[x] = "opened"
    <2>1. stage' = [stage EXCEPT ![x] = "granted"] /\ got' = got
      BY <1>4, <1>9 DEF ReadResponse
    <2>2. TypeOK' /\ Keeps /\ SentOK' /\ Said' \subseteq Said
      BY <1>2, <1>3, <1>5, <1>6, <1>7, <1>9, <2>1, Staged
    <2> QED BY <1>2, <1>7, <1>8, <2>2, Quiet
  <1>10. Sent' \subseteq Sent
    BY <1>2, <1>5, SentNext DEF Sent
  <1>11. SentOK'
    <2>1. \A t \in Sent' : t.x \in Xs /\ (t = Rec("grant", t.x) \/ t = Answer(t.x, t.says))
      BY <1>3, <1>10 DEF SentOK
    <2>2. Lanes' = Lanes /\ Xs' = Xs
      BY <1>2 DEF Lanes
    <2>3. /\ outs' = [f \in Lanes |-> outs'[f]] /\ turn' \in 0 .. 2
          /\ \A f \in Lanes : IsPort(outs'[f])
      BY <1>2, <1>3 DEF SentOK
    <2>4. IsPort(answer)'
      BY <1>2, <1>3 DEF SentOK, IsPort, On
    <2> QED BY <1>5, <2>1, <2>2, <2>3, <2>4 DEF SentOK
  <1>12. CASE r.kind = "answer" /\ x \in Busy
    <2>1. stage' = [stage EXCEPT ![x] = "answered"] /\ got' = [got EXCEPT ![x] = r.says]
      BY <1>4, <1>12 DEF ReadResponse
    <2>2. /\ IsList(stage, Opened) /\ IsList(got, Opened) /\ Opened \in Nat
      BY <1>3 DEF TypeOK
    <2>3. /\ \A y \in Xs : /\ stage'[y] = IF y = x THEN "answered" ELSE stage[y]
                           /\ got'[y] = IF y = x THEN r.says ELSE got[y]
          /\ IsList(stage', Opened) /\ IsList(got', Opened)
      BY <2>1, <2>2 DEF IsList
    <2>4. stage[x] # "answered"
      BY <1>12 DEF Busy
    <2>5. TypeOK'
      <3>1. \A a : AskOK(a) => AskOK(a)'
        BY <1>2, <2>3 DEF AskOK
      <3> QED BY <1>2, <1>3, <2>3, <3>1 DEF TypeOK, IsList
    <2>6. Keeps
      BY <1>2, <1>7, <2>3, <2>4 DEF Keeps
    <2>7. Said' \subseteq Said
      <3>1. r \in Said
        BY <1>5, <1>12 DEF Said, Sent
      <3>2. ASSUME NEW a \in Said' PROVE a \in Said
        <4>1. CASE a \in Sent' /\ a.kind = "answer"
          BY <1>10, <4>1 DEF Said
        <4>2. CASE \E y \in Xs : stage'[y] = "answered" /\ a = Answer(y, got'[y])
          <5>1. PICK y \in Xs : stage'[y] = "answered" /\ a = Answer(y, got'[y])
            BY <4>2
          <5>2. CASE y = x
            BY <1>6, <1>12, <2>3, <3>1, <5>1, <5>2
          <5>3. CASE y # x
            <6>1. stage[y] = "answered" /\ a = Answer(y, got[y])
              BY <2>3, <5>1, <5>3
            <6> QED BY <6>1 DEF Said
          <5> QED BY <5>2, <5>3
        <4>3. Xs' = Xs
          BY <1>2
        <4> QED BY <3>2, <4>1, <4>2, <4>3 DEF Said, Answer
      <3> QED BY <3>2
    <2> QED BY <1>2, <1>7, <1>8, <1>11, <2>5, <2>6, <2>7, Quiet
  <1>13. CASE ~(r.kind = "grant" /\ stage[x] = "opened") /\ ~(r.kind = "answer" /\ x \in Busy)
    <2>1. stage' = stage /\ got' = got
      BY <1>4, <1>13 DEF ReadResponse
    <2>2. TypeOK' /\ Keeps
      BY <1>2, <1>3, <1>7, <2>1, TypeStays, Steady
    <2>3. Said' \subseteq Said
      BY <1>2, <1>10, <2>1 DEF Said, Answer
    <2> QED BY <1>2, <1>7, <1>8, <1>11, <2>2, <2>3, Quiet
  <1> QED BY <1>9, <1>12, <1>13

(* What was asked is what the scenario has, with what was known by then.   *)
LEMMA AskedIs ==
    ASSUME TypeOK, NEW b \in scn.asks, NEW a, a = AskedNow(b)
    PROVE  /\ a.at = now /\ a.since = {x \in Xs : stage[x] = "answered"}
           /\ a.path = b.path /\ a.names = b.names
           /\ a.path = "publish" => a.gen \in Nat /\ a.until \in Nat
           /\ a.path = "commit" =>
                 a.expected \in Nat /\ a.marker.epoch \in Nat /\ a.marker.gen \in Nat
           /\ a.path = "credential" => a.names \in DOMAIN dir
  <1>1. /\ scn \in Scenarios /\ DOMAIN dir = DOMAIN scn.dir
    BY DEF TypeOK
  <1>2. /\ {"path", "names"} \subseteq DOMAIN b
        /\ b.path = "publish" => /\ {"gen", "until"} \subseteq DOMAIN b
                                 /\ b.gen \in Nat /\ b.until \in Nat
        /\ b.path = "commit" => /\ {"expected", "marker"} \subseteq DOMAIN b /\ b.expected \in Nat
                                /\ b.marker.epoch \in Nat /\ b.marker.gen \in Nat
        /\ b.path = "credential" => b.names \in DOMAIN scn.dir
    BY <1>1, MgBodies
  <1>3. a.at = now /\ a.since = {x \in Xs : stage[x] = "answered"}
    BY DEF AskedNow
  <1>4. \A f \in DOMAIN b : f \notin {"proof", "at", "since"} => a[f] = b[f]
    BY DEF AskedNow
  <1> QED BY <1>1, <1>2, <1>3, <1>4

LEMMA ListLen ==
    ASSUME NEW l, NEW n \in Nat, IsList(l, n)
    PROVE  Len(l) = n
  <1> DEFINE S == {l[i] : i \in 1 .. n}
  <1>1. \A i \in 1 .. n : l[i] \in S
    OBVIOUS
  <1> HIDE DEF S
  <1>2. l \in Seq(S) /\ DOMAIN l = 1 .. n
    BY <1>1 DEF IsList
  <1> QED BY <1>2

LEMMA OpenExchangeInv ==
    ASSUME IInv, OpenExchange
    PROVE  IInv'
  <1>1. PICK b \in scn.asks :
           /\ ask' = Append(ask, AskedNow(b))
           /\ stage' = Append(stage, IF b.streams THEN "opened" ELSE "sent")
           /\ was' = Append(was, IF b.path = "credential" THEN {dir[b.names]} ELSE {})
    BY DEF OpenExchange
  <1>2. PICK z, a, s, w : /\ z = Opened + 1 /\ a = AskedNow(b)
                          /\ s = IF b.streams THEN "opened" ELSE "sent"
                          /\ w = IF b.path = "credential" THEN {dir[b.names]} ELSE {}
    OBVIOUS
  <1>3. /\ ask' = Append(ask, a) /\ stage' = Append(stage, s) /\ was' = Append(was, w)
        /\ got' = Append(got, [status |-> "none"])
        /\ requests' = Append(requests, Rec("head", z))
        /\ UNCHANGED <<held, lanes, collecting, routes>>
        /\ UNCHANGED <<outs, answer, responses, turn>>
        /\ UNCHANGED <<signing, kid>> /\ UNCHANGED <<pools, states, lookup>>
        /\ UNCHANGED <<scn, now, dir>>
    BY <1>1, <1>2 DEF OpenExchange, endpoints, tables, keyVars
  <1>4. TypeOK /\ EdgesOK /\ OnePlace /\ SentOK /\ CredentialsOK
    BY DEF IInv
  <1>5. /\ Opened \in Nat /\ IsList(ask, Opened) /\ IsList(stage, Opened)
        /\ IsList(got, Opened) /\ IsList(was, Opened)
    BY <1>4 DEF TypeOK
  <1>6. /\ IsList(ask', z) /\ ask'[z] = a /\ \A x \in Xs : ask'[x] = ask[x]
        /\ IsList(stage', z) /\ stage'[z] = s /\ \A x \in Xs : stage'[x] = stage[x]
        /\ IsList(got', z) /\ got'[z] = [status |-> "none"] /\ \A x \in Xs : got'[x] = got[x]
        /\ IsList(was', z) /\ was'[z] = w /\ \A x \in Xs : was'[x] = was[x]
    <2> PICK n : n = Opened
      OBVIOUS
    <2>1. n \in Nat /\ z = n + 1 /\ Xs = 1 .. n
      BY <1>2, <1>5 DEF Xs
    <2>2. IsList(ask, n) /\ IsList(stage, n) /\ IsList(got, n) /\ IsList(was, n)
      BY <1>5
    <2>3. IsList(ask', z) /\ ask'[z] = a /\ \A x \in Xs : ask'[x] = ask[x]
      <3>1. Extends(ask', ask, n, a)
        BY <1>3, <2>1, <2>2, AppendList
      <3> QED BY <2>1, <3>1 DEF Extends
    <2>4. IsList(stage', z) /\ stage'[z] = s /\ \A x \in Xs : stage'[x] = stage[x]
      <3>1. Extends(stage', stage, n, s)
        BY <1>3, <2>1, <2>2, AppendList
      <3> QED BY <2>1, <3>1 DEF Extends
    <2>5. IsList(got', z) /\ got'[z] = [status |-> "none"] /\ \A x \in Xs : got'[x] = got[x]
      <3>1. Extends(got', got, n, [status |-> "none"])
        BY <1>3, <2>1, <2>2, AppendList
      <3> QED BY <2>1, <3>1 DEF Extends
    <2>6. IsList(was', z) /\ was'[z] = w /\ \A x \in Xs : was'[x] = was[x]
      <3>1. Extends(was', was, n, w)
        BY <1>3, <2>1, <2>2, AppendList
      <3> QED BY <2>1, <3>1 DEF Extends
    <2> QED BY <2>3, <2>4, <2>5, <2>6
  <1>7. Opened' = z
    <2>1. z \in Nat /\ IsList(ask', z)
      BY <1>2, <1>5, <1>6
    <2>2. Len(ask') = z
      BY <2>1, ListLen
    <2> QED BY <2>2 DEF Opened
  <1>8. Xs' = Xs \cup {z} /\ z \notin Xs
    BY <1>2, <1>5, <1>7 DEF Xs
  <1>9. EdgesOK' /\ OnePlace' /\ \A x \in Xs : Unhandled(x)' => Unhandled(x)
    BY <1>2, <1>3, <1>4, <1>5, <1>6, <1>7, Opening
  <1>10. /\ a.at = now /\ a.since = {x \in Xs : stage[x] = "answered"}
         /\ a.path = b.path /\ a.names = b.names
         /\ a.path = "publish" => a.gen \in Nat /\ a.until \in Nat
         /\ a.path = "commit" =>
               a.expected \in Nat /\ a.marker.epoch \in Nat /\ a.marker.gen \in Nat
         /\ a.path = "credential" => a.names \in DOMAIN dir
    BY <1>2, <1>4, AskedIs
  <1>11. s # "answered"
    BY <1>2
  <1>12. TypeOK'
    <2>1. /\ {x \in Xs : stage[x] = "answered"} \subseteq {x \in Xs' : stage'[x] = "answered"}
          /\ now' = now /\ now \in Nat /\ dir' = dir
      BY <1>3, <1>4, <1>6, <1>8 DEF TypeOK
    <2>2. (\A c : AskOK(c) => AskOK(c)') /\ (\A c : c = a => AskOK(c)')
      BY <1>10, <2>1 DEF AskOK
    <2>3. \A x \in Xs' : AskOK(ask[x])'
      <3>1. \A x \in Xs' : ask'[x] = a \/ (\E y \in Xs : ask'[x] = ask[y])
        BY <1>6, <1>8
      <3> QED BY <1>4, <2>2, <3>1 DEF TypeOK
    <2>4. \A x \in Xs' : stage'[x] # "answered" => got'[x] = [status |-> "none"]
      BY <1>4, <1>6, <1>8 DEF TypeOK
    <2>5. /\ (IsList(ask, Opened))' /\ (IsList(stage, Opened))' /\ (IsList(got, Opened))'
          /\ (IsList(was, Opened))' /\ Opened' \in Nat
      BY <1>2, <1>5, <1>6, <1>7 DEF IsList
    <2> QED BY <1>3, <1>4, <2>3, <2>4, <2>5 DEF TypeOK
  <1>13. Keeps
    BY <1>6, <1>8, <1>9 DEF Keeps
  <1>14. Sent' = Sent
    BY <1>3, SentNext DEF Sent
  <1>15. SentOK'
    <2>1. \A t \in Sent' : t.x \in Xs' /\ (t = Rec("grant", t.x) \/ t = Answer(t.x, t.says))
      BY <1>4, <1>8, <1>14 DEF SentOK
    <2>2. Lanes' = Lanes
      BY DEF Lanes
    <2>3. /\ outs' = [f \in Lanes |-> outs'[f]] /\ turn' \in 0 .. 2
          /\ \A f \in Lanes : IsPort(outs'[f])
      BY <1>3, <1>4 DEF SentOK
    <2>4. IsPort(answer)' /\ IsPort(responses)'
      BY <1>3, <1>4 DEF SentOK, IsPort, On
    <2> QED BY <2>1, <2>2, <2>3, <2>4 DEF SentOK
  <1>16. Said' \subseteq Said
    BY <1>6, <1>8, <1>11, <1>14 DEF Said, Answer
  <1>17. HeldSince'
    <2> SUFFICES ASSUME NEW x \in Xs', ask'[x].path = "credential"
                 PROVE  dir[ask'[x].names] \in was'[x]
      BY <1>3 DEF HeldSince
    <2>1. CASE x \in Xs
      BY <1>4, <1>6, <2>1 DEF CredentialsOK
    <2>2. CASE x = z
      BY <1>2, <1>6, <1>10, <2>2
    <2> QED BY <1>8, <2>1, <2>2
  <1>18. SignsAsNamed'
    BY <1>3, <1>4, NamedStays
  <1> QED BY <1>3, <1>9, <1>12, <1>13, <1>15, <1>16, <1>17, <1>18, Quiet

(***************************************************************************)
(* The keys, the directory and the clock.                                  *)
(***************************************************************************)
Carried == <<ask, stage, got, requests, held, lanes, collecting, routes, outs, answer, responses,
             turn, pools, states, lookup, scn>>

(* Nothing is carried and nothing said.                                    *)
LEMMA Settled ==
    ASSUME IInv, UNCHANGED Carried, TypeOK', SignsAsNamed', HeldSince',
           \A x \in Xs : was[x] \subseteq was'[x]
    PROVE  IInv'
  <1>1. /\ UNCHANGED <<ask, requests, held, lanes, collecting, routes>>
        /\ UNCHANGED <<ask, stage, got, outs, answer, responses, turn>>
        /\ UNCHANGED <<pools, states, lookup>>
        /\ ask' = ask /\ stage' = stage /\ got' = got
    BY DEF Carried
  <1>2. EdgesOK' /\ OnePlace' /\ \A x \in Xs : Unhandled(x)' => Unhandled(x)
    BY <1>1, EdgesStay DEF IInv
  <1>3. SentOK' /\ Said' = Said
    BY <1>1, AnswersStay DEF IInv
  <1>4. Keeps
    BY <1>1, <1>2 DEF Keeps, Xs, Opened
  <1>5. Said' \subseteq Said
    BY <1>3
  <1> QED BY <1>1, <1>2, <1>3, <1>4, <1>5, Quiet

LEMMA TakeKeyInv ==
    ASSUME IInv, TakeKey
    PROVE  IInv'
  <1>1. /\ UNCHANGED Carried /\ UNCHANGED <<ask, was, dir>>
        /\ UNCHANGED <<ask, stage, got, was, scn, now, dir>>
    BY DEF TakeKey, exchange, router, endpoints, tables, world, Carried
  <1>2. SignsAsNamed'
    BY DEF TakeKey, TakeKeyRecord, OpenKey, SignsAsNamed
  <1>3. TypeOK' /\ HeldSince'
    BY <1>1, TypeStays, HeldStays DEF IInv
  <1>4. \A x \in Xs : was[x] \subseteq was'[x]
    BY <1>1
  <1> QED BY <1>1, <1>2, <1>3, <1>4, Settled

LEMMA TakeVerifyKeyInv ==
    ASSUME IInv, TakeVerifyKey
    PROVE  IInv'
  <1>1. /\ UNCHANGED Carried /\ UNCHANGED <<ask, was, dir>> /\ UNCHANGED <<signing, kid>>
        /\ UNCHANGED <<ask, stage, got, was, scn, now, dir>>
    BY DEF TakeVerifyKey, exchange, router, endpoints, tables, keyVars, Carried
  <1>2. TypeOK' /\ HeldSince' /\ SignsAsNamed'
    BY <1>1, TypeStays, HeldStays, NamedStays DEF IInv
  <1>3. \A x \in Xs : was[x] \subseteq was'[x]
    BY <1>1
  <1> QED BY <1>1, <1>2, <1>3, Settled

LEMMA TickInv ==
    ASSUME IInv, Tick
    PROVE  IInv'
  <1>1. /\ UNCHANGED Carried /\ UNCHANGED <<ask, was, dir>> /\ UNCHANGED <<signing, kid>>
        /\ UNCHANGED <<ask, stage, got, was, scn, dir>> /\ now' = now + 1
    BY DEF Tick, exchange, router, endpoints, tables, keyVars, Carried
  <1>2. TypeOK'
    <2>1. TypeOK
      BY DEF IInv
    <2>2. \A a : AskOK(a) => AskOK(a)'
      BY <1>1, <2>1 DEF AskOK, TypeOK, Xs, Opened
    <2> QED BY <1>1, <2>1, <2>2 DEF TypeOK, Xs, Opened
  <1>3. HeldSince' /\ SignsAsNamed'
    BY <1>1, HeldStays, NamedStays DEF IInv
  <1>4. \A x \in Xs : was[x] \subseteq was'[x]
    BY <1>1
  <1> QED BY <1>1, <1>2, <1>3, <1>4, Settled

(* A change is one of the things the directory held since.                 *)
LEMMA ChangeDirectoryInv ==
    ASSUME IInv, ChangeDirectory
    PROVE  IInv'
  <1>1. PICK d \in DOMAIN dir, r \in scn.records :
           /\ dir' = [dir EXCEPT ![d] = r]
           /\ was' = [x \in Xs |-> IF ask[x].path = "credential" /\ ask[x].names = d
                                   THEN was[x] \cup {r} ELSE was[x]]
    BY DEF ChangeDirectory
  <1>2. /\ UNCHANGED Carried /\ UNCHANGED <<signing, kid>>
        /\ UNCHANGED <<ask, stage, got, scn, now>>
    BY DEF ChangeDirectory, exchange, router, endpoints, tables, keyVars, Carried
  <1>3. TypeOK /\ CredentialsOK
    BY DEF IInv
  <1>4. /\ DOMAIN dir' = DOMAIN dir /\ dir'[d] = r
        /\ \A k \in DOMAIN dir : k # d => dir'[k] = dir[k]
    BY <1>1
  <1>5. /\ \A x \in Xs : was[x] \subseteq was'[x]
        /\ \A x \in Xs : ask[x].path = "credential" /\ ask[x].names = d => r \in was'[x]
    BY <1>1
  <1>6. TypeOK'
    <2>1. \A a : AskOK(a) => AskOK(a)'
      BY <1>2, <1>4 DEF AskOK, Xs, Opened
    <2>2. IsList(was, Opened)'
      BY <1>1, <1>2 DEF IsList, Xs, Opened
    <2> QED BY <1>2, <1>3, <1>4, <2>1, <2>2 DEF TypeOK, Xs, Opened
  <1>7. HeldSince'
    <2> SUFFICES ASSUME NEW x \in Xs, ask[x].path = "credential"
                 PROVE  dir'[ask[x].names] \in was'[x]
      BY <1>2 DEF HeldSince, Xs, Opened
    <2>1. ask[x].names \in DOMAIN dir /\ dir[ask[x].names] \in was[x]
      BY <1>3 DEF TypeOK, AskOK, CredentialsOK
    <2> QED BY <1>4, <1>5, <2>1
  <1>8. SignsAsNamed'
    BY <1>2, <1>3, NamedStays
  <1> QED BY <1>2, <1>5, <1>6, <1>7, <1>8, Settled

(***************************************************************************)
(* The specification.                                                      *)
(***************************************************************************)
LEMMA InitInv == Init => IInv
  <1> SUFFICES ASSUME Init PROVE IInv
    OBVIOUS
  <1>1. /\ scn \in Scenarios /\ ask = <<>> /\ stage = <<>> /\ got = <<>> /\ was = <<>>
        /\ requests = <<>> /\ held = <<>> /\ routes = <<>> /\ answer = <<>> /\ turn = 0
        /\ responses = <<>> /\ lanes = [e \in Lanes |-> <<>>] /\ outs = [e \in Lanes |-> <<>>]
        /\ collecting = [e \in Lanes |-> {}] /\ pools = <<>> /\ states = << >>
        /\ signing = 0 /\ pending = {} /\ nextCorr = 1 /\ lookups = <<>> /\ found = <<>>
        /\ now = scn.start /\ dir = scn.dir
    BY DEF Init
  <1>2. Opened = 0 /\ Xs = {}
    BY <1>1 DEF Opened, Xs
  <1>3. \A p : p = <<>> => IsPort(p) /\ Distinct(p) /\ On(p) = {} /\ IsList(p, 0)
    BY EmptyPort DEF Distinct, IsList
  <1>4. TypeOK
    BY <1>1, <1>2, <1>3, MgBodies DEF TypeOK
  <1>5. \A e \in Lanes : lanes[e] = <<>> /\ outs[e] = <<>> /\ collecting[e] = {}
    BY <1>1
  <1>6. EdgesOK /\ OnePlace
    <2>1. \A e \in Lanes : IsLane(e)
      BY <1>3, <1>5 DEF IsLane
    <2> QED BY <1>1, <1>2, <1>3, <1>5, <2>1 DEF EdgesOK, OnePlace
  <1>7. Sent = {} /\ Said = {}
    BY <1>1, <1>2, <1>3, <1>5 DEF Sent, Said
  <1>8. SentOK
    BY <1>1, <1>3, <1>5, <1>7 DEF SentOK
  <1>9. AnsweredOnce
    BY <1>1, <1>7 DEF AnsweredOnce
  <1>10. DOMAIN pools = {} /\ On(pools) = {} /\ DOMAIN states = {}
    BY <1>1 DEF On
  <1>11. PackagesOK
    BY <1>1, <1>3, <1>7, <1>10 DEF PackagesOK, PoolsOK
  <1>12. StatesOK
    BY <1>7, <1>10 DEF StatesOK
  <1>13. CredentialsOK
    BY <1>1, <1>2, <1>3, <1>7 DEF CredentialsOK
  <1> QED BY <1>4, <1>6, <1>8, <1>9, <1>11, <1>12, <1>13 DEF IInv

LEMMA NextInv == IInv /\ [Next]_vars => IInv'
  <1> SUFFICES ASSUME IInv, [Next]_vars PROVE IInv'
    OBVIOUS
  <1>1. CASE RouteRecord
    BY <1>1, RouteRecordInv
  <1>2. CASE PlaceHeld
    BY <1>2, PlaceHeldInv
  <1>3. CASE TakeAnswer
    BY <1>3, TakeAnswerInv
  <1>4. CASE PlaceAnswer
    BY <1>4, PlaceAnswerInv
  <1>5. CASE \E e \in Lanes : TakeRecord(e)
    BY <1>5, TakeRecordInv
  <1>6. CASE DrainDirectory
    BY <1>6, DrainDirectoryInv
  <1>7. CASE AnswerLookup
    BY <1>7, AnswerLookupInv
  <1>8. CASE ReadResponse
    BY <1>8, ReadResponseInv
  <1>9. CASE OpenExchange
    BY <1>9, OpenExchangeInv
  <1>10. CASE \E x \in Xs : SendBody(x)
    BY <1>10, SendBodyInv
  <1>11. CASE \E x \in Xs : AbortExchange(x)
    BY <1>11, AbortExchangeInv
  <1>12. CASE TakeKey
    BY <1>12, TakeKeyInv
  <1>13. CASE TakeVerifyKey
    BY <1>13, TakeVerifyKeyInv
  <1>14. CASE ChangeDirectory
    BY <1>14, ChangeDirectoryInv
  <1>15. CASE Tick
    BY <1>15, TickInv
  <1>16. CASE UNCHANGED vars
    <2>1. /\ UNCHANGED Carried /\ UNCHANGED <<ask, was, dir>> /\ UNCHANGED <<signing, kid>>
          /\ UNCHANGED <<ask, stage, got, was, scn, now, dir>>
      BY <1>16 DEF vars, exchange, router, endpoints, tables, keyVars, lookup, world, Carried
    <2>2. TypeOK' /\ HeldSince' /\ SignsAsNamed'
      BY <2>1, TypeStays, HeldStays, NamedStays DEF IInv
    <2>3. \A x \in Xs : was[x] \subseteq was'[x]
      BY <2>1
    <2> QED BY <2>1, <2>2, <2>3, Settled
  <1> QED BY <1>1, <1>2, <1>3, <1>4, <1>5, <1>6, <1>7, <1>8, <1>9, <1>10, <1>11, <1>12, <1>13,
             <1>14, <1>15, <1>16 DEF Next, Progress

LEMMA Invariance == Spec => []IInv
  BY InitInv, NextInv, PTL DEF Spec

(* What was read was said.                                                 *)
LEMMA ReadIs ==
    ASSUME IInv, NEW x \in Xs, got[x] # [status |-> "none"]
    PROVE  \E a \in Said : a.x = x /\ a.says = got[x]
  <1>1. stage[x] = "answered"
    BY DEF IInv, TypeOK
  <1>2. Answer(x, got[x]) \in Said
    BY <1>1 DEF Said
  <1> QED BY <1>2 DEF Answer

(* However requests to publish, to claim and to rotate a device's packages *)
(* interleave at the key-package endpoint, a one-time package goes to one  *)
(* claimer, and what a claimer gets was published for the device it asked  *)
(* for, is not expired and not of a generation rotated past: claim_one     *)
(* spends a package before it answers, and pool_for empties a pool that    *)
(* rotates.                                                                *)
THEOREM PackagesGoToOneClaimer == Spec => []PackagesGoOnce
  <1>1. ASSUME IInv PROVE PackagesGoOnce
    <2> SUFFICES ASSUME NEW x \in Answered("claimed")
                 PROVE  LET p == got[x].package
                        IN /\ ask[p.of].dev = ask[x].names
                           /\ ask[x].at < p.until
                           /\ p.once => \A y \in Answered("claimed") \ {x} :
                                           got[y].package.of # p.of
                           /\ \A y \in ask[x].since :
                                 got[y].status = "published" /\ ask[y].dev = ask[x].names
                                    => ask[y].gen <= p.gen
      BY DEF PackagesGoOnce
    <2>1. \A y \in Answered("claimed") : y \in Xs /\ got[y] # [status |-> "none"]
      BY DEF Answered
    <2>2. \A y \in Answered("claimed") : \E b \in Said : b.x = y /\ b.says = got[y] /\ Claimed(b)
      BY <1>1, <2>1, ReadIs DEF Answered, Claimed
    <2>3. PICK a \in Said : a.x = x /\ a.says = got[x] /\ Claimed(a)
      BY <2>2
    <2>4. ClaimedOK(a) /\ \A b \in Said : Claimed(b) /\ b.x # x /\ a.says.package.once =>
                                             a.says.package.of # b.says.package.of
      BY <1>1, <2>3 DEF IInv, PackagesOK
    <2>5. \A y \in Answered("claimed") \ {x} : got[x].package.once =>
             got[y].package.of # got[x].package.of
      BY <2>2, <2>3, <2>4
    <2> QED BY <2>3, <2>4, <2>5 DEF ClaimedOK
  <1> QED BY <1>1, Invariance, PTL

(* However commits and loads of an endpoint's ratchet state race, are      *)
(* retried and are answered late, the commits that were acknowledged form  *)
(* one line that a load never steps back on, and nothing is answered after *)
(* a stop: commit and load of the state endpoint are the only code that    *)
(* moves it, one record at a time.                                         *)
THEOREM CommitsFormOneLine == Spec => []CommitsAreOneLine
  <1> DEFINE Z == {z \in Xs : "revision" \in DOMAIN got[z]}
  <1>1. ASSUME IInv PROVE CommitsAreOneLine
    <2>1. \A z \in Z : z \in Xs /\ got[z] # [status |-> "none"]
      OBVIOUS
    <2>2. \A z \in Z : \E a \in Said :
             a.x = z /\ a.says = got[z] /\ (Committed(a) \/ Loaded(a)) /\ InLine(a)
                     /\ (Committed(a) => CommittedOK(a))
      <3> SUFFICES ASSUME NEW z \in Z
                   PROVE  \E a \in Said :
                             a.x = z /\ a.says = got[z] /\ (Committed(a) \/ Loaded(a)) /\ InLine(a)
                                     /\ (Committed(a) => CommittedOK(a))
        OBVIOUS
      <3>1. PICK a \in Said : a.x = z /\ a.says = got[z]
        BY <1>1, <2>1, ReadIs
      <3> QED BY <1>1, <3>1 DEF IInv, StatesOK
    <2> SUFFICES ASSUME NEW x \in Z, NEW y \in Z, ask[x].key = ask[y].key
                 PROVE  /\ got[x].status = "committed" => got[x].revision = ask[x].expected + 1
                        /\ got[x].status = "committed" /\ got[y].status = "committed" /\ x # y =>
                             /\ got[x].revision # got[y].revision
                             /\ got[x].revision < got[y].revision =>
                                   AdvancesOn(ask[y].marker, ask[x].marker)
                        /\ got[x].status = "committed" /\ got[y].status = "loaded"
                              /\ got[x].revision = got[y].revision
                             => got[y].of = x /\ got[y].marker = ask[x].marker
                        /\ x \in ask[y].since => got[x].revision <= got[y].revision
                        /\ \A z \in ask[y].since :
                              got[z].status \in {"rolled_back", "poisoned"} =>
                                 ask[z].key # ask[y].key
      BY DEF CommitsAreOneLine
    <2>3. PICK a \in Said : /\ a.x = x /\ a.says = got[x] /\ InLine(a)
                            /\ Committed(a) \/ Loaded(a)
                            /\ Committed(a) => CommittedOK(a)
      BY <2>2
    <2>4. PICK b \in Said : /\ b.x = y /\ b.says = got[y] /\ InLine(b)
                            /\ Committed(b) \/ Loaded(b)
                            /\ Committed(b) => CommittedOK(b)
      BY <2>2
    <2>5. Agree(a, b)
      BY <1>1 DEF IInv, StatesOK
    <2>6. got[x].status = "committed" => got[x].revision = ask[x].expected + 1
      BY <2>3 DEF CommittedOK, Committed
    <2>7. got[x].status = "committed" /\ got[y].status = "committed" /\ x # y =>
             /\ got[x].revision # got[y].revision
             /\ got[x].revision < got[y].revision => AdvancesOn(ask[y].marker, ask[x].marker)
      BY <2>3, <2>4, <2>5 DEF Agree, Committed, Loaded
    <2>8. got[x].status = "committed" /\ got[y].status = "loaded"
             /\ got[x].revision = got[y].revision => got[y].of = x /\ got[y].marker = ask[x].marker
      BY <2>3, <2>4, <2>5 DEF Agree, Committed, Loaded
    <2>9. x \in ask[y].since => got[x].revision <= got[y].revision
      BY <2>3, <2>4 DEF InLine, Committed, Loaded
    <2>10. \A z \in ask[y].since :
              got[z].status \in {"rolled_back", "poisoned"} => ask[z].key # ask[y].key
      BY <2>4 DEF InLine
    <2> QED BY <2>6, <2>7, <2>8, <2>9, <2>10
  <1> QED BY <1>1, Invariance, PTL

(* However requests for a credential overtake one another, the directory   *)
(* answers late, out of order or not at all, and the signing key is        *)
(* replaced, a credential names the device its exchange asked for and      *)
(* binds the key that was proved and that the directory held for that      *)
(* device during the exchange: take_pending finds the request again by its *)
(* correlation, and issue compares the key before it signs.                *)
THEOREM CredentialsBindWhatWasAsked == Spec => []CredentialsAreBound
  <1>1. ASSUME IInv PROVE CredentialsAreBound
    <2> SUFFICES ASSUME NEW x \in Answered("issued")
                 PROVE  /\ got[x].sub = ask[x].names
                        /\ got[x].jwk = ask[x].proves
                        /\ \E r \in was[x] :
                              r.status = "ok" /\ r.jkt = got[x].jwk /\ r.tid = got[x].tid
                        /\ got[x].kid = got[x].by
      BY DEF CredentialsAreBound
    <2>1. x \in Xs /\ got[x].status = "issued" /\ got[x] # [status |-> "none"]
      BY DEF Answered
    <2>2. PICK a \in Said : a.x = x /\ a.says = got[x]
      BY <1>1, <2>1, ReadIs
    <2>3. IssuedOK(a)
      BY <1>1, <2>1, <2>2 DEF IInv, CredentialsOK, Issued
    <2> QED BY <2>2, <2>3 DEF IssuedOK
  <1> QED BY <1>1, Invariance, PTL

=============================================================================
