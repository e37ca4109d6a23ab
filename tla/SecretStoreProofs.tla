-------------------------- MODULE SecretStoreProofs --------------------------
(***************************************************************************)
(* For every number of requests, keys, records, faults and restarts, and   *)
(* whatever the wall clock reads: a nonce that is used again under a key   *)
(* was used before a restart that read the clock below it.                 *)
(***************************************************************************)
EXTENDS SecretStore, TLAPS

(* The counter has moved on from what the clock read at this start, and    *)
(* this start's nonces lie between the two.                                *)
CounterIsAhead ==
    /\ scn \in Scenarios /\ now \in Nat /\ restarts \in Nat
    /\ began \in Nat /\ counter \in Nat /\ began <= counter
    /\ \A a \in seals :
          /\ a.start \in Nat /\ a.start <= restarts
          /\ a.clock \in Nat /\ a.what.nonce \in Nat /\ a.clock < a.what.nonce
          /\ a.start = restarts => a.what.nonce <= counter

(* Within one start a nonce belongs to one seal, whatever the key.         *)
NoncesAreSeals ==
    \A a, b \in seals : a.start = b.start /\ a.what.nonce = b.what.nonce => a = b

IInv == CounterIsAhead /\ NoncesAreSeals

LEMMA ClockIsNat == ASSUME CounterIsAhead PROVE WallClock \in Nat /\ Seed = WallClock
  BY DEF CounterIsAhead, WallClock, Seed

LEMMA InitInv == Init => IInv
  BY DEF Init, Seed, WallClock, IInv, CounterIsAhead, NoncesAreSeals

(* What a request does to the nonces: nothing, or it takes the next one.   *)
NextNonce ==
    /\ counter' = counter + 1
    /\ \E a : /\ a.start = restarts /\ a.clock = began /\ a.what.nonce = counter + 1
              /\ seals' = seals \cup {a}

LEMMA StoresTakesTheNext ==
    ASSUME NEW b, NEW n, NEW ver, NEW val, NEW size, Stores(b, n, ver, val, size)
    PROVE  NextNonce
  <1>1. PICK e : e = [id |-> b.id, ver |-> ver, val |-> val, size |-> size, kek |-> kek,
                      nonce |-> counter + 1]
    OBVIOUS
  <1>2. PICK a : a = [start |-> restarts, clock |-> began, what |-> e]
    OBVIOUS
  <1>3. counter' = counter + 1 /\ seals' = seals \cup {a}
    BY <1>1, <1>2 DEF Stores
  <1>4. a.start = restarts /\ a.clock = began /\ a.what.nonce = counter + 1
    BY <1>1, <1>2
  <1> QED BY <1>3, <1>4 DEF NextNonce

LEMMA SaysTakesNone ==
    ASSUME NEW b, NEW status, NEW val, Says(b, status, val)
    PROVE  UNCHANGED <<counter, seals>>
  BY DEF Says, store

LEMMA RequestNonces ==
    ASSUME TakeRequest PROVE UNCHANGED <<counter, seals>> \/ NextNonce
  <1>1. PICK b \in scn.bodies :
          \/ HandlePut(b) \/ HandleGet(b) \/ HandleRotate(b) \/ HandleList(b)
    BY DEF TakeRequest
  <1>2. CASE HandlePut(b)
    <2>1. \/ \E s, v : Says(b, s, v)
          \/ \E n, ver, val, size : Stores(b, n, ver, val, size)
      BY <1>2 DEF HandlePut
    <2> QED BY <2>1, SaysTakesNone, StoresTakesTheNext
  <1>3. CASE HandleGet(b)
    BY <1>3, SaysTakesNone DEF HandleGet
  <1>4. CASE HandleRotate(b)
    <2>1. \/ \E s, v : Says(b, s, v)
          \/ \E n, ver, val, size : Stores(b, n, ver, val, size)
      BY <1>4 DEF HandleRotate
    <2> QED BY <2>1, SaysTakesNone, StoresTakesTheNext
  <1>5. CASE HandleList(b)
    BY <1>5, SaysTakesNone DEF HandleList
  <1> QED BY <1>1, <1>2, <1>3, <1>4, <1>5

LEMMA NextInv == IInv /\ [Next]_vars => IInv'
  <1> SUFFICES ASSUME IInv, [Next]_vars PROVE IInv'
    OBVIOUS
  <1> USE DEF IInv, CounterIsAhead, NoncesAreSeals
  <1>1. CASE Load
    BY <1>1 DEF Load
  <1>2. CASE StepPersist
    BY <1>2 DEF StepPersist, store
  <1>3. CASE ReadReply
    BY <1>3 DEF ReadReply, store, bounds
  <1>4. CASE TakeKek
    BY <1>4 DEF TakeKek
  <1>5. CASE TakeRequest
    <2>1. now' = now + scn.pace /\ UNCHANGED <<scn, restarts, began>>
      BY <1>5 DEF TakeRequest
    <2>2. PICK p \in Nat : p = scn.pace
      BY PaceIsTime
    <2>3. now' \in Nat
      BY <2>1, <2>2
    <2>4. CASE UNCHANGED <<counter, seals>>
      BY <2>1, <2>3, <2>4
    <2>5. CASE NextNonce
      <3>1. PICK a : /\ a.start = restarts /\ a.clock = began /\ a.what.nonce = counter + 1
                     /\ seals' = seals \cup {a}
        BY <2>5 DEF NextNonce
      <3>2. counter' = counter + 1
        BY <2>5 DEF NextNonce
      <3>3. \A b \in seals : b.start = a.start => b.what.nonce # a.what.nonce
        BY <3>1
      <3>4. CounterIsAhead'
        BY <2>1, <2>3, <3>1, <3>2
      <3>5. NoncesAreSeals'
        BY <3>1, <3>3
      <3> QED BY <3>4, <3>5
    <2> QED BY <1>5, <2>4, <2>5, RequestNonces
  <1>6. CASE Restart
    <2>1. PICK w \in Nat : w = WallClock
      BY ClockIsNat
    <2>2. /\ counter' = w /\ began' = w /\ restarts' = restarts + 1
          /\ UNCHANGED <<scn, now, seals>>
      BY <1>6, <2>1, ClockIsNat DEF Restart
    <2>3. \A a \in seals : a.start # restarts'
      BY <2>2
    <2> QED BY <2>2, <2>3
  <1>7. CASE UNCHANGED vars
    BY <1>7 DEF vars, store, bounds
  <1> QED BY <1>1, <1>2, <1>3, <1>4, <1>5, <1>6, <1>7 DEF Next, Progress

(* What the seeding of the counter gives (module_new, next_nonce):         *)
(* whatever the wall clock reads, however many seals share a millisecond,  *)
(* and whatever the file, the provider and the restarts do, a nonce is     *)
(* used twice under one key only across a restart that read the clock      *)
(* below a nonce that had been used.                                       *)
THEOREM NoncesRepeatOnlyWithTheClock == Spec => []ReuseIsOfTheClock
  <1>1. Init => IInv
    BY InitInv
  <1>2. IInv /\ [Next]_vars => IInv'
    BY NextInv
  <1>3. IInv => ReuseIsOfTheClock
    <2> SUFFICES ASSUME IInv, NEW a \in seals, NEW b \in seals, a # b,
                        a.what.nonce = b.what.nonce
                 PROVE  \/ a.start < b.start /\ b.clock < a.what.nonce
                        \/ b.start < a.start /\ a.clock < b.what.nonce
      BY DEF ReuseIsOfTheClock
    <2>1. a.start # b.start /\ a.start \in Nat /\ b.start \in Nat
      BY DEF IInv, CounterIsAhead, NoncesAreSeals
    <2>2. b.clock < a.what.nonce /\ a.clock < b.what.nonce
      BY DEF IInv, CounterIsAhead
    <2> QED BY <2>1, <2>2
  <1> QED BY <1>1, <1>2, <1>3, PTL DEF Spec
=============================================================================
