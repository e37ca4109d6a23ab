---------------------------- MODULE KeyPackages -----------------------------
(***************************************************************************)
(* The key-package endpoint's pools (keypackage_endpoint/mod.rs): each     *)
(* device's packages, of the generation it published last.  A claimer is   *)
(* handed a one-time package and spends it, or, with none left, one of     *)
(* last resort.  What a request comes to is its answer with the pools it   *)
(* leaves.                                                                 *)
(*                                                                         *)
(* A package is named for the exchange that published it.                  *)
(***************************************************************************)
EXTENDS Naturals, Sequences, FiniteSets, FiniteSetsExt

CONSTANTS
    MaxDevices,     \* MAX_DEVICES
    MaxPackages     \* MAX_PACKAGES

VARIABLE pools      \* a pool per device, in the order of their slots

Spent      == [live |-> FALSE]
EmptyPool  == [n \in 1 .. MaxPackages |-> Spent]
Package(x, b) == [live |-> TRUE, of |-> x, gen |-> b.gen, until |-> b.until, once |-> b.once]

PoolsOf(dev) == {n \in DOMAIN pools : pools[n].dev = dev}

(* Mutant: a newer generation is noted, and the older packages stay.       *)
MutPoolFor(dev, gen) ==
    CASE PoolsOf(dev) # {} ->
            LET n == Min(PoolsOf(dev))
            IN IF gen < pools[n].gen THEN <<0, pools>>
               ELSE <<n, [pools EXCEPT ![n].gen = gen]>>
      [] PoolsOf(dev) = {} /\ Len(pools) < MaxDevices ->
            <<Len(pools) + 1, Append(pools, [dev |-> dev, gen |-> gen, packages |-> EmptyPool])>>
      [] OTHER -> <<0, pools>>

(* pool_for: which pool takes a package of this generation, 0 for none,    *)
(* and the pools by then.  A newer generation empties the pool.            *)
PoolFor(dev, gen) ==
    CASE PoolsOf(dev) # {} ->
            LET n == Min(PoolsOf(dev))
            IN IF gen < pools[n].gen THEN <<0, pools>>
               ELSE IF gen = pools[n].gen THEN <<n, pools>>
               ELSE <<n, [pools EXCEPT ![n] = [dev |-> dev, gen |-> gen, packages |-> EmptyPool]]>>
      [] PoolsOf(dev) = {} /\ Len(pools) < MaxDevices ->
            <<Len(pools) + 1, Append(pools, [dev |-> dev, gen |-> gen, packages |-> EmptyPool])>>
      [] OTHER -> <<0, pools>>

(* publish: b.names is the device the body names, if it names one.  A pool *)
(* that was rotated for a package keeps the rotation.                      *)
Publish(x, b) ==
    IF b.names \notin {"none", b.dev} \/ b.wrong = "malformed"
      THEN [says |-> [status |-> "malformed"], pools |-> pools]
      ELSE LET at   == PoolFor(b.dev, b.gen)[1]
               then == PoolFor(b.dev, b.gen)[2]
               free == IF at = 0 THEN {} ELSE {n \in 1 .. MaxPackages : ~then[at].packages[n].live}
           IN CASE at = 0   -> [says |-> [status |-> "unavailable"], pools |-> pools]
                [] at # 0 /\ free = {} -> [says |-> [status |-> "pool_full"], pools |-> then]
                [] OTHER    -> [says  |-> [status |-> "published"],
                                pools |-> [then EXCEPT ![at].packages[Min(free)] = Package(x, b)]]

(* claim: a one-time package is spent before it is handed out.             *)
Spend(at, n) ==
    IF pools[at].packages[n].once THEN [pools EXCEPT ![at].packages[n] = Spent] ELSE pools

(* claim, at the time now: one-time packages first.                        *)
ClaimPackage(b, now) ==
    LET at     == IF PoolsOf(b.names) = {} THEN 0 ELSE Min(PoolsOf(b.names))
        live   == IF at = 0 THEN {}
                  ELSE {n \in 1 .. MaxPackages :
                          pools[at].packages[n].live /\ now < pools[at].packages[n].until}
        once   == {n \in live : pools[at].packages[n].once}
        chosen == IF once # {} THEN Min(once) ELSE Min(live)
    IN CASE b.names = "none" -> [says |-> [status |-> "malformed"], pools |-> pools]
         [] b.names # "none" /\ live = {} -> [says |-> [status |-> "no_packages"], pools |-> pools]
         [] OTHER -> [says  |-> [status |-> "claimed", package |-> pools[at].packages[chosen]],
                      pools |-> Spend(at, chosen)]
=============================================================================
