------------------------------ MODULE StateWire ------------------------------
(***************************************************************************)
(* What the durable identity ledger's wire fixes for every backend         *)
(* (modules/common/state_wire.rs, modules/common/lattice_kv.rs): the       *)
(* namespaces, the statuses, the durability a write must reach and the     *)
(* view a read must be served from before either is answered, and how a    *)
(* provider's answer becomes a status.                                     *)
(***************************************************************************)
EXTENDS Naturals

(* The fifteen namespaces.  A namespace a build does not know has no key   *)
(* prefix and is refused; "unknown" stands for all of those.               *)
Namespaces ==
    {"enrol_txn", "device", "rate", "keypkg", "e2ee_state", "replay",
     "oauth_code", "oauth_client", "sk_grant", "sk_set", "sk_ticket",
     "sk_audit", "sk_attachment", "transfer_grant", "attachment"}

NamespacePrefix(ns) == ns \in Namespaces

Statuses == {"ok", "not_found", "malformed", "full", "conflict",
             "unavailable", "retained"}

(***************************************************************************)
(* Fences: the guarantee a provider says a commit or a read achieved.      *)
(***************************************************************************)
Fences == {"volatile", "view_consistent", "local_durable",
           "replicated_durable"}

Strength(f) ==
    CASE f = "view_consistent"    -> 1
      [] f = "local_durable"      -> 2
      [] f = "replicated_durable" -> 3
      [] OTHER                    -> 0

AtLeast(achieved, floor) == Strength(achieved) >= Strength(floor)

RequiresLinearized(ns) == ns \in Namespaces \ {"rate", "sk_audit"}

MinFence(ns) ==
    CASE ns = "replay" -> "view_consistent"
      [] ns = "rate"   -> "volatile"
      [] OTHER         -> "local_durable"

MinFenceReplicated(ns) ==
    CASE ns = "replay"       -> "view_consistent"
      [] ns = "rate"         -> "volatile"
      [] ns \in Namespaces \ {"replay", "rate"} -> "replicated_durable"
      [] OTHER               -> "local_durable"

MinReadFence(ns) ==
    IF RequiresLinearized(ns) THEN "view_consistent" ELSE "volatile"

ReadFenceSatisfies(ns, achieved) == AtLeast(achieved, MinReadFence(ns))

FenceSatisfies(ns, achieved, replicated) ==
    AtLeast(achieved, IF replicated THEN MinFenceReplicated(ns)
                                    ELSE MinFence(ns))

(* The namespaces whose acknowledged writes must outlive a restart.        *)
DurableNamespaces == Namespaces \ {"replay", "rate"}

(***************************************************************************)
(* The status a write the storage.object provider decided is answered      *)
(* with.  "committed" is the code's None: the fence decides next.          *)
(***************************************************************************)
WriteCodes == {"done", "EEXIST", "EAGAIN", "ERETAINED", "ENXIO", "EIO"}

(* Mutant: a store that failed is reported as a lost race.                 *)
MutDecidedWrite(rc, isDelete) ==
    CASE rc \in {"EEXIST", "EAGAIN", "EIO"} -> "conflict"
      [] rc = "ERETAINED"                -> "retained"
      [] rc = "ENXIO"                    -> "not_found"
      [] rc = "done" /\ isDelete         -> "ok"
      [] OTHER                           -> "committed"

DecidedWrite(rc, isDelete) ==
    CASE rc \in {"EEXIST", "EAGAIN"}     -> "conflict"
      [] rc = "ERETAINED"                -> "retained"
      [] rc = "ENXIO" /\ isDelete        -> "not_found"
      [] rc = "ENXIO" /\ ~isDelete       -> "unavailable"
      [] rc = "EIO"                      -> "unavailable"
      [] rc = "done" /\ isDelete         -> "ok"
      [] OTHER                           -> "committed"

(***************************************************************************)
(* The lattice lane: result codes to statuses, durability classes to       *)
(* fences.                                                                 *)
(***************************************************************************)
(* Mutant: an unrecognised result is passed on as it is.                  *)
MutToStatusRaw(result) ==
    CASE result = "OK"                     -> "ok"
      [] result = "NOT_FOUND"              -> "not_found"
      [] result \in {"EXISTS", "CAS_FAILED"} -> "conflict"
      [] OTHER                             -> result

ToStatus(result) ==
    CASE result = "OK"                     -> "ok"
      [] result = "NOT_FOUND"              -> "not_found"
      [] result \in {"EXISTS", "CAS_FAILED"} -> "conflict"
      [] OTHER                             -> "unavailable"

DurabilityClasses == {"NONE", "VOLATILE", "REPLICATED_VOLATILE",
                      "REPLICATED_DURABLE"}

ToFence(durability) ==
    CASE durability = "REPLICATED_DURABLE"  -> "replicated_durable"
      [] durability = "REPLICATED_VOLATILE" -> "local_durable"
      [] OTHER                              -> "volatile"

(* What a replay claim's reply means: anything but a definite answer is    *)
(* not "probably fine".                                                    *)
ReplayClaimResult(status) ==
    CASE status = "ok"       -> "fresh"
      [] status = "conflict" -> "replayed"
      [] OTHER               -> "unavailable"
=============================================================================
