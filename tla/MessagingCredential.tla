------------------------- MODULE MessagingCredential ------------------------
(***************************************************************************)
(* The messaging-credential endpoint (e2ee_credential_endpoint/mod.rs): a  *)
(* device's key is looked up in the directory, and what the device proved  *)
(* it holds is signed.  A request waits for the directory in one of        *)
(* MaxInFlight slots, found again by the lookup's correlation.             *)
(*                                                                         *)
(* A key the vault holds is named for the record that named it.  Device    *)
(* keys stand for their thumbprints; a proof holds for the key b.proves.   *)
(***************************************************************************)
EXTENDS Naturals, Sequences, FiniteSets

CONSTANTS
    MaxInFlight,        \* MAX_IN_FLIGHT
    DirectoryCapacity   \* lookups on the edge to the ledger

VARIABLES
    signing,    \* the key the vault opened, 0 for none
    kid,        \* the key named in what is signed
    keyHeld,    \* a record whose key could not be opened yet, 0 for none
    keys,       \* records not read yet
    pending,    \* requests waiting for the directory
    nextCorr,   \* correlations used so far, plus one
    lookups,    \* on the edge to the ledger
    found       \* the ledger's answers, not read yet

keyVars == <<signing, kid, keyHeld, keys>>
lookup  == <<pending, nextCorr, lookups, found>>

(* take_key_record: the key held is closed; the one named opens, cannot    *)
(* yet, or will not.                                                       *)
OpenKey(k) ==
    \/ signing' = k /\ kid' = k /\ keyHeld' = 0
    \/ signing' = 0 /\ keyHeld' \in {0, k} /\ UNCHANGED kid

(* drain_key: a record held back is handled before any newer one.          *)
TakeKeyRecord ==
    \/ keyHeld # 0 /\ OpenKey(keyHeld) /\ UNCHANGED keys
    \/ keyHeld = 0 /\ keys # <<>> /\ OpenKey(Head(keys)) /\ keys' = Tail(keys)

(* handle_request and accept, from the key on: whether the request waits   *)
(* for the directory, or what refuses it.                                  *)
Accept(b) ==
    CASE signing = 0 -> "no_key"
      [] signing # 0 /\ b.wrong = "malformed" -> "malformed"
      [] OTHER -> IF Len(lookups) = DirectoryCapacity \/ Cardinality(pending) = MaxInFlight
                  THEN "busy" ELSE "waits"

(* The slot is taken once the lookup is away.                              *)
Wait(x, b) ==
    /\ pending' = pending \cup {[corr |-> nextCorr, x |-> x, ask |-> b]}
    /\ lookups' = Append(lookups, [corr |-> nextCorr, dev |-> b.names])
    /\ nextCorr' = nextCorr + 1
    /\ UNCHANGED found

(* Mutant: an answer goes to whichever request waited longest.             *)
MutWaiting(corr) == {p \in pending : \A q \in pending : p.corr <= q.corr}

(* take_pending.                                                           *)
Waiting(corr) == {p \in pending : p.corr = corr}

(* issue, sign_jws: only for the key the directory holds, which the proof  *)
(* must hold for; a key that was closed meanwhile does not sign.           *)
Issue(b, r) ==
    CASE r.status # "ok"                                  -> [status |-> "unknown_device"]
      [] r.status = "ok" /\ (b.jwk # r.jkt \/ b.proves # b.jwk) -> [status |-> "bad_possession"]
      [] OTHER -> IF signing = 0 THEN [status |-> "malformed"]
                  ELSE [status |-> "issued", sub |-> b.names, jwk |-> b.jwk, tid |-> r.tid,
                        kid |-> kid, by |-> signing]
=============================================================================
