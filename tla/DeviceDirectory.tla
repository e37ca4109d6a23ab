-------------------------- MODULE DeviceDirectory ---------------------------
(***************************************************************************)
(* The device directory: what Enrolment keeps in the ledger, and the       *)
(* revocations wellknown_endpoint/mod.rs makes of it.  A revocation reads  *)
(* the device's record, swaps in one that says so, and publishes the       *)
(* identifier in a document whose bits are kept in memory.                 *)
(***************************************************************************)
EXTENDS Enrolment

CONSTANT MaxRevoking    \* MAX_REVOKING; a scenario bounds revocations, too

VARIABLES
    revoking,   \* the revocations that wait on the ledger
    rwire, rmail,
    published,  \* the identifiers whose bits are set
    orders,     \* what operators asked to be revoked, in order
    reboots     \* restarts of the publishing process

book == <<revoking, rwire, rmail, published, orders, reboots>>
vars == <<frame, desk, book>>

Revokers == 1 .. MaxRevoking
Idle     == {k \in Revokers : revoking[k].stage = "free"}

(* The record that marks it revoked: its status spliced in ahead of its    *)
(* first member, or, where a whole record leaves no room for that, a       *)
(* minimal one.                                                            *)
Revoked(r) ==
    IF r.whole THEN [r EXCEPT !.whole = FALSE, !.sub = Nothing, !.revoked = TRUE,
                              !.secret = 0, !.confirmed = FALSE, !.counter = 0, !.rev = @ + 1]
               ELSE [r EXCEPT !.revoked = TRUE, !.rev = @ + 1]

Publish(d) == published' = published \cup {d}

Kept == <<scn, lane, slots, next, answers, restarts, desk, reboots>>

(* A frame that does not leave.                                            *)
Unsent == faults < scn.faults /\ faults' = faults + 1

AsksForRecord(d, n) ==
    \E k \in Idle :
        /\ \A j \in Idle : k <= j
        /\ revoking' = [revoking EXCEPT ![k] = [stage |-> "get", n |-> n, dev |-> d]]
        /\ rwire' = rwire \cup {[corr |-> <<n, "get">>, q |-> Get(DeviceKey(d))]}

(* Mutant: a revocation that finds no slot is dropped.                     *)
MutRecordRevocation(d) ==
    /\ Len(orders) < scn.revokes /\ orders' = Append(orders, d)
    /\ \/ Idle = {} /\ UNCHANGED <<revoking, rwire, published, faults>>
       \/ Idle # {} /\ Unsent /\ Publish(d) /\ UNCHANGED <<revoking, rwire>>
       \/ AsksForRecord(d, Len(orders) + 1) /\ UNCHANGED <<published, faults>>
    /\ UNCHANGED <<Kept, rmail>>

(* record_revocation: the document is published at once when no slot is    *)
(* left to wait in, or the frame does not leave.                           *)
RecordRevocation(d) ==
    /\ Len(orders) < scn.revokes /\ orders' = Append(orders, d)
    /\ \/ Idle = {} /\ Publish(d) /\ UNCHANGED <<revoking, rwire, faults>>
       \/ Idle # {} /\ Unsent /\ Publish(d) /\ UNCHANGED <<revoking, rwire>>
       \/ AsksForRecord(d, Len(orders) + 1) /\ UNCHANGED <<published, faults>>
    /\ UNCHANGED <<Kept, rmail>>

(* drain_revocation_state: the record read is swapped; anything else the   *)
(* ledger says, and a swap that does not leave, ends in the document.      *)
OnRevocationState(m, k) ==
    LET r == revoking[k] IN
    /\ m \in rmail /\ rmail' = rmail \ {m}
    /\ r.stage # "free" /\ m.corr = <<r.n, r.stage>>
    /\ \/ /\ r.stage = "get" /\ m.status = "ok"
          /\ revoking' = [revoking EXCEPT ![k].stage = "swap"]
          /\ rwire' = rwire \cup {[corr |-> <<r.n, "swap">>,
                                   q |-> CompareAndSwap(DeviceKey(r.dev), m.val, Revoked(m.val))]}
          /\ UNCHANGED <<published, faults>>
       \/ /\ IF r.stage = "swap" \/ m.status # "ok" THEN UNCHANGED faults ELSE Unsent
          /\ revoking' = [revoking EXCEPT ![k] = Free] /\ Publish(r.dev)
          /\ UNCHANGED rwire
    /\ UNCHANGED <<Kept, orders>>

IgnoreRevocationState(m) ==
    /\ m \in rmail /\ rmail' = rmail \ {m}
    /\ ~\E k \in Revokers : revoking[k].stage # "free" /\ m.corr = <<revoking[k].n, revoking[k].stage>>
    /\ UNCHANGED <<frame, desk, revoking, rwire, published, orders, reboots>>

(* The ledger decides a revocation's request, or fails it.                 *)
SettleRevocation(w, out) ==
    /\ led' = out.led /\ rwire' = rwire \ {w}
    /\ rmail' = rmail \cup {[corr |-> w.corr, status |-> out.status, val |-> out.val]}
    /\ UNCHANGED <<scn, wire, mail, slots, next, answers, restarts, desk, revoking, published,
                   orders, reboots>>

DecideRevocation(w) ==
    /\ w \in rwire /\ \E out \in Decided(led, w.q) : SettleRevocation(w, out)
    /\ UNCHANGED faults

FailRevocation(w) ==
    /\ w \in rwire /\ faults < scn.faults /\ faults' = faults + 1
    /\ \E out \in Failed(led, w.q) : SettleRevocation(w, out)

(* The publishing process restarts with an empty document.                 *)
Reboot ==
    /\ reboots < scn.restarts /\ reboots' = reboots + 1
    /\ revoking' = [k \in Revokers |-> Free] /\ rmail' = {} /\ published' = {}
    /\ UNCHANGED <<frame, desk, rwire, orders>>
-----------------------------------------------------------------------------
Init ==
    /\ EnInit
    /\ revoking = [k \in Revokers |-> Free] /\ rwire = {} /\ rmail = {}
    /\ published = {} /\ orders = <<>> /\ reboots = 0

Steps ==
    \/ EnSteps /\ UNCHANGED book
    \/ \E m \in rmail : IgnoreRevocationState(m) \/ \E k \in Revokers : OnRevocationState(m, k)
    \/ \E w \in rwire : DecideRevocation(w)

Next ==
    \/ EnNext /\ UNCHANGED book
    \/ \E d \in Devices : RecordRevocation(d)
    \/ \E m \in rmail : IgnoreRevocationState(m) \/ \E k \in Revokers : OnRevocationState(m, k)
    \/ \E w \in rwire : DecideRevocation(w) \/ FailRevocation(w)
    \/ Reboot

Spec == Init /\ [][Next]_vars

(* Both modules step and the ledger answers; every such step uses up a     *)
(* request, an answer or a call.                                           *)
FairSpec == Spec /\ WF_vars(Steps)
-----------------------------------------------------------------------------
(***************************************************************************)
(* Properties.                                                             *)
(***************************************************************************)
Certificates == {a \in Answered : a.req.op = "redeem" /\ a.status = "ok"}

(* A certificate was earned, once: its holder presented the code of the    *)
(* very transaction its token names, after the mailbox was sent it or an   *)
(* operator was shown it; a mailed code certifies the device and the       *)
(* mailbox /start was asked for, no other; and two redemptions of one      *)
(* transaction, at once or one after the other, adopted by one device or   *)
(* by two, do not both end in a certificate.                               *)
CertificateIsEarned ==
    /\ \A a \in Certificates :
          LET c == a.body IN
          /\ c.code = c.nonce /\ c.code \in ShownCodes
          /\ c.nonce[1] = "mail" =>
                \E t \in Tokens : t.nonce = c.nonce /\ t.dev = c.dev /\ t.who = c.who
          /\ c.nonce[1] = "op" => c.who = Nothing
    /\ \A a, b \in Certificates : a.body.nonce = b.body.nonce => a.id = b.id

(* Ends are final.  A transaction that was consumed or burned is never     *)
(* pending again, and its count of wrong codes never falls while it is     *)
(* pending: not by a count sent before the swap that spent it and decided  *)
(* after.  And no authenticator write made from an older reading, and no   *)
(* enrolment of the same key again, brings a revoked record back.          *)
EndsAreFinal ==
    [][/\ \A n \in Nonces :
             LET t == led[TxnKey(n)]  u == led'[TxnKey(n)] IN
             t # Nothing => /\ t.state # "pending" => u = t
                            /\ u.state = "pending" => u.attempts >= t.attempts
       /\ \A d \in Devices : led[DeviceKey(d)].kind = "device" /\ led[DeviceKey(d)].revoked
             => led'[DeviceKey(d)].kind = "device" /\ led'[DeviceKey(d)].revoked]_vars

(* What anyone is told is on record, whatever the ledger did with the      *)
(* swaps and writes it failed.  Every code on its way to a mailbox has its *)
(* transaction ("Submitting before the record existed would send somebody  *)
(* a code that opens nothing", start_done); whoever is answered a          *)
(* certificate is a device the ledger has heard of (redeem); and whoever   *)
(* is told a TOTP secret, or that it is confirmed, has it until the device *)
(* is revoked: of two registrations at once one is told.                   *)
WhatIsToldIsHeld ==
    /\ \A n \in inbox \cup {mailq[i] : i \in DOMAIN mailq} : led[TxnKey(n)] # Nothing
    /\ \A a \in Certificates : led[DeviceKey(a.body.dev)] # Nothing
    /\ \A a \in Answered : a.status = "ok" =>
          LET r == led[DeviceKey(a.req.dev)] IN
          /\ a.req.op = "register" => r.revoked \/ r.secret = a.body.secret
          /\ a.req.op = "confirm"  => r.revoked \/ (r.secret # 0 /\ r.confirmed)

(* "A revocation the operator asked for is not dropped"                    *)
(* (drain_revocation_state): whatever the ledger says, and with every slot *)
(* taken, the document comes to list it, unless its process restarts.      *)
RevocationIsPublished ==
    []<>(reboots > 0 \/ \A n \in DOMAIN orders : orders[n] \in published)

(* "How long an enrolment authorisation may live, at most" (auth_wire.rs): *)
(* no device is certified by an operator's code asked for after its time.  *)
OperatorCodeExpires ==
    \A a \in Certificates : \A t \in told : a.body.nonce = t.nonce => a.body.at < t.exp
=============================================================================
