----------------------------- MODULE Enrolment ------------------------------
(***************************************************************************)
(* Device enrolment (enrollment_endpoint/mod.rs).  /start records a        *)
(* transaction in the ledger, mails its code and answers a signed          *)
(* challenge token; an operator may have a transaction recorded instead,   *)
(* whose nonce a device adopts.  /redeem checks token and code, consumes   *)
(* the transaction, records the device and only then releases its          *)
(* certificate.  A certified device attaches a TOTP authenticator to its   *)
(* record and confirms it.                                                 *)
(*                                                                         *)
(* The signing key is a label: 0 while the vault has none open.  A code is *)
(* the nonce it was drawn for.  What a request's framing, PKCE verifier    *)
(* and signatures come to is its field wrong.  One tick is a TOTP step;    *)
(* certificates and proofs do not go stale within a behaviour.             *)
(***************************************************************************)
EXTENDS Endpoint

CONSTANTS
    Devices, Mailboxes,
    MaxAttempts,    \* MAX_CODE_ATTEMPTS
    ChallengeTtl,   \* CHALLENGE_TTL_SECS, in ticks
    AuthTtl,        \* MAX_ENROL_AUTH_TTL_SECS, in ticks
    WindowSize,     \* proofs the in-process replay window remembers
    FirstTick       \* the clock at the start

(***************************************************************************)
(* A scenario: the requests callers present, each as often as they like,   *)
(* and how many; the requests already answered: a /start whose code was    *)
(* mailed, a /redeem, an operator's; and bounds on faults, restarts, key   *)
(* rotations and ticks.                                                    *)
(***************************************************************************)
ASSUME EnBounds ==
    /\ MaxAttempts \in Nat \ {0} /\ WindowSize \in Nat
    /\ AuthTtl \in Nat \ {0} /\ ChallengeTtl \in Nat \ {0} /\ AuthTtl <= ChallengeTtl
    /\ FirstTick \in Nat \ {0}

VARIABLES
    key,        \* the label of the key that is open, 0 for none
    offered,    \* the label the newest key record names
    clock,
    window,     \* replay: the proofs this process remembers
    mailq,      \* out_mail: submissions placed or held
    inbox,      \* nonces whose code a mailbox was sent
    told        \* what operators were answered, as [nonce, exp]

mailing == <<mailq, inbox>>
desk    == <<key, offered, clock, window, mailing, told>>

MailNonce(i) == <<"mail", i>>
OpNonce(i)   == <<"op", i>>
Nonces       == {MailNonce(i) : i \in {0} \cup Ids} \cup {OpNonce(i) : i \in {0} \cup Ids}
TxnKey(n)    == <<"txn", n>>
DeviceKey(d) == <<"device", d>>
Keys         == {TxnKey(n) : n \in Nonces} \cup {DeviceKey(d) : d \in Devices}

(* code_hash: a code opens the transaction it was drawn for, under the key *)
(* it was hashed with.                                                     *)
CodeHash(n, code) == <<key, n, code>>

Txn(hash, attempts, state, exp) ==
    [kind |-> "txn", hash |-> hash, attempts |-> attempts, state |-> state, exp |-> exp]
Consumed == Txn(<<>>, 0, "consumed", 0)

Token(n, b, who) ==
    [nonce |-> n, dev |-> b.dev, who |-> who, exp |-> clock + ChallengeTtl, key |-> key]

(* nonce, code and at are ghosts: what it was asked for with, and when.    *)
Certificate(b, t, code) ==
    [dev |-> b.dev, who |-> t.who, key |-> key, nonce |-> t.nonce, code |-> code, at |-> clock]

(***************************************************************************)
(* The device's record.  A whole one, with what enrolment established, is  *)
(* longer than the 256 bytes drain_state keeps of a reply: its sub is cut  *)
(* off, and so are the confirmation and the counter that                   *)
(* write_device_record puts last.  rev stands for the ledger's revision.   *)
(***************************************************************************)
Enrolled(cert) ==
    [kind |-> "device", whole |-> TRUE, sub |-> cert.who, revoked |-> FALSE,
     secret |-> 0, confirmed |-> FALSE, counter |-> 0, rev |-> 0]

Held(r) == IF r.whole THEN [r EXCEPT !.sub = Nothing, !.confirmed = FALSE, !.counter = 0]
                      ELSE r

(* write_device_record: what was seen of the record, with the three        *)
(* authenticator members.                                                  *)
WriteDeviceRecord(held, secret, confirmed, counter) ==
    [held EXCEPT !.secret = secret, !.confirmed = confirmed, !.counter = counter,
                 !.rev = @ + 1]

(***************************************************************************)
(* Requests.                                                               *)
(***************************************************************************)
NewEntry(b, x) == [stage |-> "new", id |-> next, req |-> b, x |-> x, doc |-> Nothing]

(* dispatch writes the request before it looks for a slot: with none free  *)
(* it is with the ledger all the same, and the caller is refused.          *)
Dispatch(e, stage, q) ==
    IF Live = Slots
      THEN {[Refuses(e, "unavailable") EXCEPT !.asks = {Request(e, stage, q)}],
            [Refuses(e, "unavailable") EXCEPT !.fault = 1]}
      ELSE Asks(e, stage, q)

(* start, begin_start.                                                     *)
Start(e) ==
    LET n   == MailNonce(e.id)
        tok == Token(n, e.req, e.req.who)
    IN Dispatch([e EXCEPT !.doc = tok], "start",
                PutIfAbsent(TxnKey(n), Txn(CodeHash(n, n), 0, "pending", tok.exp)))

(* Adoption: only a nonce of the operators' length, and nothing recorded.  *)
Adopt(e) ==
    IF e.x[1] # "op" THEN {Refuses(e, "malformed")}
                     ELSE {Says(e, "ok", Token(e.x, e.req, Nothing))}

(* Why redeem refuses the token: not signed by the key that is open, past  *)
(* its time, or another device's.                                          *)
RedeemRefusal(e) ==
    CASE e.x.tok.key # key \/ clock >= e.x.tok.exp -> "bad_challenge"
      [] e.x.tok.key = key /\ clock < e.x.tok.exp /\ e.x.tok.dev # e.req.dev -> "bad_possession"
      [] OTHER -> "none"

(* The certificate is signed now, and released by CommitDone.              *)
Redeem(e) ==
    IF RedeemRefusal(e) # "none" THEN {Refuses(e, RedeemRefusal(e))}
    ELSE Dispatch([e EXCEPT !.doc = Certificate(e.req, e.x.tok, e.x.code)],
                  "lookup", Get(TxnKey(e.x.tok.nonce)))

(* authenticate_device: the certificate verifies under the key that is     *)
(* open now, and the proof is one the window can record.                   *)
Certified(e) == key # 0 /\ e.x.cert.key = key /\ e.x.cert.dev = e.req.dev
Offered(p)   == p \notin window /\ Cardinality(window) < WindowSize

(* totp_route, begin_totp_register, begin_totp_confirm, stage_device_read. *)
TotpRoute(e) ==
    IF Certified(e) /\ Offered(e.req.proof)
      THEN Dispatch([e EXCEPT !.doc = [secret |-> e.id]], "totp_read", Get(DeviceKey(e.req.dev)))
      ELSE {Refuses(e, "unauthenticated")}

Route(e) ==
    LET b == e.req IN
    CASE b.wrong # "none"                                        -> {Refuses(e, b.wrong)}
      [] b.wrong = "none" /\ b.op \in {"register", "confirm"}      -> TotpRoute(e)
      [] b.wrong = "none" /\ b.op \in {"start", "adopt", "redeem"} /\ key = 0
                                                                 -> {Refuses(e, "no_key")}
      [] b.wrong = "none" /\ b.op = "start" /\ key # 0             -> Start(e)
      [] b.wrong = "none" /\ b.op = "adopt" /\ key # 0             -> Adopt(e)
      [] OTHER                                                   -> Redeem(e)

(* What callers can present: tokens, certificates and secrets they were    *)
(* answered, codes they were sent or shown, and nonces of either kind.     *)
Fruits(op) == {a.body : a \in {y \in answers : y.req.op \in op /\ y.status = "ok"}}
Tokens     == Fruits({"start", "adopt"})
NoCode     == <<"none", 0>>
ShownCodes == inbox \cup {t.nonce : t \in told}
OtpCodes   == {[secret |-> s, counter |-> c] : s \in {f.secret : f \in Fruits({"register"})} \cup {0},
                                               c \in {clock - 1, clock}}

Presents(b) ==
    CASE b.op = "start"    -> {Nothing}
      [] b.op = "adopt"    -> {t.nonce : t \in told} \cup {t.nonce : t \in Tokens}
      [] b.op = "redeem"   -> [tok : Tokens, code : ShownCodes \cup {NoCode}]
      [] b.op = "register" -> [cert : Fruits({"redeem"})]
      [] b.op = "confirm"  -> [cert : Fruits({"redeem"}), otp : OtpCodes]
      [] b.op = "auth"     -> {}

(* handle_request, once what was owed has gone.                            *)
TakeRequest(b, x) ==
    LET e == NewEntry(b, x) IN
    /\ b.op # "auth" /\ next <= scn.reqs /\ next' = next + 1 /\ Clears(outq)
    /\ \E o \in Route(e) : PerformNew(o)
    /\ window' = window \cup (IF b.op \in {"register", "confirm"} /\ b.wrong = "none"
                                 /\ Certified(e) /\ Offered(b.proof)
                                THEN {b.proof} ELSE {})
    /\ UNCHANGED <<scn, led, mail, answers, restarts, key, offered, clock, mailing, told>>

(* mint_authorisation, for an operator; refusals go unrecorded.            *)
TakeAuth(b) ==
    LET n == OpNonce(next)
        e == [NewEntry(b, Nothing) EXCEPT !.doc = [nonce |-> n, exp |-> clock + AuthTtl]]
    IN
    /\ b.op = "auth" /\ next <= scn.reqs /\ next' = next + 1
    /\ \/ /\ key # 0
          /\ \E o \in Dispatch(e, "auth", PutIfAbsent(TxnKey(n),
                          Txn(CodeHash(n, n), 0, "pending", clock + AuthTtl))) :
                PerformNew([o EXCEPT !.says = <<>>])
       \/ key = 0 /\ UNCHANGED <<slots, wire, faults>>
    /\ UNCHANGED <<scn, led, mail, answers, restarts, desk>>

(***************************************************************************)
(* Ledger answers: drain_state reads them whatever answer is held.         *)
(***************************************************************************)
StartDone(e, m) ==
    IF m.status # "ok" THEN {Refuses(e, "unavailable")} ELSE {Says(e, "ok", e.doc)}

(* submit_mail: a mail still held is not written over; this one is lost.   *)
Mailed(e, m) ==
    IF m.status = "ok" /\ Clears(mailq) THEN Append(mailq, e.doc.nonce) ELSE mailq

(* burn_or_count: the swap is sent without waiting for it, and writes a    *)
(* record that no longer expires.                                          *)
BurnOrCount(e, txn) ==
    LET n == txn.attempts + 1
        new == IF n >= MaxAttempts THEN Txn(<<>>, n, "burned", 0)
                                   ELSE Txn(txn.hash, n, "pending", 0)
    IN {[Refuses(e, "code") EXCEPT
            !.asks = {Request(e, "count", CompareAndSwap(TxnKey(e.x.tok.nonce), txn, new))}],
        [Refuses(e, "code") EXCEPT !.fault = 1]}

Consume(e, txn) ==
    Asks(e, "consume", CompareAndSwap(TxnKey(e.x.tok.nonce), txn, Consumed))

(* Mutant: a transaction that is spent is looked at like any other.        *)
MutLookupDone(e, m) ==
    CASE m.status = "not_found"               -> {Refuses(e, "code")}
      [] m.status \notin {"ok", "not_found"}  -> {Refuses(e, "unavailable")}
      [] m.status = "ok" /\ m.val.hash # CodeHash(e.x.tok.nonce, e.x.code) -> BurnOrCount(e, m.val)
      [] OTHER                                -> Consume(e, m.val)

LookupDone(e, m) ==
    CASE m.status = "not_found"                           -> {Refuses(e, "code")}
      [] m.status \notin {"ok", "not_found"}              -> {Refuses(e, "unavailable")}
      [] m.status = "ok" /\ m.val.state # "pending"       -> {Refuses(e, "consumed")}
      [] m.status = "ok" /\ m.val.state = "pending"
         /\ m.val.hash # CodeHash(e.x.tok.nonce, e.x.code) -> BurnOrCount(e, m.val)
      [] OTHER                                            -> Consume(e, m.val)

(* begin_commit.                                                           *)
BeginCommit(e) == Asks(e, "commit", PutIfAbsent(DeviceKey(e.doc.dev), Enrolled(e.doc)))

(* Mutant: a transaction somebody else consumed is as good.                *)
MutConsumeDone(e, m) ==
    CASE m.status \in {"ok", "conflict"} -> BeginCommit(e)
      [] OTHER                           -> {Refuses(e, "unavailable")}

ConsumeDone(e, m) ==
    CASE m.status = "ok"       -> BeginCommit(e)
      [] m.status = "conflict" -> {Refuses(e, "consumed")}
      [] OTHER                 -> {Refuses(e, "unavailable")}

CommitDone(e, m) ==
    IF m.status \in {"ok", "conflict"} THEN {Says(e, "ok", e.doc)}
                                       ELSE {Refuses(e, "unavailable")}

(* verify_presented_code: the presented step, within the skew of the clock *)
(* and above the counter that was seen.                                    *)
Verifies(otp, held) ==
    /\ otp.secret = held.secret
    /\ otp.counter \in {clock - 1, clock, clock + 1} /\ otp.counter > held.counter

(* attach_authenticator, confirm_against.                                  *)
Attach(e, r) ==
    Asks(e, "totp_write", CompareAndSwap(DeviceKey(e.req.dev), r,
                              WriteDeviceRecord(Held(r), e.doc.secret, FALSE, 0)))
ConfirmAgainst(e, r) ==
    CASE r.secret = 0 -> {Refuses(e, "no_authenticator")}
      [] r.secret # 0 /\ ~Verifies(e.x.otp, Held(r)) -> {Refuses(e, "bad_code")}
      [] OTHER -> Asks(e, "totp_write", CompareAndSwap(DeviceKey(e.req.dev), r,
                          WriteDeviceRecord(Held(r), r.secret, TRUE, e.x.otp.counter)))

TotpReadDone(e, m) ==
    CASE m.status = "not_found"                          -> {Refuses(e, "unauthenticated")}
      [] m.status \notin {"ok", "not_found"}             -> {Refuses(e, "unavailable")}
      [] m.status = "ok" /\ e.req.op = "confirm"         -> ConfirmAgainst(e, m.val)
      [] m.status = "ok" /\ e.req.op = "register" /\ m.val.secret = 0 -> Attach(e, m.val)
      [] OTHER                                           -> {Refuses(e, "already_registered")}

(* Mutant: a swap that lost is answered like one that did not.             *)
MutTotpWriteDone(e, m) == {Says(e, "ok", e.doc)}

(* The secret is told once, when the swap is known to be made.             *)
TotpWriteDone(e, m) ==
    IF m.status # "ok" THEN {Refuses(e, "already_registered")} ELSE {Says(e, "ok", e.doc)}

(* complete.                                                               *)
Complete(e, m) ==
    CASE e.stage = "start"      -> StartDone(e, m)
      [] e.stage = "lookup"     -> LookupDone(e, m)
      [] e.stage = "consume"    -> ConsumeDone(e, m)
      [] e.stage = "commit"     -> CommitDone(e, m)
      [] e.stage = "totp_read"  -> TotpReadDone(e, m)
      [] e.stage = "totp_write" -> TotpWriteDone(e, m)

OnLedger(m, k) ==
    /\ At(m, k) /\ Taken(m) /\ pend[k].stage # "auth"
    /\ \E o \in Complete(pend[k], m) : Perform(k, o)
    /\ mailq' = IF pend[k].stage = "start" THEN Mailed(pend[k], m) ELSE mailq
    /\ UNCHANGED <<key, offered, clock, window, inbox, told>>

(* auth_mint_done: the operator is shown nonce and code, on a channel that *)
(* may be full.                                                            *)
AuthMintDone(m, k) ==
    /\ At(m, k) /\ Taken(m) /\ pend[k].stage = "auth"
    /\ pend' = [pend EXCEPT ![k] = Free]
    /\ \/ told' = told \cup (IF m.status = "ok" THEN {pend[k].doc} ELSE {}) /\ UNCHANGED faults
       \/ faults < scn.faults /\ faults' = faults + 1 /\ UNCHANGED told
    /\ UNCHANGED <<wire, outq, key, offered, clock, window, mailing>>

Ignore(m) == IgnoreReply(m) /\ UNCHANGED desk
-----------------------------------------------------------------------------
(***************************************************************************)
(* Keys, mail, the clock, and restarts.                                    *)
(***************************************************************************)
Quiet == UNCHANGED <<frame>>

(* A key record under a new label.                                         *)
OfferKey ==
    /\ offered <= scn.rotations /\ offered' = offered + 1
    /\ Quiet /\ UNCHANGED <<key, clock, window, mailing, told>>

(* take_key_record: the key that was open is closed before the next is     *)
(* tried, which may fail and be tried again.                               *)
TakeKeyRecord ==
    /\ key # offered
    /\ \/ key' = offered /\ UNCHANGED faults
       \/ key # 0 /\ key' = 0 /\ faults < scn.faults /\ faults' = faults + 1
    /\ UNCHANGED <<scn, lane, slots, next, answers, restarts, offered, clock, window,
                   mailing, told>>

(* The relay takes a submission and delivers it, or does not.              *)
RelayTakes ==
    /\ mailq # <<>> /\ mailq' = Tail(mailq)
    /\ \/ inbox' = inbox \cup {Head(mailq)} /\ UNCHANGED faults
       \/ faults < scn.faults /\ faults' = faults + 1 /\ UNCHANGED inbox
    /\ UNCHANGED <<scn, lane, slots, next, answers, restarts, key, offered, clock, window, told>>

Tick ==
    /\ clock < FirstTick + scn.ticks /\ clock' = clock + 1
    /\ Quiet /\ UNCHANGED <<key, offered, window, mailing, told>>

Restart ==
    /\ ForgetAll
    /\ key' = 0 /\ window' = {} /\ mailq' = <<>>
    /\ UNCHANGED <<offered, clock, inbox, told>>

(* The ledger's readers do not see a record past its time.                 *)
Seen == [k \in Keys |-> IF led[k].kind = "txn" /\ led[k].exp # 0 /\ clock >= led[k].exp
                          THEN Nothing ELSE led[k]]

(* What was answered before: at the first tick, under the first key.       *)
Past(op) == {b \in scn.past : b.op = op}
PastAnswer(b) ==
    LET n == MailNonce(0)
        t == [nonce |-> n, dev |-> b.dev, who |-> b.who, exp |-> FirstTick + ChallengeTtl, key |-> 1]
    IN [id |-> 0, req |-> b, status |-> "ok",
        body |-> IF b.op = "start" THEN t
                 ELSE [dev |-> b.dev, who |-> b.who, key |-> 1, nonce |-> n, code |-> n,
                       at |-> FirstTick]]
PastTxn(n, exp) == Txn(<<1, n, n>>, 0, "pending", exp)
PastRecords ==
    [k \in Keys |->
        CASE k = TxnKey(MailNonce(0)) /\ Past("redeem") # {} -> Consumed
          [] k = TxnKey(MailNonce(0)) /\ Past("start") # {}  ->
                PastTxn(MailNonce(0), FirstTick + ChallengeTtl)
          [] k = TxnKey(OpNonce(0)) /\ Past("auth") # {}     ->
                PastTxn(OpNonce(0), FirstTick + AuthTtl)
          [] k \in {DeviceKey(b.dev) : b \in Past("redeem")} ->
                Enrolled([who |-> (CHOOSE b \in Past("redeem") : TRUE).who])
          [] OTHER -> Nothing]

EnInit ==
    /\ FrameInit(PastRecords, {PastAnswer(b) : b \in Past("start") \cup Past("redeem")})
    /\ key \in {0, 1} /\ (key = 0 <=> scn.past = {})
    /\ offered = 1 /\ clock = FirstTick /\ window = {} /\ mailq = <<>>
    /\ inbox = {MailNonce(0) : b \in Past("start") \cup Past("redeem")}
    /\ told = {[nonce |-> OpNonce(0), exp |-> FirstTick + AuthTtl] : b \in Past("auth")}

EnSteps ==
    \/ \E m \in mail, k \in Slots : OnLedger(m, k) \/ AuthMintDone(m, k)
    \/ \E m \in mail : Ignore(m)
    \/ ReadAnswer /\ UNCHANGED desk
    \/ \E w \in wire : LedgerDecides(w, Seen) /\ UNCHANGED desk
    \/ TakeKeyRecord \/ RelayTakes

EnNext ==
    \/ EnSteps
    \/ \E b \in scn.bodies : TakeAuth(b) \/ \E x \in Presents(b) : TakeRequest(b, x)
    \/ \E w \in wire : LedgerFails(w) /\ UNCHANGED desk
    \/ OfferKey \/ Tick \/ Restart
=============================================================================
