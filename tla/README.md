# kagi: TLA+ models and proofs

kagi is an identity and key service built from small modules wired into a
graph: each module is a single-threaded step function that exchanges frames
with others over bounded channels.  Nothing in it locks; what makes it hard is
that every decision is spread over several messages, that other operations and
other nodes move between any two of them, and that channels, slots, tables and
timeouts are all finite.  This directory models those decisions, checks them
with TLC and proves part of them with TLAPS.

Commands, from this directory: `tlc -config X.cfg M` for a run,
`tlapm StorageKeyProofs.tla` and its like for the proofs.  `PROJECT.json` lists the
components, the runs, the source lines behind every definition, the hazards and
the theorems.

## 1. Inventory

| part (source) | state it keeps | operations | talks to | what makes it correct |
|---|---|---|---|---|
| durable identity ledger (`app/security_state`, `common/state_wire`, `object_read`, `lattice_kv`) | start-up decision, one held write and one held read (object) or eight parked requests (lattice) | GET, PUT_ABS, CAS, DELETE on namespaced keys | storage.object provider, or a replicated store over a lane; every stateful module above it | each request takes effect at most once and only under its precondition; the reply says what happened; nothing weaker than the namespace's fence is acknowledged; every request is answered once |
| clock policy (`common/time_policy`) | none | which clock a decision needs | everyone who dates something | no decision on an absent clock |
| storage-key service (`common/storage_key_service`, `storage_key`, `app/storage_key`) | four operation slots, sixteen challenges | create, record set, grant, rotate grant, replace, revoke, rotate key, retire, authorise recovery, erase, challenge, attach, recover, renew | ledger, custodians, endpoint | a release rests on a standing grant, once, audited; epochs and sets stay in step; an erasure is final |
| custodians (`app/storage_custodian`) | anti-replay ids and erased resources, in memory | rewrap, erase | storage-key service, vault | one release per order, none of an erased resource |
| storage-key endpoint | sixteen waiting exchanges | admit, answer, expire | HTTP, storage-key service | every exchange is answered once |
| enrolment (`app/enrollment_endpoint`, `totp`, `device_auth`) | pending ceremonies, a replay window, the signing key, one held answer | start, adopt, redeem, register and confirm an authenticator | ledger, mail relay, HTTP | a code is worth one certificate, for whoever it was meant for and on record; spent and revoked stay so; what a caller is told is what is held |
| revocations (`app/wellknown_endpoint`) | revocations under way | record, publish | ledger, verifiers | a recorded revocation is published |
| authorization codes (`app/authcode`) | eight pending requests, a replay window, one held answer and one held mint call | authorize, exchange | ledger, mint, callers | a proof yields one code; a code is redeemed once, by its holder, for the subject it was issued to; every request is answered |
| mint admission (`app/mint_admission`), token endpoint (`app/token_endpoint`), mint (`app/token_mint`) | pending slots and seats, a replay window, links, held records | admit, grant, token | each other over exchange links, ledger | one token per proof, none for a revoked device, each to its own caller; a refusal says who is at fault; every request is answered |
| issuer keys and their distribution (`token_mint`, `token_verify`, `verify_keyset`, `wellknown_endpoint`, `issuer_key`) | the mint's key table, the verifiers' tables, the published set | add, activate, retire, remove, snapshot, sign, verify | control plane, vault | a token verifies for as long as it lives; what is signed is signed under the key activated last |
| transfer grants, attachment grants, custody authority | pending acts with a deadline, the signing key | issue, consume, invalidate; publish, request, revoke; check | ledger | a grant ends once; an advanced generation voids what came before; a grant is within its publication; every act ends |
| secret store (`app/secret_store`, `secret_record`) | sealed records, the key that seals them, a nonce counter, a rewrite under way | put, get, derive, rotate, list | file provider, control plane | a nonce goes once unless the clock it is seeded from fails; an answered change is read back; the file catches up |
| messaging (`keypackage_endpoint`, `e2ee_state_endpoint`, `e2ee_credential_endpoint`, `e2ee_router`) | package pools, ratchet states, pending credentials, routes and held records | publish, claim, load, commit, issue, route | HTTP, ledger, vault | a one-time package goes once; commits form one line; a credential is its own exchange's; every exchange is served |
| control acts, operation scopes, resource gate | replay windows | mint, verify, admit | mint, ledger | a narrower scope never grants more |
| carriers, certificates, service DNS, RPKI/RSC | little or none | sign, verify | signer | encodings and signatures |

The hard behaviours, at their lines, are `PROJECT.json`'s `hazards`.

## 2. Plan

Most important first: everything else rests on the ledger, and the storage-key
service is its most demanding client.

1. `StateWire`, `LedgerService`, `ObjectLedger`, `LatticeLedger`: the ledger and
   its two backends, with the abstract service both implement.  **Done.**
2. `LedgerClient`: the ledger as one atomic step, for the services above it.
   **Done.**
3. `StorageKey`: the storage-key service with its custodians.  **Done.**
4. `AuthCode`: the authorization-code flow with its ports to the mint.
   **Done.**
5. `Enrolment`, `DeviceDirectory`: enrolment, authenticators and revocations
   over one ledger.  `Admission`, `TokenPath`: the token path.  **Done.**
6. `Generations`, `TransferGrant`, `AttachmentGrant`, `Grants`: the acts that
   race over one ledger's generations.  **Done.**
7. `KeyRotation`; `SecretStore`; `KeyPackages`, `RatchetState`,
   `MessagingCredential`, `Messaging`.  **Done.**
8. Control admission and the storage-key and certificate endpoints' tables;
   operation scopes as operators against a reference definition.
9. Proofs: the ledger's backends, the storage-key service, the authorization
   codes, the token path, the grants, the secret store and messaging are
   **done** (section 5).  Next are key rotation and the device directory.

## 3. Modules

| module | models |
|---|---|
| `StateWire` | namespaces, fences and their order, the fence floor of each namespace under each declared authority, the translation of provider and lane results to statuses |
| `LedgerService` | the abstract ledger: registers, calls, what each status promises, what a restart may take back |
| `ObjectLedger` / `MCObjectLedger` | `security_state` on a conditional object store |
| `LatticeLedger` / `MCLatticeLedger` | `security_state` on a replicated store over a lane |
| `LedgerClient` | a ledger call as one step, with the failures a client may see |
| `StorageKey` / `MCStorageKey` | the storage-key service and its custodians |
| `AuthCode` / `MCAuthCode` | the authorization-code flow, its replay window, its slots and its two exchange ports |
| `Ports` | an exchange port: an edge and an outbox of one |
| `Endpoint` | what the endpoints on the ledger share: a slot table, a port of answers, calls by correlation |
| `Enrolment` | the enrolment endpoint: ceremonies, authenticators, the mailed codes |
| `DeviceDirectory` / `MCDeviceDirectory` | enrolment and the well-known endpoint's revocations over one ledger |
| `Admission` | mint admission: both doors, the replay claim, the device read, the mint's link |
| `TokenPath` / `MCTokenPath` | the token endpoint, admission and the mint over their exchange links |
| `KeyRotation` / `MCKeyRotation` | the mint's key table, the announcements, the verifiers and the published key set, under an operator |
| `Generations` | what the grant services share: acts with a deadline, generations, the signing key |
| `TransferGrant`, `AttachmentGrant` | the transfer-grant service with the custody authority's check; the attachment-grant service |
| `Grants` / `MCGrants` | the three services over one ledger |
| `SecretStore` / `MCSecretStore` | the secret store and its file |
| `KeyPackages`, `RatchetState`, `MessagingCredential` | the tables of the three messaging endpoints and what a request does to them |
| `Messaging` / `MCMessaging` | the router, the endpoints' exchanges and the directory |
| `...Proofs` | theorems about the module of that name (section 5) |

### The ledger's two backends

`ObjectLedger` drains one request at a time into one set of buffers (`buf` is
`key_buf`, `value_buf`, `etag_buf` and `arg_buf`), holds at most one write and
one read while the provider answers "not yet", and reads an object with three
provider calls (HEAD, open, ranged read).  Every provider call is a step, and
another holder of the store may write between any two.  A restart loses what
was not durable.  `LatticeLedger` parks each request in a slot under a fresh
correlation id; frames are decided and answered in any order, may be lost or
repeated, and a failover may lose writes that were not replicated durably.

Both carry a refinement mapping to `LedgerService` (`ImplementsLedger`).  The
mapping covers reads, creates and compare-and-swaps on the lattice lane; its
delete does not implement the abstract one, which is a finding.

### The storage-key service

`ops` is the table of operation slots.  An operation is a chain of ledger round
trips; each stage's answer is one action (`GetGrant`, `GetDevice`, `PutSet` ...),
which does what the arm of `advance` for that stage does up to and including
the next request it sends.  All of an operation's requests carry one
correlation id (`icorr`), so an answer is matched by operation and not by
request: `At(m, stage)` says only that the operation is at that stage.  Every
decision passes through `Finish` (the audit write) and then `Reply`.  A stage
that is not answered in time ends by `Tick`.

The ledger is `LedgerClient`: a request is decided in one step, whenever, or
fails having been applied or not.  An etag is the record that was read, which
is sound because no record of this service recurs under its key.

Signatures, attestation evidence, validity windows and lifetimes come to one
Boolean, `proof`; records keep the fields the decisions compare.  One resource
is enough, because no operation touches the records of two.

`Scenarios` says what the callers and the environment may do; a run explores
each scenario in full.

### The authorization-code flow

`pend` is the slot table, `window` the in-process replay window.  Each ledger
request has a correlation of its own, `<<request, flow>>`, as the code draws a
fresh one for each.  `HandleAuthorize` and `HandleExchange` are what is done on
a request; one action per flow does what its handler does up to the next
request, call or answer.  A code is named after the request it was drawn for;
it is filed without waiting for the ledger and answered at once, so an answered
code may not be there.  `outq` and `callq` are the two exchange ports: an edge
of `EdgeCapacity` records and an outbox of one.  Each drain's gate is the
guard `Clear` or `AnswersClear` of its actions.  A step that begins with the
mint down fails the open stages before it reads on, which is `MintRead`'s last
guard: the module's step is not interleaved with its callers'.

The outbox itself is not in this repository.  That a second record overwrites a
held one (`Placed`) follows from its use: the module encodes into its one
`mint_buf` and hands that same buffer to `send` and to every later `flush`.

A device stands for its certificate (`sub`, `device_id`, `jkt`); PKCE is an
injective function; proofs do not go stale within a behaviour, so the replay
window only fills.  A restart is of this process: the ledger it shares with its
replicas stands, and what it was sent may still be applied.  (A claim's floor is
`VIEW_CONSISTENT`: a restart of the ledger itself may forget it, which the
storage-key model allows and this one does not.)

### Enrolment and the device directory

`pend` is the endpoint's table of ceremonies; each ledger answer is one action
by the stage it was asked at (`LookupDone`, `ConsumeDone`, `CommitDone`, ...).
A code is named for the nonce it was mailed or authorised for, and is held as
its keyed hash (`CodeHash`), so that a new key makes old codes worthless as it
does in the code.  The ledger's record of an authenticator keeps what
`drain_state`'s buffer keeps of it (`Held`).  `DeviceDirectory` adds the
well-known endpoint's revocations, which write the records enrolment reads.

### The token path

The endpoint's seats (`desk`), admission's slots (`pend`) and the mint are
joined by three links, each two ports that lose what is on their edges when the
link goes down (`KeptBack`).  A call's id is its request's.  What a link's state
does is read from the port in order with the answers (`News`), and acted on in
the step after, as the code does it.

### Key rotation

Each reader of key records (the mint, the gate's verifier, the published set)
has an edge of its own, so records reach them in any interleaving; the vault
may open a key with its record or later, or refuse it, which empties its slot
(`Settles`), and a key may be dated (`activate_after_unix`).  The operator follows
`rotation-revocation-runbook.md` and may roll back before the retirement.  A
token keeps the key that signed it and its expiry.

### Grants

An act is a slot with one deadline, moved on by ledger answers.  Transfer
grants, custody checks and attachment grants use one ledger: what they race on
is the generation of their scope, the grant's record and the publication.  A
grant is its fields; a nonce is the act it was drawn for.  Time moves in ticks,
and the windows are two or three ticks wide with a slack of two, so that a
grant can expire during its act.

### The secret store

The file is a sequence of cells, the units a crash leaves old or new; a record
takes one or two, so an image can be longer or shorter than what it overwrites.
Sealing is a record of key, nonce and value, and opens under that key only if
all its cells are of one seal.  `floor` remembers what was answered and made
durable, for the properties only.

### Messaging

The three endpoints' requests are functions from a table to an answer and a
table (`Publish`, `ClaimPackage`, `LoadState`, `CommitState`, `Accept`,
`Issue`); `Messaging` runs them behind the router.  A request is a HEAD with its
body, or a HEAD, a grant of credit and a BODY, and may be aborted.  The router
holds one record per direction, remembers `MaxRoutes` exchanges and takes
answers round robin.  A package or a payload is named for the exchange that
brought it.  The replay windows do not forget within a behaviour.

## 4. Runs

| run | shows |
|---|---|
| `object` | the object backend implements the ledger, answers each accepted request exactly once, acknowledges only its own commit, and never hands out an etag under which a guarded write would win over a value its reader did not see |
| `lattice` | the lattice lane implements the ledger for reads, creates and compare-and-swaps; slots wait for their own frame; every parked request leaves its slot, and is replied to unless the replies channel is full then |
| `lattice_lossy` | with an answer lost or repeated, every operation, other nodes and an advancing clock, an answer still reaches only the request whose frame it answers; the slot of a lost answer is never freed, which `SlotsAreFreed` of `lattice` does not speak of |
| `storage` | releases and renewals are authorised by a grant that stood after the request came, unrevoked unless the release is a recovery with its ticket, once per challenge, anti-replay id, ticket and chain head, and audited; grants and recovery sets stay in step through overlapping creations, rotations, recordings, retirements and erasures; every request is answered once, with stages expiring anywhere and late answers |
| `authcode` | one code per proof, across a restart too; one redemption per code; tokens as the code's issue established them, for its holder, and not for a device dropped before the exchange; no code consumed by anyone else; every request answered unless the mint's link stays down |
| `authcode_crowd` | (violation) with three exchanges at once, a held mint call is overwritten and its exchange is never answered |
| `directory` | a certificate is earned by its own unspent code, once, and has its record; what callers are told is held; spent transactions and revocations are final; a recorded revocation is published |
| `tokens` | a token has a proof of its own, claimed once, and a device that stood; it reaches its caller; a 401 is about the presenter, or about a replay window that others' proofs fill; every request is answered |
| `rotation` | through rotations, rollbacks before the retirement, mint restarts and full tables, a token verifies while it lives, and what is signed is signed under the key activated last while the mint holds it, with keys that are dated and that the vault puts off or refuses |
| `grants` | a grant is consumed once or not at all; nothing issued under a voided generation is granted after a later reading of it, and an advance is never undone; a grant keeps within its publication; every act ends |
| `secrets` | whatever the clock reads, a nonce seals twice under one key only across a restart that read the clock below it; an answered change is read back, after a restart too if it was durable and the file opens; the rewrite catches up |
| `messaging` | a one-time package is handed out once and nothing rotated past is; an endpoint's commits form one line; a credential is what its exchange proved and the directory held; every exchange is served |

Instances on which the code fails what the repository says of it are listed in
section 6.  Every property of a passing run has a mutant: a plausible bug in one definition
under which TLC finds the property violated.

### Bounds

The ledgers: one or two clients with two or three requests each, one key per
namespace kind, two writes by others, one restart or failover.  Two requests
are enough for a read followed by a guarded write; two writes by others allow
one on each side of a HEAD.  In `lattice` the replies channel has room for one of
the two replies that may be drained together, so that it is full when the second
is; in `lattice_lossy` one answer is lost or repeated while another slot waits.  Values of two lengths make a truncated read
visible.

The storage-key service: three requests of which two in flight, so that two
operations overlap and a third sees what they left, and the third finds the
slots full; two challenge slots and three challenges, so that one is evicted;
two retained epochs, so that the list fills; one failure, one late stage or one
restart at a time.  The scenarios with late answers let every stage of two
operations expire (twice per operation is the most that can happen, so the bound
never binds); `EveryRequestAnswered` is asked of those only.
The four slots and sixteen challenges of the code only add more of the same
overlaps.

The authorization-code flow: three requests over two slots, so that two overlap
and a third finds the slots full or what they left; a replay window of one, so
that it fills; one-record edges, the smallest the code's comments speak of; one
or two failures, one outage, one restart.  With two slots the held mint call is
never overwritten, which takes three exchanges: that is `authcode_crowd`.

The device directory: up to five requests over two slots and one revocation at
a time, two wrong guesses to burn a code, a challenge of two ticks, one-record
edges, one failed call, one restart and one new key.  Two devices and one
mailbox are what it takes for one to take the other's code.

The token path: up to five requests over four slots and seats, a window of four,
so that a fifth fresh proof finds it full, one-record edges, an outage of either link, one failed
call and one restart.

Key rotation: three slots at the mint and two published keys with four keys to
hand, so that tables fill; edges of three announcements, which no rotation here
fills; tokens of one or two ticks; a rollback, a restart, a dated key, a key
opened late or refused.

Grants: three acts at once, two per service, on one flow and one challenge, two
hosts, three scopes; deadlines of one tick; one failed, silent or late call, one
key change and one restart.

The secret store: three ids over two records, values of one or two cells, one
or two restarts, two faults of the provider, partial writes; starts before the
clock is set, and up to three seals while it stands still.

Messaging: two to five exchanges of which up to four open, pools of two
packages for one device, one ratchet state, two credentials in flight, three
routes, two bodies collected, one-record edges.

### Fairness

The object backend: weak fairness of the module's step (the scheduler steps
every module) and of the provider answering.  The lattice lane: weak fairness of
the module's drains and of the store's answers, in the run without lost
answers; with a lost answer the code has no timeout and nothing is promised.
The storage-key service: only its own clock (`Tick`) is fair; the ledger and the
custodians may stay silent for ever.  The authorization-code flow has no
deadlines: the module's drains, the callers' reads, the ledger and a mint whose
link is up are fair, and nothing is promised while the link stays down.

The other endpoints, the router and the secret store: the scheduler steps every
module, so the steps a module takes whenever it has something to do are fair
together, with the ledger's and the file provider's answers and the callers'
reads (`Progress`, `Steps`).  Taking new requests, faults, restarts, key changes
and the environment are not fair.  In `grants` the deadline alone ends an act
whose ledger is silent.  In `tokens` the carrier must discard what was called
on a link that is down (`Discard`): a held call is otherwise never placed.  Key
rotation promises nothing that needs fairness.

## 5. Proofs

Each `...Proofs` module proves properties of one component for every value of
its constants: any number of callers, requests, keys, slots, faults, restarts
and scenarios.  The shape is the same throughout.  The property itself is not
inductive, so `IInv` adds what the code's steps rely on; one lemma per action
(or per way of stepping that several actions share) shows that it is kept; the
theorem follows from `Init => IInv`, `IInv /\ [Next]_vars => IInv'` and
`IInv => Property`.  Each `IInv` was checked with TLC on the component's run
before it was proved.

| module | theorem | property |
|---|---|---|
| `LatticeLedgerProofs` | `TypeCorrect`, `LaneRoutesExactly` | `TypeOK`, `SlotsAreExact` |
| `ObjectLedgerProofs` | `AcknowledgementsAreTrue`, `ReadsCanBeComparedAgainst`, `ObjectLedgerImplementsLedger` | `AcksAreTrue`, `ReadBasisHolds`, `ImplementsLedger` |
| `StorageKeyProofs` | `NothingIsUsedTwice`, `ReleasesAreAuthorised`, `ReleasesAreAudited`, `TheGrantMovesForward`, `CustodyIsKept` | `SingleUse`, `ReleaseIsAuthorised`, `ReleaseIsAudited`, `GrantMovesForward`, `CustodyFollowsTheGrant` |
| `AuthCodeProofs` | `CodesAreSpentOnce`, `TokensAreForTheirCode`, `CodesAreBurntByTheirHolder` | `CodeRedeemedOnce`, `TokensAreEarned`, `OnlyItsHolderBurnsACode` |
| `TokenPathProofs` | `OneTokenAProof`, `AnswersCarryTheirToken`, `RefusalIsDeserved` | `TokensAreAdmitted`, `TokenIsItsCallers`, `RefusalIsOfThePresenter` |
| `GrantsProofs` | `EndsAreOne`, `VoidIsForGood`, `GrantsAreWithin` | `OneEnd`, `VoidStaysVoid`, `GrantIsWithinItsPublication` |
| `SecretStoreProofs` | `NoncesRepeatOnlyWithTheClock` | `ReuseIsOfTheClock` |
| `MessagingProofs` | `PackagesGoToOneClaimer`, `CommitsFormOneLine`, `CredentialsBindWhatWasAsked` | `PackagesGoOnce`, `CommitsAreOneLine`, `CredentialsAreBound` |

### The lattice lane

`Routing` strengthens `SlotsAreExact`: correlation ids in slots, frames and
answers are all below the next one (`CorrsAreFresh`); a frame or answer with a
slot's id is for that slot's request (`FramesMatch`); a request is in one place
only, the channel, a slot or the replies (`OnePlace`); and the slots are within
their bound.  Lost and repeated answers preserve it because they only repeat or
remove a frame that already matched.  `TypeCorrect` carries the conversion from
lane results to wire statuses, so every reply has a status a caller knows.

That nothing expired is served is not among the theorems: the code has it only
where there is a wall clock, and then it is the drain's own guard.
`LatticeLedger_clock.cfg` shows what is served without one.

### The object backend

`IInv` says where each request is (`Places`: queued, held or answered, and only
one of these), that the one set of buffers is the held request's (`OneHeld`),
that a revision is given out once and names one version for ever (`Versions`),
and that a commit that is not answered yet stands and is durable if its fence
said so (`Commits`, `AcksAreDurable`).  `Bases` follows an etag from the HEAD
that read it through the handle, the reply, the caller's view and the next
request: wherever it is, it is the etag of the value it travels with.  This is
what makes a read of three provider calls safe to compare against: the value
may be older than the etag only if the ranged read failed, and then the read is
not answered.

The refinement maps each request to a call of `LedgerService` by the place it
is in (`CallTable`) and the acknowledged revisions to what the abstract ledger
may not lose (`Kept`).  A step either moves one call by one phase or none; the
rest of the table stays (`OthersStay`).  The commit decides a write, the open
or the HEAD decides a read.  The hypothesis `"volatile" \notin ReadFences` is
about the provider: the module checks the fence of a record it reads but
answers an absence whatever its fence, so an absence from a view without a
linearization point would be told as a present one.

### The storage-key service

All requests of an operation carry one correlation id, so an answer is matched
by operation only.  The proof rests on two ideas.  An operation that nothing has
refused has at most one message under its id, on the wire or in the mail, and
that message is what its stage asked (`OneMessage`, `Asked`, `Tells`): so what
it takes for an answer is the answer to its question.  An operation that was
refused, by a timeout say, may take any answer, but only to end.  And a request
on the wire may be applied whatever became of its operation, so what it writes
is bounded by the request alone (`Question`): a grant is swapped for one of the
next generation, a ticket for its consumed self, a chain head for a record of
its own attachment.  `NoncesOnce`, `ReplaysOnce`, `TicketsOnce` and
`RenewalsOnce` say of each single-use thing that what has been answered with it,
the operations past its spending and the ledger agree that it is spent once;
`OpsOK` says stage by stage what an operation has established; `AnswersOK` says
the same of what was answered, by what cannot be lost.

`CustodyIsKept` relates a grant to the recovery sets, which are other records:
no write covers both, and any of them may be applied late, after its operation
ended.  `CInv`, kept along with `IInv`, says for each write that may still come
why it will be right then (`WriteOK`), and the reason is always one that lasts.
A swap of the grant takes effect only while the grant it expects stands, so it
is enough that the old epoch can be recovered (`Recoverable`) and the next one's
set is the rotation's own (`Created`) as long as that grant does; a set is
deleted only when its epoch can never be admitted again (`Doomed`: passed and not
retained, or erased); a creation is refused wherever a set is, and one that
comes late is either the one the grant names or has an id the grant does not
name (`FirstBy`, `Fresh`).  What makes these last is the order of the stages, GET_CURRENT_SET,
PUT_SET, CAS_GRANT and then DELETE_SET.  `WritesOK` adds that one operation's
swap to a new epoch is never on the wire beside a set creation or a second such
swap of the same operation, and `Able`
counts the operations that may still rotate, so that the epochs stay within the
keys the model has.  `Follows` and `Learns` say it of the stages and of the
answers, down to the sweep of an erasure, which has the last set gone once its
cursor is past it (`Erasing`, `Gone`).

The attempts corrected two properties.  `ReleaseIsAuthorised` had asked more of
a renewal than the code checks, and `CustodyFollowsTheGrant` did not allow for
a set that arrives after the erasure (section 6, `ErasedIsGone`).

### The authorization-code flow

A code is known by what cannot be lost (`Issued`): the codes filed before the
start and the answers that were read.  `CodesOK` relates the code's record, the
swap on the wire, the answer in the mail and the slots: at most one of them
carries the one consumption (`Using`, `OncePerCode`), and likewise the claim of
a proof (`Claiming`, `OncePerProof`).  A swap is bounded by itself, as above: it
names the exchange that sent it, who held the code (`Earned`), so that the swap
may be applied after a restart forgot its slot.  The actions of the module come
to four ways of stepping (`Recedes`, `Advances`, `Concludes`, `LedgerMoves`),
each shown once to keep `IInv`.

### The token path

A presentation is met in many places: on the link to admission, at the
endpoint's desk, in admission's slots, in a verdict on its way, in an answer.
`Seen` is all of them, and `SeenOK` says that they agree about what a request
presented, so that matching by id is matching by request.  `TableOK` and
`DoorsOK` say which of the places exclude each other: one slot for a request,
nothing of it at the ledger before admission took it.

`ClaimsOK` carries the first theorem.  A request has won a proof (`Won`) from
the moment the ledger's answer to its claim is in the mail: in its slot, in a
verdict at the endpoint's door, in a call to the mint, in a signed token.  A
proof has one winner and its claim is in the ledger.  That needs the order of
the two questions (`LaneOK`: no device question while the claim is open).  A
claim that was recorded and answered `unavailable` has no winner, and no later
request can become one; nor does a restart help, because the ledger is not
emptied with the window.  `DeviceTold` carries the revocation through the same
places: a record that was read as unrevoked was read for a request presented
before the revocation, whatever has happened since.  `MintsOK` and `VerdictsOK`
say the same of the calls, the mint's answers and the verdicts, and
`AnswersCarryTheirToken` is read off `VerdictsOK`.

`RefusalIsDeserved` needs more than `IInv`.  A proof in the window or in the
ledger was offered by a request that admission took (`UsedOK`), which is
somewhere to be seen until a restart loses it (`AllPresent`), and whatever
blames a presenter has a reason for it (`BlameOK`); `RInv` is kept along with
`IInv`.  A full window answers a fresh proof as a replay, which is a refusal the
presenter does not deserve (section 6, `ReplayIsOfAProof`); the theorem says so
(`Crowded`) instead of assuming the window large enough.  It follows from
`UsedOK`: every proof in the window was offered by another request, so that
there are as many of those as the window holds.

### The grants

As in the storage-key service, an act that is under way has one message, its
stage's (`OneMessage`, `Asked`, `Tells`), and a request on the wire is bounded by
itself (`Question`): a generation is put up or swapped for a higher one, a grant
is claimed under its own nonce or a provider's challenge, and only a grant that
was issued is marked.  From there the properties are three arguments over one
`IInv`.

A drawn nonce has no record and no answer until its claim is applied, and then
never another claim (`BirthsOK`).  So the record of an issued grant goes from
issued to one end, or lapses and does not come back; `EndsOK` keeps the ledger,
the answers on their way and the verdicts in agreement on which: at most one act
consumes, and if one did no caller is told that the grant expired.  A challenge
is the provider's and may come again, so the evidence under it is compared by
time: two checks that were both granted are so far apart that the first one's
record had lapsed (`ChecksOK`).  The attempt found that `OneEnd` had to say so
(`Forgotten`).

A generation that was acknowledged is in the ledger or below what is there, and
an act's reading is never below what was acknowledged when it began
(`LedgerOK`, `ActsOK`, `Tells`): whatever races, is lost or is applied late only
raises it.

An attachment grant is signed after the ledger answered, against the publication
it was asked under and the clock of that moment (`WithinItsPublication`); the
act's earlier decision is not relied on.

The act's slot is among those of all three services: `MaxPending` is a bound of
the model, and `Accept` takes no act that would overrun it.  The code's own
limit, `MaxOps` for each service, is `Busy`.

### The secret store

`NonceNeverReused` is what the documents say and the code does not have: it
would need a wall clock that is set before the first start and moves on with
every seal, and the code checks neither (section 6).  `ReuseIsOfTheClock`
holds without any assumption on the clock: a start's nonces lie above what the
clock read at that start and go up one by one, so a nonce that is used again was
above that reading.  The invariant says both of every seal, under the start it
was made in (`CounterIsAhead`, `NoncesAreSeals`).

### Messaging

A request goes through four hands (the listener's edge, the router's held
record, an endpoint's edge, its collector) and its answer through three more.
`OnePlace` says that a request no endpoint has handled is in one of them only,
and `EdgesOK` that it is on its way to the endpoint that owns its path;
`AnsweredOnce` says that an answer, or a place among the credentials pending,
is only had by a request that was handled, and only one.  What an answer claims
is then stated once, for whatever was said (`Said`: on its way or read), and
never lost, because no step takes back what was asked or read (`Keeps`).

`PackagesOK`: each package in a pool was published by a request that is over
and is there once; a one-time package that was handed out is in no pool; and a
device's pool is of no older generation than any publish that was answered.  So
a claim that starts after such an answer cannot see what was rotated past.
`StatesOK`: a commit that was acknowledged is the one that stands, or behind it
in revision and position; and what a load tells of stands, or stood before.  An
answer given now is of the state that stands now, which is at or past whatever
had been answered when it was asked for (`InLine`).  `CredentialsOK`: an answer of the directory
carries a correlation that one pending request has, and what the directory held
when it answered is among what it held during that request's exchange.

The steps come to a few shapes: nothing is said (`Quiet`), a request is refused
(`Aside`), or one of the tables' operations answers it (`PublishStep`,
`ClaimStep`, `LoadStep`, `CommitStep`, `WaitStep`, `DrainStep`), each shown once
for every way a request reaches it.

### Assumptions

Besides the hypotheses named above: the `ASSUME`s of the component modules,
which say what kind of thing each constant is, that tables and windows have at
least one place, that a body names things of its scenario (`AcScenarios`,
`AdScenarios`, `SkBounds`, `GrBodies`, `MgBodies`), that a clock does not go back
(`PaceIsTime`), and that a nonce that was drawn is never a provider's
challenge (`GrBounds`).  `AdScenarios` also says that the endpoint's link to admission may
only go down where nobody uses the grant door: the model has one port for both
doors' answers, and the edge that goes down with the link is the endpoint's.
TLC evaluates all of them in the runs.

### Only model-checked

* Liveness, and whatever needs ENABLED: `EveryRequestAnswered` and its like, the
  temporal properties of every component.
* What a recursive definition computes over data: `ReadsWhatWasAnswered` needs
  that loading a file gives back the records its image was built of, which is an
  induction over the records.
* `ImplementsLedger` of the lattice lane, and the properties of the device
  directory and key rotation.

## 6. Observed while modelling

### Properties the code does not have

Each of these is stated in its module and is violated by the named instance:
a `.cfg`, or a set of scenarios in the MC module, to be checked as the module's
`.cfg` with `Scenarios` replaced by that set and this property alone (an
invariant under `Spec`).  The first is the run `authcode_crowd`; the others are
kept beside the runs to be checked by hand.

| property, instance | what TLC finds | what the repository says |
|---|---|---|
| `AuthCode!MintCallsAreKept`, `AuthCode_crowd.cfg` | a mint answer read while another exchange's call is held writes the ID token's call over it (`authcode/mod.rs:1526`) | "either way the call is owed" (`mod.rs:1482`) |
| `LatticeLedger!ExpiredIsNotServed`, `LatticeLedger_clock.cfg` | without a wall clock `now_for` answers 0 and an expired record is served (`security_state/mod.rs:1521`) | "absent a trustworthy clock, a record that carries an expiry cannot be served" (`mod.rs:1517`) |
| `LatticeLedger!DeleteIsGuarded`, `LatticeLedger_delete.cfg` | a DELETE is the key alone and removes whatever revision is there (`security_state/mod.rs:1410`) | "Remove a record only if the etag still matches" (`state_wire.rs:55`) |
| `LatticeLedger!EveryTakenAnswered`, `LatticeLedger_dropped.cfg` | an answer drained into a full replies channel is dropped with its slot (`security_state/mod.rs:1498`) | "Every request produces exactly one reply" (`mod.rs:530`) |
| `StorageKey!RevokedReleasesNothing`, `RevokedScenarios` | a recovery is authorised, and releases, under a revoked grant (`storage_key.rs:1219`) | "The grant is revoked: nothing further is released under it" (`storage_key.rs:183`) |
| `StorageKey!AuditedIsWritten`, `LateScenarios` | the late answer of an expired stage is taken for the audit write's (`storage_key_service.rs:981`) | "Audit the decision, then answer once the entry is written" (`storage_key_service.rs:2242`) |
| `StorageKey!ErasedIsGone`, `EraseScenarios` | a creation's set write is applied after the erasure's sweep, and a record_set that read the grant before reads that set and completes it (`storage_key_service.rs:1790`) | "every epoch up to it is gone — its recovery set deleted" (`storage_key.rs:84`) |
| `DeviceDirectory!OperatorCodeExpires`, `LateScenarios` | a wrong guess rewrites an operator's transaction without its expiry (`enrollment_endpoint/mod.rs:2939`) | "How long an enrolment authorisation may live, at most", "Five minutes" (`auth_wire.rs:1734`) |
| `TokenPath!EveryRequestAnswered`, `FlapScenarios` | a link's DOWN and UP read in one drain leave the requests whose calls were lost pending (`token_endpoint/mod.rs:558`) | "a provider's LINK DOWN fails every call open to it" (`docs/architecture/typed-operations.md:701`) |
| `TokenPath!ReplayIsOfAProof`, `TokenPath_full.cfg` | a full replay window sets the same flag as a proof seen before, and a fresh proof is answered as a replay, at the token endpoint a 401 (`mint_admission/mod.rs:890`) | "`replayed` keeps them apart for the reply" (`mod.rs:876`) |
| `KeyRotation!TokensVerify`, `LateScenarios` | a key activated again keeps its retirement's deadline (`token_mint/mod.rs:533`) | "credentials minted at any point during the rotation continue to verify" (`docs/operations/rotation-revocation-runbook.md`) |
| `KeyRotation!TokensVerify`, `LaneCapacity = 2` | an announcement that finds its edge full is dropped, and a verifier never learns the key (`token_mint/mod.rs:730`) | the same sentence |
| `Grants!VoidedAtOnce`, `VoidScenarios` | a consume checks the generation two round trips before it marks its grant (`transfer_grant_service.rs:510`) | "refused from then on" (`transfer_grant_service.rs:18`) |
| `SecretStore!NonceNeverReused`, `ClockScenarios` | two starts before the wall clock is set seed the counter alike (`secret_store/mod.rs:263`), and up to eight seals in one step take the counter past the clock, and a restart seeds it below (`:365`, `:114`) | "seeded from wall-clock millis so a restart never reuses a nonce" (`docs/architecture/modules.md:230`) |
| `Messaging!EveryExchangeAnswered`, `CrowdedScenarios` | `forget_route` moves the newest route into the freed slot, so the next eviction takes an exchange still waiting to send its body (`e2ee_router/mod.rs:379`) | "Full: the oldest entry goes" (`mod.rs:367`) |

### Other observations

No document says otherwise, or the models do not reach them, but they are worth
a reader's time:

* An operation that times out does not withdraw its ledger request.  A rotation
  whose grant swap fails leaves its creation under the next epoch, and every
  later rotation of that resource then conflicts; only an erasure clears it.  A
  creation whose set write fails leaves a grant that can be neither recorded,
  rotated nor created again.
* An attachment that read the grant before an erasure replaced it still orders
  its release afterwards; the custodians' memory of the erasure refuses it.
* `authcode` has no timeout: a ledger answer that is lost parks one of its eight
  slots for ever.  While a mint call is held for a mint that is down,
  `drain_state` and `drain_requests` read nothing, so `/authorize`, which needs
  no mint, waits too.  An exchange whose swap was applied but reported
  unavailable is refused, and its code is spent.  The scope a client asks for is
  not read: a code always carries the registered scope, wider or not.
* A custodian that is silent, rather than refusing, never brings in the third
  share: the release ends by its deadline.
* A renewal whose audit write fails is withheld after its chain was advanced, so
  the device must attach again (the documents say so).
* On the lattice lane an expired record still makes a create conflict, and a
  slot whose answer is lost is never freed.
* On the object backend `expiry_unix` is not kept, a delete is acknowledged
  without a fence check, a HEAD refused with ENXIO is "not found" whatever its
  fence, and the etag read back after a commit may already be another holder's
  (`AcksAreTrue` states what does hold).
* Enrolment: `drain_state` keeps 256 bytes of a record, so an authenticator's
  confirmation and counter are cut off and a one-time code can be shown again,
  and a rewrite loses `sub` and `iss` although "Everything the ledger held is
  carried across" (`enrollment_endpoint/mod.rs:2475`).  A commit that conflicts
  may have met another tenant's record.  `drain_state` does not look at the
  outbox and can write over a held answer.  A revocation is published when its
  swap conflicted, too (`wellknown_endpoint/mod.rs:704`).
* With the mint down and a call held the token endpoint stalls until the carrier
  drops the call.
* Keys: activation retires the active key of another issuer of the same profile;
  a key added again is demoted, though the record is called idempotent; a
  refused re-add closes the key in use; an announcement overtaken by a removal
  brings the key back at the verifiers.  A key that is dated, still to be opened
  or refused can be activated in the operator's plan and sign nothing at the
  mint, which goes on with the outgoing key or, that one retired, with none.
* Grants: the transfer-grant service and the custody authority are the same
  client to the ledger and both count correlations from 1.  A deadline is set
  once per act and not per stage.  A second act that expires in one tick loses
  its answer when the first is held, and a custody verdict is dropped on a full
  edge.  Custody evidence is admitted again once the ledger's record lapses
  (`OneEnd` says how long it is not).  A
  publication can be revoked by another tenant's producer.
* Secret store: a torn rewrite in place can lose records that were durable
  before it; an open that fails at the start begins with an empty store, as if there
  were no file, and the next change writes it over the file (`secret_store/mod.rs:861`,
  where a failed read is memory-only so as not to overwrite); a new key leaves the old records unreadable and
  `rotate` cannot seal them again; `list` with a malformed prefix lists all.
* Messaging: an expired one-time package keeps its slot, so a pool can be full
  with nothing to claim.  An answer longer than the credit given is not sent,
  after a claim has spent its package.  The router drops its own 404 and 503 if
  the response edge is full.  Ownership of a ratchet state is a prefix of bytes,
  which separates devices only if no device's id is a prefix of another's.  The
  credential endpoint does not look at revocation, asks no nonce of its own, and
  its pending slots have no deadline.  A restart loses what "committed" says is
  durable.

## 7. Not modelled

Byte layouts, signatures and their encodings (JOSE, DER, CBOR, RPKI objects),
HTTP parsing, benchmarks and test vectors: pure data or I/O.  The provider, the
replicated store, the vault, the exchange carrier and the operators are outside
this repository and are modelled only as far as the code uses them.  Left for
later, with their reasons in `PROJECT.json`: the storage-key, certificate and
service-DNS endpoints, the resource gate, control acts, operation scopes and
carrier credentials.
