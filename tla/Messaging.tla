------------------------------ MODULE Messaging -----------------------------
(***************************************************************************)
(* Messaging: the router (e2ee_router/mod.rs) between the listener and the *)
(* three endpoints, the exchanges that go through it, and the directory    *)
(* the credential endpoint asks.                                           *)
(*                                                                         *)
(* A request is a HEAD, with its body or followed by a BODY that the       *)
(* endpoint grants credit for, and perhaps an ABORT.  Exchanges are        *)
(* numbered in the order they are opened and never reused.  An edge holds  *)
(* EdgeCapacity records and takes a record whenever it can be written to.  *)
(***************************************************************************)
EXTENDS KeyPackages, RatchetState, MessagingCredential, Ports

CONSTANTS
    Scenarios,      \* what is asked, how often, and what may change
    MaxRoutes,      \* MAX_ROUTES
    MaxExchanges,   \* MAX_EXCHANGES
    WindowSize      \* proofs an endpoint's replay window remembers

(* A scenario starts at some time, and what is asked names what it has.    *)
ASSUME MgBodies ==
    \A s \in Scenarios :
        /\ s.start \in Nat
        /\ \A b \in s.asks :
              /\ {"path", "names"} \subseteq DOMAIN b
              /\ b.path = "publish" =>
                    {"gen", "until"} \subseteq DOMAIN b /\ b.gen \in Nat /\ b.until \in Nat
              /\ b.path = "commit" =>
                    /\ {"expected", "marker"} \subseteq DOMAIN b /\ b.expected \in Nat
                    /\ b.marker.epoch \in Nat /\ b.marker.gen \in Nat
              /\ b.path = "credential" => b.names \in DOMAIN s.dir

(***************************************************************************)
(* A scenario: asks, what may be asked, and reqs, how often; inflight, how *)
(* many exchanges the listener keeps open; and bounds on aborts, on ticks  *)
(* of the clock, on key records and on changes of the directory.           *)
(***************************************************************************)
VARIABLES
    scn,
    ask,            \* ask[x]: what was asked, with what had been answered by then
    stage,          \* stage[x]: what the listener has sent and read of x
    got,            \* got[x]: x's answer
    requests,       \* the edge from the listener to the router
    lanes,          \* lanes[e]: the edge from the router to endpoint e
    held,           \* the record the router could not place, with its lane
    routes,         \* the live routes, in the order of their slots
    answer, turn,   \* the answer the router holds, and the lane to look at first
    outs,           \* outs[e]: what endpoint e placed or holds
    responses,      \* the edge from the router to the listener
    collecting,     \* collecting[e]: the exchanges whose body e waits for
    windows,        \* windows[e]: proofs endpoint e remembers
    keyset,         \* an issuer's key is known to the endpoints
    now,            \* the clock, 0 for none worth believing
    dir, was,       \* the directory, and what it held of x's device since x was opened
    aborts, changes

exchange  == <<ask, stage, got>>
router    == <<requests, held, routes, answer, turn, responses>>
endpoints == <<lanes, outs, collecting, windows>>
tables    == <<pools, states>>
world     == <<scn, keyset, now, dir, was, aborts, changes>>
vars      == <<exchange, router, endpoints, tables, keyVars, lookup, world>>

Endpoints == <<"credential", "keypackages", "state">>
Lanes     == {Endpoints[n] : n \in 1 .. 3}

Opened    == Len(ask)
Xs        == 1 .. Opened

Rec(kind, x)  == [kind |-> kind, x |-> x]
HasRoom(edge) == Len(edge) < EdgeCapacity

(* The longest of the router's prefixes that a path starts with.           *)
Owner(b) ==
    CASE b.path \in {"publish", "claim", "keypackages_other"} -> "keypackages"
      [] b.path \in {"load", "commit"}                        -> "state"
      [] b.path = "credential"                                -> "credential"
      [] OTHER                                                -> "nobody"

(***************************************************************************)
(* The listener.                                                           *)
(***************************************************************************)
Busy == {x \in Xs : stage[x] \in {"opened", "granted", "sent"}}

(* A client draws a proof of its own, or presents one it has used.         *)
AskedNow(b) ==
    [f \in DOMAIN b \cup {"proof", "at", "since"} |->
        CASE f = "proof" -> IF b.proof = 0 THEN Opened + 1 ELSE b.proof
          [] f = "at"    -> now
          [] f = "since" -> {x \in Xs : stage[x] = "answered"}
          [] OTHER       -> b[f]]

OpenExchange ==
    /\ Opened < scn.reqs /\ Cardinality(Busy) < scn.inflight /\ HasRoom(requests)
    /\ \E b \in scn.asks :
          /\ ask' = Append(ask, AskedNow(b))
          /\ stage' = Append(stage, IF b.streams THEN "opened" ELSE "sent")
          /\ was' = Append(was, IF b.path = "credential" THEN {dir[b.names]} ELSE {})
    /\ got' = Append(got, [status |-> "none"])
    /\ requests' = Append(requests, Rec("head", Opened + 1))
    /\ UNCHANGED <<held, routes, answer, turn, responses, endpoints, tables, keyVars, lookup,
                   scn, keyset, now, dir, aborts, changes>>

SendBody(x) ==
    /\ stage[x] = "granted" /\ HasRoom(requests)
    /\ stage' = [stage EXCEPT ![x] = "sent"]
    /\ requests' = Append(requests, Rec("body", x))
    /\ UNCHANGED <<ask, got, held, routes, answer, turn, responses, endpoints, tables, keyVars,
                   lookup, world>>

AbortExchange(x) ==
    /\ stage[x] \in {"opened", "granted", "sent"} /\ aborts < scn.aborts /\ HasRoom(requests)
    /\ stage' = [stage EXCEPT ![x] = "aborted"]
    /\ requests' = Append(requests, Rec("abort", x))
    /\ aborts' = aborts + 1
    /\ UNCHANGED <<ask, got, held, routes, answer, turn, responses, endpoints, tables, keyVars,
                   lookup, scn, keyset, now, dir, was, changes>>

(* A record of an exchange that is over is dropped.                        *)
ReadResponse ==
    /\ responses # <<>>
    /\ responses' = Tail(responses)
    /\ LET r == Head(responses)
       IN CASE r.kind = "grant" /\ stage[r.x] = "opened" ->
                  stage' = [stage EXCEPT ![r.x] = "granted"] /\ UNCHANGED got
            [] r.kind = "answer" /\ r.x \in Busy ->
                  stage' = [stage EXCEPT ![r.x] = "answered"] /\ got' = [got EXCEPT ![r.x] = r.says]
            [] OTHER -> UNCHANGED <<stage, got>>
    /\ UNCHANGED <<ask, requests, held, routes, answer, turn, endpoints, tables, keyVars, lookup,
                   world>>

(***************************************************************************)
(* The router.                                                             *)
(***************************************************************************)
RoutesOf(x) == {n \in DOMAIN routes : routes[n].x = x}

(* remember_route: with the table full the entry in front goes.            *)
RememberRoute(x, e) ==
    IF Len(routes) < MaxRoutes THEN Append(routes, [x |-> x, e |-> e])
                               ELSE Append(Tail(routes), [x |-> x, e |-> e])

(* forget_route: the last entry takes its place.                           *)
ForgetRoute(x) ==
    LET n == Min(RoutesOf(x))
    IN SubSeq([routes EXCEPT ![n] = routes[Len(routes)]], 1, Len(routes) - 1)

(* Mutant: a record that cannot be placed is dropped.                      *)
MutForward(r, e) ==
    /\ held' = <<>>
    /\ lanes' = IF HasRoom(lanes[e]) THEN [lanes EXCEPT ![e] = Append(@, r)] ELSE lanes

(* Placed on the endpoint's edge, or held.                                 *)
Forward(r, e) ==
    IF HasRoom(lanes[e]) THEN lanes' = [lanes EXCEPT ![e] = Append(@, r)] /\ held' = <<>>
                         ELSE held' = <<r, e>> /\ UNCHANGED lanes

(* reply: the router's own answer, if the edge can be written to now and   *)
(* the credit covers it.                                                   *)
Reply(x, status) ==
    responses' = IF HasRoom(responses) /\ ask[x].credit
                 THEN Append(responses, [kind |-> "answer", x |-> x, says |-> [status |-> status]])
                 ELSE responses

(* route, with nothing held: a HEAD goes by its path, and later records go *)
(* where it went.                                                          *)
RouteRecord ==
    /\ held = <<>> /\ requests # <<>>
    /\ requests' = Tail(requests)
    /\ LET r == Head(requests)
           e == Owner(ask[r.x])
       IN CASE r.kind = "head" /\ e = "nobody" ->
                  Reply(r.x, "not_found") /\ UNCHANGED <<held, lanes, routes>>
            [] r.kind = "head" /\ e \in scn.absent ->
                  Reply(r.x, "unavailable") /\ UNCHANGED <<held, lanes, routes>>
            [] r.kind = "head" /\ e \notin scn.absent \cup {"nobody"} ->
                  routes' = RememberRoute(r.x, e) /\ Forward(r, e) /\ UNCHANGED responses
            [] r.kind # "head" /\ RoutesOf(r.x) = {} ->
                  UNCHANGED <<held, lanes, routes, responses>>
            [] OTHER ->
                  /\ Forward(r, routes[Min(RoutesOf(r.x))].e)
                  /\ routes' = IF r.kind = "abort" THEN ForgetRoute(r.x) ELSE routes
                  /\ UNCHANGED responses
    /\ UNCHANGED <<exchange, answer, turn, outs, collecting, windows, tables, keyVars, lookup,
                   world>>

PlaceHeld ==
    /\ held # <<>> /\ HasRoom(lanes[held[2]])
    /\ Forward(held[1], held[2])
    /\ UNCHANGED <<exchange, requests, routes, answer, turn, responses, outs, collecting, windows,
                   tables, keyVars, lookup, world>>

(* forward_answers: one at a time, round robin.                            *)
TakeAnswer ==
    /\ answer = <<>>
    /\ \E step \in 0 .. 2 :
          LET lane(k) == ((turn + k) % 3) + 1
              e       == Endpoints[lane(step)]
          IN /\ outs[e] # <<>>
             /\ \A k \in 0 .. step - 1 : outs[Endpoints[lane(k)]] = <<>>
             /\ answer' = <<Head(outs[e])>>
             /\ outs' = [outs EXCEPT ![e] = Tail(@)]
             /\ turn' = lane(step) % 3
    /\ UNCHANGED <<exchange, requests, held, routes, responses, lanes, collecting, windows, tables,
                   keyVars, lookup, world>>

PlaceAnswer ==
    /\ answer # <<>> /\ HasRoom(responses)
    /\ responses' = responses \o answer /\ answer' = <<>>
    /\ UNCHANGED <<exchange, requests, held, routes, turn, endpoints, tables, keyVars, lookup,
                   world>>

(***************************************************************************)
(* The endpoints.                                                          *)
(***************************************************************************)
(* respond: an answer longer than its credit is not sent.                  *)
Respond(e, x, says) ==
    outs' = IF ask[x].credit
            THEN [outs EXCEPT ![e] = Placed(@, [kind |-> "answer", x |-> x, says |-> says])]
            ELSE outs

(* authenticate, ReplayWindow::offer: what refuses a presentation.         *)
Refused(e, b) ==
    CASE ~keyset                                       -> "unavailable"
      [] keyset /\ b.wrong = "absent"                  -> "invalid_client"
      [] keyset /\ b.wrong # "absent" /\ now = 0       -> "unavailable"
      [] OTHER -> IF b.wrong = "credential" \/ b.proof \in windows[e]
                     \/ Cardinality(windows[e]) = WindowSize
                  THEN "invalid_client" ELSE "none"

(* The window has the proof of a presentation that was good otherwise.     *)
Remember(e, b) ==
    windows' = IF Refused(e, b) = "none" THEN [windows EXCEPT ![e] = @ \cup {b.proof}] ELSE windows

(* handle_request of the key-package endpoint.                             *)
HandlePackages(x, b) ==
    IF b.path = "keypackages_other" \/ b.wrong = "method"
      THEN Respond("keypackages", x, [status |-> "not_found"]) /\ UNCHANGED <<windows, pools>>
      ELSE /\ Remember("keypackages", b)
           /\ LET why == Refused("keypackages", b)
                  o   == IF b.path = "claim" THEN ClaimPackage(b, now) ELSE Publish(x, b)
              IN IF why # "none"
                   THEN Respond("keypackages", x, [status |-> why]) /\ UNCHANGED pools
                   ELSE Respond("keypackages", x, o.says) /\ pools' = o.pools

(* handle_request of the state endpoint.                                   *)
HandleState(x, b) ==
    IF b.wrong = "method"
      THEN Respond("state", x, [status |-> "not_found"]) /\ UNCHANGED <<windows, states>>
      ELSE /\ Remember("state", b)
           /\ LET why == Refused("state", b)
                  o   == IF b.path = "load" THEN LoadState(b) ELSE CommitState(x, b)
              IN IF why # "none"
                   THEN Respond("state", x, [status |-> why]) /\ UNCHANGED states
                   ELSE Respond("state", x, o.says) /\ states' = o.states

(* handle_request of the credential endpoint: answered now, or once the    *)
(* directory has answered.                                                 *)
HandleCredential(x, b) ==
    IF b.wrong = "method"
      THEN Respond("credential", x, [status |-> "not_found"]) /\ UNCHANGED lookup
      ELSE IF Accept(b) = "waits" THEN Wait(x, b) /\ UNCHANGED outs
      ELSE Respond("credential", x, [status |-> Accept(b)]) /\ UNCHANGED lookup

Handle(e, x) ==
    CASE e = "keypackages" -> HandlePackages(x, ask[x]) /\ UNCHANGED <<states, lookup>>
      [] e = "state"       -> HandleState(x, ask[x]) /\ UNCHANGED <<pools, lookup>>
      [] e = "credential"  -> HandleCredential(x, ask[x]) /\ UNCHANGED <<tables, windows>>

(* module_step, one record: with nothing owed, a request that is whole is  *)
(* handled, one that is not is granted credit, and one that the collector  *)
(* has no room for is refused, in an answer that no credit is needed for.  *)
TakeRecord(e) ==
    /\ Clears(outs[e]) /\ lanes[e] # <<>>
    /\ lanes' = [lanes EXCEPT ![e] = Tail(@)]
    /\ LET r == Head(lanes[e])
       IN CASE r.kind = "head" /\ ~ask[r.x].streams ->
                  Handle(e, r.x) /\ UNCHANGED collecting
            [] r.kind = "head" /\ ask[r.x].streams /\ Cardinality(collecting[e]) < MaxExchanges ->
                  /\ collecting' = [collecting EXCEPT ![e] = @ \cup {r.x}]
                  /\ outs' = [outs EXCEPT ![e] = Placed(@, Rec("grant", r.x))]
                  /\ UNCHANGED <<windows, tables, lookup>>
            [] r.kind = "head" /\ ask[r.x].streams
                  /\ ~(Cardinality(collecting[e]) < MaxExchanges) ->
                  /\ outs' = [outs EXCEPT ![e] = Placed(@, [kind |-> "answer", x |-> r.x,
                                                  says |-> [status |-> "unavailable"]])]
                  /\ UNCHANGED <<collecting, windows, tables, lookup>>
            [] r.kind = "body" /\ r.x \in collecting[e] ->
                  Handle(e, r.x) /\ collecting' = [collecting EXCEPT ![e] = @ \ {r.x}]
            [] OTHER ->
                  /\ collecting' = [collecting EXCEPT ![e] = @ \ {r.x}]
                  /\ UNCHANGED <<outs, windows, tables, lookup>>
    /\ UNCHANGED <<exchange, router, keyVars, world>>

(* drain_directory: with nothing owed, an answer finds the request that    *)
(* waits for it.                                                           *)
DrainDirectory ==
    /\ Clears(outs["credential"]) /\ found # <<>>
    /\ found' = Tail(found)
    /\ \A p \in Waiting(Head(found).corr) :
          Respond("credential", p.x, Issue(p.ask, Head(found).holds))
    /\ Waiting(Head(found).corr) = {} => UNCHANGED outs
    /\ pending' = pending \ Waiting(Head(found).corr)
    /\ UNCHANGED <<exchange, router, lanes, collecting, windows, tables, keyVars, nextCorr, lookups,
                   world>>

TakeKey ==
    /\ TakeKeyRecord
    /\ UNCHANGED <<exchange, router, endpoints, tables, lookup, world>>

(* drain_verify_key: the first key of an issuer.                           *)
TakeVerifyKey ==
    /\ ~keyset /\ keyset' = TRUE
    /\ UNCHANGED <<exchange, router, endpoints, tables, keyVars, lookup, scn, now, dir, was, aborts,
                   changes>>

(***************************************************************************)
(* The directory, the clock.                                               *)
(***************************************************************************)
(* Lookups may overtake one another and may fail.                          *)
AnswerLookup ==
    /\ \E n \in DOMAIN lookups :
          LET l == lookups[n]
          IN /\ lookups' = SubSeq(lookups, 1, n - 1) \o SubSeq(lookups, n + 1, Len(lookups))
             /\ \/ found' = Append(found, [corr |-> l.corr, holds |-> dir[l.dev]])
                \/ /\ scn.faults
                   /\ found' = Append(found, [corr  |-> l.corr,
                                              holds |-> [status |-> "unavailable"]])
    /\ UNCHANGED <<exchange, router, endpoints, tables, keyVars, pending, nextCorr, world>>

(* Enrolment enrols a device, enrols it again with another key, or removes *)
(* it.                                                                     *)
ChangeDirectory ==
    /\ changes < scn.changes
    /\ changes' = changes + 1
    /\ \E d \in DOMAIN dir, r \in scn.records :
          /\ dir' = [dir EXCEPT ![d] = r]
          /\ was' = [x \in Xs |-> IF ask[x].path = "credential" /\ ask[x].names = d
                                  THEN was[x] \cup {r} ELSE was[x]]
    /\ UNCHANGED <<exchange, router, endpoints, tables, keyVars, lookup, scn, keyset, now, aborts>>

Tick ==
    /\ now < scn.until /\ now' = now + 1
    /\ UNCHANGED <<exchange, router, endpoints, tables, keyVars, lookup, scn, keyset, dir, was,
                   aborts, changes>>

(***************************************************************************)
(* The specification.                                                      *)
(***************************************************************************)
Init ==
    /\ scn \in Scenarios
    /\ ask = <<>> /\ stage = <<>> /\ got = <<>> /\ was = <<>>
    /\ requests = <<>> /\ held = <<>> /\ routes = <<>> /\ answer = <<>> /\ turn = 0
    /\ responses = <<>>
    /\ lanes = [e \in Lanes |-> <<>>] /\ outs = [e \in Lanes |-> <<>>]
    /\ collecting = [e \in Lanes |-> {}] /\ windows = [e \in Lanes |-> {}]
    /\ pools = <<>> /\ states = << >>
    /\ signing = 0 /\ kid = 0 /\ keyHeld = 0 /\ keys = scn.keys
    /\ pending = {} /\ nextCorr = 1 /\ lookups = <<>> /\ found = <<>>
    /\ keyset = scn.keyset /\ now = scn.start /\ dir = scn.dir
    /\ aborts = 0 /\ changes = 0

(* What each module's step does when there is something for it to do.      *)
Progress ==
    \/ RouteRecord \/ PlaceHeld \/ TakeAnswer \/ PlaceAnswer
    \/ \E e \in Lanes : TakeRecord(e)
    \/ DrainDirectory \/ AnswerLookup
    \/ ReadResponse

Next ==
    \/ Progress
    \/ OpenExchange
    \/ \E x \in Xs : SendBody(x) \/ AbortExchange(x)
    \/ TakeKey \/ TakeVerifyKey
    \/ ChangeDirectory \/ Tick

Spec     == Init /\ [][Next]_vars
FairSpec == Spec /\ WF_vars(Progress)

(***************************************************************************)
(* Properties.                                                             *)
(***************************************************************************)
Answered(status) == {x \in Xs : got[x].status = status}

(* A one-time package is handed to one claimer only, and whatever is       *)
(* handed out was published for the device asked for, had not expired when *)
(* it was asked for, and is of no generation that the device had rotated   *)
(* past by then: claim spends a package before it answers and pool_for     *)
(* empties a pool that rotates.                                            *)
PackagesGoOnce ==
    \A x \in Answered("claimed") :
       LET p == got[x].package
       IN /\ ask[p.of].dev = ask[x].names
          /\ ask[x].at < p.until
          /\ p.once => \A y \in Answered("claimed") \ {x} : got[y].package.of # p.of
          /\ \A y \in ask[x].since :
                got[y].status = "published" /\ ask[y].dev = ask[x].names => ask[y].gen <= p.gen

(* The commits of an endpoint form one line, whoever raced and retried:    *)
(* a revision is given once and to the commit made from the one before     *)
(* it, positions only move forward along it, a load is answered with what  *)
(* was committed under the revision it names and with nothing older than   *)
(* what had been answered when it was asked, and nothing is answered after *)
(* an endpoint was reported stopped.                                       *)
CommitsAreOneLine ==
    \A x, y \in {z \in Xs : "revision" \in DOMAIN got[z]} :
       ask[x].key = ask[y].key =>
         /\ got[x].status = "committed" => got[x].revision = ask[x].expected + 1
         /\ got[x].status = "committed" /\ got[y].status = "committed" /\ x # y =>
              /\ got[x].revision # got[y].revision
              /\ got[x].revision < got[y].revision => AdvancesOn(ask[y].marker, ask[x].marker)
         /\ got[x].status = "committed" /\ got[y].status = "loaded"
               /\ got[x].revision = got[y].revision
              => got[y].of = x /\ got[y].marker = ask[x].marker
         /\ x \in ask[y].since => got[x].revision <= got[y].revision
         /\ \A z \in ask[y].since :
               got[z].status \in {"rolled_back", "poisoned"} => ask[z].key # ask[y].key

(* A credential is what its own exchange asked for: it names that device,  *)
(* binds the key that was proved, which the directory held for the device  *)
(* at some moment of the exchange, under the tenant held with it, and      *)
(* names the key that signed it.                                           *)
CredentialsAreBound ==
    \A x \in Answered("issued") :
       /\ got[x].sub = ask[x].names
       /\ got[x].jwk = ask[x].proves
       /\ \E r \in was[x] : r.status = "ok" /\ r.jkt = got[x].jwk /\ r.tid = got[x].tid
       /\ got[x].kid = got[x].by

(* As many exchanges were routed after x as the router remembers.          *)
Overtaken(x) ==
    Cardinality({y \in x + 1 .. Opened : Owner(ask[y]) \notin scn.absent \cup {"nobody"}})
      >= MaxRoutes

(* An exchange that waits for credit or for its answer is served, unless   *)
(* its client gave it no credit for the answer, the router answers it      *)
(* itself, or more exchanges overtook it than the router remembers.        *)
EveryExchangeAnswered ==
    []<>(\A x \in Xs :
           \/ stage[x] \notin {"opened", "sent"}
           \/ ~ask[x].credit \/ Overtaken(x)
           \/ Owner(ask[x]) \in scn.absent \cup {"nobody"})
=============================================================================
