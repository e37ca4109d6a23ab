---------------------------- MODULE KeyRotation -----------------------------
(***************************************************************************)
(* The life of a signing key: an operator's records, the mint that opens   *)
(* and signs with the key they name (token_mint/mod.rs), the announcement  *)
(* of its public half, and the verifiers and the published set that learn  *)
(* it (verify_keyset.rs, token_verify/mod.rs, wellknown_endpoint/mod.rs).  *)
(*                                                                         *)
(* A key is named by issuer and kid, all of one profile; the public half   *)
(* and the vault label are the name.  An edge is read by each of its       *)
(* readers in its order, and two edges in no order.  A tick is long: every *)
(* edge is read within one.                                                *)
(***************************************************************************)
EXTENDS Naturals, FiniteSets, SequencesExt

CONSTANTS
    Keys,           \* key names, as [iss, kid]
    Scenarios,      \* see below
    MaxKeys,        \* MAX_KEYS of the mint and of the verifier
    MaxPublished,   \* MAX_KEYS of the published set
    MaxTtl,         \* the longest a token lives, in ticks
    LaneCapacity    \* records the announcement edge holds

ASSUME KeyBounds == MaxKeys \in Nat \ {0} /\ MaxPublished \in Nat \ {0} /\ MaxTtl \in Nat \ {0}

(***************************************************************************)
(* A scenario: the keys and their states as first added; the instant from  *)
(* which those to be activated may sign; the verbs an operator may send    *)
(* beside those of a rotation; and bounds on ticks, tokens, restarts and   *)
(* opens the vault puts off or refuses.                                    *)
(***************************************************************************)
VARIABLES
    scn,
    plan,       \* what the operator has sent: a state and a deadline for each key
    keys,       \* the mint's slots
    gate,       \* a verifier's slots
    jwks, turn, \* the published slots, and which is overwritten when all are taken
    ctrl,       \* ctrl[r]: records the operator sent that reader r has not read
    news,       \* news[r]: announcements reader r has not read
    tokens, clock, opens, restarts

minter    == <<keys, opens>>
readers   == <<gate, jwks, turn>>
edges     == <<ctrl, news>>
vars      == <<scn, plan, minter, readers, edges, tokens, clock, restarts>>

Verifiers == {"gate", "jwks"}
Readers   == {"mint"} \cup Verifiers
Empty     == [state |-> "empty"]

Quiet == \A r \in Readers : ctrl[r] = <<>> /\ (r \in Verifiers => news[r] = <<>>)

Live(table)    == {i \in DOMAIN table : table[i].state # "empty"}
Find(table, k) == {i \in Live(table) : table[i].name = k}
Lowest(S)      == CHOOSE i \in S : \A j \in S : i <= j

(* A due deadline; 0 is none.                                              *)
Past(deadline) == deadline # 0 /\ clock >= deadline

Record(k, state, after, until) ==
    [verb |-> "add", name |-> k, state |-> state, after |-> after, until |-> until]
Ref(verb, k, arg)       == [verb |-> verb, name |-> k, arg |-> arg]
(***************************************************************************)
(* The mint.                                                               *)
(***************************************************************************)
(* select_key, for the issuer's active key, between its two deadlines.     *)
Selectable(table, iss) ==
    {i \in Live(table) : /\ table[i].name.iss = iss /\ table[i].state = "active"
                         /\ clock >= table[i].after /\ ~Past(table[i].until)}

Slot(rec) ==
    [name |-> rec.name, state |-> rec.state, after |-> rec.after, until |-> rec.until,
     key |-> "awaiting"]

(* announce_public_key: what does not fit the edge is not sent.            *)
Announced(slot) ==
    IF \E r \in Verifiers : Len(news[r]) >= LaneCapacity THEN news
    ELSE [r \in Verifiers |-> Append(news[r], Record(slot.name, slot.state, slot.after, slot.until))]

(* settle_slot_open: the vault opens the slot's key, puts it off (E_AGAIN) *)
(* or refuses it, and then the slot is emptied.                            *)
Settles(i, slot) ==
    \/ /\ keys' = [keys EXCEPT ![i] = [slot EXCEPT !.key = "open"]]
       /\ news' = Announced(slot) /\ UNCHANGED opens
    \/ /\ opens < scn.putoffs /\ opens' = opens + 1
       /\ \E left \in {slot, Empty} : keys' = [keys EXCEPT ![i] = left]
       /\ UNCHANGED news

(* apply_key_add: in place, in a free slot, or not at all.                 *)
AddKey(rec) ==
    LET there == Find(keys, rec.name)
        room  == DOMAIN keys \ Live(keys)
    IN \/ there \cup room = {} /\ UNCHANGED <<keys, opens, news>>
       \/ there # {} /\ Settles(Lowest(there), Slot(rec))
       \/ there = {} /\ room # {} /\ Settles(Lowest(room), Slot(rec))

(* Mutant: the others stay active.                                         *)
MutActivated(k)  == [i \in DOMAIN keys |-> IF i \in Find(keys, k)
                                            THEN [keys[i] EXCEPT !.state = "active"] ELSE keys[i]]

(* MSG_KEY_ACTIVATE: whatever other key was active is retired, whichever   *)
(* issuer's it is.                                                         *)
Activated(k) ==
    [i \in DOMAIN keys |->
        CASE i \in Find(keys, k) -> [keys[i] EXCEPT !.state = "active"]
          [] i \in Live(keys) \ Find(keys, k) /\ keys[i].state = "active" /\ Find(keys, k) # {} ->
                [keys[i] EXCEPT !.state = "retired"]
          [] OTHER -> keys[i]]

Retired(table, k, until) ==
    [i \in DOMAIN table |-> IF i \in Find(table, k)
                              THEN [table[i] EXCEPT !.state = "retired", !.until = until]
                              ELSE table[i]]

Removed(table, k) == [i \in DOMAIN table |-> IF i \in Find(table, k) THEN Empty ELSE table[i]]

(* MSG_KEYSET_SNAPSHOT: all of it or nothing; every key opens again.       *)
Snapshot(recs) ==
    \/ Len(recs) > MaxKeys /\ UNCHANGED <<keys, opens, news>>
    \/ /\ Len(recs) <= MaxKeys
       /\ keys' = [i \in DOMAIN keys |-> IF i <= Len(recs) THEN Slot(recs[i]) ELSE Empty]
       /\ UNCHANGED <<opens, news>>

(* drain_key_material, one record.                                         *)
MintReads ==
    /\ ctrl["mint"] # <<>> /\ ctrl' = [ctrl EXCEPT !["mint"] = Tail(@)]
    /\ LET r == Head(ctrl["mint"]) IN
       \/ r.verb = "add" /\ AddKey(r)
       \/ r.verb = "snapshot" /\ Snapshot(r.recs)
       \/ r.verb = "activate" /\ keys' = Activated(r.name) /\ UNCHANGED <<opens, news>>
       \/ r.verb = "retire" /\ keys' = Retired(keys, r.name, r.arg) /\ UNCHANGED <<opens, news>>
       \/ r.verb = "remove" /\ keys' = Removed(keys, r.name) /\ UNCHANGED <<opens, news>>
    /\ UNCHANGED <<scn, plan, readers, tokens, clock, restarts>>

(* retry_awaiting_slots.                                                   *)
MintOpens(i) ==
    /\ i \in Live(keys) /\ keys[i].key = "awaiting" /\ Settles(i, keys[i])
    /\ UNCHANGED <<scn, plan, readers, ctrl, tokens, clock, restarts>>

(* handle_mint: the first that may sign, if its key is open.               *)
MintSigns(iss, ttl) ==
    /\ Cardinality(tokens) < scn.tokens
    /\ Selectable(keys, iss) # {}
    /\ LET s == keys[Lowest(Selectable(keys, iss))] IN
       s.key = "open" /\ tokens' = tokens \cup {[name |-> s.name, exp |-> clock + ttl]}
    /\ UNCHANGED <<scn, plan, minter, readers, edges, clock, restarts>>
(***************************************************************************)
(* The verifiers.                                                          *)
(***************************************************************************)
Known(rec) == [name |-> rec.name, state |-> rec.state, until |-> rec.until]

(* Keyset::apply and drain_key_material of token_verify: a full set takes  *)
(* no more.                                                                *)
Learned(table, rec) ==
    LET there == Find(table, rec.name)
        room  == DOMAIN table \ Live(table)
    IN IF there \cup room = {} THEN table
       ELSE [table EXCEPT ![IF there # {} THEN Lowest(there) ELSE Lowest(room)] = Known(rec)]

Applied(table, r) ==
    CASE r.verb = "add"      -> Learned(table, r)
      [] r.verb = "activate" -> [i \in DOMAIN table |-> IF i \in Find(table, r.name)
                                     THEN [table[i] EXCEPT !.state = "active"] ELSE table[i]]
      [] r.verb = "retire"   -> Retired(table, r.name, r.arg)
      [] r.verb = "remove"   -> Removed(table, r.name)

(* Mutant: a key that signs no more verifies no more.                      *)
MutSelects(k) == \E i \in Find(gate, k) : gate[i].state # "retired" /\ ~Past(gate[i].until)

(* Keyset::select, and select_key of token_verify.                         *)
Selects(k) == \E i \in Find(gate, k) : ~Past(gate[i].until)

(* handle_verify: the key the token names, and its window.                 *)
Accepts(t) == Selects(t.name) /\ clock < t.exp

(* wellknown drain_keys: a full set overwrites the next in turn; a retired *)
(* key stays published.                                                    *)
Published(rec) ==
    LET there == Find(jwks, rec.name)
        room  == DOMAIN jwks \ Live(jwks)
    IN IF there # {} THEN Lowest(there) ELSE IF room # {} THEN Lowest(room) ELSE turn

Publishes(r) ==
    CASE r.verb = "add" ->
            /\ jwks' = [jwks EXCEPT ![Published(r)] = Known(r)]
            /\ turn' = IF DOMAIN jwks = Live(jwks) /\ Find(jwks, r.name) = {}
                         THEN (turn % MaxPublished) + 1 ELSE turn
      [] r.verb = "remove" -> jwks' = Removed(jwks, r.name) /\ UNCHANGED turn
      [] OTHER             -> UNCHANGED <<jwks, turn>>

Reads(r, rec) ==
    \/ r = "gate" /\ gate' = Applied(gate, rec) /\ UNCHANGED <<jwks, turn>>
    \/ r = "jwks" /\ Publishes(rec) /\ UNCHANGED gate

(* From the operator, or from the mint.                                    *)
VerifierReads(r) ==
    /\ \/ /\ ctrl[r] # <<>> /\ Reads(r, Head(ctrl[r]))
          /\ ctrl' = [ctrl EXCEPT ![r] = Tail(@)] /\ UNCHANGED news
       \/ /\ news[r] # <<>> /\ Reads(r, Head(news[r]))
          /\ news' = [news EXCEPT ![r] = Tail(@)] /\ UNCHANGED ctrl
    /\ UNCHANGED <<scn, plan, minter, tokens, clock, restarts>>
(***************************************************************************)
(* The operator, by the rotation runbook.                                  *)
(***************************************************************************)
Sends(rs, rec) == ctrl' = [r \in Readers |-> IF r \in rs THEN Append(ctrl[r], rec) ELSE ctrl[r]]

Operates(p) == plan' = p /\ UNCHANGED <<scn, minter, readers, news, tokens, clock, restarts>>

Planned(k, state, until) == [plan EXCEPT ![k] = [state |-> state, until |-> until]]

(* Another key of its issuer's takes over from the active one.             *)
TakesOver(k) ==
    [j \in Keys |->
        CASE j = k -> [plan[j] EXCEPT !.state = "active"]
          [] j # k /\ j.iss = k.iss /\ plan[j].state = "active" ->
                [plan[j] EXCEPT !.state = "outgoing"]
          [] OTHER -> plan[j]]

(* The first key is added active, the others to be activated; those may be *)
(* dated.                                                                  *)
Dated(k) == IF scn.keys[k] = "added" THEN scn.after ELSE 0

OpAdd(k) ==
    /\ k \in DOMAIN scn.keys /\ plan[k].state = "none"
    /\ (scn.keys[k] = "active") <=> (\A j \in Keys : plan[j].state = "none")
    /\ Sends({"mint"}, Record(k, scn.keys[k], Dated(k), 0)) /\ Operates(Planned(k, scn.keys[k], 0))

(* Once it is in the published set.                                        *)
OpActivate(k) ==
    /\ plan[k].state = "added" /\ Find(jwks, k) # {}
    /\ Sends(Readers, Ref("activate", k, 0)) /\ Operates(TakesOver(k))

(* Past the longest lifetime.                                              *)
OpRetire(k) ==
    /\ plan[k].state = "outgoing"
    /\ Sends(Readers, Ref("retire", k, clock + MaxTtl))
    /\ Operates(Planned(k, "retired", clock + MaxTtl))

(* Once the deadline has passed.                                           *)
OpRemove(k) ==
    /\ plan[k].state = "retired" /\ Past(plan[k].until)
    /\ Sends(Readers, Ref("remove", k, 0)) /\ Operates(Planned(k, "removed", 0))

(* Back to the outgoing key: before it is retired or, if the scenario has  *)
(* it, at any time before it is removed; once the verbs before are read.   *)
OpRollback(k) ==
    /\ plan[k].state \in scn.rollback /\ Quiet
    /\ Sends(Readers, Ref("activate", k, 0)) /\ Operates(TakesOver(k))

SnapshotOf(S) ==
    LET rec(k) == Record(k, IF plan[k].state = "outgoing" THEN "retired" ELSE plan[k].state,
                         Dated(k), plan[k].until)
    IN [verb |-> "snapshot", recs |-> SetToSeq({rec(k) : k \in S})]

(* A mint that restarted has no keys until it is sent them.                *)
MintRestarts ==
    /\ restarts < scn.restarts /\ restarts' = restarts + 1
    /\ keys' = [i \in DOMAIN keys |-> Empty]
    /\ ctrl' = [ctrl EXCEPT !["mint"] =
                   <<SnapshotOf({k \in Keys : plan[k].state \notin {"none", "removed"}})>>]
    /\ UNCHANGED <<scn, plan, readers, news, tokens, clock, opens>>

Tick ==
    /\ clock < scn.ticks /\ Quiet /\ clock' = clock + 1
    /\ UNCHANGED <<scn, plan, minter, readers, edges, tokens, restarts>>
-----------------------------------------------------------------------------
Init ==
    /\ scn \in Scenarios
    /\ plan = [k \in Keys |-> [state |-> "none", until |-> 0]]
    /\ keys = [i \in 1 .. MaxKeys |-> Empty] /\ gate = keys
    /\ jwks = [i \in 1 .. MaxPublished |-> Empty] /\ turn = 1
    /\ ctrl = [r \in Readers |-> <<>>] /\ news = [r \in Verifiers |-> <<>>]
    /\ tokens = {} /\ clock = 1 /\ opens = 0 /\ restarts = 0

Next ==
    \/ MintReads \/ MintRestarts \/ Tick
    \/ \E i \in 1 .. MaxKeys : MintOpens(i)
    \/ \E k \in Keys, ttl \in 1 .. MaxTtl : MintSigns(k.iss, ttl)
    \/ \E r \in Verifiers : VerifierReads(r)
    \/ \E k \in Keys : OpAdd(k) \/ OpActivate(k) \/ OpRetire(k) \/ OpRemove(k) \/ OpRollback(k)

Spec == Init /\ [][Next]_vars
-----------------------------------------------------------------------------
(***************************************************************************)
(* Properties.                                                             *)
(***************************************************************************)
(* "Both public halves are published throughout, so credentials minted at  *)
(* any point during the rotation continue to verify" (runbook): once the   *)
(* edges are read, a verifier has the key of every token that is still in  *)
(* its window, unless the operator removed it.  The code has it for as     *)
(* long as no announcement finds its edge full (announce_public_key drops  *)
(* one that does), which edges of LaneCapacity = 3 do not in these runs.   *)
TokensVerify ==
    Quiet => \A t \in tokens : clock < t.exp /\ plan[t.name].state # "removed" => Accepts(t)

(* "New credentials carry the new kid" (runbook, Activate): once the edges *)
(* are read, whatever was activated, taken back or sent again to a mint    *)
(* that restarted, and whichever keys the vault put off or refused, what   *)
(* is signed is signed under the key that was activated last.  The code    *)
(* has it only while the mint holds that key: of a key whose slot the      *)
(* vault's refusal emptied, the activation finds nothing, and the mint     *)
(* goes on with the outgoing one.                                          *)
NewTokensCarryTheNewKey ==
    [][\A t \in tokens' \ tokens :
          Quiet /\ (\E k \in Keys : plan[k].state = "active" /\ Find(keys, k) # {})
          => plan[t.name].state = "active"]_vars
=============================================================================
