----------------------------- MODULE Generations ----------------------------
(***************************************************************************)
(* What the grant services share (transfer_grant_service.rs,               *)
(* custody_authority_service.rs, attachment_grant_service.rs).  Each act   *)
(* first reads a generation from the ledger; an operator's act advances    *)
(* it, and what was issued under an earlier one is void without the ledger *)
(* enumerating it.  Each service has a table of MaxOps acts, each with one *)
(* deadline for all of its ledger round trips.                             *)
(***************************************************************************)
EXTENDS Endpoint, FiniteSetsExt

CONSTANTS
    MaxOps,         \* acts one service has under way
    StageTimeout,   \* how long an act may wait on the ledger
    Scopes          \* what generations are kept for

(***************************************************************************)
(* A scenario: the requests callers may make, how many, and until when;    *)
(* the policy; the clock's first reading and its last; how many signing    *)
(* keys are delivered; whether the ledger may be silent; and bounds on     *)
(* faults and restarts.                                                    *)
(***************************************************************************)
VARIABLES
    now,        \* the trusted clock; 0 is none
    key,        \* the signing key that is open; 0 is none
    keys,       \* the keys delivered so far
    done,       \* what was decided for each request, told or not
    acked       \* acked[s]: the highest generation an advance was told done for

clock   == <<now, key, keys>>
history == <<done, acked>>
vars    == <<frame, clock, history>>

GenKey(s)     == <<"generation", s>>
Generation(n) == [kind |-> "generation", n |-> n]

(* decode_generation; none was written yet.                                *)
Current(m) == IF m.status = "ok" THEN m.val.n ELSE 0

Op(b) ==
    [stage |-> "new", id |-> next, req |-> b, deadline |-> now + StageTimeout, gen |-> 0,
     asof |-> acked[b.scope], doc |-> Nothing, end |-> "ok"]

Services == {"transfer", "custody", "attach"}

Busy(svc) == Cardinality({k \in Live : pend[k].req.svc = svc}) >= MaxOps

(* on_request, once the request is decided: why is "none", or its refusal. *)
Start(e, why) ==
    CASE key = 0        -> {Refuses(e, "no_issuer_key")}
      [] key # 0 /\ now = 0 -> {Refuses(e, "no_clock")}
      [] key # 0 /\ now # 0 /\ why # "none" -> {Refuses(e, why)}
      [] OTHER -> IF Busy(e.req.svc) THEN {Refuses(e, "busy")}
                  ELSE Asks(e, "generation", Get(GenKey(e.req.scope)))

(* A lifetime asked for, as the services clamp it.                         *)
Clamp(ttl, top) == Max({1, Min({ttl, top})})

(***************************************************************************)
(* Advancing a generation: INVALIDATE and REVOKE.                          *)
(***************************************************************************)
Advance(e, m) ==
    IF e.req.target <= Current(m) THEN {Refuses(e, "not_advanced")}
    ELSE Asks([e EXCEPT !.gen = e.req.target], "set",
              IF m.status = "ok"
                THEN CompareAndSwap(GenKey(e.req.scope), m.val, Generation(e.req.target))
                ELSE PutIfAbsent(GenKey(e.req.scope), Generation(e.req.target)))

Advanced(e, m) ==
    CASE m.status = "ok"       -> {Says(e, "ok", Generation(e.gen))}
      [] m.status = "conflict" -> {Refuses(e, "conflict")}
      [] OTHER                 -> {Refuses(e, "unavailable")}

(***************************************************************************)
(* Answers.  A provider's verdict is written or dropped, and nothing here  *)
(* depends on which; an exchange's answer goes to the exchange's port, and *)
(* a service steps while that port holds nothing.                          *)
(***************************************************************************)
Steps(svc) == svc = "custody" \/ Clears(outq)

Decides(says) ==
    /\ done' = done \cup says
    /\ acked' = [s \in Scopes |->
          Max({acked[s]} \cup {v.body.n : v \in {w \in says : w.body.kind = "generation"
                                                              /\ w.req.scope = s}})]

(* finish: the record that was signed, when the act was to sign one.       *)
Told(v) == IF v.body.kind = "doc" /\ v.req.op # "consume" THEN [v EXCEPT !.body = v.body.doc]
                                                          ELSE [v EXCEPT !.body = Nothing]

Enact(k, o) ==
    /\ faults + o.fault <= scn.faults /\ faults' = faults + o.fault
    /\ pend' = IF o.keep = Free /\ k \notin Live THEN pend ELSE [pend EXCEPT ![k] = o.keep]
    /\ wire' = wire \cup o.asks
    /\ outq' = IF o.says # <<>> /\ o.says[1].req.svc # "custody" THEN Placed(outq, Told(o.says[1])) ELSE outq
    /\ Decides({o.says[n] : n \in DOMAIN o.says})

(* A request just taken; the slots are enough for every table.             *)
Accept(outcomes) ==
    /\ next <= scn.reqs /\ now <= scn.asks
    /\ \E o \in outcomes : /\ o.keep = Free \/ Live # Slots
                           /\ Enact(IF Live = Slots THEN 0 ELSE FirstFree, o)
    /\ next' = next + 1
    /\ UNCHANGED <<scn, led, mail, answers, restarts, clock>>

(***************************************************************************)
(* tick: every act past its deadline is refused in one pass, in the order  *)
(* of the slots.  Once an answer is held, the next one is dropped (answer, *)
(* whose result finish does not look at).                                  *)
(***************************************************************************)
(* Mutant: only the first round trip has a deadline.                       *)
MutLate(k) == k \in Live /\ now > pend[k].deadline /\ pend[k].stage = "generation"

Late(k) == k \in Live /\ now > pend[k].deadline

Overdue(svc) == {k \in Live : Late(k) /\ pend[k].req.svc = svc}

(* The refusals of some slots, in their order.                             *)
LateRefusals(some) ==
    [n \in 1 .. Cardinality(some) |->
        Verdict(pend[CHOOSE k \in some : Cardinality({j \in some : j < k}) = n - 1],
                "unavailable", Nothing)]

(* Those the port has room for, onto it.                                   *)
Swept(svc) ==
    LET room == EdgeCapacity + 1 - Len(outq)
    IN outq \o LateRefusals({k \in Overdue(svc) :
                                Cardinality({j \in Overdue(svc) : j < k}) < room})

Tick(svc) ==
    /\ Overdue(svc) # {} /\ Steps(svc)
    /\ outq' = IF svc = "custody" THEN outq ELSE Swept(svc)
    /\ done' = done \cup {Verdict(pend[k], "unavailable", Nothing) : k \in Overdue(svc)}
    /\ pend' = [k \in Slots |-> IF k \in Overdue(svc) THEN Free ELSE pend[k]]
    /\ UNCHANGED <<scn, lane, next, answers, faults, restarts, clock, acked>>

(***************************************************************************)
(* The environment: time, the signing key, the ledger, restarts.           *)
(***************************************************************************)
TimePasses ==
    /\ now < scn.until /\ now' = now + 1
    /\ UNCHANGED <<frame, key, keys, history>>

(* drain_key: a record closes the key that is open, and opens its own at   *)
(* once or when the vault is ready.                                        *)
TakeKey ==
    /\ keys < scn.keys /\ keys' = keys + 1
    /\ key' \in {0, keys + 1}
    /\ UNCHANGED <<frame, now, history>>

RetryKey ==
    /\ key = 0 /\ keys # 0 /\ key' = keys
    /\ UNCHANGED <<frame, now, keys, history>>

(* A record that is past its expiry is gone.                               *)
Lapse(k) ==
    /\ led[k].kind = "state" /\ now > led[k].until
    /\ led' = [led EXCEPT ![k] = Nothing]
    /\ UNCHANGED <<scn, wire, mail, slots, next, answers, faults, restarts, clock, history>>

(* The ledger is silent: what it was sent is never answered.               *)
Silence(w) ==
    /\ w \in wire /\ scn.silent /\ faults < scn.faults /\ faults' = faults + 1
    /\ wire' = wire \ {w}
    /\ led' \in {out.led : out \in Decided(led, w.q) \cup {Outcome("none", Nothing, led)}}
    /\ UNCHANGED <<scn, mail, slots, next, answers, restarts, clock, history>>

Restart ==
    /\ ForgetAll
    /\ done' = done \cup {Verdict(pend[k], "lost", Nothing) : k \in Live}
    /\ key' = 0 /\ UNCHANGED <<now, keys, acked>>
=============================================================================
