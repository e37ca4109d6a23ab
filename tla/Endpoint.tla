------------------------------ MODULE Endpoint ------------------------------
(***************************************************************************)
(* What the endpoints that keep their state in the ledger share: a table   *)
(* of pending slots, one ledger round trip at a time for each, and a port  *)
(* the answers leave on.                                                   *)
(*                                                                         *)
(* A handler is an operator from a slot's entry, and the ledger's answer   *)
(* to it, to the set of outcomes the step may have: what is kept in the    *)
(* slot, what is asked of the ledger, what is answered, and how many of    *)
(* the scenario's faults it used.                                          *)
(***************************************************************************)
EXTENDS LedgerClient, Ports, FiniteSets

CONSTANTS
    Scenarios,      \* what callers and environment may do, see each endpoint
    MaxReqs,        \* bound: requests presented in any scenario
    MaxPending      \* pending slots

VARIABLES
    scn,        \* the scenario
    led,        \* the ledger's records
    pend,       \* the slots
    next,       \* how many requests were taken, plus one
    wire, mail, \* requests the ledger has not decided; answers not taken
    outq,       \* answers placed or held
    answers,    \* answers callers have read
    faults, restarts

lane  == <<led, wire, mail>>
slots == <<pend, outq>>
frame == <<scn, lane, slots, next, answers, faults, restarts>>

Ids   == 1 .. MaxReqs
Slots == 1 .. MaxPending
Free  == [stage |-> "free"]
Live  == {k \in Slots : pend[k].stage # "free"}

FirstFree == CHOOSE k \in Slots \ Live : \A j \in Slots \ Live : k <= j

Answered == answers \cup {outq[n] : n \in DOMAIN outq}

(***************************************************************************)
(* Outcomes.                                                               *)
(***************************************************************************)
Verdict(e, status, body) == [id |-> e.id, req |-> e.req, status |-> status, body |-> body]

Says(e, status, body) ==
    [keep |-> Free, asks |-> {}, says |-> <<Verdict(e, status, body)>>, fault |-> 0]
Refuses(e, status) == Says(e, status, Nothing)

Request(e, stage, q) == [corr |-> <<e.id, stage>>, q |-> q]

(* One request to the ledger, under a correlation of its own; a frame that *)
(* does not leave refuses.                                                 *)
Asks(e, stage, q) ==
    {[keep |-> [e EXCEPT !.stage = stage], asks |-> {Request(e, stage, q)}, says |-> <<>>,
      fault |-> 0],
     [Refuses(e, "unavailable") EXCEPT !.fault = 1]}

(* The outcome, in slot k.                                                 *)
Perform(k, o) ==
    /\ faults + o.fault <= scn.faults /\ faults' = faults + o.fault
    /\ pend' = [pend EXCEPT ![k] = o.keep]
    /\ wire' = wire \cup o.asks
    /\ outq' = IF o.says = <<>> THEN outq ELSE Placed(outq, o.says[1])

(* The outcome, when no slot waits on it.                                  *)
PerformLoose(o) ==
    /\ faults + o.fault <= scn.faults /\ faults' = faults + o.fault
    /\ wire' = wire \cup o.asks
    /\ outq' = IF o.says = <<>> THEN outq ELSE Placed(outq, o.says[1])
    /\ UNCHANGED pend

(* The outcome of a request just taken: in the first free slot, if it is   *)
(* to wait.                                                                *)
PerformNew(o) ==
    \/ o.keep # Free /\ Perform(FirstFree, o)
    \/ o.keep = Free /\ PerformLoose(o)

(***************************************************************************)
(* Ledger answers.                                                         *)
(***************************************************************************)
At(m, k) == m \in mail /\ k \in Live /\ m.corr = <<pend[k].id, pend[k].stage>>

Taken(m) == mail' = mail \ {m} /\ UNCHANGED <<scn, led, next, answers, restarts>>

(* No slot waits on it.                                                    *)
IgnoreReply(m) ==
    /\ m \in mail /\ ~\E k \in Live : At(m, k)
    /\ Taken(m) /\ UNCHANGED <<slots, wire, faults>>

(***************************************************************************)
(* The callers and the ledger; seen is the ledger as its readers see it.   *)
(***************************************************************************)
ReadAnswer ==
    /\ outq # <<>>
    /\ answers' = answers \cup {Head(outq)} /\ outq' = Tail(outq)
    /\ UNCHANGED <<scn, lane, pend, next, faults, restarts>>

Settle(w, out) ==
    /\ led' = IF w.q.op = "get" THEN led ELSE out.led
    /\ wire' = wire \ {w}
    /\ mail' = mail \cup {[corr |-> w.corr, status |-> out.status, val |-> out.val]}
    /\ UNCHANGED <<scn, slots, next, answers, restarts>>

LedgerDecides(w, seen) ==
    /\ w \in wire
    /\ \E out \in Decided(IF w.q.op = "get" THEN seen ELSE led, w.q) : Settle(w, out)
    /\ UNCHANGED faults

LedgerFails(w) ==
    /\ w \in wire /\ faults < scn.faults
    /\ \E out \in Failed(led, w.q) : Settle(w, out)
    /\ faults' = faults + 1

(* The process restarts; the ledger does not, and what it was sent may     *)
(* still be applied.                                                       *)
ForgetAll ==
    /\ restarts < scn.restarts /\ restarts' = restarts + 1
    /\ pend' = [k \in Slots |-> Free] /\ outq' = <<>> /\ mail' = {}
    /\ UNCHANGED <<scn, led, wire, next, answers, faults>>

(* Nothing is waited for; records are in the ledger, past was answered.    *)
FrameInit(records, past) ==
    /\ scn \in Scenarios /\ led = records /\ answers = past
    /\ pend = [k \in Slots |-> Free] /\ next = 1
    /\ wire = {} /\ mail = {} /\ outq = <<>>
    /\ faults = 0 /\ restarts = 0
=============================================================================
