------------------------------- MODULE Ports --------------------------------
(***************************************************************************)
(* An exchange port as a module that writes on it sees it: an edge that    *)
(* holds EdgeCapacity records, and an outbox of one, which holds a record  *)
(* the edge will not take yet.  A port is the sequence of the records on   *)
(* the edge, followed by the one held.                                     *)
(***************************************************************************)
EXTENDS Naturals, Sequences

CONSTANT EdgeCapacity

Clears(port) == Len(port) <= EdgeCapacity

(* send: placed on the edge, or held; a port that is holding loses what it *)
(* held, whose buffer the new record was written over.                     *)
Placed(port, r) == IF Clears(port) THEN Append(port, r)
                                   ELSE [port EXCEPT ![Len(port)] = r]
=============================================================================
