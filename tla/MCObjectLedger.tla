---------------------------- MODULE MCObjectLedger ----------------------------
(* Small instances of the object-backed ledger.                              *)
EXTENDS ObjectLedger, TLC

CONSTANTS c1, c2, kd, kr, kx, short, long

MCSizeOf == [v \in Values |-> IF v = long THEN 2 ELSE 1]
MCNsOf   == [k \in Keys |-> IF k = kd THEN "device"
                            ELSE IF k = kr THEN "rate" ELSE "unknown"]

=============================================================================
