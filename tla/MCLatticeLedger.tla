---------------------------- MODULE MCLatticeLedger ----------------------------
(* Small instances of the lattice-backed ledger.                              *)
EXTENDS LatticeLedger, TLC

CONSTANTS c1, c2, kd, kp, kx, v1, v2

MCNsOf == [k \in Keys |-> IF k = kd THEN "device"
                          ELSE IF k = kp THEN "replay" ELSE "unknown"]
=============================================================================
