------------------------------ MODULE MCSuspension ------------------------------
EXTENDS Suspension

CONSTANTS k1, k2

OnePid == [k \in Keys |-> 10]
================================================================================
