------------------------------ MODULE MCCpuLimiter ------------------------------
EXTENDS CpuLimiter

CONSTANTS p, c

\* One process, or an application and a process it starts.
OneKey == {p}
OneAncestors == [k \in OneKey |-> {}]
TwoKeys == {p, c}
TwoAncestors == [k \in TwoKeys |-> IF k = c THEN {p} ELSE {}]

================================================================================
