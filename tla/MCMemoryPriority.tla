---------------------------- MODULE MCMemoryPriority ----------------------------
EXTENDS MemoryPriority

CONSTANTS k1, k2

OnePid == [k \in Keys |-> 10]

TwoClaims == {[priority |-> 1, preservation |-> "Exact"],
              [priority |-> 3, preservation |-> "PreserveHigher"]}

OneClaim == {[priority |-> 1, preservation |-> "Exact"]}
================================================================================
