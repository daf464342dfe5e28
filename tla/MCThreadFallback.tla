---------------------------- MODULE MCThreadFallback ----------------------------
EXTENDS ThreadFallback, TLC

CONSTANTS t1, t2
================================================================================
