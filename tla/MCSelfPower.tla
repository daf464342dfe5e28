------------------------------- MODULE MCSelfPower -------------------------------
EXTENDS SelfPower
================================================================================
