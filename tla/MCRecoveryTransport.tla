-------------------------- MODULE MCRecoveryTransport --------------------------
EXTENDS RecoveryTransport
================================================================================
