------------------------------- MODULE MCSettings -------------------------------
EXTENDS Settings

CONSTANTS a1, a2
================================================================================
