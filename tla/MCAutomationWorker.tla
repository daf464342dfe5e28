--------------------------- MODULE MCAutomationWorker ---------------------------
EXTENDS AutomationWorker

CONSTANT c1

off == {}
followed == {"enabled", "suspend", "timer"}
timed == {"enabled", "timer"}

\* Nothing asked for; a feature that follows the foreground and the input, on the battery only.
Few == {[ac |-> off, battery |-> off], [ac |-> off, battery |-> followed]}
\* The timer resolution on the battery, nothing on mains power.
Quiet == {[ac |-> off, battery |-> timed]}
================================================================================
