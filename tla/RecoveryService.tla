---------------------------- MODULE RecoveryService ----------------------------
(***************************************************************************)
(* What the recovery transport promises the controllers that use it        *)
(* (RecoveryIntent and the record_ and forget_ functions of                *)
(* src/src/backend/crash_recovery.rs): one command at a time takes effect  *)
(* in the helper's journal, once; its caller learns that it did, that it   *)
(* did not, or that nobody knows, and in the last case no later command is *)
(* accepted.  Transport thread, pipes and helper process are hidden.       *)
(***************************************************************************)
EXTENDS RecoveryJournal

CONSTANTS NoCall, NoCommand

VARIABLES
    journal,   \* the helper's committed edges and pending intents
    latched,   \* no further command is accepted
    call,      \* the command whose caller waits and what became of it, or NoCall
    limbo      \* an abandoned command that may still take effect, or NoCommand

serviceVars == <<journal, latched, call, limbo>>

Phases == {"sent", "landed", "refused"}

ASSUME CallAssumption ==
    NoCall \notin [command : Commands, phase : Phases] /\ NoCommand \notin Commands

ServiceTypeOK ==
    /\ journal \in JournalType
    /\ latched \in BOOLEAN
    /\ call \in [command : Commands, phase : Phases] \cup {NoCall}
    /\ limbo \in Commands \cup {NoCommand}

ServiceInit ==
    /\ journal = EmptyJournal
    /\ latched = FALSE
    /\ call = NoCall
    /\ limbo = NoCommand

Submit(command) ==
    /\ ~latched
    /\ call = NoCall
    /\ call' = [command |-> command, phase |-> "sent"]
    /\ UNCHANGED <<journal, latched, limbo>>

Called(phase) == call # NoCall /\ call.phase = phase

\* The command takes effect, or the helper refuses it.
Land ==
    /\ Called("sent")
    /\ journal' = Apply(journal, call.command)
    /\ call' = [call EXCEPT !.phase = "landed"]
    /\ UNCHANGED <<latched, limbo>>

Refuse ==
    /\ Called("sent")
    /\ call' = [call EXCEPT !.phase = "refused"]
    /\ UNCHANGED <<journal, latched, limbo>>

\* The caller learns that its own command took effect.
Acknowledge ==
    /\ Called("landed")
    /\ call' = NoCall
    /\ UNCHANGED <<journal, latched, limbo>>

\* The caller learns that its own command did not; it may then latch.
Reject ==
    /\ Called("refused")
    /\ call' = NoCall
    /\ latched' \in {latched, TRUE}
    /\ UNCHANGED <<journal, limbo>>

\* The caller does not learn which; the service accepts nothing more.
Abandon ==
    /\ call # NoCall
    /\ call' = NoCall
    /\ latched' = TRUE
    /\ limbo' \in IF call.phase = "sent" THEN {call.command, NoCommand} ELSE {NoCommand}
    /\ UNCHANGED journal

LateLand ==
    /\ limbo # NoCommand
    /\ journal' = Apply(journal, limbo)
    /\ limbo' = NoCommand
    /\ UNCHANGED <<latched, call>>

LateLoss ==
    /\ limbo # NoCommand
    /\ limbo' = NoCommand
    /\ UNCHANGED <<journal, latched, call>>

\* An owner gives up on an acknowledged intent it can neither commit nor cancel.
Latch ==
    /\ call = NoCall
    /\ latched' = TRUE
    /\ UNCHANGED <<journal, call, limbo>>

ServiceNext ==
    \/ \E command \in Commands : Submit(command)
    \/ Land \/ Refuse
    \/ Acknowledge \/ Reject \/ Abandon
    \/ LateLand \/ LateLoss
    \/ Latch

ServiceSpec == ServiceInit /\ [][ServiceNext]_serviceVars
================================================================================
