------------------------------ MODULE ThreadFallback ------------------------------
(***************************************************************************)
(* The CPU limiter's fallback for a process that Windows lets into no job  *)
(* (src/src/control/cpu_limiter/thread_fallback.rs): it adds one to the    *)
(* suspend count of every thread and takes it back in the awake phase.     *)
(* Each increment is recorded with the recovery service before the first   *)
(* suspension, and the record kept over the following cycles.  Other       *)
(* programs suspend and resume the same threads; the count does not say    *)
(* who did.                                                                *)
(*                                                                         *)
(* The caller is the limiter's worker (module CpuLimiter): freeze, then    *)
(* adopt the threads of an inventory, thaw at the end of the phase, and    *)
(* after any failure nothing but releases.  Each call to Windows or to the *)
(* service is a step.  Threads are visited in any order.                   *)
(***************************************************************************)
EXTENDS RecoveryClient

CONSTANTS
    MaxOthers,   \* bound on the suspensions by other programs, per thread
    NoManaged

ASSUME KeysAssumption == Keys # {}

ASSUME CountAssumption == MaxOthers \in Nat /\ 0..(MaxOthers + 1) \subseteq Values

VARIABLES
    pc, op, at,  \* the call in progress
    stage,       \* what the worker knows of the target
    managed,     \* ThreadFallbackTarget.threads
    mine,        \* the increments Winderust really holds, per thread
    others,      \* the increments of other programs
    life,        \* "unborn", "alive" or "exited"
    nextId       \* RecoveryRuntime.next_intent_id

callVars == <<pc, op, at, stage>>
worldVars == <<mine, others, life>>
threadVars == <<serviceVars, callVars, managed, worldVars, nextId, faults>>

Managed == [count : 0..MaxOthers, armed : BOOLEAN, owned : BOOLEAN]

ASSUME SentinelAssumption == NoManaged \notin Managed

Threads == {t \in Keys : managed[t] # NoManaged}

Owned == {t \in Threads : managed[t].owned}

Count(t) == mine[t] + others[t]

ThreadEdge(t) == [original |-> managed[t].count, expected |-> managed[t].count + 1]

NoOp == [kind |-> "none", todo |-> {}, changed |-> {}, ok |-> TRUE]

\* The thread at hand, the count its suspension found, whether its record is given up
\* once it is resumed, and where the call goes on.
At(t, then) == [thread |-> t, id |-> 0, prior |-> 0, forget |-> FALSE, then |-> then]

Goto(label) == pc' = label

Set(t, field, value) == managed' = [managed EXCEPT ![t][field] = value]

Drop(t) == managed' = [managed EXCEPT ![t] = NoManaged]

Ask(command) == Submit(command) /\ UNCHANGED <<callVars, managed, worldVars, nextId, faults>>

--------------------------------------------------------------------------------
(***************************************************************************)
(* How a call ends, and what the worker does next.                         *)
(***************************************************************************)
End(next) == pc' = "idle" /\ op' = NoOp /\ at' = [at EXCEPT !.id = 0, !.prior = 0] /\ stage' = next

\* A target whose call failed is only released from now on.
Fails == End("retiring")

\* Part of a rollback or a thaw fails: the call goes on and fails at its end.
Noted == op' = [op EXCEPT !.ok = FALSE]

--------------------------------------------------------------------------------
(***************************************************************************)
(* forget_thread and remove_inactive_thread(s).                            *)
(***************************************************************************)
\* A forgotten thread that was found exited is removed.
Forgotten(t) ==
    IF at.then \in {"prune", "resumeSuspending"} THEN Drop(t) ELSE Set(t, "armed", FALSE)

ForgetThread ==
    LET t == at.thread
    IN  /\ pc = "forget"
        /\ \/ managed[t].armed /\ Ask(Forget(t))
           \/ /\ (managed[t].armed /\ Granted) \/ (~managed[t].armed /\ UNCHANGED <<serviceVars, faults>>)
              /\ Forgotten(t) /\ Goto(at.then)
              /\ UNCHANGED <<op, at, stage, worldVars, nextId>>
           \/ /\ managed[t].armed /\ Denied
              /\ IF at.then = "prune" THEN Fails
                 ELSE Noted /\ Goto(IF at.then = "resumeSuspending" THEN "rollback" ELSE at.then)
                      /\ UNCHANGED <<at, stage>>
              /\ UNCHANGED <<managed, worldVars, nextId>>

\* remove_inactive_threads: exited threads hold no increment any more.
Prune ==
    /\ pc = "prune"
    /\ \/ \E t \in op.todo :
            \/ /\ life[t] = "alive" /\ op' = [op EXCEPT !.todo = @ \ {t}]
               /\ UNCHANGED <<pc, at, stage, managed, faults>>
            \/ /\ life[t] = "exited" /\ op' = [op EXCEPT !.todo = @ \ {t}]
               /\ Set(t, "owned", FALSE)
               /\ at' = At(t, "prune") /\ Goto("forget")
               /\ UNCHANGED <<stage, faults>>
            \/ Fault /\ Fails /\ UNCHANGED managed
       \/ /\ op.todo = {}
          /\ IF op.kind = "freeze"
             THEN op' = [op EXCEPT !.todo = Threads \ Owned] /\ Goto("suspend")
             ELSE op' = [op EXCEPT !.todo = op.changed, !.changed = {}] /\ Goto("capture")
          /\ UNCHANGED <<at, stage, managed, faults>>
    /\ UNCHANGED <<serviceVars, worldVars, nextId>>

\* Threads of the inventory that are not managed yet.
Unknown == op.todo \ Threads

\* They are captured, opened and added.
Capture ==
    LET unknown == Unknown
    IN  /\ pc = "capture"
        /\ \/ /\ \A t \in unknown : life[t] = "alive"
              /\ managed' = [t \in Keys |->
                    IF t \in unknown THEN [count |-> Count(t), armed |-> FALSE, owned |-> FALSE]
                    ELSE managed[t]]
              /\ op' = [op EXCEPT !.todo = unknown] /\ Goto("suspend")
              /\ UNCHANGED <<at, stage, faults>>
           \/ /\ \E t \in unknown : life[t] # "alive"
              /\ Fails /\ UNCHANGED <<managed, faults>>
           \/ unknown # {} /\ Fault /\ Fails /\ UNCHANGED managed
        /\ UNCHANGED <<serviceVars, worldVars, nextId>>

--------------------------------------------------------------------------------
(***************************************************************************)
(* freeze_threads and suspend_thread.                                      *)
(***************************************************************************)
NextThread ==
    /\ pc = "suspend"
    /\ \/ \E t \in op.todo :
            /\ op' = [op EXCEPT !.todo = @ \ {t}]
            /\ at' = At(t, "failed")
            /\ Goto(IF managed[t].armed THEN "suspendOnce" ELSE "begin")
            /\ UNCHANGED stage
       \/ op.todo = {} /\ End(IF op.kind = "freeze" THEN "known" ELSE "frozen")
    /\ UNCHANGED <<serviceVars, managed, worldVars, nextId, faults>>

\* Mutant of BeginSuspension: a failed Begin does not stop the suspension.
BeginIgnored ==
    /\ pc = "begin"
    /\ \/ /\ Submit(Begin(nextId, at.thread, ThreadEdge(at.thread)))
          /\ at' = [at EXCEPT !.id = nextId]
          /\ nextId' = nextId + 1
          /\ UNCHANGED <<pc, faults>>
       \/ (Granted \/ Denied) /\ Goto("suspendOnce") /\ UNCHANGED <<at, nextId>>
    /\ UNCHANGED <<op, stage, managed, worldVars>>

\* Bound: once the ids are used up no further record is begun.
BeginSuspension ==
    /\ pc = "begin"
    /\ \/ /\ nextId \in Ids
          /\ Submit(Begin(nextId, at.thread, ThreadEdge(at.thread)))
          /\ at' = [at EXCEPT !.id = nextId]
          /\ nextId' = nextId + 1
          /\ UNCHANGED <<pc, faults>>
       \/ Granted /\ Goto("suspendOnce") /\ UNCHANGED <<at, nextId>>
       \/ /\ \/ Denied
             \/ call = NoCall /\ Fault /\ UNCHANGED serviceVars
             \/ call = NoCall /\ nextId \notin Ids /\ UNCHANGED <<serviceVars, faults>>
          /\ Goto("failed") /\ UNCHANGED <<at, nextId>>
    /\ UNCHANGED <<op, stage, managed, worldVars>>

\* The intent of a suspension that failed is dropped, whatever becomes of its Cancel.
SuspendOnce ==
    LET t == at.thread
    IN  /\ pc = "suspendOnce"
        /\ \/ /\ life[t] = "alive"
              /\ mine' = [mine EXCEPT ![t] = @ + 1]
              /\ Set(t, "owned", TRUE)
              /\ at' = [at EXCEPT !.prior = Count(t)]
              /\ Goto(IF managed[t].armed THEN "check" ELSE "commit")
              /\ UNCHANGED faults
           \/ /\ (life[t] = "exited" /\ UNCHANGED faults) \/ Fault
              /\ Goto(IF managed[t].armed THEN "failed" ELSE "cancel")
              /\ UNCHANGED <<mine, managed, at>>
        /\ UNCHANGED <<serviceVars, op, stage, others, life, nextId>>

CancelSuspension ==
    /\ pc = "cancel"
    /\ \/ Ask(Cancel(at.id))
       \/ (Granted \/ Denied) /\ Goto("failed")
          /\ UNCHANGED <<op, at, stage, managed, worldVars, nextId>>

CommitSuspension ==
    /\ pc = "commit"
    /\ \/ Ask(Commit(at.id))
       \/ Granted /\ Set(at.thread, "armed", TRUE) /\ Goto("check") /\ UNCHANGED <<op, at>>
          /\ UNCHANGED <<stage, worldVars, nextId>>
       \/ /\ Denied /\ at' = [at EXCEPT !.forget = TRUE] /\ Goto("resume")
          /\ UNCHANGED <<op, managed, stage, worldVars, nextId>>

\* Somebody else changed the count since it was captured: the increment is taken back.
Check ==
    LET t == at.thread
    IN  /\ pc = "check"
        /\ IF at.prior = managed[t].count
           THEN op' = [op EXCEPT !.changed = @ \cup {t}] /\ Goto("suspend")
           ELSE Goto("compensate") /\ UNCHANGED op
        /\ UNCHANGED <<serviceVars, at, stage, managed, worldVars, nextId, faults>>

\* ResumeThread takes one off the count, whoever added it.
TakeBack(t) ==
    IF mine[t] > 0 THEN mine' = [mine EXCEPT ![t] = @ - 1] /\ UNCHANGED others
    ELSE others' = [others EXCEPT ![t] = IF @ = 0 THEN 0 ELSE @ - 1] /\ UNCHANGED mine

\* Mutant of Compensate: the increment counts as taken back when the resume fails.
CompensateUnchecked ==
    LET t == at.thread
    IN  /\ pc = "compensate"
        /\ \/ /\ IF life[t] = "alive" THEN TakeBack(t) ELSE UNCHANGED <<mine, others>>
              /\ Set(t, "owned", FALSE) /\ Goto("forget") /\ UNCHANGED faults
           \/ Fault /\ Goto("failed") /\ Set(t, "owned", FALSE) /\ UNCHANGED <<mine, others>>
        /\ UNCHANGED <<serviceVars, op, at, stage, life, nextId>>

\* compensate_conflicting_suspend.
Compensate ==
    LET t == at.thread
    IN  /\ pc = "compensate"
        /\ \/ /\ IF life[t] = "alive" THEN TakeBack(t) ELSE UNCHANGED <<mine, others>>
              /\ Set(t, "owned", FALSE) /\ Goto("forget") /\ UNCHANGED faults
           \/ Fault /\ Goto("failed") /\ UNCHANGED <<managed, mine, others>>
        /\ UNCHANGED <<serviceVars, op, at, stage, life, nextId>>

\* A thread that could not be suspended is removed if it has exited; otherwise the
\* call rolls back the threads it has suspended before.
SuspendFailed ==
    LET t == at.thread
    IN  /\ pc = "failed"
        /\ \/ /\ life[t] = "exited" /\ Set(t, "owned", FALSE)
              /\ at' = [at EXCEPT !.then = "resumeSuspending"] /\ Goto("forget")
              /\ UNCHANGED faults
           \/ /\ (life[t] = "alive" /\ UNCHANGED faults) \/ Fault
              /\ Goto("rollback") /\ UNCHANGED <<managed, at>>
        /\ UNCHANGED <<serviceVars, op, stage, worldVars, nextId>>

ResumeSuspending ==
    /\ pc = "resumeSuspending"
    /\ Goto("suspend") /\ op' = [op EXCEPT !.ok = TRUE]
    /\ UNCHANGED <<serviceVars, at, stage, managed, worldVars, nextId, faults>>

Rollback ==
    /\ pc = "rollback"
    /\ \/ \E t \in op.changed :
            /\ op' = [op EXCEPT !.changed = @ \ {t}]
            /\ at' = [At(t, "rollback") EXCEPT !.forget = TRUE]
            /\ Goto("resume") /\ UNCHANGED stage
       \/ op.changed = {} /\ Fails

RollbackThreads ==
    Rollback /\ UNCHANGED <<serviceVars, managed, worldVars, nextId, faults>>

--------------------------------------------------------------------------------
(***************************************************************************)
(* resume_owned_thread, thaw and release.                                  *)
(***************************************************************************)
Conflicting(t) == Count(t) # managed[t].count + 1

\* An exited thread answers with an error, an arbitrary one or that it has exited.
ResumeOwned ==
    LET t == at.thread
    IN  /\ pc = "resume"
        /\ \/ /\ life[t] = "alive" /\ TakeBack(t)
              /\ Set(t, "owned", FALSE)
              /\ IF Conflicting(t) \/ at.forget THEN Goto("forget") ELSE Goto(at.then)
              /\ op' = [op EXCEPT !.ok = @ /\ ~Conflicting(t)]
              /\ UNCHANGED faults
           \/ /\ life[t] = "exited" /\ Set(t, "owned", FALSE) /\ Goto("forget")
              /\ UNCHANGED <<op, mine, others, faults>>
           \/ /\ (life[t] = "exited" /\ UNCHANGED faults) \/ Fault
              /\ Noted /\ Goto(at.then) /\ UNCHANGED <<managed, mine, others>>
        /\ UNCHANGED <<serviceVars, at, stage, life, nextId>>

\* Mutant of Thaw: the first failure ends the call.
ThawStops ==
    /\ pc = "thaw"
    /\ \/ \E t \in op.todo :
            /\ op.ok
            /\ op' = [op EXCEPT !.todo = @ \ {t}]
            /\ at' = At(t, "thaw") /\ Goto("resume") /\ UNCHANGED stage
       \/ /\ op.todo = {} \/ ~op.ok
          /\ IF op.kind = "release" THEN Goto("forgetAll") /\ op' = [op EXCEPT !.todo = Threads]
                                         /\ UNCHANGED <<at, stage>>
             ELSE End(IF op.ok THEN "awake" ELSE "retiring")

\* Every thread is resumed, whatever failed for another.
Thaw ==
    /\ pc = "thaw"
    /\ \/ \E t \in op.todo :
            /\ op' = [op EXCEPT !.todo = @ \ {t}]
            /\ at' = At(t, "thaw") /\ Goto("resume") /\ UNCHANGED stage
       \/ /\ op.todo = {}
          /\ IF op.kind = "release" THEN Goto("forgetAll") /\ op' = [op EXCEPT !.todo = Threads]
                                         /\ UNCHANGED <<at, stage>>
             ELSE End(IF op.ok THEN "awake" ELSE "retiring")

ThawThreads == Thaw /\ UNCHANGED <<serviceVars, managed, worldVars, nextId, faults>>

ToForget(t) == managed[t].armed /\ ~managed[t].owned

\* What stays owned or recorded is retried; the target goes when nothing is left.
ForgetAll ==
    LET rest == {t \in Threads : managed[t].owned \/ managed[t].armed}
    IN  /\ pc = "forgetAll"
        /\ \/ \E t \in op.todo :
                /\ op' = [op EXCEPT !.todo = @ \ {t}]
                /\ IF ToForget(t) THEN at' = At(t, "forgetAll") /\ Goto("forget")
                   ELSE UNCHANGED <<pc, at>>
                /\ UNCHANGED <<stage, managed>>
           \/ /\ op.todo = {}
              /\ managed' = [t \in Keys |-> IF t \in rest THEN managed[t] ELSE NoManaged]
              /\ End(IF op.ok THEN (IF rest = {} THEN "none" ELSE "kept") ELSE "retiring")
        /\ UNCHANGED <<serviceVars, worldVars, nextId, faults>>

--------------------------------------------------------------------------------
(***************************************************************************)
(* The entry points, in the order the worker calls them.                   *)
(***************************************************************************)
Start(kind, label, todo) ==
    /\ pc = "idle"
    /\ pc' = label
    /\ op' = [NoOp EXCEPT !.kind = kind, !.todo = todo]
    /\ UNCHANGED <<serviceVars, at, stage, managed, worldVars, nextId, faults>>

\* prepare_with: the threads alive now, with the counts they have.
Prepare ==
    /\ pc = "idle" /\ stage = "none"
    /\ managed' = [t \in Keys |->
          IF life[t] = "alive" THEN [count |-> Count(t), armed |-> FALSE, owned |-> FALSE]
          ELSE NoManaged]
    /\ stage' = "awake"
    /\ UNCHANGED <<serviceVars, pc, op, at, worldVars, nextId, faults>>

FreezeKnown == stage = "awake" /\ Start("freeze", "prune", Threads)

\* The inventory is older than the call: a thread of it may have exited meanwhile, and
\* one started since is left for the next cycle.
AdoptNew ==
    /\ pc = "idle" /\ stage = "known"
    /\ \E inventory \in SUBSET {t \in Keys : life[t] # "unborn"} :
        /\ {t \in Threads : life[t] = "alive"} \subseteq inventory
        /\ pc' = "prune"
        /\ op' = [NoOp EXCEPT !.kind = "adopt", !.todo = Threads, !.changed = inventory]
    /\ UNCHANGED <<serviceVars, at, stage, managed, worldVars, nextId, faults>>

\* Mutant of ToResume: every managed thread is resumed.
AllThreads == Threads

ToResume == Owned

ThawTarget == stage = "frozen" /\ Start("thaw", "thaw", ToResume)

ReleaseTarget ==
    /\ stage \in {"awake", "known", "frozen", "retiring"}
    /\ Start("release", "thaw", ToResume)

--------------------------------------------------------------------------------
(***************************************************************************)
(* Everybody else.                                                         *)
(***************************************************************************)
ThreadStarts(t) ==
    /\ life[t] = "unborn"
    /\ life' = [life EXCEPT ![t] = "alive"]
    /\ UNCHANGED <<serviceVars, callVars, managed, mine, others, nextId, faults>>

ThreadExits(t) ==
    /\ life[t] = "alive"
    /\ life' = [life EXCEPT ![t] = "exited"]
    /\ mine' = [mine EXCEPT ![t] = 0] /\ others' = [others EXCEPT ![t] = 0]
    /\ UNCHANGED <<serviceVars, callVars, managed, nextId, faults>>

\* Another program suspends a thread, or resumes one that it has suspended.
OtherSuspends(t) ==
    /\ life[t] = "alive" /\ others[t] < MaxOthers
    /\ others' = [others EXCEPT ![t] = @ + 1]
    /\ UNCHANGED <<serviceVars, callVars, managed, mine, life, nextId, faults>>

OtherResumes(t) ==
    /\ life[t] = "alive" /\ others[t] > 0
    /\ others' = [others EXCEPT ![t] = @ - 1]
    /\ UNCHANGED <<serviceVars, callVars, managed, mine, life, nextId, faults>>

\* Winderust dies; a command already sent may still reach the helper.
Crash ==
    /\ pc \notin {"dead", "replayed"}
    /\ pc' = "dead" /\ op' = NoOp /\ UNCHANGED <<at, stage>>
    /\ Abandon \/ Latch
    /\ UNCHANGED <<managed, worldVars, nextId, faults>>

Recorded(t) == Chain(journal, t) # << >>

\* recover_thread_suspension: a recorded thread is resumed if its count is the recorded one.
ReplayResumes(t) ==
    life[t] = "alive" /\ \E n \in 1..Len(Chain(journal, t)) : Chain(journal, t)[n].expected = Count(t)

Replay ==
    /\ pc = "dead" /\ limbo = NoCommand /\ call = NoCall
    /\ \/ \E t \in Keys \ op.todo :
            /\ op' = [op EXCEPT !.todo = @ \cup {t}]
            /\ IF ReplayResumes(t) THEN TakeBack(t) ELSE UNCHANGED <<mine, others>>
            /\ UNCHANGED pc
       \/ op.todo = Keys /\ pc' = "replayed" /\ op' = NoOp /\ UNCHANGED <<mine, others>>
    /\ UNCHANGED <<serviceVars, at, stage, managed, life, nextId, faults>>

\* Another controller's command goes unanswered, but not while this one holds an
\* intent, and with it the RUNTIME mutex.
OtherLatches ==
    /\ pc \notin {"suspendOnce", "commit", "cancel"} \/ at.id = 0
    /\ Latch /\ ~latched /\ Fault
    /\ UNCHANGED <<callVars, managed, worldVars, nextId>>

ServiceStep == ServiceActs /\ UNCHANGED <<callVars, managed, worldVars, nextId>>

Finished == pc = "replayed" /\ UNCHANGED threadVars

Init ==
    /\ ServiceInit
    /\ pc = "idle" /\ op = NoOp /\ stage = "none"
    /\ at = At(CHOOSE t \in Keys : TRUE, "idle")
    /\ managed = [t \in Keys |-> NoManaged]
    /\ mine = [t \in Keys |-> 0]
    /\ others \in [Keys -> 0..MaxOthers]
    /\ life \in [Keys -> {"unborn", "alive"}]
    /\ \A t \in Keys : life[t] = "unborn" => others[t] = 0
    /\ nextId = 1
    /\ faults = MaxFaults

Proceed ==
    \/ ForgetThread \/ Prune \/ Capture
    \/ NextThread \/ BeginSuspension \/ SuspendOnce \/ CancelSuspension \/ CommitSuspension
    \/ Check \/ Compensate \/ SuspendFailed \/ ResumeSuspending \/ RollbackThreads
    \/ ResumeOwned \/ ThawThreads \/ ForgetAll

Worker == Prepare \/ FreezeKnown \/ AdoptNew \/ ThawTarget \/ ReleaseTarget

Environment ==
    \/ \E t \in Keys : ThreadStarts(t) \/ ThreadExits(t) \/ OtherSuspends(t) \/ OtherResumes(t)
    \/ Crash \/ Replay
    \/ OtherLatches
    \/ ServiceStep

Next == Proceed \/ Worker \/ Environment \/ Finished

Spec == Init /\ [][Next]_threadVars

\* The worker runs, ends each phase and retries releases; the helper answers.
FairSpec ==
    /\ Spec
    /\ WF_threadVars(Proceed) /\ WF_threadVars(ServiceStep)
    /\ WF_threadVars(AdoptNew) /\ WF_threadVars(ThawTarget)
    /\ WF_threadVars(stage = "retiring" /\ ReleaseTarget)

--------------------------------------------------------------------------------
(***************************************************************************)
(* Properties.                                                             *)
(***************************************************************************)
\* Types of the state; Winderust never holds two increments of one thread.
TypeOK ==
    /\ ServiceTypeOK
    /\ pc \in {"idle", "prune", "capture", "suspend", "begin", "suspendOnce", "cancel", "commit",
               "check", "compensate", "failed", "resumeSuspending", "rollback", "resume", "thaw",
               "forget", "forgetAll", "dead", "replayed"}
    /\ op \in [kind : {"none", "freeze", "adopt", "thaw", "release"}, todo : SUBSET Keys,
               changed : SUBSET Keys, ok : BOOLEAN]
    /\ at \in [thread : Keys, id : Ids \cup {0}, prior : 0..(MaxOthers + 1), forget : BOOLEAN,
               then : {"idle", "prune", "failed", "resumeSuspending", "rollback", "thaw", "forgetAll"}]
    /\ stage \in {"none", "awake", "known", "frozen", "retiring", "kept"}
    /\ managed \in [Keys -> Managed \cup {NoManaged}]
    /\ mine \in [Keys -> 0..1] /\ others \in [Keys -> 0..MaxOthers]
    /\ life \in [Keys -> {"unborn", "alive", "exited"}]
    /\ nextId \in Nat \ {0} /\ faults \in 0..MaxFaults

\* Whatever fails, and between any two steps, a thread that Winderust keeps suspended is
\* one the helper has a record of.
Recoverable == \A t \in Keys : mine[t] = 1 => Recorded(t)

\* Between calls the target owns exactly the increments that Winderust really holds, so
\* that a thaw resumes every thread once and none that it did not suspend.
OwnedAgrees ==
    pc = "idle" => \A t \in Keys : life[t] = "alive" => (mine[t] = 1 <=> t \in Owned)

\* As long as the service works, the journal records exactly the armed threads.
LedgerAgrees ==
    pc = "idle" /\ ~latched => \A t \in Keys : Recorded(t) <=> t \in Threads /\ managed[t].armed

\* A release that succeeds leaves no increment and no record, and never reports that
\* something is left.
ReleaseIsComplete ==
    /\ stage # "kept"
    /\ stage = "none" => \A t \in Keys : mine[t] = 0 /\ (latched \/ ~Recorded(t))

\* The target's books are in order.
Consistent == TypeOK /\ OwnedAgrees /\ LedgerAgrees /\ ReleaseIsComplete

\* Winderust itself never takes back another program's suspension.
OthersKept ==
    [][\A t \in Keys :
          others'[t] < others[t] /\ life'[t] = "alive" /\ pc # "dead" => pc' = pc]_threadVars

\* Replay resumes only threads that Winderust had suspended.
ReplayTakesOnlyOurs == [][pc = "dead" /\ op' # op => others' = others]_threadVars

\* A suspended thread is resumed at the end of the phase, or by the retried releases,
\* unless Winderust dies first.
ThreadsResume == \A t \in Keys : mine[t] = 1 ~> (mine[t] = 0 \/ pc \in {"dead", "replayed"})
================================================================================
