------------------------------- MODULE CpuLimiter -------------------------------
(***************************************************************************)
(* The CPU limiter's controller (src/src/control/cpu_limiter.rs): a worker *)
(* thread freezes and thaws its targets by a duty cycle, while the         *)
(* automation thread replaces the targets and shuts the worker down.       *)
(* A target is held by the job of the suspension controller or, where      *)
(* Windows refuses the job, by its threads.  Both are behind their         *)
(* contracts here: a call succeeds or fails, and may leave the process     *)
(* frozen when it fails (modules Suspension and ThreadFallback).           *)
(*                                                                         *)
(* The state mutex and the suspension mutex are always taken together, so  *)
(* one lock stands for both.  A panic in the worker poisons it.  Time is   *)
(* relative to now: a tick ages every schedule.  A tick is longer than a   *)
(* pass of the worker; the worker itself may start MaxLate ticks late.     *)
(***************************************************************************)
EXTENDS Integers, FiniteSets

CONSTANTS
    Keys,        \* the processes (ProcessTargetKey)
    Ancestors,   \* the processes each one descends from
    Cycle,       \* ticks of a duty cycle (CYCLE)
    Awakes,      \* allowed CPU times in ticks (allowed_cpu_time_percent)
    MaxLate,     \* bound on how late the worker runs
    MaxFaults,   \* bound on calls that fail and on panics
    NoTarget, NoTimer

ASSUME CycleAssumption == Cycle \in Nat /\ Awakes # {} /\ Awakes \subseteq 1..(Cycle - 1)
ASSUME LateAssumption == MaxLate \in Nat /\ MaxFaults \in Nat
ASSUME AncestorsAssumption == Ancestors \in [Keys -> SUBSET Keys]

VARIABLES
    targets,     \* WorkerState.targets
    covered,     \* WorkerState.covered_targets: its owner, or NoTarget
    failures,    \* WorkerState.failures
    fatal,       \* WorkerState.fatal_error is set
    shutdown,    \* WorkerState.shutdown
    lock,        \* who holds the two mutexes
    poisoned,    \* a panic happened while they were held
    worker,      \* the worker thread
    timer,       \* ticks until the waitable timer fires, or NoTimer
    event,       \* the command event is set
    client,      \* the automation thread
    claim,       \* the limiter's phase in the suspension controller's entry
    app,         \* app suspension has an interest in that entry
    inJob,       \* the jobs (of ancestors) each process lives in
    lapsed,      \* history: the processes whose owner's job was given up since they were covered
    born,        \* the processes that have started
    held,        \* the process is frozen on behalf of the limiter
    elapsed,     \* history: ticks since the target was added, modulo Cycle
    faults

stateVars == <<targets, covered, failures, fatal, shutdown>>
entryVars == <<claim, app, inJob, lapsed, born>>
worldVars == <<entryVars, held>>
limiterVars == <<stateVars, lock, poisoned, worker, timer, event, client, worldVars, elapsed, faults>>

Schedules == [age : 0..(Cycle + MaxLate), awake : Awakes, frozen : BOOLEAN, due : -MaxLate..Cycle]

TargetRecords == [backend : {"job", "thread"}, schedule : Schedules,
                  applied : BOOLEAN, retiring : BOOLEAN]

Present == {k \in Keys : targets[k] # NoTarget}

JobTargets == {k \in Present : targets[k].backend = "job"}

Fault == faults > 0 /\ faults' = faults - 1

--------------------------------------------------------------------------------
(***************************************************************************)
(* DutySchedule.                                                           *)
(***************************************************************************)
NewSchedule(awake) == [age |-> 0, awake |-> awake, frozen |-> FALSE, due |-> awake]

\* Mutant of Turn: the next phase is timed from the moment the worker runs.
TurnDrifting(s) ==
    IF s.frozen THEN [s EXCEPT !.age = 0, !.frozen = FALSE, !.due = s.awake]
    ELSE [s EXCEPT !.frozen = TRUE, !.due = Cycle - s.awake]

\* One round of the loop in DutySchedule::advance.
Turn(s) ==
    IF s.frozen
    THEN [s EXCEPT !.age = @ - Cycle, !.frozen = FALSE, !.due = s.awake - (s.age - Cycle)]
    ELSE [s EXCEPT !.frozen = TRUE, !.due = Cycle - s.age]

\* The loop ends with the first phase that is not over.
Advance(s) ==
    LET turns[n \in Nat] == IF n = 0 THEN s ELSE Turn(turns[n - 1])
        rounds == CHOOSE n \in 0..(2 * MaxLate + 2) :
                    turns[n].due > 0 /\ \A m \in 0..(n - 1) : turns[m].due <= 0
    IN  turns[rounds]

\* Only a retiring target is deferred, and its phase no longer matters.
Defer(s) == [s EXCEPT !.age = 0, !.due = Cycle]

NextDeadline ==
    IF Present = {} THEN NoTimer
    ELSE CHOOSE d \in -MaxLate..Cycle :
            /\ \E k \in Present : targets[k].schedule.due = d
            /\ \A k \in Present : targets[k].schedule.due >= d

--------------------------------------------------------------------------------
(***************************************************************************)
(* The backends' contracts.  Calls of the suspension controller leave an   *)
(* entry with the limiter's phase, or none.                                *)
(***************************************************************************)
Entry(k, want) ==
    /\ claim' = [claim EXCEPT ![k] = want]
    /\ inJob' = IF want = "absent" THEN [c \in Keys |-> inJob[c] \ {k}] ELSE inJob
    /\ lapsed' = IF want = "absent" THEN lapsed \cup {c \in Keys : covered[c] = k} ELSE lapsed
    /\ UNCHANGED <<app, born>>

Hold(k, frozen) == held' = [held EXCEPT ![k] = frozen]

\* set_cpu_limiter_phase: freezing.
JobFrozen(k) == Entry(k, "freeze") /\ Hold(k, TRUE) /\ UNCHANGED faults

JobNotFrozen(k) ==
    /\ Fault
    /\ \/ Entry(k, "absent") /\ Hold(k, FALSE)
       \/ claim[k] # "absent" /\ Entry(k, "freeze") /\ (Hold(k, TRUE) \/ UNCHANGED held)

\* An entry that awaits its clean-up is settled instead of frozen, and that is no error.
JobSettled(k) == Fault /\ Entry(k, "absent") /\ Hold(k, FALSE)

\* set_cpu_limiter_phase: awake.
JobAwake(k) == Entry(k, "thaw") /\ Hold(k, FALSE) /\ UNCHANGED faults

JobNotAwake(k) ==
    /\ Fault
    /\ UNCHANGED held
    /\ Entry(k, IF claim[k] = "absent" THEN "absent" ELSE "thaw")

\* release_worker_target: what remains of the entry is app suspension's.
Released(k) ==
    /\ IF targets[k].backend = "job" /\ claim[k] # "absent"
       THEN Entry(k, IF app[k] THEN "none" ELSE "absent")
       ELSE UNCHANGED entryVars
    /\ Hold(k, FALSE)
    /\ UNCHANGED faults

NotReleased(k) ==
    /\ Fault
    /\ IF targets[k].backend = "job"
       THEN claim[k] # "absent" /\ Entry(k, "none") /\ UNCHANGED held
       ELSE UNCHANGED entryVars /\ (Hold(k, FALSE) \/ UNCHANGED held)

\* ThreadFallbackTarget: some threads may stay suspended when a call fails.
ThreadsFrozen(k) == Hold(k, TRUE) /\ UNCHANGED <<entryVars, faults>>

ThreadsAwake(k) == Hold(k, FALSE) /\ UNCHANGED <<entryVars, faults>>

ThreadsFail(k) == Fault /\ (Hold(k, TRUE) \/ UNCHANGED held) /\ UNCHANGED entryVars

--------------------------------------------------------------------------------
(***************************************************************************)
(* The targets after such a call.                                          *)
(***************************************************************************)
Put(k, t) == targets' = [targets EXCEPT ![k] = t]

Remove(k) == Put(k, NoTarget)

\* A target whose release failed is kept, and retried.
Retain(k, t) == Put(k, [t EXCEPT !.retiring = TRUE])

Failed(k) == failures' = failures \cup {k}

\* The target is released, by force, and removed if that succeeds.
ReleaseForced(k) ==
    \/ Released(k) /\ Remove(k) /\ UNCHANGED failures
    \/ NotReleased(k) /\ Retain(k, targets[k]) /\ Failed(k)

--------------------------------------------------------------------------------
(***************************************************************************)
(* The worker thread: run_worker.                                          *)
(***************************************************************************)
WorkerIdle == [pc |-> "start", due |-> {}, adopting |-> {}, failing |-> {},
               deadline |-> NoTimer, armed |-> FALSE]

WorkerAt(label) == worker' = [worker EXCEPT !.pc = label]

\* The timer cannot be created, armed, cancelled or waited for.
TimerFails == Fault /\ WorkerAt("failing")

WorkerStarts ==
    /\ worker.pc = "start"
    /\ \/ TimerFails
       \/ WorkerAt("scan") /\ UNCHANGED faults
    /\ UNCHANGED <<stateVars, lock, poisoned, timer, event, client, worldVars, elapsed>>

Due == {k \in Present : targets[k].schedule.due <= 0}

Scan ==
    /\ worker.pc = "scan" /\ lock = "free"
    /\ IF shutdown THEN WorkerAt("exited") /\ UNCHANGED lock
       ELSE /\ lock' = "worker"
            /\ worker' = [worker EXCEPT !.pc = "pass", !.due = Due, !.adopting = {}, !.failing = {}]
    /\ UNCHANGED <<stateVars, poisoned, timer, event, client, worldVars, elapsed, faults>>

Done(k) == worker' = [worker EXCEPT !.due = @ \ {k}]

DoneFailed(k) == worker' = [worker EXCEPT !.due = @ \ {k}, !.failing = @ \cup {k}]

\* A retiring target is released, or tried again one cycle later.
RetireDue(k) ==
    /\ targets[k].retiring
    /\ \/ Released(k) /\ Remove(k)
       \/ NotReleased(k) /\ Put(k, [targets[k] EXCEPT !.schedule = Defer(@)])
    /\ Done(k)

\* The phase is over: the process is frozen or thawed.
TurnDue(k) ==
    LET t == [targets[k] EXCEPT !.schedule = Advance(@)]
        applied == [t EXCEPT !.applied = t.schedule.frozen]
    IN  /\ ~t.retiring
        /\ \/ /\ t.schedule.frozen = t.applied
              /\ Put(k, t) /\ Done(k) /\ UNCHANGED <<worldVars, faults>>
           \/ /\ t.schedule.frozen /\ ~t.applied /\ t.backend = "job"
              /\ \/ (JobFrozen(k) \/ JobSettled(k)) /\ Put(k, applied) /\ Done(k)
                 \/ JobNotFrozen(k) /\ Put(k, t) /\ DoneFailed(k)
           \/ /\ ~t.schedule.frozen /\ t.applied /\ t.backend = "job"
              /\ \/ JobAwake(k) /\ Put(k, applied) /\ Done(k)
                 \/ JobNotAwake(k) /\ Put(k, t) /\ DoneFailed(k)
           \/ /\ t.schedule.frozen /\ ~t.applied /\ t.backend = "thread"
              /\ Put(k, t)
              /\ \/ ThreadsFrozen(k) /\ worker' = [worker EXCEPT !.due = @ \ {k}, !.adopting = @ \cup {k}]
                 \/ ThreadsFail(k) /\ DoneFailed(k)
           \/ /\ ~t.schedule.frozen /\ t.applied /\ t.backend = "thread"
              /\ \/ ThreadsAwake(k) /\ Put(k, applied) /\ Done(k)
                 \/ ThreadsFail(k) /\ Put(k, t) /\ DoneFailed(k)

Pass ==
    /\ worker.pc = "pass"
    /\ \E k \in worker.due : RetireDue(k) \/ TurnDue(k)
    /\ UNCHANGED <<covered, failures, fatal, shutdown, lock, poisoned, timer, event, client, elapsed>>

\* One inventory of threads serves all the targets just frozen.
Inventory ==
    /\ worker.pc = "pass" /\ worker.due = {}
    /\ \/ WorkerAt("adopt") /\ UNCHANGED faults
       \/ /\ worker.adopting # {} /\ Fault
          /\ worker' = [worker EXCEPT !.pc = "settle", !.failing = @ \cup worker.adopting, !.adopting = {}]
    /\ UNCHANGED <<stateVars, lock, poisoned, timer, event, client, worldVars, elapsed>>

\* Mutant of NotAdopted: the failure is dropped.
AdoptionIgnored(k) == [worker EXCEPT !.adopting = @ \ {k}]

NotAdopted(k) == [worker EXCEPT !.adopting = @ \ {k}, !.failing = @ \cup {k}]

\* adopt_new_threads: threads started meanwhile are frozen too.
Adopt ==
    /\ worker.pc = "adopt"
    /\ \/ /\ worker.adopting = {} /\ WorkerAt("settle") /\ UNCHANGED <<targets, worldVars, faults>>
       \/ \E k \in worker.adopting :
            \/ /\ worker' = [worker EXCEPT !.adopting = @ \ {k}]
               /\ Put(k, [targets[k] EXCEPT !.applied = TRUE])
               /\ UNCHANGED <<worldVars, faults>>
            \/ /\ ThreadsFail(k) /\ worker' = NotAdopted(k) /\ UNCHANGED targets
    /\ UNCHANGED <<covered, failures, fatal, shutdown, lock, poisoned, timer, event, client, elapsed>>

\* A target that could not be frozen or thawed is given up.
Settle ==
    /\ worker.pc = "settle"
    /\ \E k \in worker.failing :
        /\ worker' = [worker EXCEPT !.failing = @ \ {k}]
        /\ Failed(k)
        /\ \/ Released(k) /\ Remove(k)
           \/ NotReleased(k) /\ Retain(k, [targets[k] EXCEPT !.schedule = Defer(@)])
    /\ UNCHANGED <<covered, fatal, shutdown, lock, poisoned, timer, event, client, elapsed>>

PassEnds ==
    /\ worker.pc = "settle" /\ worker.failing = {}
    /\ lock' = "free"
    /\ worker' = [worker EXCEPT !.pc = "arm", !.deadline = NextDeadline]
    /\ UNCHANGED <<stateVars, poisoned, timer, event, client, worldVars, elapsed, faults>>

\* The deadline is the one read before the mutexes were released.
ArmTimer ==
    LET deadline == worker.deadline
    IN  /\ worker.pc = "arm"
        /\ \/ TimerFails /\ UNCHANGED timer
           \/ /\ worker' = [worker EXCEPT !.pc = "wait", !.deadline = NoTimer,
                                          !.armed = deadline # NoTimer]
              /\ timer' = IF deadline = NoTimer /\ ~worker.armed THEN timer
                          ELSE IF deadline # NoTimer /\ deadline < 0 THEN 0 ELSE deadline
              /\ UNCHANGED faults
        /\ UNCHANGED <<stateVars, lock, poisoned, event, client, worldVars, elapsed>>

TimerFired == timer # NoTimer /\ timer <= 0

\* The wait prefers the event.  The fired timer is consumed; the event is reset next.
Wake ==
    /\ worker.pc = "wait"
    /\ \/ event /\ WorkerAt("reset") /\ UNCHANGED timer
       \/ ~event /\ TimerFired /\ WorkerAt("scan") /\ timer' = NoTimer
    /\ UNCHANGED <<stateVars, lock, poisoned, event, client, worldVars, elapsed, faults>>

Reset ==
    /\ worker.pc = "reset"
    /\ event' = FALSE
    /\ WorkerAt("scan")
    /\ UNCHANGED <<stateVars, lock, poisoned, timer, client, worldVars, elapsed, faults>>

\* A panic while the worker holds the mutexes; run_worker_with_cleanup catches it.
WorkerPanics ==
    /\ lock = "worker" /\ worker.pc # "failed"
    /\ Fault
    /\ lock' = "free" /\ poisoned' = TRUE
    /\ WorkerAt("failing")
    /\ UNCHANGED <<stateVars, timer, event, client, worldVars, elapsed>>

\* fail_worker takes poisoned mutexes too.
FailWorker ==
    /\ worker.pc = "failing" /\ lock = "free"
    /\ lock' = "worker"
    /\ worker' = [WorkerIdle EXCEPT !.pc = "failed", !.due = Present]
    /\ UNCHANGED <<stateVars, poisoned, timer, event, client, worldVars, elapsed, faults>>

FailTarget ==
    /\ worker.pc = "failed"
    /\ \E k \in worker.due :
        /\ Done(k)
        /\ \/ Released(k) /\ Remove(k)
           \/ NotReleased(k) /\ Retain(k, targets[k])
    /\ UNCHANGED <<covered, failures, fatal, shutdown, lock, poisoned, timer, event, client, elapsed>>

WorkerFailed ==
    /\ worker.pc = "failed" /\ worker.due = {}
    /\ fatal' = TRUE
    /\ lock' = "free"
    /\ WorkerAt("clear")
    /\ UNCHANGED <<targets, covered, failures, shutdown, poisoned, timer, event, client, worldVars,
                   elapsed, faults>>

ClearPoison ==
    /\ worker.pc = "clear"
    /\ poisoned' = FALSE
    /\ WorkerAt("exited")
    /\ UNCHANGED <<stateVars, lock, timer, event, client, worldVars, elapsed, faults>>

--------------------------------------------------------------------------------
(***************************************************************************)
(* The automation thread: replace_targets.                                 *)
(***************************************************************************)
NoRequest == [k \in Keys |-> 0]

ClientIdle == [pc |-> "idle", request |-> NoRequest, todo |-> {}, ok |-> TRUE]

ClientAt(label) == client' = [client EXCEPT !.pc = label]

Requested == {k \in Keys : client.request[k] # 0}

ClientDone(k) == client' = [client EXCEPT !.todo = @ \ {k}]


\* What a failed worker could not release.
Unreleased == Present

\* A poisoned mutex ends the call; after a fatal error it only releases.
ReplaceTargets(request) ==
    /\ client.pc = "idle" /\ lock = "free"
    /\ IF poisoned THEN UNCHANGED <<lock, client>>
       ELSE /\ lock' = "client"
            /\ client' = [client EXCEPT !.request = request,
                            !.pc = IF fatal THEN "fatal" ELSE "removing",
                            !.todo = IF fatal THEN Unreleased ELSE {k \in Present : request[k] = 0}]
    /\ UNCHANGED <<stateVars, poisoned, worker, timer, event, worldVars, elapsed, faults>>

ReplaceFatal ==
    /\ client.pc = "fatal"
    /\ \/ \E k \in client.todo :
            /\ ClientDone(k) /\ UNCHANGED lock
            /\ \/ Released(k) /\ Remove(k)
               \/ NotReleased(k) /\ Retain(k, targets[k])
       \/ /\ client.todo = {} /\ client' = ClientIdle /\ lock' = "free"
          /\ UNCHANGED <<targets, worldVars, faults>>
    /\ UNCHANGED <<covered, failures, fatal, shutdown, poisoned, worker, timer, event, elapsed>>

RemoveTarget ==
    /\ client.pc = "removing"
    /\ \E k \in client.todo : ClientDone(k) /\ ReleaseForced(k)
    /\ UNCHANGED <<covered, fatal, shutdown, lock, poisoned, worker, timer, event, elapsed>>

\* Only owners that still have a job cover others.
LiveCover == [c \in Keys |-> IF covered[c] \in JobTargets THEN covered[c] ELSE NoTarget]

RemovalsDone ==
    /\ client.pc = "removing" /\ client.todo = {}
    /\ covered' = LiveCover
    /\ client' = [client EXCEPT !.pc = "adding", !.todo = Requested]
    /\ UNCHANGED <<targets, failures, fatal, shutdown, lock, poisoned, worker, timer, event, worldVars,
                   elapsed, faults>>

\* target_is_covered_by_ancestor: the active job targets the process may live in.
Owners(k) == {a \in JobTargets \cap Ancestors[k] : ~targets[a].retiring}

\* Mutant of Covers: descent is taken for membership.
CoversByDescent(a, k) == claim[a] \in {"freeze", "thaw"}

Covers(a, k) == claim[a] \in {"freeze", "thaw"} /\ a \in inJob[k]

\* Covered before, or by an ancestor's job now, or a query of the jobs fails.
AddCovered(k) ==
    \/ covered[k] \in JobTargets /\ UNCHANGED <<covered, lapsed, failures, faults>>
    \/ /\ covered[k] \notin JobTargets /\ UNCHANGED <<failures, faults>>
       /\ \E a \in Owners(k) : Covers(a, k) /\ covered' = [covered EXCEPT ![k] = a]
       /\ lapsed' = lapsed \ {k}
    \/ /\ covered[k] \notin JobTargets /\ Owners(k) # {}
       /\ Fault /\ Failed(k) /\ UNCHANGED <<covered, lapsed>>

Uncovered(k) ==
    /\ covered[k] \notin JobTargets
    /\ \A a \in Owners(k) : ~Covers(a, k)

CanRetain(k) ==
    /\ k \in Present
    /\ ~targets[k].retiring
    /\ targets[k].schedule.awake = client.request[k]

\* The new target starts in its awake phase, in its job or by its threads.
Insert(k, backend) ==
    /\ Put(k, [backend |-> backend, schedule |-> NewSchedule(client.request[k]),
               applied |-> FALSE, retiring |-> FALSE])
    /\ elapsed' = [elapsed EXCEPT ![k] = 0]

\* Windows refuses a job only to a process that has no entry yet.
AddNew(k) ==
    \/ JobAwake(k) /\ Insert(k, "job") /\ UNCHANGED failures
    \/ /\ claim[k] = "absent" /\ Insert(k, "thread")
       /\ UNCHANGED <<worldVars, failures, faults>>
    \/ JobNotAwake(k) /\ Failed(k) /\ UNCHANGED <<targets, elapsed>>

\* A target with another percentage, or one being retired, is released first.
AddTarget ==
    /\ client.pc = "adding"
    /\ \E k \in client.todo :
        \/ /\ AddCovered(k) /\ ClientDone(k)
           /\ UNCHANGED <<targets, claim, app, inJob, born, held, elapsed>>
        \/ /\ Uncovered(k) /\ CanRetain(k) /\ ClientDone(k)
           /\ covered' = [covered EXCEPT ![k] = NoTarget]
           /\ UNCHANGED <<targets, failures, worldVars, elapsed, faults>>
        \/ /\ Uncovered(k) /\ ~CanRetain(k) /\ k \in Present
           /\ covered' = [covered EXCEPT ![k] = NoTarget]
           /\ \/ Released(k) /\ Remove(k) /\ UNCHANGED <<failures, client>>
              \/ NotReleased(k) /\ Retain(k, targets[k]) /\ Failed(k) /\ ClientDone(k)
           /\ UNCHANGED elapsed
        \/ /\ Uncovered(k) /\ k \notin Present /\ ClientDone(k)
           /\ covered' = [covered EXCEPT ![k] = NoTarget]
           /\ AddNew(k)
    /\ UNCHANGED <<fatal, shutdown, lock, poisoned, worker, timer, event>>

AddsDone ==
    /\ client.pc = "adding" /\ client.todo = {}
    /\ lock' = "free"
    /\ ClientAt("signal")
    /\ UNCHANGED <<stateVars, poisoned, worker, timer, event, worldVars, elapsed, faults>>

SetEvent == event' = TRUE

Signal ==
    /\ client.pc \in {"signal", "shutSignal"}
    /\ SetEvent
    /\ ClientAt(IF client.pc = "signal" THEN "drain" ELSE "joining")
    /\ UNCHANGED <<stateVars, lock, poisoned, worker, timer, worldVars, elapsed, faults>>

\* drain_failures, which the feature calls next.
DrainFailures ==
    /\ client.pc = "drain" /\ lock = "free"
    /\ failures' = IF poisoned \/ fatal THEN failures ELSE {}
    /\ client' = ClientIdle
    /\ UNCHANGED <<targets, covered, fatal, shutdown, lock, poisoned, worker, timer, event, worldVars,
                   elapsed, faults>>

--------------------------------------------------------------------------------
(***************************************************************************)
(* CpuLimiterController::shutdown.                                         *)
(***************************************************************************)
Shutdown ==
    /\ client.pc = "idle" /\ lock = "free"
    /\ IF poisoned
       THEN client' = [client EXCEPT !.pc = "shutSignal", !.ok = FALSE] /\ UNCHANGED lock
       ELSE client' = [client EXCEPT !.pc = "shutting", !.todo = Present] /\ lock' = "client"
    /\ UNCHANGED <<stateVars, poisoned, worker, timer, event, worldVars, elapsed, faults>>

ShutFailed(k) == client' = [client EXCEPT !.todo = @ \ {k}, !.ok = FALSE]

ShutTarget ==
    /\ client.pc = "shutting"
    /\ \E k \in client.todo :
        \/ Released(k) /\ Remove(k) /\ ClientDone(k)
        \/ NotReleased(k) /\ Retain(k, targets[k]) /\ ShutFailed(k)
    /\ UNCHANGED <<covered, failures, fatal, shutdown, lock, poisoned, worker, timer, event, elapsed>>

\* Mutant of Closed: the worker is not told to stop.
StillOpen == shutdown' = shutdown

Closed == shutdown' = TRUE

ShutTargetsDone ==
    /\ client.pc = "shutting" /\ client.todo = {}
    /\ Closed
    /\ lock' = "free"
    /\ ClientAt("shutSignal")
    /\ UNCHANGED <<targets, covered, failures, fatal, poisoned, worker, timer, event, worldVars, elapsed,
                   faults>>

Join ==
    /\ client.pc = "joining" /\ worker.pc = "exited"
    /\ ClientAt("stopped")
    /\ UNCHANGED <<stateVars, lock, poisoned, worker, timer, event, worldVars, elapsed, faults>>

--------------------------------------------------------------------------------
(***************************************************************************)
(* Everybody else.                                                         *)
(***************************************************************************)
\* Bound: time stands still rather than let the worker be later than MaxLate.
Tick ==
    /\ worker.pc \in {"wait", "scan", "exited"}
    /\ client.pc # "stopped"
    /\ worker.pc = "exited" \/ \A k \in Present : targets[k].schedule.due > -MaxLate
    /\ targets' = IF worker.pc = "exited" THEN targets
                  ELSE [k \in Keys |->
                            IF k \notin Present THEN NoTarget
                            ELSE [targets[k] EXCEPT !.schedule.due = @ - 1,
                                    !.schedule.age = IF targets[k].retiring THEN @ ELSE @ + 1]]
    /\ timer' = IF timer = NoTimer \/ timer <= 0 THEN timer ELSE timer - 1
    /\ elapsed' = [k \in Keys |-> IF k \in Present THEN (elapsed[k] + 1) % Cycle ELSE 0]
    /\ UNCHANGED <<covered, failures, fatal, shutdown, lock, poisoned, worker, event, client,
                   worldVars, faults>>

\* App suspension runs on the automation thread.  Its last interest gone, the entry goes.
AppActs(k) ==
    /\ client.pc = "idle" /\ lock = "free" /\ k \in born
    /\ app' = [app EXCEPT ![k] = ~@]
    /\ claim' = [claim EXCEPT ![k] = IF ~app[k] /\ @ = "absent" THEN "none" ELSE @]
    /\ UNCHANGED <<stateVars, lock, poisoned, worker, timer, event, client, inJob, lapsed, born, held,
                   elapsed, faults>>

\* reconcile_pending releases an entry that nobody wants any more, and thaws its job.
Reconcile(k) ==
    /\ client.pc = "idle" /\ lock = "free"
    /\ claim[k] = "none" /\ ~app[k]
    /\ Entry(k, "absent") /\ Hold(k, FALSE)
    /\ UNCHANGED <<stateVars, lock, poisoned, worker, timer, event, client, elapsed, faults>>

\* A child starts in the jobs of its ancestors, or breaks away from them.
ChildStarts(c) ==
    /\ c \notin born
    /\ born' = born \cup {c}
    /\ \E jobs \in SUBSET {a \in Ancestors[c] : claim[a] # "absent"} :
        inJob' = [inJob EXCEPT ![c] = jobs]
    /\ UNCHANGED <<stateVars, lock, poisoned, worker, timer, event, client, claim, app, lapsed, held,
                   elapsed, faults>>

Stopped == client.pc = "stopped" /\ UNCHANGED limiterVars

Init ==
    /\ targets = [k \in Keys |-> NoTarget]
    /\ covered = [k \in Keys |-> NoTarget]
    /\ failures = {} /\ fatal = FALSE /\ shutdown = FALSE
    /\ lock = "free" /\ poisoned = FALSE
    /\ worker = WorkerIdle
    /\ timer = NoTimer /\ event = FALSE
    /\ client = ClientIdle
    /\ claim = [k \in Keys |-> "absent"]
    /\ app = [k \in Keys |-> FALSE]
    /\ inJob = [k \in Keys |-> {}] /\ lapsed = {}
    /\ born = {k \in Keys : Ancestors[k] = {}}
    /\ held = [k \in Keys |-> FALSE]
    /\ elapsed = [k \in Keys |-> 0]
    /\ faults = MaxFaults

WorkerActs ==
    \/ WorkerStarts \/ Scan \/ Pass \/ Inventory \/ Adopt \/ Settle \/ PassEnds
    \/ ArmTimer \/ Wake \/ Reset
    \/ FailWorker \/ FailTarget \/ WorkerFailed \/ ClearPoison

ClientProceeds ==
    \/ ReplaceFatal \/ RemoveTarget \/ RemovalsDone \/ AddTarget \/ AddsDone
    \/ Signal \/ DrainFailures
    \/ ShutTarget \/ ShutTargetsDone \/ Join

\* The processes that exist, and the percentages the settings give them.
Refresh ==
    \E request \in [Keys -> Awakes \cup {0}] :
        (\A k \in Keys : request[k] # 0 => k \in born) /\ ReplaceTargets(request)

Next ==
    \/ WorkerActs \/ WorkerPanics
    \/ ClientProceeds \/ Refresh \/ Shutdown
    \/ Tick
    \/ \E k \in Keys : AppActs(k) \/ Reconcile(k) \/ ChildStarts(k)
    \/ Stopped

Spec == Init /\ [][Next]_limiterVars

\* The operating system runs both threads and time passes.  The automation thread
\* refreshes the targets every second and leaves the mutexes to the worker meanwhile.
FairSpec ==
    /\ Spec
    /\ SF_limiterVars(WorkerActs)
    /\ SF_limiterVars(ClientProceeds)
    /\ SF_limiterVars(Refresh)
    /\ SF_limiterVars(Tick)

--------------------------------------------------------------------------------
(***************************************************************************)
(* Properties.                                                             *)
(***************************************************************************)
\* Types of the state; a schedule never runs out of its cycle.
TypeOK ==
    /\ targets \in [Keys -> TargetRecords \cup {NoTarget}]
    /\ covered \in [Keys -> Keys \cup {NoTarget}]
    /\ failures \subseteq Keys
    /\ {fatal, shutdown, poisoned, event} \subseteq BOOLEAN
    /\ lock \in {"free", "worker", "client"}
    /\ worker \in [pc : {"start", "scan", "pass", "adopt", "settle", "arm", "wait", "reset",
                         "failing", "failed", "clear", "exited"},
                   due : SUBSET Keys, adopting : SUBSET Keys, failing : SUBSET Keys,
                   deadline : (-MaxLate..Cycle) \cup {NoTimer}, armed : BOOLEAN]
    /\ timer \in (-MaxLate..Cycle) \cup {NoTimer}
    /\ client \in [pc : {"idle", "removing", "adding", "fatal", "signal", "drain", "shutting",
                         "shutSignal", "joining", "stopped"},
                   request : [Keys -> Awakes \cup {0}], todo : SUBSET Keys, ok : BOOLEAN]
    /\ claim \in [Keys -> {"absent", "none", "freeze", "thaw"}]
    /\ app \in [Keys -> BOOLEAN] /\ held \in [Keys -> BOOLEAN]
    /\ inJob \in [Keys -> SUBSET Keys] /\ lapsed \subseteq Keys /\ born \subseteq Keys
    /\ elapsed \in [Keys -> 0..(Cycle - 1)]
    /\ faults \in 0..MaxFaults

\* No process stays frozen by the limiter without a target that a later pass, a later
\* refresh or the shutdown thaws, whatever failed on the way.
HeldIsKnown == \A k \in Keys : held[k] => k \in Present

\* Outside a pass of the worker, a frozen process is marked frozen, so that the end of
\* the phase thaws it, or it is being retired.
HeldIsDue ==
    lock = "free" /\ ~poisoned =>
        \A k \in Present : held[k] => targets[k].applied \/ targets[k].retiring

\* The waiting worker misses no deadline and no command: its timer fires when the next
\* target is due, unless the event is set or about to be.
WakesInTime ==
    worker.pc = "wait" /\ ~event /\ lock = "free" /\ client.pc \notin {"signal", "shutSignal"} =>
        /\ Present # {} => timer # NoTimer
        /\ timer # NoTimer => \A k \in Present : timer <= 0 \/ timer <= targets[k].schedule.due

\* What is frozen is known to be, and the worker is woken for it.
Consistent == TypeOK /\ HeldIsKnown /\ HeldIsDue /\ WakesInTime

\* While no target is overdue, each one is frozen exactly in the last part of its own
\* duty cycle, counted from the moment it was added, however late earlier passes ran.
OnSchedule ==
    worker.pc = "wait" /\ Due = {} =>
        \A k \in Present : ~targets[k].retiring =>
            (targets[k].applied <=> elapsed[k] >= targets[k].schedule.awake)

\* When a refresh has handled all its targets, every process it asked for is limited by a
\* target, reported as failed, or a member of the job of an ancestor that the refresh handled
\* as well: one that broke away from that job, or was started before it, is not passed over.
\* Excepted is what the code takes from an earlier refresh without a new query: a process
\* covered by an ancestor whose job was given up since and perhaps made again (CoverIsReal).
Accounted ==
    client.pc = "adding" /\ client.todo = {} =>
        \A k \in Requested :
            \/ k \in Present \cup failures
            \/ /\ covered[k] \in Requested \cup failures
               /\ covered[k] \in inJob[k] \/ k \in lapsed

\* A process that counts as covered by an ancestor's job is a member of that job
\* (docs/windows-api-reference.md:606-610: one "that is not a member still receives its own
\* exact job").  The code does not ensure it: retained_covered_owner only asks whether the
\* ancestor has a job target, which may have another job than the one that was queried.
CoverIsReal ==
    lock = "free" =>
        \A k \in Keys : covered[k] \in JobTargets => covered[k] \in inJob[k]

\* The worker comes to a process whose frozen phase and the awake phase after it are over:
\* DutySchedule::advance goes through both at once, and nothing is thawed.
SleptThrough(k) ==
    /\ worker.pc = "pass" /\ k \in worker.due
    /\ targets[k].schedule.frozen
    /\ targets[k].schedule.due <= -targets[k].schedule.awake


\* The same without the exception.  The code does not promise it: a process allowed 1 %
\* of the CPU is awake for 1 ms of a cycle, which a late worker may sleep through.
EveryFreezeEnds == \A k \in Keys : held[k] ~> (~held[k] \/ client.pc = "stopped")

\* The shutdown never waits for ever for the worker it joins, and one that reports success leaves
\* nothing frozen and no worker behind.
ShutdownEnds ==
    client.pc = "shutSignal" ~>
        /\ client.pc = "stopped"
        /\ client.ok => worker.pc = "exited" /\ \A k \in Keys : ~held[k] /\ targets[k] = NoTarget
================================================================================
