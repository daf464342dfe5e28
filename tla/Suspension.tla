------------------------------- MODULE Suspension -------------------------------
(***************************************************************************)
(* The controller of suspended processes (src/src/control/suspension.rs).  *)
(* App suspension and the CPU limiter each want a process frozen or        *)
(* thawed; it sits in a job that the controller freezes while either wants *)
(* it frozen.  A job that may be frozen is recorded with the recovery      *)
(* service, so that the helper can thaw it after a crash.                  *)
(*                                                                         *)
(* Both clients share the controller behind one mutex: one call runs at a  *)
(* time, and each call it makes to Windows or to the recovery service is a *)
(* step of its own, between which processes exit, process ids are reused   *)
(* and Winderust dies.  A failed freeze or thaw has no effect.  Retry      *)
(* times are left out: an entry that waits for one is due or not, by       *)
(* choice.                                                                 *)
(***************************************************************************)
EXTENDS RecoveryClient

CONSTANTS
    Pid,   \* the process id of each key (process instance)
    NoManaged, NoOp, NoStep

ASSUME ValuesAssumption == {0, 1} \subseteq Values

VARIABLES
    pc, op, at, result,  \* the call in progress
    managed,    \* SuspensionController.managed
    nextId,     \* RecoveryRuntime.next_intent_id
    frozen,     \* the job of the process is frozen
    life        \* "unborn", "alive" or "exited"

callVars  == <<pc, op, at, result>>
stateVars == <<managed, nextId>>
worldVars == <<frozen, life>>
suspensionVars == <<serviceVars, callVars, stateVars, worldVars, faults>>

\* What an owner wants: nothing, Some(true) or Some(false).
Wants == {"none", "freeze", "thaw"}

States == {"thawed", "frozen", "compensate", "cleanup", "cleanupRelease"}

\* A committed freeze is armed; one that failed half-way is not, and waits for a retry.
Entry == {e \in [state : States, app : Wants, limiter : Wants, armed : BOOLEAN, retry : BOOLEAN] :
             /\ e.state = "frozen" => e.armed
             /\ e.state = "compensate" => e.retry /\ ~e.armed}

Ops == [kind : {"freeze", "limiterFreeze", "limiterThaw", "one", "release", "reconcile", "shutdown"},
        key : Keys, force : BOOLEAN, todo : SUBSET Keys]

Steps == [key : Keys, routine : {"release", "keep"}, force : BOOLEAN,
          then : {"stale", "decide", "next", "idle"}, id : Ids \cup {0}]

ASSUME SentinelAssumption == NoManaged \notin Entry

FrozenEdge == [original |-> 0, expected |-> 1]

State(k) == IF managed[k] = NoManaged THEN "none" ELSE managed[k].state

ManagedKeys == {k \in Keys : managed[k] # NoManaged}

NewEntry == [state |-> "thawed", app |-> "none", limiter |-> "none",
             armed |-> FALSE, retry |-> FALSE]

--------------------------------------------------------------------------------
(***************************************************************************)
(* How a call proceeds, and how it and its parts end.                      *)
(***************************************************************************)
Ask(command) ==
    /\ Submit(command)
    /\ UNCHANGED <<callVars, stateVars, worldVars, faults>>

Goto(label) == pc' = label /\ UNCHANGED <<op, at, result>>

Idle(label) == pc' = label /\ result' = "ok" /\ op' = NoOp /\ at' = NoStep

Step(k, routine, force, then) ==
    [key |-> k, routine |-> routine, force |-> force, then |-> then, id |-> 0]

\* A part of a call ends: the loops of reconcile_pending and shutdown go on whatever
\* it returned, every other caller passes an error on.
Done(outcome) ==
    IF at.then # "idle" /\ (outcome = "ok" \/ op.kind \in {"reconcile", "shutdown"})
    THEN /\ pc' = at.then
         /\ result' = IF outcome = "ok" \/ result = "failed" THEN result ELSE outcome
         /\ UNCHANGED <<op, at>>
    ELSE Idle("idle")

Drop(k) == managed' = [managed EXCEPT ![k] = NoManaged]

NotDue(k, force) == managed[k].retry /\ ~force /\ call = NoCall

\* retain_failure: the error is news only when no retry was scheduled before.
RetainFailure(k) == managed' = [managed EXCEPT ![k].retry = TRUE]

Retained(k) == IF managed[k].retry THEN "pending" ELSE "failed"

--------------------------------------------------------------------------------
(***************************************************************************)
(* release_key, thaw_keep_key and finish_cleanup.                          *)
(***************************************************************************)
Release ==
    /\ pc = "routine" /\ at.routine = "release"
    /\ \/ State(at.key) = "none" /\ Done("ok") /\ UNCHANGED managed
       \/ State(at.key) = "thawed" /\ ~managed[at.key].armed /\ Drop(at.key) /\ Done("ok")
       \/ /\ \/ State(at.key) = "thawed" /\ managed[at.key].armed
             \/ State(at.key) \in {"cleanup", "cleanupRelease"}
          /\ managed' = [managed EXCEPT ![at.key].state = "cleanupRelease"]
          /\ Goto("cleanup")
       \/ State(at.key) \in {"frozen", "compensate"} /\ Goto("thaw") /\ UNCHANGED managed
    /\ UNCHANGED <<serviceVars, nextId, worldVars, faults>>

\* Mutant of KeptFrozen: the limiter's phase does not protect the process.
NeverKept(m) == FALSE

\* thaw_keep_key leaves a process alone that the limiter wants frozen.
KeptFrozen(m) == m.limiter = "freeze"

Keep ==
    LET m == managed[at.key]
    IN  /\ pc = "routine" /\ at.routine = "keep"
        /\ \/ KeptFrozen(m) /\ Done("ok") /\ UNCHANGED managed
           \/ /\ ~KeptFrozen(m) /\ m.state = "thawed"
              /\ IF m.armed /\ m.limiter = "none"
                 THEN managed' = [managed EXCEPT ![at.key].state = "cleanup"] /\ Goto("cleanup")
                 ELSE Done("ok") /\ UNCHANGED managed
           \/ /\ ~KeptFrozen(m) /\ m.state # "thawed"
              /\ Goto(IF m.state \in {"frozen", "compensate"} THEN "thaw" ELSE "cleanup")
              /\ UNCHANGED managed
        /\ UNCHANGED <<serviceVars, nextId, worldVars, faults>>

\* A thaw for the limiter's next phase keeps the recovery armed; the one that ends an
\* ownership is followed by finish_cleanup.
Thaw ==
    LET limiterGoesOn == at.routine = "keep" /\ managed[at.key].limiter = "thaw"
        next == IF limiterGoesOn THEN "thawed"
                ELSE IF at.routine = "keep" THEN "cleanup" ELSE "cleanupRelease"
    IN  /\ pc = "thaw"
        /\ \/ NotDue(at.key, at.force) /\ Done("pending") /\ UNCHANGED <<managed, frozen, faults>>
           \/ Fault /\ RetainFailure(at.key) /\ Done(Retained(at.key)) /\ UNCHANGED frozen
           \/ /\ frozen' = [frozen EXCEPT ![at.key] = FALSE]
              /\ managed' = [managed EXCEPT ![at.key].state = next, ![at.key].retry = FALSE]
              /\ IF limiterGoesOn THEN Done("ok")
                 ELSE at' = [at EXCEPT !.force = TRUE] /\ pc' = "cleanup" /\ UNCHANGED <<op, result>>
              /\ UNCHANGED faults
        /\ UNCHANGED <<serviceVars, nextId, life>>

Forgotten(m) == [m EXCEPT !.state = "thawed", !.armed = FALSE, !.retry = FALSE]

FinishCleanup ==
    /\ pc = "cleanup"
    /\ \/ /\ NotDue(at.key, at.force) /\ Done("pending")
          /\ UNCHANGED <<serviceVars, stateVars, worldVars, faults>>
       \/ Ask(Forget(at.key))
       \/ /\ Granted
          /\ IF State(at.key) = "cleanupRelease" THEN Drop(at.key)
             ELSE managed' = [managed EXCEPT ![at.key] = Forgotten(@)]
          /\ Done("ok") /\ UNCHANGED <<nextId, worldVars>>
       \/ /\ Denied
          /\ RetainFailure(at.key) /\ Done(Retained(at.key)) /\ UNCHANGED <<nextId, worldVars>>

--------------------------------------------------------------------------------
(***************************************************************************)
(* freeze, and the limiter's two phases.                                   *)
(***************************************************************************)
Stale(k) == {s \in ManagedKeys \ {k} : Pid[s] = Pid[k]}

\* The awake phase leaves a process alone that app suspension wants frozen.
AwakeThaws(m) == m.app # "freeze"

\* Other instances under the same process id are released first; then the owner of
\* an entry that exists states what it wants.
ReleaseStale ==
    LET k == op.key
    IN  /\ pc = "stale"
        /\ \/ \E s \in Stale(k) :
                /\ at' = Step(s, "release", TRUE, "stale")
                /\ pc' = "routine"
                /\ UNCHANGED <<op, result, managed>>
           \/ /\ Stale(k) = {} /\ State(k) = "none"
              /\ Goto("assign") /\ UNCHANGED managed
           \/ /\ Stale(k) = {} /\ State(k) # "none" /\ op.kind # "limiterThaw"
              /\ managed' = IF op.kind = "freeze" THEN [managed EXCEPT ![k].app = "freeze"] ELSE managed
              /\ Goto("decide")
           \/ /\ Stale(k) = {} /\ State(k) # "none" /\ op.kind = "limiterThaw"
              /\ managed' = [managed EXCEPT ![k].limiter = "thaw"]
              /\ IF AwakeThaws(managed[k])
                 THEN at' = Step(k, "keep", FALSE, "idle") /\ pc' = "routine" /\ UNCHANGED <<op, result>>
                 ELSE Idle("idle")
        /\ UNCHANGED <<serviceVars, nextId, worldVars, faults>>

\* The process is opened, checked and put into its job.
Assign ==
    /\ pc = "assign"
    /\ \/ life[op.key] # "alive" /\ Idle("idle") /\ UNCHANGED <<managed, faults>>
       \/ Fault /\ Idle("idle") /\ UNCHANGED managed
       \/ /\ life[op.key] = "alive" /\ UNCHANGED faults
          /\ \/ /\ op.kind = "freeze" /\ Goto("decide")
                /\ managed' = [managed EXCEPT ![op.key] = [NewEntry EXCEPT !.app = "freeze"]]
             \/ /\ op.kind = "limiterFreeze" /\ Goto("decide")
                /\ managed' = [managed EXCEPT ![op.key] = [NewEntry EXCEPT !.limiter = "freeze"]]
             \/ /\ op.kind = "limiterThaw" /\ Idle("idle")
                /\ managed' = [managed EXCEPT ![op.key] = [NewEntry EXCEPT !.limiter = "thaw"]]
    /\ UNCHANGED <<serviceVars, nextId, worldVars>>

\* prepare_for_freeze finishes what an earlier transaction left.
Settle(k) == State(k) \in {"compensate", "cleanup", "cleanupRelease"}

\* An entry that its settlement removed ends the call: the caller has to ask again.
DecideFreeze ==
    LET k == op.key
    IN  /\ pc = "decide"
        /\ \/ State(k) \in {"none", "frozen"} /\ Idle("idle")
           \/ /\ Settle(k)
              /\ at' = Step(k, "release", FALSE, "decide")
              /\ pc' = IF State(k) = "compensate" THEN "routine" ELSE "cleanup"
              /\ UNCHANGED <<op, result>>
           \/ /\ State(k) \notin {"none", "frozen"} /\ ~Settle(k) /\ managed[k].armed
              /\ \/ NotDue(k, FALSE) /\ Idle("idle")
                 \/ Goto("refreeze")
           \/ /\ State(k) \notin {"none", "frozen"} /\ ~Settle(k) /\ ~managed[k].armed
              /\ Goto("begin")
        /\ UNCHANGED <<serviceVars, stateVars, worldVars, faults>>

\* The limiter's duty cycle: the job is still recorded from an earlier freeze.
Refreeze ==
    /\ pc = "refreeze"
    /\ \/ Fault /\ RetainFailure(op.key) /\ UNCHANGED frozen
       \/ /\ frozen' = [frozen EXCEPT ![op.key] = TRUE]
          /\ managed' = [managed EXCEPT ![op.key].state = "frozen", ![op.key].retry = FALSE]
          /\ UNCHANGED faults
    /\ Idle("idle")
    /\ UNCHANGED <<serviceVars, nextId, life>>

\* Mutant of BeginFreeze: a failed Begin does not stop the freeze.
BeginIgnored ==
    /\ pc = "begin"
    /\ \/ /\ Submit(Begin(nextId, op.key, FrozenEdge))
          /\ at' = [Step(op.key, "release", TRUE, "idle") EXCEPT !.id = nextId]
          /\ nextId' = nextId + 1
          /\ UNCHANGED <<pc, op, result, managed, faults>>
       \/ (Granted \/ Denied) /\ Goto("freeze") /\ UNCHANGED stateVars
    /\ UNCHANGED worldVars

\* begin_freeze also fails when the process can no longer be identified, or the
\* helper cannot open the job.
BeginFreeze ==
    /\ pc = "begin"
    /\ \/ /\ Submit(Begin(nextId, op.key, FrozenEdge))
          /\ at' = [Step(op.key, "release", TRUE, "idle") EXCEPT !.id = nextId]
          /\ nextId' = nextId + 1
          /\ UNCHANGED <<pc, op, result, managed, faults>>
       \/ Granted /\ Goto("freeze") /\ UNCHANGED stateVars
       \/ /\ Denied \/ (call = NoCall /\ Fault /\ UNCHANGED serviceVars)
          /\ Drop(op.key) /\ Idle("idle") /\ UNCHANGED nextId
    /\ UNCHANGED worldVars

Freeze ==
    /\ pc = "freeze"
    /\ \/ frozen' = [frozen EXCEPT ![op.key] = TRUE] /\ Goto("commit") /\ UNCHANGED faults
       \/ Fault /\ Goto("cancel") /\ UNCHANGED frozen
    /\ UNCHANGED <<serviceVars, stateVars, life>>

\* The intent is dropped, whatever becomes of its Cancel, and so is the entry.
CancelFreeze ==
    /\ pc = "cancel"
    /\ \/ Ask(Cancel(at.id))
       \/ (Granted \/ Denied) /\ Drop(op.key) /\ Idle("idle") /\ UNCHANGED <<nextId, worldVars>>

\* Mutant of CommitFreeze: a failed Commit is reported, and the process left frozen.
CommitUncompensated ==
    /\ pc = "commit"
    /\ \/ Ask(Commit(at.id))
       \/ /\ Granted
          /\ managed' = [managed EXCEPT ![op.key].state = "frozen", ![op.key].armed = TRUE,
                                        ![op.key].retry = FALSE]
          /\ Idle("idle") /\ UNCHANGED <<nextId, worldVars>>
       \/ Denied /\ Drop(op.key) /\ Idle("idle") /\ UNCHANGED <<nextId, worldVars>>

CommitFreeze ==
    /\ pc = "commit"
    /\ \/ Ask(Commit(at.id))
       \/ /\ Granted
          /\ managed' = [managed EXCEPT ![op.key].state = "frozen", ![op.key].armed = TRUE,
                                        ![op.key].retry = FALSE]
          /\ Idle("idle") /\ UNCHANGED <<nextId, worldVars>>
       \/ Denied /\ Goto("compensate") /\ UNCHANGED <<stateVars, worldVars>>

\* The freeze is not recorded for certain: the process is thawed again, and the
\* record given up, as finish_cleanup does it for an entry to be released.
Compensate ==
    /\ pc = "compensate"
    /\ \/ /\ Fault /\ UNCHANGED frozen
          /\ managed' = [managed EXCEPT ![op.key].state = "compensate", ![op.key].retry = TRUE]
          /\ Idle("idle")
       \/ /\ frozen' = [frozen EXCEPT ![op.key] = FALSE]
          /\ managed' = [managed EXCEPT ![op.key].state = "cleanupRelease"]
          /\ Goto("cleanup") /\ UNCHANGED faults
    /\ UNCHANGED <<serviceVars, nextId, life>>

--------------------------------------------------------------------------------
(***************************************************************************)
(* The entry points.                                                       *)
(***************************************************************************)
Start(kind, k, force, todo) ==
    op' = [kind |-> kind, key |-> k, force |-> force, todo |-> todo]

\* Bound: a freeze is asked for only while an intent id is left.
RequestFreeze(kind, k) ==
    /\ pc = "idle" /\ life[k] # "unborn" /\ nextId \in Ids
    /\ Start(kind, k, FALSE, {})
    /\ pc' = "stale"
    /\ UNCHANGED <<serviceVars, at, result, nextId, worldVars, faults>>

FreezeProcess(k) == RequestFreeze("freeze", k) /\ UNCHANGED managed

LimiterFreezes(k) ==
    /\ RequestFreeze("limiterFreeze", k)
    /\ managed' = IF State(k) = "none" THEN managed ELSE [managed EXCEPT ![k].limiter = "freeze"]

LimiterThaws(k) ==
    /\ pc = "idle" /\ life[k] # "unborn"
    /\ Start("limiterThaw", k, FALSE, {})
    /\ pc' = "stale"
    /\ UNCHANGED <<serviceVars, at, result, stateVars, worldVars, faults>>

\* thaw_keep_process and thaw_keep_target.
ThawKeep(k, force) ==
    /\ pc = "idle" /\ State(k) # "none"
    /\ managed' = [managed EXCEPT ![k].app = "thaw"]
    /\ Start("one", k, force, {})
    /\ at' = Step(k, "keep", force, "idle") /\ pc' = "routine"
    /\ UNCHANGED <<serviceVars, result, nextId, worldVars, faults>>

\* release_cpu_limiter_target: what remains is what app suspension wants.
LimiterReleases(k, force) ==
    /\ pc = "idle" /\ State(k) # "none"
    /\ managed' = [managed EXCEPT ![k].limiter = "none"]
    /\ \/ managed[k].app = "freeze" /\ UNCHANGED callVars
       \/ /\ managed[k].app # "freeze"
          /\ Start("one", k, force, {}) /\ pc' = "routine" /\ UNCHANGED result
          /\ at' = Step(k, IF managed[k].app = "thaw" THEN "keep" ELSE "release", force, "idle")
    /\ UNCHANGED <<serviceVars, nextId, worldVars, faults>>

StartLoop(kind, k, force, todo) ==
    /\ pc = "idle" /\ todo # {}
    /\ Start(kind, k, force, todo) /\ pc' = "next"
    /\ UNCHANGED <<serviceVars, at, result, stateVars, worldVars, faults>>

ReleaseProcess(k, force) ==
    StartLoop("release", k, force, {j \in ManagedKeys : Pid[j] = Pid[k]})

\* Mutant of Pending: entries left frozen by a failed transaction are overlooked.
PendingCleanups == {k \in Keys : State(k) \in {"cleanup", "cleanupRelease"}}

Pending == {k \in Keys : State(k) \in {"compensate", "cleanup", "cleanupRelease"}}

\* Every pass of app suspension begins with reconcile_pending, whoever froze.
ReconcilePending == \E k \in Keys : StartLoop("reconcile", k, FALSE, Pending)

\* Mutant of Shutdown: entries that only the limiter uses are passed over.
ShutdownOwn ==
    /\ pc = "idle"
    /\ \E k \in Keys : Start("shutdown", k, TRUE, {j \in ManagedKeys : managed[j].app # "none"})
    /\ pc' = "next"
    /\ UNCHANGED <<serviceVars, at, result, stateVars, worldVars, faults>>

Shutdown ==
    /\ pc = "idle"
    /\ \E k \in Keys : Start("shutdown", k, TRUE, ManagedKeys)
    /\ pc' = "next"
    /\ UNCHANGED <<serviceVars, at, result, stateVars, worldVars, faults>>

\* The loops over keys: release_process, reconcile_pending and shutdown.
NextKey ==
    /\ pc = "next"
    /\ \E k \in op.todo :
        LET handed == op.kind = "release" /\ State(k) # "none" /\ managed[k].limiter # "none"
            clean  == op.kind = "reconcile" /\ State(k) \in {"cleanup", "cleanupRelease"}
        IN  /\ op' = [op EXCEPT !.todo = @ \ {k}]
            /\ at' = Step(k, IF handed THEN "keep" ELSE "release", op.force, "next")
            /\ pc' = IF clean THEN "cleanup" ELSE "routine"
            /\ managed' = IF handed THEN [managed EXCEPT ![k].app = "none"] ELSE managed
    /\ UNCHANGED <<serviceVars, result, nextId, worldVars, faults>>

LoopDone ==
    /\ pc = "next" /\ op.todo = {}
    /\ IF op.kind = "shutdown" THEN pc' = "stopped" /\ UNCHANGED <<op, at, result>> ELSE Idle("idle")
    /\ UNCHANGED <<serviceVars, stateVars, worldVars, faults>>

--------------------------------------------------------------------------------
(***************************************************************************)
(* Everybody else.                                                         *)
(***************************************************************************)
ProcessExits(k) ==
    /\ life[k] = "alive"
    /\ life' = [life EXCEPT ![k] = "exited"]
    /\ UNCHANGED <<serviceVars, callVars, stateVars, frozen, faults>>

ProcessStarts(k) ==
    /\ life[k] = "unborn"
    /\ \A j \in Keys : Pid[j] = Pid[k] => life[j] # "alive"
    /\ life' = [life EXCEPT ![k] = "alive"]
    /\ UNCHANGED <<serviceVars, callVars, stateVars, frozen, faults>>

\* Winderust dies; a command already sent may still reach the helper.
Crash ==
    /\ pc \notin {"dead", "stopped"}
    /\ Idle("dead")
    /\ Abandon \/ Latch
    /\ UNCHANGED <<stateVars, worldVars, faults>>

Gone == pc \in {"dead", "stopped"}

Recorded(k) == Chain(journal, k) # << >>

\* recover_entry: a recorded job is thawed, whether its intent was committed or not.
Replay(k) ==
    /\ Gone /\ limbo = NoCommand /\ call = NoCall
    /\ Recorded(k) /\ frozen[k]
    /\ frozen' = [frozen EXCEPT ![k] = FALSE]
    /\ UNCHANGED <<serviceVars, callVars, stateVars, life, faults>>

\* Another controller's command goes unanswered, but not while this one holds an
\* intent, and with it the RUNTIME mutex.
OtherLatches ==
    /\ pc \notin {"freeze", "commit", "cancel"}
    /\ Latch /\ ~latched /\ Fault
    /\ UNCHANGED <<callVars, stateVars, worldVars>>

ServiceStep ==
    /\ ServiceActs
    /\ UNCHANGED <<callVars, stateVars, worldVars>>

--------------------------------------------------------------------------------
Init ==
    /\ ServiceInit
    /\ pc = "idle" /\ op = NoOp /\ at = NoStep /\ result = "ok"
    /\ managed = [k \in Keys |-> NoManaged]
    /\ nextId = 1
    /\ frozen = [k \in Keys |-> FALSE]
    /\ life \in [Keys -> {"unborn", "alive"}]
    /\ \A j, k \in Keys : j # k /\ life[j] = "alive" /\ life[k] = "alive" => Pid[j] # Pid[k]
    /\ faults = MaxFaults

EntryPoint ==
    \/ \E k \in Keys : FreezeProcess(k) \/ LimiterFreezes(k) \/ LimiterThaws(k)
    \/ \E k \in Keys, force \in BOOLEAN :
          ThawKeep(k, force) \/ LimiterReleases(k, force) \/ ReleaseProcess(k, force)
    \/ ReconcilePending
    \/ Shutdown

Controller ==
    \/ Release \/ Keep \/ Thaw \/ FinishCleanup
    \/ ReleaseStale \/ Assign \/ DecideFreeze \/ Refreeze
    \/ BeginFreeze \/ Freeze \/ CancelFreeze \/ CommitFreeze \/ Compensate
    \/ NextKey \/ LoopDone

Environment ==
    \/ \E k \in Keys : ProcessExits(k) \/ ProcessStarts(k) \/ Replay(k)
    \/ Crash
    \/ OtherLatches
    \/ ServiceStep

Next == EntryPoint \/ Controller \/ Environment

Spec == Init /\ [][Next]_suspensionVars

\* has_suspended_processes: what keeps app suspension's passes coming while its
\* settings ask for none (automation.rs:1130).
AppInterest(k) == State(k) # "none" /\ managed[k].app # "none"

AppSuspensionActive == \E k \in Keys : AppInterest(k)

\* The mutex is given up between calls, and while app suspension is active its passes
\* ask for pending retries again and again; time passes, so that such a retry is due at
\* last; the helper answers.  Nobody need ask for the retries of an entry that the
\* limiter alone has failed to freeze: its worker releases that itself (CpuLimiter).
FairSpec == /\ Spec
            /\ WF_suspensionVars(Controller) /\ WF_suspensionVars(ServiceStep)
            /\ SF_suspensionVars(AppSuspensionActive /\ ReconcilePending)
            /\ SF_suspensionVars(Thaw /\ frozen' # frozen)

--------------------------------------------------------------------------------
\* Every variable has its type.
TypeOK ==
    /\ ServiceTypeOK
    /\ pc \in {"idle", "stale", "assign", "decide", "refreeze", "begin", "freeze", "commit",
               "cancel", "compensate", "routine", "thaw", "cleanup", "next", "stopped", "dead"}
    /\ op \in Ops \cup {NoOp}
    /\ at \in Steps \cup {NoStep}
    /\ result \in {"ok", "pending", "failed"}
    /\ managed \in [Keys -> Entry \cup {NoManaged}]
    /\ nextId \in Nat \ {0}
    /\ frozen \in [Keys -> BOOLEAN]
    /\ life \in [Keys -> {"unborn", "alive", "exited"}]
    /\ faults \in 0..MaxFaults

\* Crash anywhere: a process that is frozen in any state, between any two calls, is
\* one that the helper's replay would thaw.
Recoverable == \A k \in Keys : frozen[k] => Recorded(k)

\* Between calls a job is frozen exactly when its entry says so: none is frozen that
\* no entry could thaw, and every freeze that failed half-way is known as one.
FrozenIsManaged ==
    pc = "idle" => \A k \in Keys : frozen[k] <=> State(k) \in {"frozen", "compensate"}

\* Between calls the helper's journal holds exactly the jobs whose entry is armed, so
\* that a refreeze needs no new record and a release leaves none behind.
LedgerAgrees ==
    pc = "idle" /\ ~latched =>
        \A k \in Keys : Recorded(k) <=> (State(k) # "none" /\ managed[k].armed)

\* Between calls a process stays frozen only while an owner wants it frozen, or its
\* thaw failed and a retry is scheduled.
NoUnwantedFreeze ==
    pc = "idle" =>
        \A k \in ManagedKeys : State(k) = "frozen" =>
            "freeze" \in {managed[k].app, managed[k].limiter} \/ managed[k].retry

\* A reused process id never has two entries (freeze and the limiter's phases release
\* the others first), so that a process id names one.
ReusedIdHasOneEntry ==
    pc = "idle" => \A j, k \in ManagedKeys : Pid[j] = Pid[k] => j = k

\* The controller's books are in order.
Consistent ==
    TypeOK /\ FrozenIsManaged /\ LedgerAgrees /\ NoUnwantedFreeze /\ ReusedIdHasOneEntry

\* No call of one owner thaws a process that the other wants frozen: only app
\* suspension gives up its own freeze and only the limiter its own; besides, shutdown
\* thaws, and a call for another instance under the same process id.
OwnersHold ==
    [][\A k \in ManagedKeys :
          frozen[k] /\ ~frozen'[k] /\ ~Gone /\ State(k) = "frozen" =>
              \/ op.kind = "shutdown" \/ at.then = "stale"
              \/ /\ managed[k].limiter # "freeze"
                 /\ managed[k].app = "freeze" => op.kind = "release"]_suspensionVars

\* A shutdown that reports success leaves nothing frozen, and nothing for the helper
\* to thaw.
ShutdownThaws ==
    pc = "stopped" /\ result = "ok" =>
        \A k \in Keys : ~frozen[k] /\ (latched \/ ~Recorded(k))

\* reconcile_pending asserts that nothing it retries fails in any other way than by
\* waiting for the next retry.
ReconcileOnlyWaits ==
    op # NoOp /\ op.kind = "reconcile" => result # "failed"

\* A process left frozen by a failed transaction is thawed at last, as long as app
\* suspension does not give up its interest in it.
CompensationEnds ==
    \A k \in Keys :
        State(k) = "compensate" /\ AppInterest(k)
            ~> State(k) # "compensate" \/ ~AppInterest(k) \/ Gone

\* The same whoever has an interest in it: reconcile_pending alone does not achieve this.
EveryCompensationEnds ==
    \A k \in Keys : State(k) = "compensate" ~> State(k) # "compensate" \/ Gone
================================================================================
