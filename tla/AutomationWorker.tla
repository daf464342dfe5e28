---------------------------- MODULE AutomationWorker ----------------------------
(***************************************************************************)
(* The runtime's background worker, the handle that starts and stops it    *)
(* and the callbacks that wake it (src/backend/automation.rs, its wake,    *)
(* status, runner and requirements files).                                 *)
(*                                                                         *)
(* The window's thread replaces the settings and queues commands; after    *)
(* each it looks, under the lifecycle lock, whether a worker is needed.    *)
(* The worker takes a snapshot of the shared state, makes a pass over the  *)
(* active profile, answers the commands it took and sleeps, or leaves when *)
(* nothing needs it.  Windows and the input hook call in at any time.      *)
(* Another thread may shut the runtime down, once.                         *)
(*                                                                         *)
(* newer stands for change_generation # the generation of the worker's     *)
(* last snapshot: the only use the code makes of that counter.             *)
(***************************************************************************)
EXTENDS Requirements, Integers, Sequences

CONSTANTS
    Commands,       \* the commands the window sends, each at most once
    Configurations, \* the settings the user chooses among
    Capacity,       \* PROCESS_CONTROL_COMMAND_QUEUE_CAPACITY
    WindowsEvents,  \* the events besides a change of the power source that Windows reports
    MaxFaults       \* how many restorations begin to fail, panics and failed starts happen

ASSUME WorkerAssumption ==
    /\ Configurations \subseteq Settings
    /\ Capacity \in Nat /\ MaxFaults \in Nat
    /\ WindowsEvents \subseteq {"foreground", "looks"}

VARIABLES
    settings,   \* state.settings
    stop,       \* state.stop_requested
    newer,      \* state.change_generation, see above
    renew,      \* state.pending_events has settings_changed or power_changed, after which a pass
                \* looks at every feature; the other events only end the sleep
    queue,      \* state.process_control_commands
    accepting,  \* state.worker_accepting_work
    worker,     \* where the worker's thread is
    exit,       \* what that thread returned: "ok", "error", "panic"
    joinable,   \* whether RuntimeHandle.thread holds it
    snap,       \* the snapshot of the worker's pass: its settings and its commands
    changed,    \* settings_changed of the pass
    last,       \* runner.last_settings
    held,       \* what the runner changed and has yet to restore
    lost,       \* a runner that ended could not restore something, and nobody was told of it yet
    ui,         \* where the window's thread is in sync_worker and its siblings
    closer,     \* where the thread that called shutdown is
    watcher,    \* the watcher of Windows' events, installed
    hook,       \* the input hook, installed
    posted,     \* a change of the power source is on its way to the watcher's callback
    plugged,    \* the power source
    answer,     \* what became of each command
    faults

shared == <<settings, stop, newer, renew, queue, accepting>>
thread == <<worker, exit, joinable>>
pass == <<snap, changed, last, held, lost>>
sources == <<watcher, hook, posted, plugged>>
vars == <<shared, thread, pass, ui, closer, sources, answer, faults>>

NoSettings == [ac |-> {}, battery |-> {}]
NoSnapshot == [settings |-> NoSettings, commands |-> <<>>]
NoProfile == {"none"}
Answers == {"none", "queued", "taken", "done", "refused"}

\* What a pass may leave changed in the system: what a controller lists until it is restored
\* ("process"), what the process list was told to change, and a selected plan or the timer, which
\* do not keep the worker.
Kinds == {"process", "manual", "other"}
Wanted(p) ==
    (IF "enabled" \in p /\ p \cap {"saver", "suspend", "processes"} # {} THEN {"process"} ELSE {})
    \cup (IF "enabled" \in p /\ p \cap {"plans", "timer"} # {} THEN {"other"} ELSE {})

Fault == faults < MaxFaults /\ faults' = faults + 1
NoFault == UNCHANGED faults

\* change_generation + 1 and notify_one, in the same critical section.
Wake ==
    /\ newer' = TRUE
    /\ worker' = IF worker \in {"asleep", "dozing"} THEN "woken" ELSE worker

\* Every command of sequence q is answered with a.
AnswerAll(q, a) == [c \in Commands |-> IF \E i \in DOMAIN q : q[i] = c THEN a ELSE answer[c]]

--------------------------------------------------------------------------------
\* The window's thread.

\* replace_settings. The save of settings that are already in force changes nothing here.
ReplaceSettings(s) ==
    /\ ui = "idle" /\ s # settings /\ ~stop
    /\ settings' = s
    /\ renew' = TRUE
    /\ Wake
    /\ ui' = "sync"
    /\ UNCHANGED <<stop, queue, accepting, exit, joinable, pass, closer, sources, answer, faults>>

\* enqueue_process_control_command
Enqueue(c) ==
    /\ ui = "idle" /\ answer[c] = "none"
    /\ IF stop \/ Len(queue) >= Capacity
       THEN /\ answer' = [answer EXCEPT ![c] = "refused"]
            /\ UNCHANGED <<newer, queue, worker, ui>>
       ELSE /\ queue' = Append(queue, c)
            /\ answer' = [answer EXCEPT ![c] = "queued"]
            /\ Wake
            /\ ui' = "start"
    /\ UNCHANGED <<settings, stop, renew, accepting, exit, joinable, pass, closer, sources, faults>>

\* sync_worker, first half. The lifecycle lock is free: whoever holds it is inside its own steps.
LifecycleFree == closer \in {"idle", "ended"}
NeedsJoin == joinable /\ (worker = "gone" \/ ~accepting)
StartRequested == ui \in {"start", "join start"}

\* sync_worker starts a thread when the caller or the settings ask for one and there is none.
Start ==
    IF StartRequested \/ WorkerRequired(settings)
    THEN /\ accepting' = TRUE /\ joinable' = TRUE /\ worker' = "top" /\ exit' = "ok"
         /\ last' = NoProfile
    ELSE /\ accepting' = FALSE /\ joinable' = FALSE
         /\ UNCHANGED <<worker, exit, last>>

NextSync == IF StartRequested THEN "idle" ELSE "watch"

SyncWorker ==
    /\ ui \in {"sync", "start"} /\ LifecycleFree
    /\ IF stop THEN ui' = NextSync /\ UNCHANGED <<accepting, thread, last>>
       ELSE IF NeedsJoin
            THEN /\ ui' = IF StartRequested THEN "join start" ELSE "join"
                 /\ UNCHANGED <<accepting, thread, last>>
            ELSE /\ ui' = NextSync
                 /\ IF joinable THEN UNCHANGED <<accepting, thread, last>> ELSE Start
    /\ UNCHANGED <<settings, stop, newer, renew, queue, snap, changed, held, lost, closer,
                   sources, answer, faults>>

\* It waits for a thread that has left, or is leaving, with the lifecycle lock in hand. The
\* error that the thread returned goes to the status.
JoinWorker ==
    /\ ui \in {"join", "join start"} /\ worker = "gone"
    /\ lost' = (lost /\ exit = "ok")
    /\ ui' = NextSync
    /\ Start
    /\ UNCHANGED <<settings, stop, newer, renew, queue, snap, changed, held, closer,
                   sources, answer, faults>>

\* sync_windows_event_watcher and set_windows_event_watcher_active. Nothing tries again to start
\* a watcher that did not start.
SyncWatcher ==
    /\ ui = "watch" /\ LifecycleFree
    /\ ui' = "hook"
    /\ IF stop THEN UNCHANGED <<newer, worker, watcher, posted, faults>>
       ELSE /\ \/ watcher' = EventsRequired(settings) /\ NoFault
               \/ EventsRequired(settings) /\ ~watcher /\ Fault /\ UNCHANGED watcher
            /\ posted' = (posted /\ watcher')
            /\ IF watcher' # watcher THEN Wake ELSE UNCHANGED <<newer, worker>>
    /\ UNCHANGED <<settings, stop, renew, queue, accepting, exit, joinable, pass, closer,
                   hook, plugged, answer>>

\* sync_input_hook. A hook that cannot be installed is reported.
\* Left out is the wake of configure_input_activity (status.rs:445): without it there are fewer
\* wakes to hide a lost one.
SyncHook ==
    /\ ui = "hook" /\ LifecycleFree
    /\ ui' = "idle"
    /\ IF stop THEN UNCHANGED <<hook, faults>>
       ELSE \/ hook' = HookRequired(settings) /\ NoFault
            \/ HookRequired(settings) /\ hook' = FALSE /\ Fault
    /\ UNCHANGED <<shared, thread, pass, closer, watcher, posted, plugged, answer>>

\* clear_action_log
ClearActionLog ==
    /\ ui = "idle" /\ ~stop
    /\ Wake
    /\ UNCHANGED <<settings, stop, renew, queue, accepting, exit, joinable, pass, ui, closer,
                   sources, answer, faults>>

--------------------------------------------------------------------------------
\* The worker's thread.

\* automation_snapshot: the loop ends when a stop was requested, else it takes everything.
Snapshot ==
    /\ worker \in {"top", "woken"}
    /\ IF stop
       THEN worker' = "shutdown" /\ UNCHANGED <<newer, renew, queue, snap, changed, answer>>
       ELSE /\ worker' = "source"
            /\ snap' = [settings |-> settings, commands |-> queue]
            /\ answer' = AnswerAll(queue, "taken")
            /\ changed' = renew
            /\ queue' = <<>> /\ renew' = FALSE /\ newer' = FALSE
    /\ UNCHANGED <<settings, stop, accepting, exit, joinable, last, held, lost, ui, closer,
                   sources, faults>>

\* The power source is read and note_settings compares its profile with that of the last pass.
ReadSource ==
    /\ worker = "source"
    /\ LET p == Active(snap.settings, plugged) IN
       /\ changed' = (changed \/ p # last)
       /\ last' = p
    /\ worker' = "features"
    /\ UNCHANGED <<shared, exit, joinable, snap, held, lost, ui, closer, sources, answer, faults>>

\* What a pass tries to release: what the profile no longer wants. A process that refuses stays on
\* its controller's list of retries; a plan or the timer is only tried again by a pass that finds
\* changed settings.
Tried == held \ (Wanted(last) \cup {"manual"} \cup (IF changed THEN {} ELSE {"other"}))

\* The feature updates of a pass. What the profile wants may come to be held.
UpdateFeatures ==
    /\ worker = "features"
    /\ \E new \in SUBSET Wanted(last), refused \in SUBSET Tried :
        /\ IF refused = {} THEN NoFault ELSE Fault
        /\ held' = (held \ Tried) \cup refused \cup new
    /\ worker' = "commands"
    /\ UNCHANGED <<shared, exit, joinable, snap, changed, last, lost, ui, closer, sources, answer>>

\* run_process_control_commands answers the commands in the order in which they came.
RunCommand ==
    /\ worker = "commands" /\ snap.commands # <<>>
    /\ answer' = [answer EXCEPT ![Head(snap.commands)] = "done"]
    /\ snap' = [snap EXCEPT !.commands = Tail(@)]
    /\ held' \in {held, held \cup {"manual"}}
    /\ UNCHANGED <<shared, thread, changed, last, lost, ui, closer, sources, faults>>

\* How the pass ends: nothing has to be looked at again by itself, so the worker may sleep
\* without a deadline, or leave.
NoDeadline == ~changed /\ ~RefreshRequired(snap.settings, last)
Managed == held \cap {"process", "manual"} # {}
CanExit == NoDeadline /\ ~WorkerRequired(snap.settings) /\ ~Managed
ReleasePending == "process" \in held \ Wanted(last)

\* automation_worker_can_exit and worker_exit_is_still_idle
Decide ==
    /\ worker = "commands" /\ snap.commands = <<>>
    /\ worker' = IF ~CanExit THEN "wait" ELSE IF stop \/ ~newer THEN "leave" ELSE "top"
    /\ UNCHANGED <<shared, exit, joinable, pass, ui, closer, sources, answer, faults>>

\* Mutant of WaitForWake: the generation is not compared before the wait.
WaitUnlessStopped ==
    /\ worker = "wait"
    /\ worker' = IF stop THEN "shutdown"
                 ELSE IF NoDeadline /\ ~ReleasePending THEN "asleep" ELSE "dozing"
    /\ changed' = FALSE
    /\ UNCHANGED <<shared, exit, joinable, snap, last, held, lost, ui, closer, sources, answer, faults>>

\* wait_for_wake: the look at the state and the wait are one critical section.
WaitForWake ==
    /\ worker = "wait"
    /\ worker' = IF stop THEN "shutdown"
                 ELSE IF newer THEN "top"
                 ELSE IF NoDeadline /\ ~ReleasePending THEN "asleep" ELSE "dozing"
    /\ changed' = FALSE
    /\ UNCHANGED <<shared, exit, joinable, snap, last, held, lost, ui, closer, sources, answer, faults>>

\* A deadline passes. A condition variable may also wake without a cause.
Deadline ==
    /\ worker = "dozing" /\ worker' = "woken"
    /\ UNCHANGED <<shared, exit, joinable, pass, ui, closer, sources, answer, faults>>

SpuriousWake ==
    /\ worker = "asleep" /\ worker' = "woken"
    /\ UNCHANGED <<shared, exit, joinable, pass, ui, closer, sources, answer, faults>>

\* All that a leaving worker may still hold refused to be released before, and may go on to.
FailsAgain == worker = "leave" /\ NoFault

\* RuntimeCore::shutdown restores everything once, after which the runner ends. What it could not
\* restore is held by no runner any more, but lost until its error has been passed on.
Restore ==
    /\ held' = {}
    /\ \/ NoFault /\ exit' = "ok" /\ UNCHANGED lost
       \/ held # {} /\ (Fault \/ FailsAgain) /\ exit' = "error" /\ lost' = TRUE

\* The worker that leaves shuts its runner down without the lock.
Leave ==
    /\ worker = "leave"
    /\ Restore
    /\ worker' = "commit"
    /\ UNCHANGED <<shared, joinable, snap, changed, last, ui, closer, sources, answer>>

\* Mutant of CommitExit: a worker that stays drops the result of the restoration.
CommitUnreported ==
    /\ worker = "commit"
    /\ IF stop \/ ~newer
       THEN accepting' = FALSE /\ worker' = "guard" /\ UNCHANGED <<exit, last>>
       ELSE worker' = "top" /\ last' = NoProfile /\ exit' = "ok" /\ UNCHANGED accepting
    /\ UNCHANGED <<settings, stop, newer, renew, queue, joinable, snap, changed, held, lost, ui,
                   closer, sources, answer, faults>>

\* Mutant of CommitExit: it leaves without a look at what came meanwhile.
CommitAlways ==
    /\ worker = "commit"
    /\ accepting' = FALSE /\ worker' = "guard"
    /\ UNCHANGED <<settings, stop, newer, renew, queue, exit, joinable, pass, ui, closer, sources,
                   answer, faults>>

\* commit_worker_exit: it stays, with a fresh runner, when work came meanwhile. The thread's own
\* result is then not this restoration's, whose error goes to the status instead.
CommitExit ==
    /\ worker = "commit"
    /\ IF stop \/ ~newer
       THEN /\ accepting' = FALSE /\ worker' = "guard"
            /\ UNCHANGED <<exit, last, lost>>
       ELSE /\ worker' = "top" /\ last' = NoProfile
            /\ lost' = FALSE /\ exit' = "ok"
            /\ UNCHANGED accepting
    /\ UNCHANGED <<settings, stop, newer, renew, queue, joinable, snap, changed, held, ui,
                   closer, sources, answer, faults>>

\* After a stop the loop ends and the runner is shut down.
ShutRunner ==
    /\ worker = "shutdown"
    /\ Restore
    /\ worker' = "guard"
    /\ UNCHANGED <<shared, joinable, snap, changed, last, ui, closer, sources, answer>>

\* A panic in a pass drops the commands it took and the runner, which still restores.
Panic ==
    /\ worker \in {"source", "features", "commands"}
    /\ Fault
    /\ held' = {} /\ lost' \in {lost, lost \/ held # {}}
    /\ answer' = AnswerAll(snap.commands, "refused")
    /\ snap' = [snap EXCEPT !.commands = <<>>]
    /\ exit' = "panic" /\ worker' = "guard" /\ changed' = FALSE
    /\ UNCHANGED <<shared, joinable, last, ui, closer, sources>>

\* Mutant of DropGuard: a worker that panicked leaves the queue behind.
DropQuietly ==
    /\ worker = "guard"
    /\ accepting' = FALSE
    /\ worker' = "ending"
    /\ UNCHANGED <<settings, stop, newer, renew, queue, exit, joinable, pass, ui, closer, sources,
                   answer, faults>>

\* AutomationWorkerExitGuard::drop. A worker that leaves in order no longer accepts work, and
\* what was queued since is left to the next one.
DropGuard ==
    /\ worker = "guard"
    /\ accepting' = FALSE
    /\ IF accepting THEN answer' = AnswerAll(queue, "refused") /\ queue' = <<>>
       ELSE UNCHANGED <<answer, queue>>
    /\ worker' = "ending"
    /\ UNCHANGED <<settings, stop, newer, renew, exit, joinable, pass, ui, closer, sources, faults>>

ThreadEnds ==
    /\ worker = "ending" /\ worker' = "gone"
    /\ snap' = NoSnapshot /\ changed' = FALSE /\ last' = NoProfile
    /\ UNCHANGED <<settings, stop, newer, renew, queue, accepting, exit, joinable, held, lost, ui, closer, sources, answer, faults>>

--------------------------------------------------------------------------------
\* Callbacks and the system.

\* notify_windows_event and notify_input_event
Notify(e) ==
    IF stop \/ ~(IF e = "input" THEN InputWakes(settings) ELSE Wakes(settings, e))
    THEN UNCHANGED <<renew, newer, worker>>
    ELSE renew' = (renew \/ e = "power") /\ Wake

DeliverPower ==
    /\ posted /\ posted' = FALSE /\ Notify("power")
    /\ UNCHANGED <<settings, stop, queue, accepting, exit, joinable, pass, ui, closer,
                   watcher, hook, plugged, answer, faults>>

Input ==
    /\ hook /\ Notify("input")
    /\ UNCHANGED <<settings, stop, queue, accepting, exit, joinable, pass, ui, closer,
                   sources, answer, faults>>

WindowsEvent ==
    /\ watcher /\ \E e \in WindowsEvents : Notify(e)
    /\ UNCHANGED <<settings, stop, queue, accepting, exit, joinable, pass, ui, closer,
                   sources, answer, faults>>

PowerChanges ==
    /\ plugged' = ~plugged
    /\ posted' = watcher
    /\ UNCHANGED <<shared, thread, pass, ui, closer, watcher, hook, answer, faults>>

--------------------------------------------------------------------------------
\* RuntimeHandle::shutdown holds the lifecycle lock from its first step to its last.

\* Mutant of BeginShutdown: the condition variable is not notified.
BeginShutdownSilently ==
    /\ closer = "idle" /\ ui \notin {"join", "join start"}
    /\ closer' = "stopped"
    /\ stop' = TRUE
    /\ answer' = AnswerAll(queue, "refused") /\ queue' = <<>>
    /\ UNCHANGED <<settings, newer, renew, accepting, thread, pass, ui, sources, faults>>

BeginShutdown ==
    /\ closer = "idle" /\ ui \notin {"join", "join start"}
    /\ closer' = "stopped"
    /\ stop' = TRUE
    /\ answer' = AnswerAll(queue, "refused") /\ queue' = <<>>
    /\ worker' = IF worker \in {"asleep", "dozing"} THEN "woken" ELSE worker
    /\ UNCHANGED <<settings, newer, renew, accepting, exit, joinable, pass, ui, sources, faults>>

\* The watcher and the hook are taken and their threads joined.
DropSources ==
    /\ closer = "stopped" /\ closer' = "joining"
    /\ watcher' = FALSE /\ hook' = FALSE /\ posted' = FALSE
    /\ UNCHANGED <<shared, thread, pass, ui, plugged, answer, faults>>

\* The worker is joined; its error or panic becomes the result of the shutdown.
JoinAtShutdown ==
    /\ closer = "joining" /\ (joinable => worker = "gone")
    /\ closer' = "ended" /\ joinable' = FALSE
    /\ lost' = (lost /\ (joinable => exit = "ok"))
    /\ UNCHANGED <<shared, worker, exit, snap, changed, last, held, ui, sources, answer, faults>>

--------------------------------------------------------------------------------
Init ==
    /\ settings \in Configurations
    /\ stop = FALSE /\ newer = FALSE /\ renew = FALSE /\ queue = <<>> /\ accepting = FALSE
    /\ worker = "gone" /\ exit = "ok" /\ joinable = FALSE
    /\ snap = NoSnapshot /\ changed = FALSE /\ last = NoProfile /\ held = {} /\ lost = FALSE
    /\ ui = "sync" /\ closer = "idle"
    /\ watcher = FALSE /\ hook = FALSE /\ posted = FALSE /\ plugged \in BOOLEAN
    /\ answer = [c \in Commands |-> "none"] /\ faults = 0

WorkerStep ==
    Snapshot \/ ReadSource \/ UpdateFeatures \/ RunCommand \/ Decide \/ WaitForWake \/ Deadline
        \/ Leave \/ CommitExit \/ ShutRunner \/ DropGuard \/ ThreadEnds
UiStep == SyncWorker \/ JoinWorker \/ SyncWatcher \/ SyncHook
CloserStep == DropSources \/ JoinAtShutdown

Next ==
    \/ \E s \in Configurations : ReplaceSettings(s)
    \/ \E c \in Commands : Enqueue(c)
    \/ ClearActionLog
    \/ UiStep \/ WorkerStep \/ SpuriousWake \/ Panic
    \/ DeliverPower \/ Input \/ WindowsEvent \/ PowerChanges
    \/ BeginShutdown \/ CloserStep

Spec == Init /\ [][Next]_vars

\* The threads are scheduled, a deadline passes, and Windows delivers what it has posted.
Fairness == WF_vars(WorkerStep) /\ WF_vars(UiStep) /\ WF_vars(CloserStep) /\ WF_vars(DeliverPower)
FairSpec == Spec /\ Fairness

--------------------------------------------------------------------------------
Places == {"top", "source", "features", "commands", "wait", "asleep", "dozing", "woken", "leave",
           "commit", "shutdown", "guard", "ending", "gone"}

\* Every variable has its type.
TypeOK ==
    /\ settings \in Configurations /\ snap.settings \in Configurations \cup {NoSettings}
    /\ {stop, newer, renew, accepting, joinable, changed, lost, watcher, hook, posted, plugged} \subseteq BOOLEAN
    /\ queue \in Seq(Commands) /\ snap.commands \in Seq(Commands)
    /\ worker \in Places /\ exit \in {"ok", "error", "panic"}
    /\ last \in Profile \cup {NoProfile} /\ held \subseteq Kinds
    /\ ui \in {"idle", "sync", "start", "join", "join start", "watch", "hook"}
    /\ closer \in {"idle", "stopped", "joining", "ended"}
    /\ answer \in [Commands -> Answers] /\ faults \in 0 .. MaxFaults

\* While the worker sleeps, or once none is left and no call is on its way to start one, nothing
\* is left for it to do: no command waits, no new settings or events are unseen by a worker that
\* the settings ask for, and no stop was missed.
NoLostWake ==
    /\ worker \in {"asleep", "dozing"} => ~newer /\ ~stop /\ queue = <<>> /\ ~renew
    /\ queue # <<>> =>
        \/ ui \in {"start", "join start"}
        \/ worker \notin {"guard", "ending", "gone"}
        \/ worker = "guard" /\ accepting

\* What could not be restored is never kept silent: as long as nobody was told, the thread that
\* returned the error is still to be joined.
LossesAreTold == lost => joinable

\* Nothing that came is overlooked, and nothing that went wrong is kept quiet.
Consistent == TypeOK /\ NoLostWake /\ LossesAreTold

\* Every command that is accepted is answered, whatever the worker was about to do.
CommandsAnswered == \A c \in Commands : answer[c] = "queued" ~> answer[c] \notin {"queued", "taken"}

Demanding == {s \in Configurations : WorkerRequired(s)}

\* Settings that need a worker come into force: a worker takes them up, unless they are replaced,
\* the runtime is stopped, or a pass panics.
SettingsTakeEffect ==
    \A s \in Demanding :
        settings = s ~>
            \/ joinable /\ snap.settings = s /\ worker \notin {"guard", "ending", "gone"}
            \/ settings # s \/ stop \/ exit = "panic"

\* When the settings no longer ask for anything, what the features changed is given back, even if
\* the window does nothing more. If that fails for good, the failure does not vanish: it is in the
\* status, or the thread that gave up has ended with its error, for whoever joins it next.
FailureIsKept == joinable /\ worker = "gone" /\ exit # "ok"
DisabledIsReleased ==
    ~WorkerRequired(settings) /\ faults = MaxFaults ~>
        \/ "process" \notin held /\ (lost => FailureIsKept)
        \/ WorkerRequired(settings) \/ stop

\* Once shutdown has begun, the worker leaves and the call returns, with nothing held.
ShutdownEnds == closer = "stopped" ~> closer = "ended" /\ worker = "gone" /\ held = {}

\* The worker follows the power source: with settings that need a worker in either profile, the
\* profile in force becomes that of the source, as long as Windows' events are watched.
WatchedPowerIsFollowed ==
    \A s \in Demanding, b \in BOOLEAN :
        settings = s /\ plugged = b ~>
            last = Active(s, b) \/ settings # s \/ plugged # b \/ stop \/ exit = "panic" \/ ~watcher

\* The same without that condition: "An idle profile waits for events when the other profile
\* requires automation" (docs/runtime-contracts.md:7).
ProfileFollowsPower ==
    \A s \in Demanding, b \in BOOLEAN :
        settings = s /\ plugged = b ~>
            last = Active(s, b) \/ settings # s \/ plugged # b \/ stop \/ exit = "panic"
================================================================================
