-------------------------------- MODULE SelfPower --------------------------------
(***************************************************************************)
(* Winderust's own priority and power throttling (backend/self_power.rs):  *)
(* while its window is hidden in the tray it asks for efficiency, and puts *)
(* back what it found when the window is shown.  Requests come from the    *)
(* tray's thread, a worker retries what failed, and shutdown stops the     *)
(* worker and waits for its restoration, for a limited time.  Every call   *)
(* to Windows is a step of its own; it may fail, or never return.          *)
(***************************************************************************)
EXTENDS Naturals

CONSTANTS MaxFaults,    \* calls to Windows that fail
          MaxChanges    \* changes made by other programs

ASSUME SelfPowerAssumption == MaxFaults \in Nat /\ MaxChanges \in Nat

VARIABLES
    current,                      \* Windows: what holds for the process
    hidden, held, retry, ended,   \* SelfPowerController
    lock, call,                   \* its mutex, and the reconciliation under it
    stopped, newer,               \* RetryWakeState; whether the generation moved since it was read
    tray, wanted,                 \* the thread that calls set_hidden_mode, and its argument
    worker, timed,                \* run_self_power_retries, and whether its wait has a timeout
    completion, closer, result,   \* the channel, shutdown(), and what it returned
    theirs, missed,               \* what somebody else set last; whether Winderust could not see it
    ours,                         \* the halves that somebody left as Winderust had set them
    faults, changes

controllerVars == <<hidden, held, retry, ended>>
requestVars == <<tray, wanted>>
workerVars == <<worker, timed, completion>>
closerVars == <<closer, result>>
ghostVars == <<theirs, missed, ours, changes>>
vars == <<current, controllerVars, lock, call, stopped, newer, requestVars, workerVars,
          closerVars, ghostVars, faults>>

--------------------------------------------------------------------------------
(***************************************************************************)
(* The state of the process.  Masks are reduced to what the code reads and *)
(* sets of them: execution speed, and the timer's bit it leaves alone.     *)
(***************************************************************************)
Powers == [speed : {"system", "saving"}, timer : BOOLEAN]
States == [power : Powers, priority : {"normal", "high", "idle"}]

Plain == [power |-> [speed |-> "system", timer |-> FALSE], priority |-> "normal"]
Tuned == [power |-> [speed |-> "system", timer |-> TRUE], priority |-> "high"]

\* What the hidden window asks for, over what was there.
Enabled(baseline) ==
    [power |-> [baseline.power EXCEPT !.speed = "saving"], priority |-> "idle"]

NoHeld == [kind |-> "none"]
Hold(baseline, expected, preserve) ==
    [kind |-> "held", baseline |-> baseline, expected |-> expected, preserve |-> preserve]

NoCall == [at |-> "none"]

Halves == {"power", "priority"}

\* Put(half, s): Windows takes over one half of s.
Put(half, s) == current' = [current EXCEPT ![half] = s[half]]

Fault == faults < MaxFaults /\ faults' = faults + 1

Idle == lock = "free"

--------------------------------------------------------------------------------
(***************************************************************************)
(* reconcile, under the controller's mutex.                                *)
(***************************************************************************)
\* Entered by `who` with the mutex free.
Enter(who) == Idle /\ lock' = who /\ call' = [at |-> "query"]

\* What the holder of the mutex does next.
Continue(ok, nextRetry) ==
    /\ lock' = "free" /\ call' = NoCall /\ retry' = nextRetry
    /\ CASE lock = "tray" ->
              /\ tray' = "tell" /\ UNCHANGED <<ended, worker, timed>>
         [] lock = "worker" /\ worker = "retrying" ->
              /\ worker' = "settled" /\ timed' = (nextRetry # "none")
              /\ UNCHANGED <<ended, tray>>
         [] lock = "worker" /\ worker = "restoring" ->
              /\ worker' = IF ok THEN "restored" ELSE "failed"
              /\ ended' = ok /\ UNCHANGED <<timed, tray>>

\* A retry is due an interval after a failure, and never after a success.
Succeeds == Continue(TRUE, "none")
Fails == Continue(FALSE, "later")

Goto(step) == call' = [call EXCEPT !.at = step]
Same == UNCHANGED <<lock, retry, ended, tray, worker, timed>>

\* Mutant of Noticed: whatever differs is taken for somebody else's.
NoticedAlways(seen) ==
    IF seen = held.expected THEN held.baseline ELSE seen

\* A difference is somebody else's change, unless a failed call may have made it.
Noticed(seen) ==
    IF seen = held.expected \/ held.preserve THEN held.baseline ELSE seen

\* Nothing is held and nothing wanted; or the first state is read and becomes the baseline;
\* or the state is compared with the one left behind.
Query ==
    /\ call.at = "query"
    /\ \/ held = NoHeld /\ ~hidden /\ Succeeds /\ UNCHANGED <<held, faults>>
       \/ ~(held = NoHeld /\ ~hidden) /\ Fault /\ Fails /\ UNCHANGED held
       \/ /\ ~(held = NoHeld /\ ~hidden)
          /\ LET baseline == IF held = NoHeld THEN current ELSE Noticed(current)
                 desired == IF hidden THEN Enabled(baseline) ELSE baseline
             IN  /\ held' = Hold(baseline, current, FALSE)
                 /\ call' = [at |-> "power", seen |-> current, desired |-> desired, undo |-> {}]
          /\ Same /\ UNCHANGED faults
    /\ UNCHANGED <<current, hidden>>

SetPower ==
    /\ call.at = "power"
    /\ \/ call.seen.power = call.desired.power /\ Goto("priority") /\ UNCHANGED <<current, faults>>
       \/ /\ call.seen.power # call.desired.power
          /\ \/ Fault /\ Goto("observe") /\ UNCHANGED current
             \/ Put("power", call.desired) /\ Goto("priority") /\ UNCHANGED faults
    /\ Same /\ UNCHANGED <<held, hidden>>

\* The halves that apply_snapshot wrote.
Written == {h \in Halves : call.seen[h] # call.desired[h]}

Undo(halves) == call' = [call EXCEPT !.at = "undo", !.undo = halves]

SetPriority ==
    /\ call.at = "priority"
    /\ \/ "priority" \notin Written /\ Goto("verify") /\ UNCHANGED <<current, faults>>
       \/ /\ "priority" \in Written
          /\ \/ Fault /\ Undo(Written \ {"priority"}) /\ UNCHANGED current
             \/ Put("priority", call.desired) /\ Goto("verify") /\ UNCHANGED faults
    /\ Same /\ UNCHANGED <<held, hidden>>

\* The state is read back; a transition that is not confirmed is undone.
Verify ==
    /\ call.at = "verify"
    /\ \/ Fault /\ Undo(Written) /\ Same /\ UNCHANGED held
       \/ /\ current = call.desired
          /\ held' = IF hidden THEN Hold(held.baseline, call.desired, FALSE) ELSE NoHeld
          /\ Succeeds /\ UNCHANGED faults
       \/ /\ current # call.desired
          /\ Undo({h \in Halves : current[h] # call.seen[h]})
          /\ Same /\ UNCHANGED <<held, faults>>
    /\ UNCHANGED <<current, hidden>>

\* Priority first; what cannot be undone is left.
UndoHalf ==
    /\ call.at = "undo"
    /\ IF call.undo = {} THEN Goto("observe") /\ UNCHANGED <<current, faults>>
       ELSE LET half == IF "priority" \in call.undo THEN "priority" ELSE "power"
            IN  /\ call' = [call EXCEPT !.undo = @ \ {half}]
                /\ \/ Fault /\ UNCHANGED current
                   \/ Put(half, call.seen) /\ UNCHANGED faults
    /\ Same /\ UNCHANGED <<held, hidden>>

\* What the failure left behind is expected from now on, if it can be read.
Observe ==
    /\ call.at = "observe"
    /\ \/ Fault /\ held' = [held EXCEPT !.preserve = TRUE]
       \/ held' = [held EXCEPT !.preserve = TRUE, !.expected = current] /\ UNCHANGED faults
    /\ Fails /\ UNCHANGED <<current, hidden>>

ReconcileStep == Query \/ SetPower \/ SetPriority \/ Verify \/ UndoHalf \/ Observe

\* Reconciliations are the steps of the tray's thread or of the worker, whoever has the mutex.
Reconcile(who) ==
    /\ lock = who /\ ReconcileStep
    /\ UNCHANGED <<stopped, newer, wanted, completion, closerVars, ghostVars>>

--------------------------------------------------------------------------------
(***************************************************************************)
(* set_hidden_mode, on the tray's thread.                                  *)
(***************************************************************************)
Request ==
    /\ tray = "idle" /\ ~stopped
    /\ tray' = "asked" /\ wanted' \in BOOLEAN
    /\ UNCHANGED <<current, controllerVars, lock, call, stopped, newer, workerVars, closerVars,
                   ghostVars, faults>>

\* Stopped is looked at again with the controller in hand.
SetHiddenMode ==
    /\ tray = "asked" /\ Idle
    /\ IF stopped
       THEN tray' = "idle" /\ UNCHANGED <<hidden, lock, call>>
       ELSE IF ended
       THEN tray' = "tell" /\ UNCHANGED <<hidden, lock, call>>
       ELSE hidden' = wanted /\ Enter("tray") /\ tray' = "reconciling"
    /\ UNCHANGED <<current, held, retry, ended, stopped, newer, wanted, workerVars, closerVars,
                   ghostVars, faults>>

\* What waits on the condition variable goes on.
Notify == worker' = IF worker = "waiting" THEN "look" ELSE worker

Tell ==
    /\ tray = "tell"
    /\ tray' = "idle" /\ newer' = TRUE /\ Notify
    /\ UNCHANGED <<current, controllerVars, lock, call, stopped, wanted, timed, completion,
                   closerVars, ghostVars, faults>>

--------------------------------------------------------------------------------
(***************************************************************************)
(* run_self_power_retries, on the worker's thread.                         *)
(***************************************************************************)
Look ==
    /\ worker = "look"
    /\ IF stopped THEN worker' = "leave" /\ UNCHANGED newer
       ELSE worker' = "retry" /\ newer' = FALSE
    /\ UNCHANGED <<current, controllerVars, lock, call, stopped, requestVars, timed, completion,
                   closerVars, ghostVars, faults>>

Retry ==
    /\ worker = "retry" /\ Idle
    /\ IF retry = "now" /\ ~stopped
       THEN Enter("worker") /\ worker' = "retrying" /\ UNCHANGED timed
       ELSE worker' = "settled" /\ timed' = (retry # "none") /\ UNCHANGED <<lock, call>>
    /\ UNCHANGED <<current, controllerVars, stopped, newer, requestVars, completion, closerVars,
                   ghostVars, faults>>

\* Mutant of Wait: it does not look whether a request came meanwhile.
WaitUnlessStopped ==
    /\ worker = "settled"
    /\ worker' = IF stopped THEN "leave" ELSE "waiting"
    /\ UNCHANGED <<current, controllerVars, lock, call, stopped, newer, requestVars, timed,
                   completion, closerVars, ghostVars, faults>>

Wait ==
    /\ worker = "settled"
    /\ worker' = IF stopped THEN "leave" ELSE IF newer THEN "look" ELSE "waiting"
    /\ UNCHANGED <<current, controllerVars, lock, call, stopped, newer, requestVars, timed,
                   completion, closerVars, ghostVars, faults>>

\* The wait ends by its timeout, once the deadline has passed.
TimesOut ==
    /\ worker = "waiting" /\ timed /\ retry = "now"
    /\ worker' = "look"
    /\ UNCHANGED <<current, controllerVars, lock, call, stopped, newer, requestVars, timed,
                   completion, closerVars, ghostVars, faults>>

\* controller.shutdown(): what is held is given back; a failure does not end the controller.
Leave ==
    /\ worker = "leave" /\ Idle
    /\ hidden' = FALSE /\ Enter("worker") /\ worker' = "restoring"
    /\ UNCHANGED <<current, held, retry, ended, stopped, newer, requestVars, timed, completion,
                   closerVars, ghostVars, faults>>

\* The outcome is sent and the thread ends.
Send ==
    /\ worker \in {"restored", "failed"}
    /\ completion' = worker /\ worker' = "gone"
    /\ UNCHANGED <<current, controllerVars, lock, call, stopped, newer, requestVars, timed,
                   closerVars, ghostVars, faults>>

--------------------------------------------------------------------------------
(***************************************************************************)
(* shutdown(), called by the runtime, once: later calls repeat its result. *)
(***************************************************************************)
Stop ==
    /\ closer = "idle"
    /\ closer' = "waiting" /\ stopped' = TRUE /\ Notify
    /\ UNCHANGED <<current, controllerVars, lock, call, newer, requestVars, timed, completion,
                   result, ghostVars, faults>>

\* What shutdown returns without an answer of the worker.
Unconfirmed == "timeout"

\* The answer, or none within the time allowed: the thread is left to itself.
Receive ==
    /\ closer = "waiting"
    /\ closer' = "ended"
    /\ result' = IF completion = "none" THEN Unconfirmed ELSE completion
    /\ UNCHANGED <<current, controllerVars, lock, call, stopped, newer, requestVars, workerVars,
                   ghostVars, faults>>

--------------------------------------------------------------------------------
(***************************************************************************)
(* The clock and other programs.                                           *)
(***************************************************************************)
DeadlinePasses ==
    /\ retry = "later" /\ retry' = "now"
    /\ UNCHANGED <<current, hidden, held, ended, lock, call, stopped, newer, requestVars,
                   workerVars, closerVars, ghostVars, faults>>

\* What another program may make of the state, of one half or of both: never what Winderust asks
\* for itself, which could not be told from its own.
Foreign ==
    {[power |-> s.power, priority |-> t.priority] : s \in {current, Plain, Tuned},
                                                    t \in {current, Plain, Tuned}} \ {current}

\* During a transition, or while a failed one is unresolved, the change cannot be told from
\* Winderust's own writes.
Unseen == call.at \notin {"none", "query"} \/ (held # NoHeld /\ held.preserve)

SomebodySets ==
    /\ changes < MaxChanges /\ changes' = changes + 1
    /\ current' \in Foreign
    /\ theirs' = [h \in Halves |-> IF current'[h] # current[h] THEN current'[h] ELSE theirs[h]]
    /\ ours' = ours \cup {h \in Halves : current'[h] # theirs'[h]}
    /\ missed' = (missed \/ Unseen)
    /\ UNCHANGED <<controllerVars, lock, call, stopped, newer, requestVars, workerVars,
                   closerVars, faults>>

--------------------------------------------------------------------------------
Init ==
    /\ current = Plain /\ theirs = Plain /\ missed = FALSE /\ ours = {}
    /\ hidden = FALSE /\ held = NoHeld /\ retry = "none" /\ ended = FALSE
    /\ lock = "free" /\ call = NoCall
    /\ stopped = FALSE /\ newer = FALSE
    /\ tray = "idle" /\ wanted = FALSE
    /\ worker = "look" /\ timed = FALSE
    /\ completion = "none" /\ closer = "idle" /\ result = "none"
    /\ faults = 0 /\ changes = 0

TrayStep == Reconcile("tray") \/ SetHiddenMode \/ Tell
WorkerStep == Reconcile("worker") \/ Look \/ Retry \/ Wait \/ TimesOut \/ Leave \/ Send

Next ==
    \/ Request \/ TrayStep \/ WorkerStep
    \/ Stop \/ Receive
    \/ DeadlinePasses \/ SomebodySets

Spec == Init /\ [][Next]_vars

\* Both threads are scheduled, calls to Windows return, and time passes; nobody needs to
\* call the tray or the shutdown.
FairSpec == Spec /\ WF_vars(TrayStep) /\ WF_vars(WorkerStep) /\ WF_vars(DeadlinePasses)

--------------------------------------------------------------------------------
\* Every variable has its type.
TypeOK ==
    /\ {current, theirs} \subseteq States /\ ours \subseteq Halves
    /\ {hidden, ended, stopped, newer, wanted, timed, missed} \subseteq BOOLEAN
    /\ held \in {NoHeld} \cup [kind : {"held"}, baseline : States, expected : States,
                               preserve : BOOLEAN]
    /\ retry \in {"none", "later", "now"} /\ lock \in {"free", "tray", "worker"}
    /\ call.at \in {"none", "query", "power", "priority", "verify", "undo", "observe"}
    /\ tray \in {"idle", "asked", "reconciling", "tell"}
    /\ worker \in {"look", "retry", "retrying", "settled", "waiting", "leave", "restoring",
                   "restored", "failed", "gone"}
    /\ completion \in {"none", "restored", "failed"}
    /\ closer \in {"idle", "waiting", "ended"}
    /\ result \in {"none", "restored", "failed", "timeout"}
    /\ faults \in 0 .. MaxFaults /\ changes \in 0 .. MaxChanges

\* A change that the next reconciliation will notice.
Unnoticed == current # held.expected /\ ~held.preserve /\ call.at \in {"none", "query"}

\* In each half the baseline is what somebody else set last, whatever failed on the way, or the
\* change is still to be noticed; with nothing held, the process has what somebody else set.
\* Only a half that somebody left as Winderust had set it, while changing the other one, is taken
\* for theirs (self_power.rs:325-328; ForegroundIsNotThrottled says what comes of it).
BaselineIsTheirs ==
    missed \/ \A h \in Halves \ ours :
        \/ current[h] = theirs[h] /\ (held = NoHeld \/ Unnoticed)
        \/ held # NoHeld /\ held.baseline[h] = theirs[h]

\* A shutdown that reports success has restored the process, and nothing changes it any more.
ShutdownIsTrue ==
    result = "restored" =>
        /\ held = NoHeld /\ ended /\ worker = "gone" /\ lock = "free"
        /\ missed \/ \A h \in Halves \ ours : current[h] = theirs[h]

\* The invariants that the module is about; a failure anywhere, the retry or the timeout of
\* shutdown must not break them.
Consistent == TypeOK /\ BaselineIsTheirs /\ ShutdownIsTrue

\* Once the window is shown the baseline comes back, whatever failed at first, unless the
\* window is hidden again or the runtime shuts down ("foreground software rendering must not
\* inherit an EcoQoS request", self_power.rs:305).
ShownIsRestored == ~hidden ~> held = NoHeld \/ hidden \/ stopped

\* The same comment, of what is left behind: a window that is shown again, with nothing held,
\* does not run with the efficiency mode that only Winderust asked for.
ForegroundIsNotThrottled == held = NoHeld /\ ~missed => current.power.speed = "system"
================================================================================
