------------------------------- MODULE PowerPlan -------------------------------
(***************************************************************************)
(* The controller of the active power plan (src/src/control/power_plan.rs).*)
(* The active plan is one value shared with the user.  The controller      *)
(* switches it for a rule ("ordinary") or to a clone of the active plan    *)
(* that it creates, tunes and deletes ("adaptive"), and goes back to the   *)
(* plan it found; a plan somebody else selects ends what it owns.  A       *)
(* switch whose outcome is unknown stays an open intent of the recovery    *)
(* service until an observation tells.                                     *)
(*                                                                         *)
(* One thread runs the controller.  Its methods call each other, so pc is  *)
(* a label and stack holds the labels to return to.  Each call to Windows  *)
(* or to the service is a step.  GUIDs are compared without case in the    *)
(* code; here they are values.  The profile of the clone and its processor *)
(* values are left out, but not the calls by which Windows takes them over,*)
(* which select the clone again.                                           *)
(***************************************************************************)
EXTENDS RecoveryClient

CONSTANTS
    PowerKey,   \* the one recovery key of the active plan
    Clones,     \* plans Windows may create by duplication
    Reserve,    \* bound: intent ids a rule leaves for releases
    MaxWrites,  \* bound on selections by the user
    NoPlan, NoClone, NoSwitch

ASSUME KeyAssumption == Keys = {PowerKey}
ASSUME CloneAssumption == Clones \subseteq Values /\ NoPlan \notin Values
ASSUME WritesAssumption == MaxWrites \in Nat

VARIABLES
    pc, stack, result, run,  \* the call in progress
    current,    \* current_guid
    verified,   \* last_verified_application
    breaking,   \* ownership_release_pending
    uncertain,  \* uncertain_switch
    original,   \* ordinary_original_guid
    expected,   \* ordinary_expected_guid
    adaptive,   \* adaptive_plan
    cleanup,    \* setup_cleanup_due is some
    nextId,     \* RecoveryRuntime.next_intent_id
    active,     \* the plan Windows has active
    clones,     \* what became of each clone: "unborn", "exists" or "deleted"
    source,     \* the plan a clone's description names, or NoPlan
    pre,        \* history: the plan somebody else selected last
    mixed,      \* history: that selection cannot be told from Winderust's own
    forsaken,   \* history: a clone's cleanup gave up the plan last verified
    overtaken,  \* history: a rule has replaced the adaptive plan while that counted as active
    overwritten, \* history: tuning the clone has replaced that selection, unseen
    writes

callVars  == <<pc, stack, result, run>>
ruleVars  == <<original, expected>>
claimVars == <<verified, breaking, uncertain, ruleVars, adaptive, cleanup>>
ownVars   == <<current, claimVars>>
userVars  == <<pre, mixed, forsaken, overtaken, overwritten, writes>>
worldVars == <<active, clones, source, userVars>>
ppVars    == <<serviceVars, callVars, ownVars, nextId, worldVars, faults>>

Base == Values \ Clones

Installed == Base \cup {c \in Clones : clones[c] = "exists"}

Switches == [prev : Values, target : Values, id : Ids, allowPrevious : BOOLEAN]

AdaptivePlans == [guid : Clones, original : Values, active : BOOLEAN]

ASSUME NoneAssumption == NoClone \notin AdaptivePlans /\ NoSwitch \notin Switches

\* The locals of the methods in progress.
Runs == [seen : Values \cup {NoPlan}, prev : Values \cup {NoPlan},
         target : Values \cup {NoPlan}, id : Nat, held : AdaptivePlans \cup {NoClone},
         failed : BOOLEAN]

NoRun == [seen |-> NoPlan, prev |-> NoPlan, target |-> NoPlan, id |-> 0, held |-> NoClone,
          failed |-> FALSE]

--------------------------------------------------------------------------------
(***************************************************************************)
(* Calls: of a method, to the service, to Windows.                         *)
(***************************************************************************)
Goto(label) == pc' = label /\ UNCHANGED <<stack, result>>

Call(label, back) == pc' = label /\ stack' = <<back>> \o stack /\ UNCHANGED result

Return(outcome) == pc' = Head(stack) /\ stack' = Tail(stack) /\ result' = outcome

Ask(command) ==
    /\ Submit(command)
    /\ UNCHANGED <<callVars, ownVars, nextId, worldVars, faults>>

\* An explicit rejection leaves the service usable.
Rejected == Reject /\ ~latched' /\ UNCHANGED faults

\* Reading the active plan into run.seen.
Read == run' = [run EXCEPT !.seen = active]

\* Selecting a plan fails for one that is gone; after an error it may be selected
\* all the same.
Select(plan) == plan \in Installed /\ active' = plan /\ UNCHANGED faults

SelectFails(plan) ==
    \/ plan \notin Installed /\ UNCHANGED <<active, faults>>
    \/ Fault /\ active' \in {active} \cup ({plan} \cap Installed)

\* Windows does not delete the active plan.
Delete(plan) == /\ plan # active /\ clones' = [clones EXCEPT ![plan] = "deleted"]
                /\ UNCHANGED faults

DeleteFails(plan) == /\ \/ plan = active /\ UNCHANGED faults
                        \/ Fault
                     /\ UNCHANGED clones

\* Mutants of OwnOrdinary: back at its baseline the rule keeps it; every switch of a
\* rule takes the plan before it for the baseline.
OwnOrdinaryKept(prev, target) ==
    /\ original' = IF original = NoPlan THEN prev ELSE original
    /\ expected' = target

OwnOrdinaryLast(prev, target) == original' = prev /\ expected' = target

\* The first plan a rule replaced is what it goes back to; back there it owns nothing.
OwnOrdinary(prev, target) ==
    LET first == IF original = NoPlan THEN prev ELSE original
    IN  /\ original' = IF first = target THEN NoPlan ELSE first
        /\ expected' = IF first = target THEN NoPlan ELSE target

AdaptiveActive == adaptive # NoClone /\ adaptive.active

Deactivated(plan) == IF plan = NoClone THEN NoClone ELSE [plan EXCEPT !.active = FALSE]

--------------------------------------------------------------------------------
(***************************************************************************)
(* observe_active_plan and relinquish_ownership.                           *)
(***************************************************************************)
ExternalBreak(seen) == verified # NoPlan /\ verified # seen

\* The value read is neither the target nor, where it may be, the previous plan.
Foreign(seen) == /\ seen # uncertain.target
                 /\ seen = uncertain.prev => ~uncertain.allowPrevious

Observe ==
    /\ pc = "observe"
    /\ \/ /\ \/ breaking
             \/ uncertain # NoSwitch /\ Foreign(run.seen)
             \/ uncertain = NoSwitch /\ ExternalBreak(run.seen)
          /\ Call("relinquish", "observed") /\ UNCHANGED current
       \/ /\ ~breaking /\ uncertain # NoSwitch /\ ~Foreign(run.seen)
          /\ Goto("resolve") /\ UNCHANGED current
       \/ /\ ~breaking /\ uncertain = NoSwitch /\ ~ExternalBreak(run.seen)
          /\ current' = run.seen /\ Return("ok")
    /\ UNCHANGED <<serviceVars, run, claimVars, nextId, worldVars, faults>>

\* What an uncertain switch did, once it is known that it took effect.
OfAdaptive == adaptive # NoClone /\ adaptive.guid \in {run.seen, uncertain.prev}

Adopt ==
    /\ verified' = run.seen
    /\ IF OfAdaptive
       THEN adaptive' = [adaptive EXCEPT !.active = adaptive.guid = run.seen] /\ UNCHANGED ruleVars
       ELSE OwnOrdinary(uncertain.prev, run.seen) /\ UNCHANGED adaptive

Resolve ==
    /\ pc = "resolve"
    /\ \/ Ask(IF run.seen = uncertain.target THEN Commit(uncertain.id) ELSE Cancel(uncertain.id))
       \/ /\ Granted /\ run.seen = uncertain.target
          /\ Adopt /\ uncertain' = NoSwitch
          /\ current' = run.seen /\ Return("ok")
          /\ UNCHANGED <<run, breaking, cleanup, nextId, worldVars>>
       \/ /\ Granted /\ run.seen # uncertain.target
          /\ uncertain' = NoSwitch
          /\ IF ExternalBreak(run.seen)
             THEN Call("relinquish", "observed") /\ UNCHANGED current
             ELSE current' = run.seen /\ Return("ok")
          /\ UNCHANGED <<run, verified, breaking, ruleVars, adaptive, cleanup, nextId,
                         worldVars>>
       \/ /\ Denied \/ Rejected
          /\ Return("error") /\ UNCHANGED <<run, ownVars, nextId, worldVars>>

\* The break stays latched until the helper has forgotten the switches.
Relinquish ==
    /\ pc = "relinquish"
    /\ \/ Ask(Forget(PowerKey))
       \/ /\ Granted /\ Return("ok")
          /\ breaking' = FALSE /\ uncertain' = NoSwitch
          /\ verified' = NoPlan /\ original' = NoPlan /\ expected' = NoPlan
          /\ adaptive' = Deactivated(adaptive)
          /\ UNCHANGED <<run, current, cleanup, nextId, worldVars>>
       \/ /\ Denied \/ Rejected
          /\ Return("error") /\ breaking' = TRUE
          /\ UNCHANGED <<run, current, verified, uncertain, ruleVars, adaptive, cleanup,
                         nextId, worldVars>>

Observed ==
    /\ pc = "observed"
    /\ current' = IF result = "ok" THEN run.seen ELSE current
    /\ Return(result)
    /\ UNCHANGED <<serviceVars, run, claimVars, nextId, worldVars, faults>>

--------------------------------------------------------------------------------
(***************************************************************************)
(* refresh_active_plan and cleanup_inactive_adaptive_plan.                 *)
(***************************************************************************)
Refresh ==
    /\ pc = "refresh"
    /\ \/ Fault /\ Return("error") /\ UNCHANGED run
       \/ Read /\ Call("observe", "refreshed") /\ UNCHANGED faults
    /\ UNCHANGED <<serviceVars, ownVars, nextId, worldVars>>

Refreshed ==
    /\ pc = "refreshed"
    /\ IF result = "error" THEN Return("error") ELSE Goto("cleanup")
    /\ UNCHANGED <<serviceVars, run, ownVars, nextId, worldVars, faults>>

Cleanup ==
    /\ pc = "cleanup"
    /\ IF ~(adaptive # NoClone /\ ~adaptive.active /\ ~cleanup)
       THEN Return("ok") /\ UNCHANGED faults
       ELSE \/ Fault /\ Return("error")
            \/ active = adaptive.guid /\ Return("error") /\ UNCHANGED faults
            \/ active # adaptive.guid /\ Goto("cleanup_delete") /\ UNCHANGED faults
    /\ UNCHANGED <<serviceVars, run, ownVars, nextId, worldVars>>

CleanupDelete ==
    /\ pc = "cleanup_delete"
    /\ \/ Delete(adaptive.guid) /\ adaptive' = NoClone /\ Return("ok")
       \/ DeleteFails(adaptive.guid) /\ Return("error") /\ UNCHANGED adaptive
    /\ UNCHANGED <<serviceVars, run, current, verified, breaking, uncertain, ruleVars, cleanup,
                   nextId, active, source, userVars>>

--------------------------------------------------------------------------------
(***************************************************************************)
(* switch_active_verified, switch_from_current and switch_from_verified:   *)
(* run.prev to run.target.                                                 *)
(***************************************************************************)
Switch ==
    /\ pc = "switch"
    /\ \/ Fault /\ Return("error") /\ UNCHANGED run
       \/ Read /\ Call("observe", "switch_observed") /\ UNCHANGED faults
    /\ UNCHANGED <<serviceVars, ownVars, nextId, worldVars>>

SwitchObserved ==
    /\ pc = "switch_observed"
    /\ IF result = "error" THEN Return("error") /\ UNCHANGED <<run, adaptive>>
       ELSE /\ Goto("change")
            /\ run' = [run EXCEPT !.prev = run.seen]
            /\ adaptive' = IF adaptive # NoClone /\ ~AdaptiveActive /\ adaptive.guid = run.target
                           THEN [adaptive EXCEPT !.original = run.seen] ELSE adaptive
    /\ UNCHANGED <<serviceVars, current, verified, breaking, uncertain, ruleVars, cleanup,
                   nextId, worldVars, faults>>

Change ==
    /\ pc = "change"
    /\ \/ /\ run.prev = run.target
          /\ Return("ok")
          /\ UNCHANGED <<serviceVars, run, current, nextId, faults>>
       \/ /\ run.prev # run.target /\ nextId \in Ids
          /\ Submit(Begin(nextId, PowerKey, [original |-> run.prev, expected |-> run.target]))
          /\ run' = [run EXCEPT !.id = nextId]
          /\ nextId' = nextId + 1
          /\ UNCHANGED <<pc, stack, result, current, faults>>
       \/ /\ run.prev # run.target
          /\ Granted /\ Goto("set") /\ UNCHANGED <<run, current, nextId>>
       \/ /\ run.prev # run.target
          /\ Denied \/ Rejected
          /\ current' = run.prev /\ Return("error") /\ UNCHANGED <<run, nextId>>
    /\ UNCHANGED <<claimVars, worldVars>>

Set ==
    /\ pc = "set"
    /\ \/ Select(run.target) /\ Goto("verify")
       \/ SelectFails(run.target) /\ Goto("compensate")
    /\ UNCHANGED <<serviceVars, run, ownVars, nextId, clones, source, userVars>>

Verify ==
    /\ pc = "verify"
    /\ \/ Fault /\ Goto("compensate") /\ UNCHANGED run
       \/ /\ Read /\ UNCHANGED faults
          /\ Goto(IF active = run.target THEN "commit"
                  ELSE IF active = run.prev THEN "compensate" ELSE "cancel_external")
    /\ UNCHANGED <<serviceVars, ownVars, nextId, worldVars>>

\* The open intent is kept until an observation resolves it.
Defer(allowPrevious) ==
    uncertain' = [prev |-> run.prev, target |-> run.target, id |-> run.id,
                  allowPrevious |-> allowPrevious]

CommitSwitch ==
    /\ pc = "commit"
    /\ \/ Ask(Commit(run.id))
       \/ Granted /\ Return("ok") /\ UNCHANGED <<run, ownVars, nextId, worldVars>>
       \/ /\ Denied \/ Rejected
          /\ Defer(FALSE) /\ Return("error")
          /\ UNCHANGED <<run, current, verified, breaking, ruleVars, adaptive, cleanup,
                         nextId, worldVars>>

\* Mutant of Compensate: any plan but the previous one is taken for our own target.
CompensateBlind ==
    /\ pc = "compensate"
    /\ \/ Fault /\ Defer(TRUE) /\ Return("error") /\ UNCHANGED run
       \/ /\ Read /\ UNCHANGED <<uncertain, faults>>
          /\ Goto(IF active = run.prev THEN "cancel" ELSE "undo")
    /\ UNCHANGED <<serviceVars, current, verified, breaking, ruleVars, adaptive, cleanup,
                   nextId, worldVars>>

\* compensate_switch: look again before anything is overwritten.
Compensate ==
    /\ pc = "compensate"
    /\ \/ Fault /\ Defer(TRUE) /\ Return("error") /\ UNCHANGED run
       \/ /\ Read /\ UNCHANGED <<uncertain, faults>>
          /\ Goto(IF active = run.prev THEN "cancel"
                  ELSE IF active = run.target THEN "undo" ELSE "cancel_external")
    /\ UNCHANGED <<serviceVars, current, verified, breaking, ruleVars, adaptive, cleanup,
                   nextId, worldVars>>

Undo ==
    /\ pc = "undo"
    /\ \/ Select(run.prev) /\ Goto("undone") /\ UNCHANGED uncertain
       \/ SelectFails(run.prev) /\ Defer(TRUE) /\ Return("error")
    /\ UNCHANGED <<serviceVars, run, current, verified, breaking, ruleVars, adaptive, cleanup,
                   nextId, clones, source, userVars>>

Undone ==
    /\ pc = "undone"
    /\ \/ /\ Fault \/ (active = run.target /\ UNCHANGED faults)
          /\ Defer(TRUE) /\ Return("error") /\ UNCHANGED run
       \/ /\ active # run.target
          /\ Read /\ UNCHANGED <<uncertain, faults>>
          /\ Goto(IF active = run.prev THEN "cancel" ELSE "cancel_external")
    /\ UNCHANGED <<serviceVars, current, verified, breaking, ruleVars, adaptive, cleanup,
                   nextId, worldVars>>

\* The intent is dropped; the answer to its Cancel is ignored.
CancelSwitch ==
    /\ pc = "cancel"
    /\ \/ Ask(Cancel(run.id))
       \/ /\ Granted \/ Denied
          /\ current' = run.prev /\ Return("error")
          /\ UNCHANGED <<run, claimVars, nextId, worldVars>>

CancelExternal ==
    /\ pc = "cancel_external"
    /\ \/ Ask(Cancel(run.id))
       \/ /\ Granted \/ Denied
          /\ Call("relinquish", "external")
          /\ UNCHANGED <<run, ownVars, nextId, worldVars>>

External ==
    /\ pc = "external"
    /\ current' = IF result = "ok" THEN run.seen ELSE current
    /\ Return("error")
    /\ UNCHANGED <<serviceVars, run, claimVars, nextId, worldVars, faults>>

--------------------------------------------------------------------------------
(***************************************************************************)
(* restore_active_verified: run.prev, if it is still active, to run.target.*)
(***************************************************************************)
Restore ==
    /\ pc = "restore"
    /\ \/ Fault /\ Return("error") /\ UNCHANGED run
       \/ /\ Read /\ UNCHANGED faults
          /\ IF breaking \/ active # run.prev THEN Call("relinquish", "lost") ELSE Goto("change")
    /\ UNCHANGED <<serviceVars, ownVars, nextId, worldVars>>

Lost ==
    /\ pc = "lost"
    /\ IF result = "ok" THEN current' = run.seen /\ Return("lost")
       ELSE UNCHANGED current /\ Return("error")
    /\ UNCHANGED <<serviceVars, run, claimVars, nextId, worldVars, faults>>

--------------------------------------------------------------------------------
(***************************************************************************)
(* release_adaptive.  The plan is taken out of the controller while it is  *)
(* restored, and put back if that fails.                                   *)
(***************************************************************************)
Release ==
    /\ pc = "release"
    /\ Call("refresh", "release_take")
    /\ UNCHANGED <<serviceVars, run, ownVars, nextId, worldVars, faults>>

\* A clone that was never activated leaves the plans before it alone.
UntouchedSource == ~adaptive.active /\ cleanup /\ current = adaptive.original

ReleaseTake ==
    /\ pc = "release_take"
    /\ IF result = "error" \/ adaptive = NoClone
       THEN Return(result) /\ UNCHANGED <<run, adaptive, forsaken>>
       ELSE /\ run' = [run EXCEPT !.held = adaptive, !.prev = adaptive.guid,
                                  !.target = adaptive.original]
            /\ adaptive' = NoClone
            /\ IF ~adaptive.active /\ ~cleanup
               THEN Goto("release_delete") /\ UNCHANGED forsaken
               ELSE IF current = adaptive.guid
               THEN Call("restore", "release_restored") /\ UNCHANGED forsaken
               ELSE IF UntouchedSource
               THEN Goto("release_delete") /\ UNCHANGED forsaken
               ELSE /\ Call("relinquish", "release_broken")
                    /\ forsaken' = (forsaken \/ current = verified)
    /\ UNCHANGED <<serviceVars, current, verified, breaking, uncertain, ruleVars, cleanup,
                   nextId, active, clones, source, pre, mixed, overtaken, overwritten, writes,
                   faults>>

PutBack == adaptive' = run.held /\ Return("error")

ReleaseRestored ==
    /\ pc = "release_restored"
    /\ \/ result = "error" /\ PutBack /\ UNCHANGED <<run, current, verified>>
       \/ /\ result # "error" /\ Goto("release_delete") /\ UNCHANGED adaptive
          /\ run' = [run EXCEPT !.held.active = FALSE]
          /\ IF result = "ok" THEN current' = run.held.original /\ verified' = expected
             ELSE UNCHANGED <<current, verified>>
    /\ UNCHANGED <<serviceVars, breaking, uncertain, ruleVars, cleanup, nextId, worldVars,
                   faults>>

ReleaseBroken ==
    /\ pc = "release_broken"
    /\ \/ result = "error" /\ PutBack /\ UNCHANGED run
       \/ /\ result # "error" /\ Goto("release_delete") /\ UNCHANGED adaptive
          /\ run' = [run EXCEPT !.held.active = FALSE]
    /\ UNCHANGED <<serviceVars, current, verified, breaking, uncertain, ruleVars, cleanup,
                   nextId, worldVars, faults>>

ReleaseDelete ==
    /\ pc = "release_delete"
    /\ \/ DeleteFails(run.held.guid) /\ PutBack /\ UNCHANGED cleanup
       \/ Delete(run.held.guid) /\ Return("ok") /\ cleanup' = FALSE /\ UNCHANGED adaptive
    /\ UNCHANGED <<serviceVars, run, current, verified, breaking, uncertain, ruleVars, nextId,
                   active, source, userVars>>

--------------------------------------------------------------------------------
(***************************************************************************)
(* The entry points.  A delay may have elapsed or not; a target whose      *)
(* switch failed recently, or too often, may be skipped.                   *)
(***************************************************************************)
\* Bound: a rule or the adaptive engine starts only while enough ids are left for
\* the restorations that may follow.
Room == nextId + Reserve \in Ids

Enter(label, target) ==
    /\ pc = "idle"
    /\ run' = [NoRun EXCEPT !.target = target]
    /\ pc' = label /\ UNCHANGED result
    /\ UNCHANGED <<serviceVars, ownVars, nextId, worldVars, faults>>

\* refresh_active_plan_if_due: an open question makes the refresh due.
EnterRefreshed(label, target) ==
    \/ Enter("refresh", target) /\ stack' = <<label>>
    \/ ~breaking /\ uncertain = NoSwitch /\ Enter(label, target) /\ stack' = << >>

End ==
    /\ pc = "end"
    /\ pc' = "idle" /\ result' = "ok" /\ run' = NoRun /\ stack' = << >>
    /\ UNCHANGED <<serviceVars, ownVars, nextId, worldVars, faults>>

\* run_check does not come here while the adaptive plan counts as active; the refresh
\* may make it count as active after that.
ReconcileOrdinary(target) ==
    /\ Room
    /\ ~AdaptiveActive
    /\ EnterRefreshed("ordinary", target)

Ordinary ==
    /\ pc = "ordinary"
    /\ \/ result # "error" /\ run.target \notin {NoPlan, current}
          /\ pc' = "switch" /\ stack' = <<"ordinary_switched">> /\ UNCHANGED result
          /\ overtaken' = (overtaken \/ AdaptiveActive)
       \/ pc' = "end" /\ UNCHANGED <<stack, result, overtaken>>
    /\ UNCHANGED <<serviceVars, run, ownVars, nextId, active, clones, source, pre, mixed, forsaken,
                   overwritten, writes, faults>>

OrdinarySwitched ==
    /\ pc = "ordinary_switched"
    /\ Goto("end")
    /\ \/ result = "error" /\ UNCHANGED <<current, verified, ruleVars>>
       \/ /\ result = "ok"
          /\ current' = run.target /\ verified' = run.target
          /\ OwnOrdinary(run.prev, run.target)
    /\ UNCHANGED <<serviceVars, run, breaking, uncertain, adaptive, cleanup, nextId, worldVars,
                   faults>>

\* With a setup to clean up that is not due, the call is refused.
ReconcileAdaptive ==
    /\ Room
    /\ \/ cleanup /\ Enter("release", NoPlan) /\ stack' = <<"adaptive_released">>
       \/ ~cleanup /\ EnterRefreshed("adaptive_clean", NoPlan)

AdaptiveReleased ==
    /\ pc = "adaptive_released"
    /\ \/ result = "error" /\ Goto("end")
       \/ result # "error" /\ pc' = "refresh" /\ stack' = <<"adaptive_clean">> /\ UNCHANGED result
       \/ result # "error" /\ ~breaking /\ uncertain = NoSwitch /\ Goto("adaptive_clean")
    /\ UNCHANGED <<serviceVars, run, ownVars, nextId, worldVars, faults>>

AdaptiveClean ==
    /\ pc = "adaptive_clean"
    /\ IF result = "error" THEN Goto("end") ELSE Call("cleanup", "adaptive_new")
    /\ UNCHANGED <<serviceVars, run, ownVars, nextId, worldVars, faults>>

\* A plan that is there is only tuned, if its values are to change.
AdaptiveNew ==
    /\ pc = "adaptive_new"
    /\ \/ (result = "error" \/ adaptive # NoClone) /\ Goto("end") /\ UNCHANGED <<run, faults>>
       \/ /\ result # "error" /\ adaptive # NoClone
          /\ Call("tune", "end") /\ UNCHANGED <<run, faults>>
       \/ /\ result # "error" /\ adaptive = NoClone
          /\ \/ Fault /\ Goto("end") /\ UNCHANGED run
             \/ Read /\ Call("observe", "duplicate") /\ UNCHANGED faults
    /\ UNCHANGED <<serviceVars, ownVars, nextId, worldVars>>

\* The duplicate is owned before anything else can fail.
Duplicate ==
    /\ pc = "duplicate"
    /\ \/ result = "error" /\ Goto("end") /\ UNCHANGED <<run, adaptive, cleanup, clones,
                                                         faults>>
       \/ /\ result # "error" /\ Goto("end") /\ UNCHANGED <<run, adaptive, cleanup, clones>>
          /\ Fault \/ (UNCHANGED faults /\ \A c \in Clones : clones[c] # "unborn")
       \/ \E c \in Clones :
            /\ result # "error" /\ clones[c] = "unborn"
            /\ clones' = [clones EXCEPT ![c] = "exists"]
            /\ adaptive' = [guid |-> c, original |-> run.seen, active |-> FALSE]
            /\ cleanup' = TRUE
            /\ run' = [run EXCEPT !.target = c]
            /\ Goto("initialize") /\ UNCHANGED faults
    /\ UNCHANGED <<serviceVars, current, verified, breaking, uncertain, ruleVars, nextId,
                   active, source, userVars>>

Described == [source EXCEPT ![adaptive.guid] = adaptive.original]

\* initialize_adaptive_plan: the name and the description are written first.
Initialize ==
    /\ pc = "initialize"
    /\ \/ /\ source' = Described /\ UNCHANGED faults
          /\ Call("tune", "adaptive_tuned")
       \/ /\ Fault /\ source' \in {source, Described}
          /\ pc' = "release" /\ stack' = <<"end">> /\ UNCHANGED result
    /\ UNCHANGED <<serviceVars, run, ownVars, nextId, active, clones, userVars>>

\* apply_processor_values: after the writes a clone found active is selected again.
Tune ==
    /\ pc = "tune"
    /\ \/ Fault /\ Return("error")
       \/ active = adaptive.guid /\ Goto("reactivate") /\ UNCHANGED faults
       \/ active # adaptive.guid /\ Return("ok") /\ UNCHANGED faults
    /\ UNCHANGED <<serviceVars, run, ownVars, nextId, worldVars>>

\* No intent is open, and what was selected since the query is overwritten.
Reactivate ==
    /\ pc = "reactivate"
    /\ \/ Select(adaptive.guid) /\ Return("ok")
       \/ SelectFails(adaptive.guid) /\ Return("error")
    /\ overwritten' = (overwritten \/ active' # active)
    /\ UNCHANGED <<serviceVars, run, ownVars, nextId, clones, source, pre, mixed, forsaken,
                   overtaken, writes>>

AdaptiveTuned ==
    /\ pc = "adaptive_tuned"
    /\ \/ result = "error" /\ pc' = "release" /\ stack' = <<"end">> /\ UNCHANGED result
       \/ result = "ok" /\ Call("switch", "adaptive_switched")
    /\ UNCHANGED <<serviceVars, run, ownVars, nextId, worldVars, faults>>

AdaptiveSwitched ==
    /\ pc = "adaptive_switched"
    /\ \/ /\ result = "error"
          /\ pc' = "release" /\ stack' = <<"end">> /\ UNCHANGED result
          /\ UNCHANGED <<current, verified, adaptive, cleanup>>
       \/ /\ result = "ok"
          /\ current' = run.target /\ verified' = run.target
          /\ adaptive' = [guid |-> run.target, original |-> run.prev, active |-> TRUE]
          /\ cleanup' = FALSE
          /\ Goto("end")
    /\ UNCHANGED <<serviceVars, run, breaking, uncertain, ruleVars, nextId, worldVars, faults>>

\* Called when the adaptive engine is off, and by retry_pending_cleanup.
ReleaseAdaptive == Enter("release", NoPlan) /\ stack' = <<"end">>

\* Windows reported a change of the power source or of the session.
RefreshActivePlan == Enter("refresh", NoPlan) /\ stack' = <<"end">>

Shutdown == Enter("release", NoPlan) /\ stack' = <<"shutdown">>

\* shutdown goes on after an error, and reports it at the end.
ShutdownReleased ==
    /\ pc = "shutdown"
    /\ pc' = "refresh" /\ stack' = <<"restore_ordinary">> /\ UNCHANGED result
    /\ run' = [NoRun EXCEPT !.failed = result = "error"]
    /\ UNCHANGED <<serviceVars, ownVars, nextId, worldVars, faults>>

Disown == original' = NoPlan /\ expected' = NoPlan

RestoreOrdinary ==
    /\ pc = "restore_ordinary"
    /\ \/ /\ result # "error" /\ original # NoPlan /\ current = expected
          /\ run' = [run EXCEPT !.prev = expected, !.target = original]
          /\ Call("restore", "restored") /\ UNCHANGED ruleVars
       \/ /\ result # "error" /\ (original = NoPlan \/ current # expected)
          /\ Disown /\ Goto("stop") /\ UNCHANGED run
       \/ result = "error" /\ Goto("stop") /\ UNCHANGED <<run, ruleVars>>
    /\ UNCHANGED <<serviceVars, current, verified, breaking, uncertain, adaptive, cleanup,
                   nextId, worldVars, faults>>

Restored ==
    /\ pc = "restored"
    /\ Goto("stop")
    /\ IF result = "error" THEN UNCHANGED <<current, verified, ruleVars>>
       ELSE /\ current' = IF result = "ok" THEN original ELSE current
            /\ verified' = NoPlan /\ Disown
    /\ UNCHANGED <<serviceVars, run, breaking, uncertain, adaptive, cleanup, nextId,
                   worldVars, faults>>

Stop ==
    /\ pc = "stop"
    /\ pc' = "stopped" /\ stack' = << >> /\ run' = NoRun
    /\ result' = IF run.failed \/ result = "error" THEN "error" ELSE "ok"
    /\ UNCHANGED <<serviceVars, ownVars, nextId, worldVars, faults>>

--------------------------------------------------------------------------------
(***************************************************************************)
(* Everybody else.  They act where the controller makes a call or waits;   *)
(* its other steps touch nothing that they see.  A selection is mixed when *)
(* it is one of Winderust's own values, or falls between the reading that  *)
(* a switch rests on and the setting.                                      *)
(***************************************************************************)
Silent == {"observe", "observed", "refreshed", "switch_observed", "external", "lost", "release",
           "release_take", "release_restored", "release_broken", "end", "ordinary",
           "ordinary_switched", "adaptive_released", "adaptive_clean", "adaptive_tuned",
           "adaptive_switched",
           "shutdown", "restore_ordinary", "restored", "stop"}

Open == pc \notin Silent

EdgeValues(edges) == UNION {{e.original, e.expected} : e \in edges}

CommandEdges(command) ==
    IF command # NoCommand /\ command.op = "begin" THEN {command.edge} ELSE {}

OurValues ==
    Clones \cup EdgeValues({journal.committed[PowerKey][n] :
                                n \in DOMAIN journal.committed[PowerKey]}
                \cup {p.edge : p \in journal.pending} \cup CommandEdges(limbo)
                \cup CommandEdges(IF call = NoCall THEN NoCommand ELSE call.command))

InSwitch == \/ pc \in {"change", "set", "undo"}
            \/ \E n \in DOMAIN stack : stack[n] = "switch_observed"

UserSelects(plan) ==
    /\ Open /\ writes > 0 /\ writes' = writes - 1
    /\ plan \in Installed \ {active}
    /\ active' = plan /\ pre' = plan
    /\ mixed' = (mixed \/ InSwitch \/ plan \in OurValues)
    /\ forsaken' = FALSE /\ overwritten' = FALSE
    /\ UNCHANGED <<serviceVars, callVars, ownVars, nextId, clones, source, overtaken, faults>>

\* Winderust dies; a command already sent may still reach the helper.
Crash ==
    /\ Open /\ pc \notin {"dead", "stopped"}
    /\ pc' = "dead" /\ stack' = << >> /\ result' = "error" /\ run' = NoRun
    /\ Abandon \/ Latch
    /\ UNCHANGED <<ownVars, nextId, worldVars, faults>>

Gone == pc \in {"dead", "stopped"}

\* recover_power_plan_key, then restore_stale_adaptive_plans: clones that carry
\* the description are deleted, and left for the plan they came from.
Managed == {c \in Clones : clones[c] = "exists" /\ source[c] # NoPlan}

Replay ==
    /\ Gone /\ limbo = NoCommand /\ call = NoCall
    /\ journal # EmptyJournal
    /\ LET plan == Unwind(journal, PowerKey, active)
       IN  /\ plan \in Installed
           /\ active' = IF plan \in Managed THEN source[plan] ELSE plan
           /\ active' \in Installed \ Managed
    /\ clones' = [c \in Clones |-> IF c \in Managed THEN "deleted" ELSE clones[c]]
    /\ UNCHANGED <<serviceVars, callVars, ownVars, nextId, source, userVars, faults>>

\* Another controller's command goes unanswered.  It needs the RUNTIME mutex, which
\* an open intent of this controller holds until it is deferred.
OtherLatches ==
    /\ Open /\ pc \notin {"set", "verify", "commit", "compensate", "undo", "undone", "cancel",
                          "cancel_external"}
    /\ Latch /\ ~latched /\ Fault
    /\ UNCHANGED <<callVars, ownVars, nextId, worldVars>>

\* The helper acts; it rejects a command it cannot read, but never a Cancel, whose
\* answer nobody reads.
ServiceStep ==
    /\ \/ ServiceActs
       \/ Refuse /\ call.command.op # "cancel" /\ Fault
    /\ UNCHANGED <<callVars, ownVars, nextId, worldVars>>

--------------------------------------------------------------------------------
Init ==
    /\ ServiceInit
    /\ pc = "idle" /\ stack = << >> /\ result = "ok" /\ run = NoRun
    /\ current = NoPlan /\ verified = NoPlan /\ breaking = FALSE /\ uncertain = NoSwitch
    /\ original = NoPlan /\ expected = NoPlan /\ adaptive = NoClone /\ cleanup = FALSE
    /\ nextId = 1
    /\ active \in Base
    /\ clones = [c \in Clones |-> "unborn"]
    /\ source = [c \in Clones |-> NoPlan]
    /\ pre = active /\ mixed = FALSE /\ forsaken = FALSE /\ overtaken = FALSE
    /\ overwritten = FALSE
    /\ writes = MaxWrites
    /\ faults = MaxFaults

Entry ==
    \/ \E target \in Base \cup {NoPlan} : ReconcileOrdinary(target)
    \/ ReconcileAdaptive
    \/ ReleaseAdaptive
    \/ RefreshActivePlan
    \/ Shutdown

Controller ==
    \/ Observe \/ Resolve \/ Relinquish \/ Observed
    \/ Refresh \/ Refreshed \/ Cleanup \/ CleanupDelete
    \/ Switch \/ SwitchObserved \/ Change \/ Set \/ Verify \/ CommitSwitch
    \/ Compensate \/ Undo \/ Undone \/ CancelSwitch \/ CancelExternal \/ External
    \/ Restore \/ Lost
    \/ Release \/ ReleaseTake \/ ReleaseRestored \/ ReleaseBroken \/ ReleaseDelete
    \/ Ordinary \/ OrdinarySwitched
    \/ AdaptiveReleased \/ AdaptiveClean \/ AdaptiveNew \/ Duplicate \/ Initialize
    \/ Tune \/ Reactivate \/ AdaptiveTuned \/ AdaptiveSwitched
    \/ ShutdownReleased \/ RestoreOrdinary \/ Restored \/ Stop \/ End

Environment ==
    \/ \E plan \in Values : UserSelects(plan)
    \/ Crash
    \/ Replay
    \/ OtherLatches
    \/ ServiceStep

Next == Entry \/ Controller \/ Environment

Spec == Init /\ [][Next]_ppVars

--------------------------------------------------------------------------------
Labels == {"idle", "stopped", "dead", "resolve", "relinquish", "refresh", "cleanup",
           "cleanup_delete", "switch", "change", "set", "verify", "commit", "compensate",
           "undo", "undone", "cancel", "cancel_external", "restore", "release_delete",
           "adaptive_new", "duplicate", "initialize", "tune", "reactivate"} \cup Silent

\* Every variable has its type; the intent of an uncertain switch was issued before.
TypeOK ==
    /\ ServiceTypeOK
    /\ pc \in Labels /\ stack \in Seq(Labels) /\ result \in {"ok", "lost", "error"}
    /\ run \in Runs
    /\ {current, verified, original, expected} \subseteq Values \cup {NoPlan}
    /\ breaking \in BOOLEAN /\ cleanup \in BOOLEAN
    /\ uncertain \in Switches \cup {NoSwitch}
    /\ uncertain # NoSwitch => uncertain.id < nextId
    /\ adaptive \in AdaptivePlans \cup {NoClone}
    /\ nextId \in Nat \ {0}
    /\ active \in Values
    /\ clones \in [Clones -> {"unborn", "exists", "deleted"}]
    /\ source \in [Clones -> Values \cup {NoPlan}]
    /\ pre \in Values /\ {mixed, forsaken, overtaken, overwritten} \subseteq BOOLEAN
    /\ faults \in 0..MaxFaults /\ writes \in 0..MaxWrites

\* If Winderust dies in any state, what the helper makes of the active plan from its
\* journal is the plan that somebody other than Winderust selected last, unless the
\* cleanup of a clone gave that plan up (see CleanupKeepsChain) or the tuning of one
\* overwrote it (see SelectionKept).
Recoverable == ~mixed /\ ~forsaken /\ ~overwritten => Unwind(journal, PowerKey, active) = pre

\* The edge that the controller's own fields amount to.
Owned ==
    IF original # NoPlan THEN <<[original |-> original, expected |-> verified]>>
    ELSE IF adaptive # NoClone /\ verified = adaptive.guid
         THEN <<[original |-> adaptive.original, expected |-> verified]>>
    ELSE << >>

\* It counts the adaptive plan as active without having verified it.
Overclaimed == AdaptiveActive /\ verified # adaptive.guid

\* Between operations nothing is open but the switch whose outcome is unknown.  Once
\* that is settled, the journal holds what the controller believes it owns: one edge,
\* from the plan it would go back to last to the plan it verified last.  (Once a rule
\* has replaced the adaptive plan while that counted as active, the adoption of an
\* uncertain switch may give the rule's chain up and leave its edge in the journal.)
LedgerAgrees ==
    pc = "idle" /\ ~latched /\ ~breaking /\ uncertain = NoSwitch /\ ~mixed /\ ~overtaken
        => journal.pending = {} /\ journal.committed[PowerKey] = Owned

\* At most one switch is open in the journal: a later one begins only when the earlier
\* is resolved.
OneOpenSwitch == Cardinality(journal.pending) <= 1

\* Between operations, whatever failed, every clone that exists is one the controller
\* still holds and will delete.
NoStrayClone ==
    pc = "idle" => \A c \in Clones : clones[c] = "exists" => adaptive # NoClone /\ adaptive.guid = c

\* The controller's books are in order.
Consistent == TypeOK /\ LedgerAgrees /\ OneOpenSwitch /\ NoStrayClone

\* "An observed external selection terminates this transaction's ownership"
\* (power_plan.rs:856): between operations the adaptive plan counts as active only
\* while it is the plan last verified.
AdaptiveIsVerified ==
    pc = "idle" /\ ~latched /\ ~breaking /\ uncertain = NoSwitch => ~Overclaimed

\* "An incomplete clone that was never activated does not break the pre-existing
\* ordinary plan's restoration chain" (power_plan.rs:598): where a rule's chain led to
\* the plan the clone was made of, cleaning the clone up gives the chain up only for a
\* plan that Winderust did not select.
CleanupKeepsChain ==
    pc = "relinquish" /\ Head(stack) = "release_broken"
        /\ ~run.held.active /\ original \notin {NoPlan, run.held.original}
        => run.seen # verified

\* "Reactivation is attempted only when the fresh query identifies the target as active"
\* (docs/windows-api-reference.md:898): it never replaces a plan that somebody selected
\* after that query.  The code promises the first only, and this does not hold.
SelectionKept == ~overwritten

\* A shutdown that reports no error has put the user's plan back, left the helper
\* nothing to replay, and deleted every clone.  (What is excepted are the cases of
\* Recoverable, and of LedgerAgrees.)
ShutdownRestores ==
    pc = "stopped" /\ result = "ok" =>
        /\ ~mixed /\ ~forsaken /\ ~overtaken /\ ~overwritten =>
               active = pre /\ (latched \/ journal = EmptyJournal)
        /\ \A c \in Clones : clones[c] # "exists"
================================================================================
