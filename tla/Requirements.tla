------------------------------ MODULE Requirements ------------------------------
(***************************************************************************)
(* What a configuration asks of the automation runtime                     *)
(* (src/backend/automation/requirements.rs).                               *)
(*                                                                         *)
(* A configuration holds the profile for mains power and the one for the   *)
(* battery.  A profile is the set of the things that are turned on in it:  *)
(* the master switch, the adaptive engine ("saver", which slows refreshes  *)
(* down and ignores events), and groups of features that the requirements  *)
(* tell apart.                                                             *)
(***************************************************************************)
EXTENDS FiniteSets

Features ==
    {"enabled",    \* general.enabled, the master switch
     "saver",      \* adaptive_engine.enabled
     "plans",      \* a rule or an activity setting selects a power plan
     "keys",       \* ... one that watches the keyboard or the mouse
     "suspend",    \* an application is to be suspended
     "processes",  \* a feature that changes running processes
     "timer",      \* the timer resolution follows an application
     "watchdog",   \* a watchdog rule
     "looks"}      \* the window follows the theme or the accent of Windows

Profile == SUBSET Features
Settings == [ac : Profile, battery : Profile]
Profiles(s) == {s.ac, s.battery}

\* The profile of the power source. A source that cannot be read counts as mains power.
Active(s, plugged) == IF plugged THEN s.ac ELSE s.battery

ProcessScan(p) == {"enabled", "processes"} \subseteq p

WorkerRequiredBy(p) ==
    /\ "enabled" \in p
    /\ p \cap {"watchdog", "plans", "saver", "suspend", "processes", "timer"} # {}

\* The worker's life follows the whole configuration, not only the active profile.
WorkerRequired(s) == \E p \in Profiles(s) : WorkerRequiredBy(p)

\* The features of a pass over profile p that have to be looked at again by themselves; the
\* watchdog is the one of the mains profile whatever the power source is.
RefreshRequired(s, p) ==
    \/ WorkerRequiredBy(p \ {"watchdog"})
    \/ {"enabled", "watchdog"} \subseteq s.ac

EventDriven(p) == "suspend" \in p \/ ("saver" \notin p /\ ProcessScan(p))

EventsRequiredBy(p) ==
    \/ "enabled" \in p /\ ("plans" \in p \/ EventDriven(p))
    \/ "saver" \notin p /\ "looks" \in p
EventsRequired(s) == \E p \in Profiles(s) : EventsRequiredBy(p)

\* Mutant of Wakes: the profile for the battery is not asked.
WakesOnMains(s, event) ==
    LET p == s.ac IN
        CASE event = "power" -> WorkerRequiredBy(p)
          [] event = "foreground" -> "enabled" \in p /\ ("plans" \in p \/ EventDriven(p))
          [] event = "looks" -> "saver" \notin p /\ "looks" \in p

\* Which events of Windows end the worker's sleep.
Wakes(s, event) ==
    \E p \in Profiles(s) :
        CASE event = "power" -> WorkerRequiredBy(p)
          [] event = "foreground" -> "enabled" \in p /\ ("plans" \in p \/ EventDriven(p))
          [] event = "looks" -> "saver" \notin p /\ "looks" \in p

HookRequired(s) ==
    \E p \in Profiles(s) : "enabled" \in p /\ ("suspend" \in p \/ {"plans", "keys"} \subseteq p)

\* Which input ends it.
InputWakes(s) == \E p \in Profiles(s) : "enabled" \in p /\ p \cap {"suspend", "keys"} # {}
================================================================================
