----------------------------- MODULE SuspensionProofs -----------------------------
(***************************************************************************)
(* Proofs about Suspension, for any processes, ids and failures.           *)
(***************************************************************************)
EXTENDS Suspension, RecoveryServiceProofs

--------------------------------------------------------------------------------
(***************************************************************************)
(* The inductive invariant.                                                *)
(***************************************************************************)
\* Labels of one key's part of a call, of the freeze of op.key, of the part with an intent.
PartLabels == {"routine", "thaw", "cleanup"}
FreezeLabels == {"begin", "freeze", "commit", "cancel", "compensate"}
IntentLabels == {"freeze", "commit", "cancel"}
BusyLabels == PartLabels \cup FreezeLabels \cup {"stale", "assign", "decide", "refreeze", "next"}

Freezing == op.kind \in {"freeze", "limiterFreeze"}
Loops == {"release", "reconcile", "shutdown"}

Armed(k) == managed[k] # NoManaged /\ managed[k].armed

Wanted(k) == "freeze" \in {managed[k].app, managed[k].limiter}

\* Where a call is, and where its part goes on.
StepOK ==
    /\ pc \in BusyLabels => op \in Ops
    /\ pc \in PartLabels => at \in Steps
    /\ pc \in {"decide", "refreeze"} \cup FreezeLabels => Freezing
    /\ pc \in {"stale", "assign"} => Freezing \/ op.kind = "limiterThaw"
    /\ pc = "next" => op.kind \in Loops
    /\ pc \in PartLabels =>
          /\ at.then = "next" <=> op.kind \in Loops
          /\ at.then = "stale" => at.key # op.key /\ at.routine = "release"
                                     /\ (Freezing \/ op.kind = "limiterThaw")
          /\ at.then = "decide" => at.key = op.key /\ at.routine = "release" /\ Freezing
    /\ pc \in IntentLabels \cup {"compensate"} \/ (pc = "begin" /\ call # NoCall) =>
          at \in Steps /\ at.key = op.key /\ at.routine = "release" /\ at.then = "idle"
             /\ at.id \in Ids

\* A freeze has an id left until it begins its intent.
RoomOK ==
    (\/ pc \in {"stale", "assign", "decide"}
     \/ pc = "begin" /\ call = NoCall
     \/ pc \in PartLabels /\ at.then \in {"stale", "decide"}) =>
        (Freezing => nextId \in Ids)

\* The entry at hand.
EntryOK ==
    /\ pc \in FreezeLabels => State(op.key) = "thawed" /\ ~managed[op.key].armed
    /\ pc = "refreeze" => State(op.key) = "thawed" /\ managed[op.key].armed
    /\ pc = "routine" /\ at.routine = "keep" => State(at.key) # "none" /\ managed[at.key].app # "freeze"
    /\ pc = "thaw" =>
          /\ State(at.key) \in {"frozen", "compensate"}
          /\ at.routine = "keep" => ~Wanted(at.key)
    /\ pc = "cleanup" => State(at.key) \in {"cleanup", "cleanupRelease"}

\* A release for another reason than the shutdown or a reused id leaves frozen entries alone
\* that an owner wants; and a pending entry stays pending until its turn.
TurnOK ==
    /\ pc \in {"routine", "thaw"} /\ at.routine = "release" =>
          /\ at.then = "decide" \/ op.kind = "reconcile" => State(at.key) = "compensate"
          /\ at.then = "idle" /\ State(at.key) # "none" => ~Wanted(at.key)
          /\ op.kind = "release" /\ State(at.key) # "none" => managed[at.key].limiter = "none"
    /\ pc \in PartLabels \cup {"next"} /\ op.kind = "reconcile" =>
          /\ \A k \in op.todo : State(k) \in {"compensate", "cleanup", "cleanupRelease"}
          /\ pc # "next" => at.key \notin op.todo

\* Whoever asks for the freeze wants it.
WishOK ==
    /\ pc \in {"decide", "refreeze"} \cup FreezeLabels
          \/ (pc \in PartLabels /\ at.then = "decide") =>
          (State(op.key) # "none" => Wanted(op.key))
    /\ pc = "stale" \/ (pc \in PartLabels /\ at.then = "stale") =>
          (op.kind = "limiterFreeze" /\ State(op.key) # "none" =>
              managed[op.key].limiter = "freeze")

\* A frozen entry that nobody wants frozen waits for a retry, or is being thawed.
WantedOK ==
    ~Gone => \A k \in ManagedKeys : State(k) = "frozen" =>
        Wanted(k) \/ managed[k].retry \/ (pc \in {"routine", "thaw"} /\ k = at.key)

\* A process id has one entry; a new one is made when no other is left.
OwnersOK ==
    /\ \A j, k \in ManagedKeys : Pid[j] = Pid[k] => j = k
    /\ pc = "assign" => Stale(op.key) = {} /\ State(op.key) = "none"

\* A job is frozen as its entry says, or by the freeze that is under way.
FrozenOK ==
    ~Gone => \A k \in Keys :
        frozen[k] <=> \/ State(k) \in {"frozen", "compensate"}
                      \/ pc \in {"commit", "compensate"} /\ k = op.key

\* The command under way is the one of the label; an intent is held by an unlatched service.
CallOK ==
    /\ call # NoCall =>
          /\ call.phase \in {"sent", "landed"}
          /\ pc \in {"begin", "commit", "cancel", "cleanup"}
          /\ pc = "begin" => call.command = Begin(at.id, op.key, FrozenEdge)
          /\ pc = "commit" => call.command = Commit(at.id)
          /\ pc = "cancel" => call.command = Cancel(at.id)
          /\ pc = "cleanup" => call.command = Forget(at.key)
    /\ pc \in IntentLabels => ~latched
    /\ pc = "compensate" => latched

Landed == Called("landed")

\* The intent at hand is pending.
Open ==
    \/ pc = "freeze" \/ (pc = "begin" /\ Landed)
    \/ pc \in {"commit", "cancel"} /\ ~Landed

\* The key has a committed record.
Kept(k) ==
    \/ Armed(k) /\ ~(pc = "cleanup" /\ Landed /\ k = at.key)
    \/ pc = "commit" /\ Landed /\ k = op.key

\* While the service answers, its journal is what the controller believes.
LedgerOK ==
    ~latched /\ pc # "dead" =>
        /\ journal.pending =
              IF Open THEN {[id |-> at.id, key |-> op.key, edge |-> FrozenEdge]} ELSE {}
        /\ \A k \in Keys : journal.committed[k] # << >> <=> Kept(k)

\* Whatever the helper finds records each job that is frozen, or may be without a new intent.
RecordOK ==
    \A J \in Futures :
        /\ OneRecord(J)
        /\ \A k \in Keys :
              frozen[k] \/ (State(k) \in {"thawed", "frozen"} /\ managed[k].armed) => Rec(J, k)

\* What a shutdown has succeeded with is gone.
ClearOK ==
    pc \in PartLabels \cup {"next"} /\ op.kind = "shutdown" =>
        /\ pc # "next" => at.routine = "release"
        /\ pc = "cleanup" => State(at.key) = "cleanupRelease"
        /\ result = "ok" => \A k \in ManagedKeys : k \in op.todo \/ (pc # "next" /\ k = at.key)

IInv ==
    /\ TypeOK /\ ServiceInv /\ StepOK /\ RoomOK /\ EntryOK /\ TurnOK /\ WishOK /\ WantedOK
    /\ OwnersOK /\ FrozenOK /\ CallOK /\ LedgerOK /\ RecordOK /\ ClearOK /\ ShutdownThaws
--------------------------------------------------------------------------------
(***************************************************************************)
(* Types, by the part of the state.                                        *)
(***************************************************************************)
ControlTypes ==
    /\ pc \in BusyLabels \cup {"idle", "stopped", "dead"}
    /\ op \in Ops \cup {NoOp}
    /\ at \in Steps \cup {NoStep}
    /\ result \in {"ok", "pending", "failed"}

StateTypes == managed \in [Keys -> Entry \cup {NoManaged}] /\ nextId \in Nat \ {0}

WorldTypes ==
    /\ frozen \in [Keys -> BOOLEAN]
    /\ life \in [Keys -> {"unborn", "alive", "exited"}]

BoundTypes == faults \in 0..MaxFaults

LEMMA TypeParts ==
    TypeOK <=> ServiceTypeOK /\ ControlTypes /\ StateTypes /\ WorldTypes /\ BoundTypes
BY DEF TypeOK, ControlTypes, StateTypes, WorldTypes, BoundTypes, BusyLabels, PartLabels,
       FreezeLabels

--------------------------------------------------------------------------------
(***************************************************************************)
(* Entries and their changes.                                              *)
(***************************************************************************)
LEMMA EntryFields ==
    ASSUME NEW e \in Entry
    PROVE  /\ e.state \in States /\ e.app \in Wants /\ e.limiter \in Wants
           /\ e.armed \in BOOLEAN /\ e.retry \in BOOLEAN /\ e # NoManaged
           /\ e.state = "frozen" => e.armed
           /\ e.state = "compensate" => e.retry /\ ~e.armed
BY SentinelAssumption DEF Entry

\* Only the entry of k changes: to one with these fields, or to none.
Becomes(k, state, app, limiter, armed, retry) ==
    /\ managed' \in [Keys -> Entry \cup {NoManaged}]
    /\ \A j \in Keys \ {k} : managed'[j] = managed[j]
    /\ managed'[k] \in Entry /\ managed'[k] # NoManaged
    /\ managed'[k].state = state
    /\ managed'[k].app = app /\ managed'[k].limiter = limiter
    /\ managed'[k].armed = armed /\ managed'[k].retry = retry

Dropped(k) ==
    /\ managed' \in [Keys -> Entry \cup {NoManaged}]
    /\ \A j \in Keys \ {k} : managed'[j] = managed[j]
    /\ managed'[k] = NoManaged

LEMMA EntryMade ==
    ASSUME StateTypes, NEW k \in Keys, NEW e \in Entry, managed' = [managed EXCEPT ![k] = e]
    PROVE  Becomes(k, e.state, e.app, e.limiter, e.armed, e.retry)
<1>1. managed' \in [Keys -> Entry \cup {NoManaged}] /\ managed'[k] = e
  BY DEF StateTypes
<1>2. \A j \in Keys \ {k} : managed'[j] = managed[j]
  BY DEF StateTypes
<1> QED  BY <1>1, <1>2, EntryFields DEF Becomes

LEMMA EntryDropped ==
    ASSUME StateTypes, NEW k \in Keys, Drop(k) PROVE Dropped(k)
BY DEF StateTypes, Drop, Dropped

\* What the code writes into an entry that exists.
LEMMA EntryChanges ==
    ASSUME StateTypes, NEW k \in Keys, State(k) # "none"
    PROVE  LET m == managed[k]
           IN  /\ RetainFailure(k) => Becomes(k, m.state, m.app, m.limiter, m.armed, TRUE)
               /\ managed' = [managed EXCEPT ![k] = Forgotten(@)]
                     => Becomes(k, "thawed", m.app, m.limiter, FALSE, FALSE)
               /\ \A w \in Wants : managed' = [managed EXCEPT ![k].app = w]
                     => Becomes(k, m.state, w, m.limiter, m.armed, m.retry)
               /\ \A w \in Wants : managed' = [managed EXCEPT ![k].limiter = w]
                     => Becomes(k, m.state, m.app, w, m.armed, m.retry)
               /\ \A s \in {"cleanup", "cleanupRelease"} :
                     managed' = [managed EXCEPT ![k].state = s]
                        => Becomes(k, s, m.app, m.limiter, m.armed, m.retry)
               /\ \A s \in {"thawed", "cleanup", "cleanupRelease"} :
                     managed' = [managed EXCEPT ![k].state = s, ![k].retry = FALSE]
                        => Becomes(k, s, m.app, m.limiter, m.armed, FALSE)
               /\ m.armed /\ managed' = [managed EXCEPT ![k].state = "frozen", ![k].retry = FALSE]
                     => Becomes(k, "frozen", m.app, m.limiter, m.armed, FALSE)
               /\ managed' = [managed EXCEPT ![k].state = "frozen", ![k].armed = TRUE, ![k].retry = FALSE]
                     => Becomes(k, "frozen", m.app, m.limiter, TRUE, FALSE)
               /\ ~m.armed /\ managed' = [managed EXCEPT ![k].state = "compensate", ![k].retry = TRUE]
                     => Becomes(k, "compensate", m.app, m.limiter, FALSE, TRUE)
<1> DEFINE m == managed[k]
<1>1. m \in Entry /\ managed \in [Keys -> Entry \cup {NoManaged}]
  BY DEF State, StateTypes
<1>0. m \in [state : States, app : Wants, limiter : Wants, armed : BOOLEAN, retry : BOOLEAN]
  BY <1>1 DEF Entry
<1>2. /\ m.state \in States /\ m.app \in Wants /\ m.limiter \in Wants
      /\ m.armed \in BOOLEAN /\ m.retry \in BOOLEAN
      /\ m.state = "frozen" => m.armed
      /\ m.state = "compensate" => m.retry /\ ~m.armed
  BY <1>1, EntryFields
<1> HIDE DEF m
<1>3. ASSUME RetainFailure(k)
      PROVE  Becomes(k, m.state, m.app, m.limiter, m.armed, TRUE)
  <2> DEFINE e == [m EXCEPT !.retry = TRUE]
  <2>1. /\ e \in [state : States, app : Wants, limiter : Wants, armed : BOOLEAN, retry : BOOLEAN]
        /\ e.state = m.state /\ e.app = m.app /\ e.limiter = m.limiter /\ e.armed = m.armed /\ e.retry = TRUE
    BY <1>0 DEF States
  <2>2. managed' = [managed EXCEPT ![k] = e]
    BY <1>3, <1>1 DEF m, RetainFailure
  <2> HIDE DEF e
  <2>3. e \in Entry
    BY <1>3, <1>2, <2>1 DEF Entry
  <2> QED  BY <2>1, <2>2, <2>3, EntryMade
<1>4. ASSUME managed' = [managed EXCEPT ![k].state = "frozen", ![k].armed = TRUE, ![k].retry = FALSE]
      PROVE  Becomes(k, "frozen", m.app, m.limiter, TRUE, FALSE)
  <2> DEFINE e == [m EXCEPT !.state = "frozen", !.armed = TRUE, !.retry = FALSE]
  <2>1. /\ e \in [state : States, app : Wants, limiter : Wants, armed : BOOLEAN, retry : BOOLEAN]
        /\ e.state = "frozen" /\ e.app = m.app /\ e.limiter = m.limiter /\ e.armed = TRUE /\ e.retry = FALSE
    BY <1>0 DEF States
  <2>2. managed' = [managed EXCEPT ![k] = e]
    BY <1>4, <1>1 DEF m
  <2> HIDE DEF e
  <2>3. e \in Entry
    BY <1>4, <1>2, <2>1 DEF Entry
  <2> QED  BY <2>1, <2>2, <2>3, EntryMade
<1>5. ASSUME managed' = [managed EXCEPT ![k] = Forgotten(@)]
      PROVE  Becomes(k, "thawed", m.app, m.limiter, FALSE, FALSE)
  <2> DEFINE e == Forgotten(m)
  <2>1. /\ e \in [state : States, app : Wants, limiter : Wants, armed : BOOLEAN, retry : BOOLEAN]
        /\ e.state = "thawed" /\ e.app = m.app /\ e.limiter = m.limiter /\ e.armed = FALSE /\ e.retry = FALSE
    BY <1>0 DEF States, Forgotten
  <2>2. managed' = [managed EXCEPT ![k] = e]
    BY <1>5, <1>1 DEF m
  <2> HIDE DEF e
  <2>3. e \in Entry
    BY <1>5, <1>2, <2>1 DEF Entry
  <2> QED  BY <2>1, <2>2, <2>3, EntryMade
<1>6. ASSUME NEW w \in Wants, managed' = [managed EXCEPT ![k].app = w]
      PROVE  Becomes(k, m.state, w, m.limiter, m.armed, m.retry)
  <2> DEFINE e == [m EXCEPT !.app = w]
  <2>1. /\ e \in [state : States, app : Wants, limiter : Wants, armed : BOOLEAN, retry : BOOLEAN]
        /\ e.state = m.state /\ e.app = w /\ e.limiter = m.limiter /\ e.armed = m.armed /\ e.retry = m.retry
    BY <1>0 DEF States
  <2>2. managed' = [managed EXCEPT ![k] = e]
    BY <1>6, <1>1 DEF m
  <2> HIDE DEF e
  <2>3. e \in Entry
    BY <1>6, <1>2, <2>1 DEF Entry
  <2> QED  BY <2>1, <2>2, <2>3, EntryMade
<1>7. ASSUME NEW w \in Wants, managed' = [managed EXCEPT ![k].limiter = w]
      PROVE  Becomes(k, m.state, m.app, w, m.armed, m.retry)
  <2> DEFINE e == [m EXCEPT !.limiter = w]
  <2>1. /\ e \in [state : States, app : Wants, limiter : Wants, armed : BOOLEAN, retry : BOOLEAN]
        /\ e.state = m.state /\ e.app = m.app /\ e.limiter = w /\ e.armed = m.armed /\ e.retry = m.retry
    BY <1>0 DEF States
  <2>2. managed' = [managed EXCEPT ![k] = e]
    BY <1>7, <1>1 DEF m
  <2> HIDE DEF e
  <2>3. e \in Entry
    BY <1>7, <1>2, <2>1 DEF Entry
  <2> QED  BY <2>1, <2>2, <2>3, EntryMade
<1>8. ASSUME NEW s \in {"cleanup", "cleanupRelease"}, managed' = [managed EXCEPT ![k].state = s]
      PROVE  Becomes(k, s, m.app, m.limiter, m.armed, m.retry)
  <2> DEFINE e == [m EXCEPT !.state = s]
  <2>1. /\ e \in [state : States, app : Wants, limiter : Wants, armed : BOOLEAN, retry : BOOLEAN]
        /\ e.state = s /\ e.app = m.app /\ e.limiter = m.limiter /\ e.armed = m.armed /\ e.retry = m.retry
    BY <1>0 DEF States
  <2>2. managed' = [managed EXCEPT ![k] = e]
    BY <1>8, <1>1 DEF m
  <2> HIDE DEF e
  <2>3. e \in Entry
    BY <1>8, <1>2, <2>1 DEF Entry
  <2> QED  BY <2>1, <2>2, <2>3, EntryMade
<1>9. ASSUME NEW s \in {"thawed", "cleanup", "cleanupRelease"}, managed' = [managed EXCEPT ![k].state = s, ![k].retry = FALSE]
      PROVE  Becomes(k, s, m.app, m.limiter, m.armed, FALSE)
  <2> DEFINE e == [m EXCEPT !.state = s, !.retry = FALSE]
  <2>1. /\ e \in [state : States, app : Wants, limiter : Wants, armed : BOOLEAN, retry : BOOLEAN]
        /\ e.state = s /\ e.app = m.app /\ e.limiter = m.limiter /\ e.armed = m.armed /\ e.retry = FALSE
    BY <1>0 DEF States
  <2>2. managed' = [managed EXCEPT ![k] = e]
    BY <1>9, <1>1 DEF m
  <2> HIDE DEF e
  <2>3. e \in Entry
    BY <1>9, <1>2, <2>1 DEF Entry
  <2> QED  BY <2>1, <2>2, <2>3, EntryMade
<1>10. ASSUME m.armed /\ managed' = [managed EXCEPT ![k].state = "frozen", ![k].retry = FALSE]
      PROVE  Becomes(k, "frozen", m.app, m.limiter, m.armed, FALSE)
  <2> DEFINE e == [m EXCEPT !.state = "frozen", !.retry = FALSE]
  <2>1. /\ e \in [state : States, app : Wants, limiter : Wants, armed : BOOLEAN, retry : BOOLEAN]
        /\ e.state = "frozen" /\ e.app = m.app /\ e.limiter = m.limiter /\ e.armed = m.armed /\ e.retry = FALSE
    BY <1>0, <1>10 DEF States
  <2>2. managed' = [managed EXCEPT ![k] = e]
    BY <1>10, <1>1 DEF m
  <2> HIDE DEF e
  <2>3. e \in Entry
    BY <1>10, <1>2, <2>1 DEF Entry
  <2> QED  BY <2>1, <2>2, <2>3, EntryMade
<1>11. ASSUME ~m.armed /\ managed' = [managed EXCEPT ![k].state = "compensate", ![k].retry = TRUE]
      PROVE  Becomes(k, "compensate", m.app, m.limiter, FALSE, TRUE)
  <2> DEFINE e == [m EXCEPT !.state = "compensate", !.retry = TRUE]
  <2>1. /\ e \in [state : States, app : Wants, limiter : Wants, armed : BOOLEAN, retry : BOOLEAN]
        /\ e.state = "compensate" /\ e.app = m.app /\ e.limiter = m.limiter /\ e.armed = FALSE /\ e.retry = TRUE
    BY <1>0, <1>11 DEF States
  <2>2. managed' = [managed EXCEPT ![k] = e]
    BY <1>11, <1>1 DEF m
  <2> HIDE DEF e
  <2>3. e \in Entry
    BY <1>11, <1>2, <2>1 DEF Entry
  <2> QED  BY <2>1, <2>2, <2>3, EntryMade
<1> QED  BY <1>3, <1>4, <1>5, <1>6, <1>7, <1>8, <1>9, <1>10, <1>11 DEF m

--------------------------------------------------------------------------------
(***************************************************************************)
(* What the actions do, with the changes of entries field by field.        *)
(***************************************************************************)
\* The part of the call that goes on, with its place.
SamePart ==
    /\ op' = op /\ at' \in Steps
    /\ at'.key = at.key /\ at'.routine = at.routine /\ at'.then = at.then /\ at'.id = at.id

LEMMA ReleaseEffect ==
    ASSUME StateTypes, StepOK, Release
    PROVE  LET k == at.key
               m == managed[k]
           IN  /\ pc = "routine" /\ at.routine = "release"
               /\ UNCHANGED <<serviceVars, nextId, worldVars, faults>>
               /\ \/ State(k) = "none" /\ Done("ok") /\ UNCHANGED managed
                  \/ State(k) = "thawed" /\ ~m.armed /\ Dropped(k) /\ Done("ok")
                  \/ /\ (State(k) = "thawed" /\ m.armed) \/ State(k) \in {"cleanup", "cleanupRelease"}
                     /\ Becomes(k, "cleanupRelease", m.app, m.limiter, m.armed, m.retry)
                     /\ Goto("cleanup")
                  \/ State(k) \in {"frozen", "compensate"} /\ Goto("thaw") /\ UNCHANGED managed
<1>1. at.key \in Keys
  BY DEF Release, StepOK, PartLabels, Steps
<1>2. pc = "routine" /\ at.routine = "release" /\ UNCHANGED <<serviceVars, nextId, worldVars, faults>>
  BY DEF Release
<1>3. CASE State(at.key) = "none" /\ Done("ok") /\ UNCHANGED managed
  BY <1>2, <1>3
<1>4. CASE State(at.key) = "thawed" /\ ~managed[at.key].armed /\ Drop(at.key) /\ Done("ok")
  BY <1>1, <1>2, <1>4, EntryDropped
<1>5. CASE /\ \/ State(at.key) = "thawed" /\ managed[at.key].armed
              \/ State(at.key) \in {"cleanup", "cleanupRelease"}
           /\ managed' = [managed EXCEPT ![at.key].state = "cleanupRelease"]
           /\ Goto("cleanup")
  BY <1>1, <1>2, <1>5, EntryChanges
<1>6. CASE State(at.key) \in {"frozen", "compensate"} /\ Goto("thaw") /\ UNCHANGED managed
  BY <1>2, <1>6
<1> QED  BY <1>3, <1>4, <1>5, <1>6 DEF Release

LEMMA KeepEffect ==
    ASSUME StateTypes, StepOK, EntryOK, Keep
    PROVE  LET k == at.key
               m == managed[k]
           IN  /\ pc = "routine" /\ at.routine = "keep" /\ State(k) = m.state
               /\ UNCHANGED <<serviceVars, nextId, worldVars, faults>>
               /\ \/ m.limiter = "freeze" /\ Done("ok") /\ UNCHANGED managed
                  \/ m.limiter # "freeze" /\ m.state = "thawed" /\ Done("ok") /\ UNCHANGED managed
                  \/ /\ m.limiter # "freeze" /\ m.state = "thawed"
                     /\ Becomes(k, "cleanup", m.app, m.limiter, m.armed, m.retry)
                     /\ Goto("cleanup")
                  \/ /\ m.limiter # "freeze" /\ m.state \in {"frozen", "compensate"} /\ Goto("thaw")
                     /\ UNCHANGED managed
                  \/ /\ m.limiter # "freeze" /\ m.state \in {"cleanup", "cleanupRelease"}
                     /\ Goto("cleanup")
                     /\ UNCHANGED managed
<1>1. at.key \in Keys
  BY DEF Keep, StepOK, PartLabels, Steps
<1>2. pc = "routine" /\ at.routine = "keep" /\ UNCHANGED <<serviceVars, nextId, worldVars, faults>>
  BY DEF Keep
<1>3. State(at.key) # "none" /\ State(at.key) = managed[at.key].state /\ managed[at.key] \in Entry
  BY <1>1, <1>2 DEF EntryOK, State, StateTypes
<1>4. CASE KeptFrozen(managed[at.key]) /\ Done("ok") /\ UNCHANGED managed
  BY <1>2, <1>3, <1>4 DEF KeptFrozen
<1>5. CASE /\ ~KeptFrozen(managed[at.key]) /\ managed[at.key].state = "thawed"
           /\ managed' = [managed EXCEPT ![at.key].state = "cleanup"] /\ Goto("cleanup")
  <2>1. Becomes(at.key, "cleanup", managed[at.key].app, managed[at.key].limiter,
                managed[at.key].armed, managed[at.key].retry)
    BY <1>1, <1>3, <1>5, EntryChanges
  <2> QED  BY <1>2, <1>3, <1>5, <2>1 DEF KeptFrozen
<1>6. CASE /\ ~KeptFrozen(managed[at.key]) /\ managed[at.key].state = "thawed"
           /\ Done("ok") /\ UNCHANGED managed
  BY <1>2, <1>3, <1>6 DEF KeptFrozen
<1>7. CASE /\ ~KeptFrozen(managed[at.key]) /\ managed[at.key].state # "thawed"
           /\ Goto(IF managed[at.key].state \in {"frozen", "compensate"} THEN "thaw" ELSE "cleanup")
           /\ UNCHANGED managed
  <2>1. managed[at.key].state \in {"frozen", "compensate", "cleanup", "cleanupRelease"}
    BY <1>3, <1>7, EntryFields DEF States
  <2>2. CASE managed[at.key].state \in {"frozen", "compensate"}
    BY <1>2, <1>3, <1>7, <2>2 DEF KeptFrozen
  <2>3. CASE managed[at.key].state \in {"cleanup", "cleanupRelease"}
    BY <1>2, <1>3, <1>7, <2>3 DEF KeptFrozen
  <2> QED  BY <2>1, <2>2, <2>3
<1> QED  BY <1>4, <1>5, <1>6, <1>7 DEF Keep

LEMMA ThawEffect ==
    ASSUME StateTypes, StepOK, EntryOK, Thaw
    PROVE  LET k == at.key
               m == managed[k]
           IN  /\ pc = "thaw" /\ State(k) = m.state /\ UNCHANGED <<serviceVars, nextId, life>>
               /\ \/ /\ m.retry /\ ~at.force /\ Done("pending")
                     /\ UNCHANGED <<managed, frozen, faults>>
                  \/ /\ Fault /\ Done(Retained(k)) /\ UNCHANGED frozen
                     /\ Becomes(k, m.state, m.app, m.limiter, m.armed, TRUE)
                  \/ /\ frozen' = [frozen EXCEPT ![k] = FALSE] /\ UNCHANGED faults
                     /\ \/ /\ at.routine = "keep" /\ Done("ok")
                           /\ Becomes(k, "thawed", m.app, m.limiter, m.armed, FALSE)
                        \/ /\ SamePart /\ at'.force /\ pc' = "cleanup" /\ result' = result
                           /\ Becomes(k, IF at.routine = "keep" THEN "cleanup" ELSE "cleanupRelease",
                                      m.app, m.limiter, m.armed, FALSE)
<1> DEFINE k == at.key
           m == managed[k]
<1>1. k \in Keys /\ at \in Steps
  BY DEF Thaw, StepOK, PartLabels, Steps
<1>2. pc = "thaw" /\ UNCHANGED <<serviceVars, nextId, life>>
  BY DEF Thaw
<1>3. State(k) # "none" /\ State(k) = m.state
  BY <1>1, <1>2 DEF EntryOK, State, StateTypes
<1>4. CASE NotDue(k, at.force) /\ Done("pending") /\ UNCHANGED <<managed, frozen, faults>>
  BY <1>2, <1>3, <1>4 DEF NotDue
<1>5. CASE Fault /\ RetainFailure(k) /\ Done(Retained(k)) /\ UNCHANGED frozen
  <2>1. Becomes(k, m.state, m.app, m.limiter, m.armed, TRUE)
    BY <1>1, <1>3, <1>5, EntryChanges
  <2> QED  BY <1>2, <1>3, <1>5, <2>1
<1>6. CASE ~(NotDue(k, at.force) /\ Done("pending") /\ UNCHANGED <<managed, frozen, faults>>)
           /\ ~(Fault /\ RetainFailure(k) /\ Done(Retained(k)) /\ UNCHANGED frozen)
  <2>1. frozen' = [frozen EXCEPT ![k] = FALSE] /\ UNCHANGED faults
    BY <1>6 DEF Thaw
  <2>2. CASE at.routine = "keep" /\ m.limiter = "thaw"
    <3>1. managed' = [managed EXCEPT ![k].state = "thawed", ![k].retry = FALSE] /\ Done("ok")
      BY <1>6, <2>2 DEF Thaw
    <3>2. Becomes(k, "thawed", m.app, m.limiter, m.armed, FALSE)
      BY <1>1, <1>3, <3>1, EntryChanges
    <3> QED  BY <1>2, <1>3, <2>1, <2>2, <3>1, <3>2
  <2>3. CASE ~(at.routine = "keep" /\ m.limiter = "thaw")
    <3> DEFINE s == IF at.routine = "keep" THEN "cleanup" ELSE "cleanupRelease"
    <3>1. /\ managed' = [managed EXCEPT ![k].state = s, ![k].retry = FALSE]
          /\ at' = [at EXCEPT !.force = TRUE] /\ pc' = "cleanup" /\ UNCHANGED <<op, result>>
      BY <1>6, <2>3 DEF Thaw
    <3>2. SamePart /\ at'.force
      BY <1>1, <3>1 DEF SamePart, Steps
    <3>3. s \in {"thawed", "cleanup", "cleanupRelease"}
      OBVIOUS
    <3> HIDE DEF s
    <3>4. Becomes(k, s, m.app, m.limiter, m.armed, FALSE)
      BY <1>1, <1>3, <3>1, <3>3, EntryChanges
    <3> QED  BY <1>2, <1>3, <2>1, <3>1, <3>2, <3>4 DEF s
  <2> QED  BY <2>2, <2>3
<1> QED  BY <1>4, <1>5, <1>6

LEMMA FinishCleanupEffect ==
    ASSUME StateTypes, StepOK, EntryOK, FinishCleanup
    PROVE  LET k == at.key
               m == managed[k]
           IN  /\ pc = "cleanup" /\ State(k) = m.state /\ UNCHANGED <<nextId, worldVars>>
               /\ \/ m.retry /\ ~at.force /\ call = NoCall /\ Done("pending")
                     /\ UNCHANGED <<serviceVars, managed, faults>>
                  \/ Ask(Forget(k))
                  \/ Granted /\ Done("ok") /\ State(k) = "cleanupRelease" /\ Dropped(k)
                  \/ /\ Granted /\ Done("ok") /\ State(k) = "cleanup"
                     /\ Becomes(k, "thawed", m.app, m.limiter, FALSE, FALSE)
                  \/ /\ Denied /\ Done(Retained(k))
                     /\ Becomes(k, m.state, m.app, m.limiter, m.armed, TRUE)
<1> DEFINE k == at.key
           m == managed[k]
<1>1. k \in Keys /\ pc = "cleanup"
  BY DEF FinishCleanup, StepOK, PartLabels, Steps
<1>2. State(k) \in {"cleanup", "cleanupRelease"} /\ State(k) = m.state
  BY <1>1 DEF EntryOK, State, StateTypes
<1>3. CASE /\ NotDue(k, at.force) /\ Done("pending")
           /\ UNCHANGED <<serviceVars, stateVars, worldVars, faults>>
  BY <1>1, <1>2, <1>3 DEF NotDue, stateVars
<1>4. CASE Ask(Forget(k))
  BY <1>1, <1>2, <1>4 DEF Ask, stateVars
<1>5. CASE /\ Granted
           /\ IF State(k) = "cleanupRelease" THEN Drop(k) ELSE managed' = [managed EXCEPT ![k] = Forgotten(@)]
           /\ Done("ok") /\ UNCHANGED <<nextId, worldVars>>
  <2>1. CASE State(k) = "cleanupRelease"
    BY <1>1, <1>2, <1>5, <2>1, EntryDropped
  <2>2. CASE State(k) = "cleanup"
    <3>1. Becomes(k, "thawed", m.app, m.limiter, FALSE, FALSE)
      BY <1>1, <1>5, <2>2, EntryChanges
    <3> QED  BY <1>1, <1>2, <1>5, <2>2, <3>1
  <2> QED  BY <1>2, <2>1, <2>2
<1>6. CASE Denied /\ RetainFailure(k) /\ Done(Retained(k)) /\ UNCHANGED <<nextId, worldVars>>
  <2>1. Becomes(k, m.state, m.app, m.limiter, m.armed, TRUE)
    BY <1>1, <1>2, <1>6, EntryChanges
  <2> QED  BY <1>1, <1>2, <1>6, <2>1
<1> QED  BY <1>3, <1>4, <1>5, <1>6 DEF FinishCleanup

\* A part of a call that starts.
PartStarts(k, routine, force, then) ==
    /\ at' \in Steps /\ at'.key = k /\ at'.routine = routine /\ at'.force = force
    /\ at'.then = then

LEMMA AtStarts ==
    ASSUME NEW k \in Keys, NEW routine \in {"release", "keep"}, NEW force \in BOOLEAN,
           NEW then \in {"stale", "decide", "next", "idle"}, at' = Step(k, routine, force, then)
    PROVE  PartStarts(k, routine, force, then)
BY DEF Step, PartStarts, Steps

LEMMA ReleaseStaleEffect ==
    ASSUME StateTypes, StepOK, ReleaseStale
    PROVE  LET k == op.key
               m == managed[k]
           IN  /\ pc = "stale" /\ k \in Keys /\ UNCHANGED <<serviceVars, nextId, worldVars, faults>>
               /\ \/ \E s \in Stale(k) : /\ s \in Keys /\ PartStarts(s, "release", TRUE, "stale")
                                         /\ pc' = "routine" /\ UNCHANGED <<op, result, managed>>
                  \/ /\ Stale(k) = {} /\ State(k) = "none" /\ Goto("assign") /\ UNCHANGED managed
                  \/ /\ State(k) # "none" /\ op.kind = "freeze" /\ Goto("decide")
                     /\ Becomes(k, m.state, "freeze", m.limiter, m.armed, m.retry)
                  \/ /\ State(k) # "none" /\ op.kind = "limiterFreeze" /\ Goto("decide")
                     /\ UNCHANGED managed
                  \/ /\ State(k) # "none" /\ op.kind = "limiterThaw"
                     /\ Becomes(k, m.state, m.app, "thaw", m.armed, m.retry)
                     /\ \/ /\ m.app # "freeze" /\ UNCHANGED <<op, result>> /\ pc' = "routine"
                           /\ PartStarts(k, "keep", FALSE, "idle")
                        \/ m.app = "freeze" /\ Idle("idle")
<1> DEFINE k == op.key
           m == managed[k]
<1>1. /\ k \in Keys /\ pc = "stale" /\ op.kind \in {"freeze", "limiterFreeze", "limiterThaw"}
      /\ UNCHANGED <<serviceVars, nextId, worldVars, faults>>
  BY DEF ReleaseStale, StepOK, BusyLabels, Ops, Freezing
<1>2. CASE \E s \in Stale(k) : /\ at' = Step(s, "release", TRUE, "stale")
                               /\ pc' = "routine" /\ UNCHANGED <<op, result, managed>>
  <2>1. PICK s \in Stale(k) : /\ at' = Step(s, "release", TRUE, "stale")
                              /\ pc' = "routine" /\ UNCHANGED <<op, result, managed>>
    BY <1>2
  <2>2. s \in Keys
    BY DEF Stale, ManagedKeys
  <2>3. PartStarts(s, "release", TRUE, "stale")
    BY <2>1, <2>2, AtStarts
  <2> QED  BY <1>1, <2>1, <2>2, <2>3
<1>3. CASE Stale(k) = {} /\ State(k) = "none" /\ Goto("assign") /\ UNCHANGED managed
  BY <1>1, <1>3
<1>4. CASE /\ State(k) # "none" /\ op.kind # "limiterThaw"
           /\ managed' = IF op.kind = "freeze" THEN [managed EXCEPT ![k].app = "freeze"] ELSE managed
           /\ Goto("decide")
  <2>1. CASE op.kind = "freeze"
    <3>1. Becomes(k, m.state, "freeze", m.limiter, m.armed, m.retry)
      BY <1>1, <1>4, <2>1, EntryChanges DEF Wants
    <3> QED  BY <1>1, <1>4, <2>1, <3>1
  <2>2. CASE op.kind = "limiterFreeze"
    BY <1>1, <1>4, <2>2
  <2> QED  BY <1>1, <1>4, <2>1, <2>2
<1>5. CASE /\ State(k) # "none" /\ op.kind = "limiterThaw"
           /\ managed' = [managed EXCEPT ![k].limiter = "thaw"]
           /\ IF AwakeThaws(m)
              THEN at' = Step(k, "keep", FALSE, "idle") /\ pc' = "routine" /\ UNCHANGED <<op, result>>
              ELSE Idle("idle")
  <2>1. Becomes(k, m.state, m.app, "thaw", m.armed, m.retry)
    BY <1>1, <1>5, EntryChanges DEF Wants
  <2>2. CASE m.app # "freeze"
    <3>1. PartStarts(k, "keep", FALSE, "idle")
      BY <1>1, <1>5, <2>2, AtStarts DEF AwakeThaws
    <3> QED  BY <1>1, <1>5, <2>1, <2>2, <3>1 DEF AwakeThaws
  <2>3. CASE m.app = "freeze"
    BY <1>1, <1>5, <2>1, <2>3 DEF AwakeThaws
  <2> QED  BY <2>2, <2>3
<1> QED  BY <1>2, <1>3, <1>4, <1>5 DEF ReleaseStale

LEMMA NewEntries ==
    ASSUME StateTypes, NEW k \in Keys
    PROVE  /\ managed' = [managed EXCEPT ![k] = [NewEntry EXCEPT !.app = "freeze"]]
                => Becomes(k, "thawed", "freeze", "none", FALSE, FALSE)
           /\ \A w \in {"freeze", "thaw"} : managed' = [managed EXCEPT ![k] = [NewEntry EXCEPT !.limiter = w]]
                => Becomes(k, "thawed", "none", w, FALSE, FALSE)
<1>1. ASSUME managed' = [managed EXCEPT ![k] = [NewEntry EXCEPT !.app = "freeze"]]
      PROVE  Becomes(k, "thawed", "freeze", "none", FALSE, FALSE)
  <2> DEFINE e == [NewEntry EXCEPT !.app = "freeze"]
  <2>1. /\ e \in Entry /\ e.state = "thawed" /\ e.app = "freeze" /\ e.limiter = "none"
        /\ e.armed = FALSE /\ e.retry = FALSE
    BY DEF NewEntry, Entry, States, Wants
  <2>2. managed' = [managed EXCEPT ![k] = e]
    BY <1>1
  <2> HIDE DEF e
  <2> QED  BY <2>1, <2>2, EntryMade
<1>2. ASSUME NEW w \in {"freeze", "thaw"},
             managed' = [managed EXCEPT ![k] = [NewEntry EXCEPT !.limiter = w]]
      PROVE  Becomes(k, "thawed", "none", w, FALSE, FALSE)
  <2> DEFINE e == [NewEntry EXCEPT !.limiter = w]
  <2>1. /\ e \in Entry /\ e.state = "thawed" /\ e.app = "none" /\ e.limiter = w
        /\ e.armed = FALSE /\ e.retry = FALSE
    BY DEF NewEntry, Entry, States, Wants
  <2>2. managed' = [managed EXCEPT ![k] = e]
    BY <1>2
  <2> HIDE DEF e
  <2> QED  BY <2>1, <2>2, EntryMade
<1> QED  BY <1>1, <1>2

LEMMA AssignEffect ==
    ASSUME StateTypes, StepOK, Assign
    PROVE  /\ pc = "assign" /\ op.key \in Keys /\ UNCHANGED <<serviceVars, nextId, worldVars>>
           /\ \/ Idle("idle") /\ UNCHANGED managed /\ (Fault \/ UNCHANGED faults)
              \/ /\ UNCHANGED faults /\ op.kind = "freeze" /\ Goto("decide")
                 /\ Becomes(op.key, "thawed", "freeze", "none", FALSE, FALSE)
              \/ /\ UNCHANGED faults /\ op.kind = "limiterFreeze" /\ Goto("decide")
                 /\ Becomes(op.key, "thawed", "none", "freeze", FALSE, FALSE)
              \/ /\ UNCHANGED faults /\ Idle("idle")
                 /\ Becomes(op.key, "thawed", "none", "thaw", FALSE, FALSE)
<1>1. pc = "assign" /\ op.key \in Keys /\ UNCHANGED <<serviceVars, nextId, worldVars>>
  BY DEF Assign, StepOK, BusyLabels, Ops
<1>2. CASE Idle("idle") /\ UNCHANGED managed /\ (Fault \/ UNCHANGED faults)
  BY <1>1, <1>2
<1>3. CASE /\ UNCHANGED faults /\ op.kind = "freeze" /\ Goto("decide")
           /\ managed' = [managed EXCEPT ![op.key] = [NewEntry EXCEPT !.app = "freeze"]]
  BY <1>1, <1>3, NewEntries
<1>4. CASE /\ UNCHANGED faults /\ op.kind = "limiterFreeze" /\ Goto("decide")
           /\ managed' = [managed EXCEPT ![op.key] = [NewEntry EXCEPT !.limiter = "freeze"]]
  <2>1. Becomes(op.key, "thawed", "none", "freeze", FALSE, FALSE)
    BY <1>1, <1>4, NewEntries
  <2> QED  BY <1>1, <1>4, <2>1
<1>5. CASE /\ UNCHANGED faults /\ Idle("idle")
           /\ managed' = [managed EXCEPT ![op.key] = [NewEntry EXCEPT !.limiter = "thaw"]]
  <2>1. Becomes(op.key, "thawed", "none", "thaw", FALSE, FALSE)
    BY <1>1, <1>5, NewEntries
  <2> QED  BY <1>1, <1>5, <2>1
<1> QED  BY <1>2, <1>3, <1>4, <1>5 DEF Assign

LEMMA RefreezeEffect ==
    ASSUME StateTypes, StepOK, EntryOK, Refreeze
    PROVE  LET k == op.key
               m == managed[k]
           IN  /\ pc = "refreeze" /\ k \in Keys /\ m.armed
               /\ Idle("idle") /\ UNCHANGED <<serviceVars, nextId, life>>
               /\ \/ /\ Fault /\ UNCHANGED frozen
                     /\ Becomes(k, m.state, m.app, m.limiter, m.armed, TRUE)
                  \/ /\ frozen' = [frozen EXCEPT ![k] = TRUE] /\ UNCHANGED faults
                     /\ Becomes(k, "frozen", m.app, m.limiter, m.armed, FALSE)
<1> DEFINE k == op.key
           m == managed[k]
<1>1. /\ pc = "refreeze" /\ k \in Keys /\ m.armed /\ State(k) # "none"
      /\ Idle("idle") /\ UNCHANGED <<serviceVars, nextId, life>>
  BY DEF Refreeze, StepOK, EntryOK, BusyLabels, Ops
<1>2. CASE Fault /\ RetainFailure(k) /\ UNCHANGED frozen
  <2>1. Becomes(k, m.state, m.app, m.limiter, m.armed, TRUE)
    BY <1>1, <1>2, EntryChanges
  <2> QED  BY <1>1, <1>2, <2>1
<1>3. CASE /\ frozen' = [frozen EXCEPT ![k] = TRUE] /\ UNCHANGED faults
           /\ managed' = [managed EXCEPT ![k].state = "frozen", ![k].retry = FALSE]
  <2>1. Becomes(k, "frozen", m.app, m.limiter, m.armed, FALSE)
    BY <1>1, <1>3, EntryChanges
  <2> QED  BY <1>1, <1>3, <2>1
<1> QED  BY <1>2, <1>3 DEF Refreeze

\* Bound: the id that a freeze takes is one of Ids.
LEMMA BeginFreezeEffect ==
    ASSUME StateTypes, StepOK, RoomOK, CallOK, BeginFreeze
    PROVE  /\ pc = "begin" /\ op.key \in Keys /\ UNCHANGED worldVars
           /\ \/ /\ call = NoCall /\ nextId \in Ids
                 /\ Submit(Begin(nextId, op.key, FrozenEdge))
                 /\ at' \in Steps /\ at'.key = op.key /\ at'.routine = "release"
                 /\ at'.then = "idle" /\ at'.id = nextId /\ at'.force
                 /\ nextId' = nextId + 1
                 /\ UNCHANGED <<pc, op, result, managed, faults>>
              \/ Granted /\ Goto("freeze") /\ UNCHANGED stateVars
              \/ /\ Denied \/ (call = NoCall /\ Fault /\ UNCHANGED serviceVars)
                 /\ Dropped(op.key) /\ Idle("idle") /\ UNCHANGED nextId
<1>1. pc = "begin" /\ op.key \in Keys /\ UNCHANGED worldVars /\ Freezing
  BY DEF BeginFreeze, StepOK, BusyLabels, FreezeLabels, Ops
<1>2. CASE /\ Submit(Begin(nextId, op.key, FrozenEdge))
           /\ at' = [Step(op.key, "release", TRUE, "idle") EXCEPT !.id = nextId]
           /\ nextId' = nextId + 1
           /\ UNCHANGED <<pc, op, result, managed, faults>>
  <2>1. call = NoCall
    BY <1>2 DEF Submit
  <2>2. nextId \in Ids
    BY <1>1, <2>1 DEF RoomOK
  <2>3. /\ at' \in Steps /\ at'.key = op.key /\ at'.routine = "release"
        /\ at'.then = "idle" /\ at'.id = nextId /\ at'.force
    BY <1>1, <1>2, <2>2 DEF Step, Steps
  <2> QED  BY <1>1, <1>2, <2>1, <2>2, <2>3
<1>3. CASE Granted /\ Goto("freeze") /\ UNCHANGED stateVars
  BY <1>1, <1>3
<1>4. CASE /\ Denied \/ (call = NoCall /\ Fault /\ UNCHANGED serviceVars)
           /\ Drop(op.key) /\ Idle("idle") /\ UNCHANGED nextId
  BY <1>1, <1>4, EntryDropped
<1> QED  BY <1>2, <1>3, <1>4 DEF BeginFreeze

LEMMA CancelFreezeEffect ==
    ASSUME StateTypes, StepOK, CancelFreeze
    PROVE  /\ pc = "cancel" /\ op.key \in Keys
           /\ \/ Ask(Cancel(at.id))
              \/ /\ Granted \/ Denied
                 /\ Dropped(op.key) /\ Idle("idle") /\ UNCHANGED <<nextId, worldVars>>
<1>1. pc = "cancel" /\ op.key \in Keys
  BY DEF CancelFreeze, StepOK, BusyLabels, FreezeLabels, Ops
<1>2. CASE Ask(Cancel(at.id))
  BY <1>1, <1>2
<1>3. CASE (Granted \/ Denied) /\ Drop(op.key) /\ Idle("idle") /\ UNCHANGED <<nextId, worldVars>>
  BY <1>1, <1>3, EntryDropped
<1> QED  BY <1>2, <1>3 DEF CancelFreeze

LEMMA CommitFreezeEffect ==
    ASSUME StateTypes, StepOK, EntryOK, CommitFreeze
    PROVE  LET k == op.key
               m == managed[k]
           IN  /\ pc = "commit" /\ k \in Keys
               /\ \/ Ask(Commit(at.id))
                  \/ /\ Granted /\ Becomes(k, "frozen", m.app, m.limiter, TRUE, FALSE)
                     /\ Idle("idle") /\ UNCHANGED <<nextId, worldVars>>
                  \/ Denied /\ Goto("compensate") /\ UNCHANGED <<stateVars, worldVars>>
<1> DEFINE k == op.key
           m == managed[k]
<1>1. pc = "commit" /\ k \in Keys /\ State(k) # "none"
  BY DEF CommitFreeze, StepOK, EntryOK, BusyLabels, FreezeLabels, Ops
<1>2. CASE Ask(Commit(at.id))
  BY <1>1, <1>2
<1>3. CASE /\ Granted
           /\ managed' = [managed EXCEPT ![k].state = "frozen", ![k].armed = TRUE, ![k].retry = FALSE]
           /\ Idle("idle") /\ UNCHANGED <<nextId, worldVars>>
  <2>1. Becomes(k, "frozen", m.app, m.limiter, TRUE, FALSE)
    BY <1>1, <1>3, EntryChanges
  <2> QED  BY <1>1, <1>3, <2>1
<1>4. CASE Denied /\ Goto("compensate") /\ UNCHANGED <<stateVars, worldVars>>
  BY <1>1, <1>4
<1> QED  BY <1>2, <1>3, <1>4 DEF CommitFreeze

LEMMA CompensateEffect ==
    ASSUME StateTypes, StepOK, EntryOK, Compensate
    PROVE  LET k == op.key
               m == managed[k]
           IN  /\ pc = "compensate" /\ k \in Keys /\ UNCHANGED <<serviceVars, nextId, life>>
               /\ \/ /\ Fault /\ UNCHANGED frozen /\ Idle("idle")
                     /\ Becomes(k, "compensate", m.app, m.limiter, FALSE, TRUE)
                  \/ /\ frozen' = [frozen EXCEPT ![k] = FALSE] /\ Goto("cleanup") /\ UNCHANGED faults
                     /\ Becomes(k, "cleanupRelease", m.app, m.limiter, m.armed, m.retry)
<1> DEFINE k == op.key
           m == managed[k]
<1>1. /\ pc = "compensate" /\ k \in Keys /\ State(k) # "none" /\ ~m.armed
      /\ UNCHANGED <<serviceVars, nextId, life>>
  BY DEF Compensate, StepOK, EntryOK, BusyLabels, FreezeLabels, Ops
<1>2. CASE /\ Fault /\ UNCHANGED frozen
           /\ managed' = [managed EXCEPT ![k].state = "compensate", ![k].retry = TRUE]
           /\ Idle("idle")
  <2>1. Becomes(k, "compensate", m.app, m.limiter, FALSE, TRUE)
    BY <1>1, <1>2, EntryChanges
  <2> QED  BY <1>1, <1>2, <2>1
<1>3. CASE /\ frozen' = [frozen EXCEPT ![k] = FALSE]
           /\ managed' = [managed EXCEPT ![k].state = "cleanupRelease"]
           /\ Goto("cleanup") /\ UNCHANGED faults
  <2>1. Becomes(k, "cleanupRelease", m.app, m.limiter, m.armed, m.retry)
    BY <1>1, <1>3, EntryChanges
  <2> QED  BY <1>1, <1>3, <2>1
<1> QED  BY <1>2, <1>3 DEF Compensate

\* A call that starts, with its list of keys.
Starts(kind, k, force, todo) ==
    /\ op' \in Ops /\ op'.kind = kind /\ op'.key = k /\ op'.force = force /\ op'.todo = todo

LEMMA OpStarts ==
    ASSUME NEW k \in Keys, NEW force \in BOOLEAN, NEW todo \in SUBSET Keys,
           NEW kind \in {"freeze", "limiterFreeze", "limiterThaw", "one", "release", "reconcile", "shutdown"},
           Start(kind, k, force, todo)
    PROVE  Starts(kind, k, force, todo)
BY DEF Start, Starts, Ops

LEMMA LimiterFreezesEffect ==
    ASSUME StateTypes, NEW k \in Keys, LimiterFreezes(k)
    PROVE  LET m == managed[k]
           IN  /\ pc = "idle" /\ nextId \in Ids /\ pc' = "stale"
               /\ Starts("limiterFreeze", k, FALSE, {})
               /\ UNCHANGED <<serviceVars, at, result, nextId, worldVars, faults>>
               /\ \/ State(k) = "none" /\ UNCHANGED managed
                  \/ State(k) # "none" /\ Becomes(k, m.state, m.app, "freeze", m.armed, m.retry)
<1>1. /\ pc = "idle" /\ nextId \in Ids /\ pc' = "stale"
      /\ UNCHANGED <<serviceVars, at, result, nextId, worldVars, faults>>
      /\ Start("limiterFreeze", k, FALSE, {})
  BY DEF LimiterFreezes, RequestFreeze
<1>2. Starts("limiterFreeze", k, FALSE, {})
  BY <1>1, OpStarts
<1>3. CASE State(k) = "none"
  BY <1>1, <1>2, <1>3 DEF LimiterFreezes
<1>4. CASE State(k) # "none"
  <2>1. managed' = [managed EXCEPT ![k].limiter = "freeze"]
    BY <1>4 DEF LimiterFreezes
  <2>2. Becomes(k, managed[k].state, managed[k].app, "freeze", managed[k].armed, managed[k].retry)
    BY <1>4, <2>1, EntryChanges DEF Wants
  <2> QED  BY <1>1, <1>2, <1>4, <2>2
<1> QED  BY <1>3, <1>4

LEMMA ThawKeepEffect ==
    ASSUME StateTypes, NEW k \in Keys, NEW force \in BOOLEAN, ThawKeep(k, force)
    PROVE  LET m == managed[k]
           IN  /\ pc = "idle" /\ State(k) # "none" /\ pc' = "routine"
               /\ Starts("one", k, force, {}) /\ PartStarts(k, "keep", force, "idle")
               /\ UNCHANGED <<serviceVars, result, nextId, worldVars, faults>>
               /\ Becomes(k, m.state, "thaw", m.limiter, m.armed, m.retry)
<1>1. /\ pc = "idle" /\ State(k) # "none" /\ pc' = "routine"
      /\ managed' = [managed EXCEPT ![k].app = "thaw"]
      /\ Start("one", k, force, {}) /\ at' = Step(k, "keep", force, "idle")
      /\ UNCHANGED <<serviceVars, result, nextId, worldVars, faults>>
  BY DEF ThawKeep
<1>2. Starts("one", k, force, {}) /\ PartStarts(k, "keep", force, "idle")
  BY <1>1, OpStarts, AtStarts
<1>3. Becomes(k, managed[k].state, "thaw", managed[k].limiter, managed[k].armed, managed[k].retry)
  BY <1>1, EntryChanges DEF Wants
<1> QED  BY <1>1, <1>2, <1>3

LEMMA LimiterReleasesEffect ==
    ASSUME StateTypes, NEW k \in Keys, NEW force \in BOOLEAN, LimiterReleases(k, force)
    PROVE  LET m == managed[k]
           IN  /\ pc = "idle" /\ State(k) # "none"
               /\ UNCHANGED <<serviceVars, nextId, worldVars, faults>>
               /\ Becomes(k, m.state, m.app, "none", m.armed, m.retry)
               /\ \/ m.app = "freeze" /\ UNCHANGED callVars
                  \/ /\ m.app # "freeze" /\ Starts("one", k, force, {})
                     /\ pc' = "routine" /\ UNCHANGED result
                     /\ \E routine \in {"keep", "release"} : PartStarts(k, routine, force, "idle")
<1> DEFINE m == managed[k]
<1>1. /\ pc = "idle" /\ State(k) # "none" /\ managed' = [managed EXCEPT ![k].limiter = "none"]
      /\ UNCHANGED <<serviceVars, nextId, worldVars, faults>>
  BY DEF LimiterReleases
<1>2. Becomes(k, m.state, m.app, "none", m.armed, m.retry)
  BY <1>1, EntryChanges DEF Wants
<1>3. CASE m.app = "freeze" /\ UNCHANGED callVars
  BY <1>1, <1>2, <1>3
<1>4. CASE /\ m.app # "freeze"
           /\ Start("one", k, force, {}) /\ pc' = "routine" /\ UNCHANGED result
           /\ at' = Step(k, IF m.app = "thaw" THEN "keep" ELSE "release", force, "idle")
  <2>1. Starts("one", k, force, {})
    BY <1>4, OpStarts
  <2>2. CASE m.app = "thaw"
    <3>1. PartStarts(k, "keep", force, "idle")
      BY <1>4, <2>2, AtStarts
    <3> QED  BY <1>1, <1>2, <1>4, <2>1, <3>1
  <2>3. CASE m.app # "thaw"
    <3>1. PartStarts(k, "release", force, "idle")
      BY <1>4, <2>3, AtStarts
    <3> QED  BY <1>1, <1>2, <1>4, <2>1, <3>1
  <2> QED  BY <2>2, <2>3
<1> QED  BY <1>3, <1>4 DEF LimiterReleases

LEMMA NextKeyEffect ==
    ASSUME StateTypes, StepOK, NextKey
    PROVE  /\ pc = "next" /\ UNCHANGED <<serviceVars, result, nextId, worldVars, faults>>
           /\ \E k \in op.todo :
                /\ k \in Keys
                /\ op' \in Ops /\ op'.kind = op.kind /\ op'.key = op.key /\ op'.force = op.force
                /\ op'.todo = op.todo \ {k}
                /\ \/ /\ op.kind = "release" /\ State(k) # "none" /\ managed[k].limiter # "none"
                      /\ PartStarts(k, "keep", op.force, "next") /\ pc' = "routine"
                      /\ Becomes(k, managed[k].state, "none", managed[k].limiter,
                                 managed[k].armed, managed[k].retry)
                   \/ /\ op.kind = "release" => State(k) = "none" \/ managed[k].limiter = "none"
                      /\ PartStarts(k, "release", op.force, "next") /\ UNCHANGED managed
                      /\ pc' = IF op.kind = "reconcile" /\ State(k) \in {"cleanup", "cleanupRelease"}
                               THEN "cleanup" ELSE "routine"
<1>1. pc = "next" /\ op \in Ops /\ UNCHANGED <<serviceVars, result, nextId, worldVars, faults>>
  BY DEF NextKey, StepOK, BusyLabels
<1>2. PICK k \in op.todo :
        LET handed == op.kind = "release" /\ State(k) # "none" /\ managed[k].limiter # "none"
            clean  == op.kind = "reconcile" /\ State(k) \in {"cleanup", "cleanupRelease"}
        IN  /\ op' = [op EXCEPT !.todo = @ \ {k}]
            /\ at' = Step(k, IF handed THEN "keep" ELSE "release", op.force, "next")
            /\ pc' = IF clean THEN "cleanup" ELSE "routine"
            /\ managed' = IF handed THEN [managed EXCEPT ![k].app = "none"] ELSE managed
  BY DEF NextKey
<1>3. /\ k \in Keys /\ op.force \in BOOLEAN
      /\ op' \in Ops /\ op'.kind = op.kind /\ op'.key = op.key /\ op'.force = op.force
      /\ op'.todo = op.todo \ {k}
  BY <1>1, <1>2 DEF Ops
<1>4. CASE op.kind = "release" /\ State(k) # "none" /\ managed[k].limiter # "none"
  <2>1. managed' = [managed EXCEPT ![k].app = "none"] /\ pc' = "routine"
        /\ at' = Step(k, "keep", op.force, "next")
    BY <1>2, <1>4
  <2>2. Becomes(k, managed[k].state, "none", managed[k].limiter, managed[k].armed, managed[k].retry)
    BY <1>3, <1>4, <2>1, EntryChanges DEF Wants
  <2>3. PartStarts(k, "keep", op.force, "next")
    BY <1>3, <2>1, AtStarts
  <2> QED  BY <1>1, <1>3, <1>4, <2>1, <2>2, <2>3
<1>5. CASE ~(op.kind = "release" /\ State(k) # "none" /\ managed[k].limiter # "none")
  <2>1. /\ UNCHANGED managed /\ at' = Step(k, "release", op.force, "next")
        /\ pc' = IF op.kind = "reconcile" /\ State(k) \in {"cleanup", "cleanupRelease"}
                 THEN "cleanup" ELSE "routine"
    BY <1>2, <1>5
  <2>2. PartStarts(k, "release", op.force, "next")
    BY <1>3, <2>1, AtStarts
  <2> QED  BY <1>1, <1>3, <1>5, <2>1, <2>2
<1> QED  BY <1>4, <1>5

LEMMA FrozenEdgeType == FrozenEdge \in Edge
BY ValuesAssumption DEF FrozenEdge, Edge

--------------------------------------------------------------------------------
(***************************************************************************)
(* The actions that leave the entries alone.                               *)
(***************************************************************************)
LEMMA DecideFreezeEffect ==
    ASSUME StepOK, DecideFreeze
    PROVE  LET k == op.key
           IN  /\ pc = "decide" /\ k \in Keys /\ UNCHANGED <<serviceVars, stateVars, worldVars, faults>>
               /\ \/ State(k) \in {"none", "frozen"} /\ Idle("idle")
                  \/ /\ State(k) = "compensate" /\ PartStarts(k, "release", FALSE, "decide")
                     /\ pc' = "routine" /\ UNCHANGED <<op, result>>
                  \/ /\ State(k) \in {"cleanup", "cleanupRelease"}
                     /\ PartStarts(k, "release", FALSE, "decide")
                     /\ pc' = "cleanup" /\ UNCHANGED <<op, result>>
                  \/ State(k) \notin {"none", "frozen", "compensate", "cleanup", "cleanupRelease"}
                     /\ managed[k].retry /\ Idle("idle")
                  \/ State(k) \notin {"none", "frozen", "compensate", "cleanup", "cleanupRelease"}
                     /\ managed[k].armed /\ Goto("refreeze")
                  \/ State(k) \notin {"none", "frozen", "compensate", "cleanup", "cleanupRelease"}
                     /\ ~managed[k].armed /\ Goto("begin")
<1> DEFINE k == op.key
<1>1. pc = "decide" /\ k \in Keys /\ UNCHANGED <<serviceVars, stateVars, worldVars, faults>>
  BY DEF DecideFreeze, StepOK, BusyLabels, Ops
<1>2. CASE State(k) \in {"none", "frozen"} /\ Idle("idle")
  BY <1>1, <1>2
<1>3. CASE /\ Settle(k)
           /\ at' = Step(k, "release", FALSE, "decide")
           /\ pc' = IF State(k) = "compensate" THEN "routine" ELSE "cleanup"
           /\ UNCHANGED <<op, result>>
  <2>1. PartStarts(k, "release", FALSE, "decide")
    BY <1>1, <1>3, AtStarts
  <2> QED  BY <1>1, <1>3, <2>1 DEF Settle
<1>4. CASE /\ State(k) \notin {"none", "frozen"} /\ ~Settle(k) /\ managed[k].armed
           /\ \/ NotDue(k, FALSE) /\ Idle("idle")
              \/ Goto("refreeze")
  BY <1>1, <1>4 DEF Settle, NotDue
<1>5. CASE State(k) \notin {"none", "frozen"} /\ ~Settle(k) /\ ~managed[k].armed /\ Goto("begin")
  BY <1>1, <1>5 DEF Settle
<1> QED  BY <1>2, <1>3, <1>4, <1>5 DEF DecideFreeze

\* A freeze, and the awake phase, ask for the entry of their process first.
Asks(kind) ==
    /\ pc = "idle" /\ pc' = "stale"
    /\ op' \in Ops /\ op'.kind = kind /\ op'.todo = {}
    /\ UNCHANGED <<serviceVars, at, result, stateVars, worldVars, faults>>

LEMMA FreezeProcessEffect ==
    ASSUME NEW k \in Keys, FreezeProcess(k) PROVE Asks("freeze") /\ nextId \in Ids
<1>1. Start("freeze", k, FALSE, {})
  BY DEF FreezeProcess, RequestFreeze
<1>2. Starts("freeze", k, FALSE, {})
  BY <1>1, OpStarts
<1> QED  BY <1>2 DEF FreezeProcess, RequestFreeze, Asks, Starts, stateVars

LEMMA LimiterThawsEffect ==
    ASSUME NEW k \in Keys, LimiterThaws(k) PROVE Asks("limiterThaw")
<1>1. Start("limiterThaw", k, FALSE, {})
  BY DEF LimiterThaws
<1>2. Starts("limiterThaw", k, FALSE, {})
  BY <1>1, OpStarts
<1> QED  BY <1>2 DEF LimiterThaws, Asks, Starts

\* A loop over keys starts.
Lists(kind, todo) ==
    /\ pc = "idle" /\ pc' = "next"
    /\ op' \in Ops /\ op'.kind = kind /\ op'.todo = todo
    /\ kind = "shutdown" => op'.force
    /\ UNCHANGED <<serviceVars, at, result, stateVars, worldVars, faults>>

LEMMA ReleaseProcessEffect ==
    ASSUME NEW k \in Keys, NEW force \in BOOLEAN, ReleaseProcess(k, force)
    PROVE  Lists("release", {j \in ManagedKeys : Pid[j] = Pid[k]})
<1> DEFINE todo == {j \in ManagedKeys : Pid[j] = Pid[k]}
<1>1. StartLoop("release", k, force, todo) /\ todo \in SUBSET Keys
  BY DEF ReleaseProcess, ManagedKeys
<1> HIDE DEF todo
<1>2. Starts("release", k, force, todo)
  BY <1>1, OpStarts DEF StartLoop
<1> QED  BY <1>1, <1>2 DEF StartLoop, Lists, Starts, todo

LEMMA ReconcilePendingEffect ==
    ASSUME ReconcilePending PROVE Lists("reconcile", Pending)
<1>1. PICK k \in Keys : StartLoop("reconcile", k, FALSE, Pending)
  BY DEF ReconcilePending
<1>2. Pending \in SUBSET Keys
  BY DEF Pending
<1>3. Starts("reconcile", k, FALSE, Pending)
  BY <1>1, <1>2, OpStarts DEF StartLoop
<1> QED  BY <1>1, <1>3 DEF StartLoop, Lists, Starts

LEMMA ShutdownEffect ==
    ASSUME Shutdown PROVE Lists("shutdown", ManagedKeys)
<1>1. PICK k \in Keys : Start("shutdown", k, TRUE, ManagedKeys)
  BY DEF Shutdown
<1>2. ManagedKeys \in SUBSET Keys
  BY DEF ManagedKeys
<1>3. Starts("shutdown", k, TRUE, ManagedKeys)
  BY <1>1, <1>2, OpStarts
<1> QED  BY <1>3 DEF Shutdown, Lists, Starts

--------------------------------------------------------------------------------
(***************************************************************************)
(* The steps preserve the inductive invariant, part by part.               *)
(***************************************************************************)
LEMMA Parts ==
    IInv => /\ ServiceTypeOK /\ ControlTypes /\ StateTypes /\ WorldTypes /\ BoundTypes
            /\ ServiceInv /\ StepOK /\ RoomOK /\ EntryOK /\ TurnOK /\ WishOK /\ WantedOK
            /\ OwnersOK /\ FrozenOK /\ CallOK /\ LedgerOK /\ RecordOK /\ ClearOK /\ ShutdownThaws
BY TypeParts DEF IInv

\* What op and at are at a label.
LEMMA Places ==
    ASSUME StepOK
    PROVE  /\ pc \in BusyLabels =>
                 /\ op \in Ops
                 /\ op.key \in Keys /\ op.todo \subseteq Keys
                 /\ op.force \in BOOLEAN
                 /\ op.kind \in {"freeze", "limiterFreeze", "limiterThaw", "one", "release",
                                 "reconcile", "shutdown"}
           /\ pc \in PartLabels =>
                 /\ at \in Steps /\ at.key \in Keys /\ at.force \in BOOLEAN
                 /\ at.routine \in {"release", "keep"}
                 /\ at.then \in {"stale", "decide", "next", "idle"}
BY DEF StepOK, Ops, Steps

\* The steps, one action each.
LEMMA EachStep ==
    Next => \/ Release
            \/ Keep
            \/ Thaw
            \/ FinishCleanup
            \/ ReleaseStale
            \/ Assign
            \/ DecideFreeze
            \/ Refreeze
            \/ BeginFreeze
            \/ Freeze
            \/ CancelFreeze
            \/ CommitFreeze
            \/ Compensate
            \/ NextKey
            \/ LoopDone
            \/ (\E k \in Keys : FreezeProcess(k))
            \/ (\E k \in Keys : LimiterFreezes(k))
            \/ (\E k \in Keys : LimiterThaws(k))
            \/ (\E k \in Keys, force \in BOOLEAN : ThawKeep(k, force))
            \/ (\E k \in Keys, force \in BOOLEAN : LimiterReleases(k, force))
            \/ (\E k \in Keys, force \in BOOLEAN : ReleaseProcess(k, force))
            \/ ReconcilePending
            \/ Shutdown
            \/ (\E k \in Keys : ProcessExits(k))
            \/ (\E k \in Keys : ProcessStarts(k))
            \/ (\E k \in Keys : Replay(k))
            \/ Crash
            \/ OtherLatches
            \/ ServiceStep
BY DEF Next, EntryPoint, Controller, Environment

\* Whatever happens, the recovery service moves as RecoveryService says.
LEMMA ServiceMoves == IInv /\ [Next]_suspensionVars => [ServiceNext]_serviceVars
<1> SUFFICES ASSUME IInv, [Next]_suspensionVars PROVE [ServiceNext]_serviceVars
  OBVIOUS
<1>0. StateTypes /\ StepOK /\ EntryOK /\ RoomOK /\ CallOK
  BY Parts
<1> USE CommandTypes, FrozenEdgeType DEF ServiceNext
<1>1. CASE FinishCleanup
  <2>1. at.key \in Keys
    BY <1>1, <1>0, Places DEF FinishCleanup, PartLabels
  <2> QED  BY <1>1, <2>1 DEF FinishCleanup, Granted, Denied, Ask, serviceVars
<1>2. CASE BeginFreeze
  <2>1. pc = "begin" /\ op.key \in Keys
    BY <1>2, <1>0, Places DEF BeginFreeze, FreezeLabels, BusyLabels
  <2>2. Submit(Begin(nextId, op.key, FrozenEdge)) => nextId \in Ids
    BY <2>1, <1>0 DEF Submit, RoomOK, StepOK, FreezeLabels
  <2> QED  BY <1>2, <2>1, <2>2 DEF BeginFreeze, Granted, Denied, Submit, serviceVars
<1>3. CASE CancelFreeze
  <2>1. at.id \in Ids
    BY <1>3, <1>0 DEF CancelFreeze, StepOK, IntentLabels
  <2> QED  BY <1>3, <2>1 DEF CancelFreeze, Granted, Denied, Ask, serviceVars
<1>4. CASE CommitFreeze
  <2>1. at.id \in Ids
    BY <1>4, <1>0 DEF CommitFreeze, StepOK, IntentLabels
  <2> QED  BY <1>4, <2>1 DEF CommitFreeze, Granted, Denied, Ask, serviceVars
<1>5. CASE Crash \/ OtherLatches \/ ServiceStep
  BY <1>5 DEF Crash, OtherLatches, ServiceStep, ServiceActs
<1>6. CASE \/ Release \/ Keep \/ Thaw \/ ReleaseStale \/ Assign \/ DecideFreeze \/ Refreeze
           \/ Freeze \/ Compensate \/ NextKey \/ LoopDone
  BY <1>6 DEF Release, Keep, Thaw, ReleaseStale, Assign, DecideFreeze, Refreeze, Freeze,
     Compensate, NextKey, LoopDone
<1>7. CASE \/ EntryPoint \/ (\E k \in Keys : ProcessExits(k) \/ ProcessStarts(k) \/ Replay(k))
           \/ UNCHANGED suspensionVars
  BY <1>7 DEF EntryPoint, FreezeProcess, LimiterFreezes, RequestFreeze, LimiterThaws, ThawKeep,
     LimiterReleases, ReleaseProcess, ReconcilePending, StartLoop, Shutdown, ProcessExits,
     ProcessStarts, Replay, suspensionVars
<1> QED
  BY <1>1, <1>2, <1>3, <1>4, <1>5, <1>6, <1>7 DEF Next, Controller, Environment

\* Entries and ids keep their types.
LEMMA StateStep ==
    IInv /\ [Next]_suspensionVars => StateTypes'
<1> SUFFICES ASSUME IInv, [Next]_suspensionVars PROVE StateTypes'
  OBVIOUS
<1>0. /\ ServiceTypeOK /\ ControlTypes /\ StateTypes /\ WorldTypes /\ BoundTypes
      /\ ServiceInv /\ StepOK /\ RoomOK /\ EntryOK /\ TurnOK /\ WishOK /\ WantedOK
      /\ OwnersOK /\ FrozenOK /\ CallOK /\ LedgerOK /\ RecordOK /\ ClearOK /\ ShutdownThaws
  BY Parts
<1>1. CASE Release
  BY <1>1, <1>0, Places, ReleaseEffect DEF StateTypes, Becomes, Dropped, stateVars, Ask
<1>2. CASE Keep
  BY <1>2, <1>0, Places, KeepEffect DEF StateTypes, Becomes, Dropped, stateVars, Ask
<1>3. CASE Thaw
  BY <1>3, <1>0, Places, ThawEffect DEF StateTypes, Becomes, Dropped, stateVars, Ask
<1>4. CASE FinishCleanup
  BY <1>4, <1>0, Places, FinishCleanupEffect DEF StateTypes, Becomes, Dropped, stateVars, Ask
<1>5. CASE ReleaseStale
  BY <1>5, <1>0, Places, ReleaseStaleEffect DEF StateTypes, Becomes, Dropped, stateVars, Ask
<1>6. CASE Assign
  BY <1>6, <1>0, Places, AssignEffect DEF StateTypes, Becomes, Dropped, stateVars, Ask
<1>7. CASE DecideFreeze
  BY <1>7, <1>0, Places, DecideFreezeEffect DEF StateTypes, stateVars
<1>8. CASE Refreeze
  BY <1>8, <1>0, Places, RefreezeEffect DEF StateTypes, Becomes, Dropped, stateVars, Ask
<1>9. CASE BeginFreeze
  BY <1>9, <1>0, Places, BeginFreezeEffect DEF StateTypes, Becomes, Dropped, stateVars, Ask
<1>10. CASE Freeze
  BY <1>10, <1>0, Places DEF StateTypes, Freeze, stateVars
<1>11. CASE CancelFreeze
  BY <1>11, <1>0, Places, CancelFreezeEffect DEF StateTypes, Becomes, Dropped, stateVars, Ask
<1>12. CASE CommitFreeze
  BY <1>12, <1>0, Places, CommitFreezeEffect DEF StateTypes, Becomes, Dropped, stateVars, Ask
<1>13. CASE Compensate
  BY <1>13, <1>0, Places, CompensateEffect DEF StateTypes, Becomes, Dropped, stateVars, Ask
<1>14. CASE NextKey
  BY <1>14, <1>0, Places, NextKeyEffect DEF StateTypes, Becomes, Dropped, stateVars, Ask
<1>15. CASE LoopDone
  BY <1>15, <1>0, Places DEF StateTypes, LoopDone, stateVars
<1>16. CASE \E k \in Keys : FreezeProcess(k)
  BY <1>16, <1>0, Places, FreezeProcessEffect DEF StateTypes, Asks, stateVars
<1>17. CASE \E k \in Keys : LimiterFreezes(k)
  BY <1>17, <1>0, Places, LimiterFreezesEffect DEF StateTypes, Starts, Becomes, Dropped,
     stateVars, Ask
<1>18. CASE \E k \in Keys : LimiterThaws(k)
  BY <1>18, <1>0, Places, LimiterThawsEffect DEF StateTypes, Asks, stateVars
<1>19. CASE \E k \in Keys, force \in BOOLEAN : ThawKeep(k, force)
  BY <1>19, <1>0, Places, ThawKeepEffect DEF StateTypes, Starts, PartStarts, Becomes, Dropped,
     stateVars, Ask
<1>20. CASE \E k \in Keys, force \in BOOLEAN : LimiterReleases(k, force)
  BY <1>20, <1>0, Places, LimiterReleasesEffect DEF StateTypes, Starts, PartStarts, Becomes,
     Dropped, stateVars, Ask
<1>21. CASE \E k \in Keys, force \in BOOLEAN : ReleaseProcess(k, force)
  BY <1>21, <1>0, Places, ReleaseProcessEffect DEF StateTypes, Lists, stateVars
<1>22. CASE ReconcilePending
  BY <1>22, <1>0, Places, ReconcilePendingEffect DEF StateTypes, Lists, stateVars
<1>23. CASE Shutdown
  BY <1>23, <1>0, Places, ShutdownEffect DEF StateTypes, Lists, stateVars
<1>24. CASE \E k \in Keys : ProcessExits(k)
  BY <1>24, <1>0, Places DEF StateTypes, ProcessExits, stateVars
<1>25. CASE \E k \in Keys : ProcessStarts(k)
  BY <1>25, <1>0, Places DEF StateTypes, ProcessStarts, stateVars
<1>26. CASE \E k \in Keys : Replay(k)
  BY <1>26, <1>0, Places DEF StateTypes, Replay, stateVars
<1>27. CASE Crash
  BY <1>27, <1>0, Places DEF StateTypes, Crash, stateVars
<1>28. CASE OtherLatches
  BY <1>28, <1>0, Places DEF StateTypes, OtherLatches, stateVars
<1>29. CASE ServiceStep
  BY <1>29, <1>0, Places DEF StateTypes, ServiceStep, stateVars
<1>30. CASE UNCHANGED suspensionVars
  BY <1>30, <1>0, Places DEF StateTypes, suspensionVars, serviceVars, callVars, stateVars,
     worldVars
<1> QED  BY <1>1, <1>2, <1>3, <1>4, <1>5, <1>6, <1>7, <1>8, <1>9, <1>10, <1>11, <1>12, <1>13, <1>14,
   <1>15, <1>16, <1>17, <1>18, <1>19, <1>20, <1>21, <1>22, <1>23, <1>24, <1>25, <1>26, <1>27,
   <1>28, <1>29, <1>30, EachStep

\* A step uses up at most one failure.
LEMMA BoundStep == IInv /\ [Next]_suspensionVars => BoundTypes'
<1> SUFFICES ASSUME IInv, [Next]_suspensionVars PROVE BoundTypes'
  OBVIOUS
<1>1. Fault \/ UNCHANGED faults
  <2>1. CASE \/ Release \/ Keep \/ Thaw \/ FinishCleanup \/ ReleaseStale \/ Assign \/ DecideFreeze
    BY <2>1 DEF Release, Keep, Thaw, FinishCleanup, ReleaseStale, Assign, DecideFreeze, Granted,
       Denied, Ask
  <2>2. CASE \/ Refreeze \/ BeginFreeze \/ Freeze \/ CancelFreeze \/ CommitFreeze \/ Compensate
             \/ NextKey \/ LoopDone
    BY <2>2 DEF Refreeze, BeginFreeze, Freeze, CancelFreeze, CommitFreeze, Compensate, NextKey,
       LoopDone, Granted, Denied, Ask
  <2>3. CASE EntryPoint \/ Environment \/ UNCHANGED suspensionVars
    BY <2>3 DEF EntryPoint, FreezeProcess, LimiterFreezes, RequestFreeze, LimiterThaws, ThawKeep,
       LimiterReleases, ReleaseProcess, ReconcilePending, StartLoop, Shutdown, Environment,
       ProcessExits, ProcessStarts, Replay, Crash, OtherLatches, ServiceStep, ServiceActs,
       suspensionVars
  <2> QED  BY <2>1, <2>2, <2>3 DEF Next, Controller
<1>2. BoundTypes
  BY Parts
<1> QED  BY <1>1, <1>2, FaultsAssumption DEF BoundTypes, Fault

\* Jobs and lives keep their types.
LEMMA WorldStep ==
    IInv /\ [Next]_suspensionVars => WorldTypes'
<1> SUFFICES ASSUME IInv, [Next]_suspensionVars PROVE WorldTypes'
  OBVIOUS
<1>0. /\ ServiceTypeOK /\ ControlTypes /\ StateTypes /\ WorldTypes /\ BoundTypes
      /\ ServiceInv /\ StepOK /\ RoomOK /\ EntryOK /\ TurnOK /\ WishOK /\ WantedOK
      /\ OwnersOK /\ FrozenOK /\ CallOK /\ LedgerOK /\ RecordOK /\ ClearOK /\ ShutdownThaws
  BY Parts
<1>1. CASE Release
  BY <1>1, <1>0, Places, ReleaseEffect DEF WorldTypes, worldVars
<1>2. CASE Keep
  BY <1>2, <1>0, Places, KeepEffect DEF WorldTypes, worldVars
<1>3. CASE Thaw
  BY <1>3, <1>0, Places, ThawEffect DEF WorldTypes, worldVars
<1>4. CASE FinishCleanup
  BY <1>4, <1>0, Places, FinishCleanupEffect DEF WorldTypes, worldVars, Ask
<1>5. CASE ReleaseStale
  BY <1>5, <1>0, Places, ReleaseStaleEffect DEF WorldTypes, worldVars
<1>6. CASE Assign
  BY <1>6, <1>0, Places, AssignEffect DEF WorldTypes, worldVars
<1>7. CASE DecideFreeze
  BY <1>7, <1>0, Places, DecideFreezeEffect DEF WorldTypes, worldVars
<1>8. CASE Refreeze
  BY <1>8, <1>0, Places, RefreezeEffect DEF WorldTypes, worldVars
<1>9. CASE BeginFreeze
  BY <1>9, <1>0, Places, BeginFreezeEffect DEF WorldTypes, worldVars
<1>10. CASE Freeze
  BY <1>10, <1>0, Places DEF WorldTypes, worldVars, Freeze
<1>11. CASE CancelFreeze
  BY <1>11, <1>0, Places, CancelFreezeEffect DEF WorldTypes, worldVars, Ask
<1>12. CASE CommitFreeze
  BY <1>12, <1>0, Places, CommitFreezeEffect DEF WorldTypes, worldVars, Ask
<1>13. CASE Compensate
  BY <1>13, <1>0, Places, CompensateEffect DEF WorldTypes, worldVars
<1>14. CASE NextKey
  BY <1>14, <1>0, Places, NextKeyEffect DEF WorldTypes, worldVars
<1>15. CASE LoopDone
  BY <1>15, <1>0, Places DEF WorldTypes, worldVars, LoopDone
<1>16. CASE \E k \in Keys : FreezeProcess(k)
  BY <1>16, <1>0, Places, FreezeProcessEffect DEF WorldTypes, worldVars, Asks
<1>17. CASE \E k \in Keys : LimiterFreezes(k)
  BY <1>17, <1>0, Places, LimiterFreezesEffect DEF WorldTypes, worldVars, Starts
<1>18. CASE \E k \in Keys : LimiterThaws(k)
  BY <1>18, <1>0, Places, LimiterThawsEffect DEF WorldTypes, worldVars, Asks
<1>19. CASE \E k \in Keys, force \in BOOLEAN : ThawKeep(k, force)
  BY <1>19, <1>0, Places, ThawKeepEffect DEF WorldTypes, worldVars, Starts, PartStarts
<1>20. CASE \E k \in Keys, force \in BOOLEAN : LimiterReleases(k, force)
  BY <1>20, <1>0, Places, LimiterReleasesEffect DEF WorldTypes, worldVars, Starts, PartStarts
<1>21. CASE \E k \in Keys, force \in BOOLEAN : ReleaseProcess(k, force)
  BY <1>21, <1>0, Places, ReleaseProcessEffect DEF WorldTypes, worldVars, Lists
<1>22. CASE ReconcilePending
  BY <1>22, <1>0, Places, ReconcilePendingEffect DEF WorldTypes, worldVars, Lists
<1>23. CASE Shutdown
  BY <1>23, <1>0, Places, ShutdownEffect DEF WorldTypes, worldVars, Lists
<1>24. CASE \E k \in Keys : ProcessExits(k)
  BY <1>24, <1>0, Places DEF WorldTypes, worldVars, ProcessExits
<1>25. CASE \E k \in Keys : ProcessStarts(k)
  BY <1>25, <1>0, Places DEF WorldTypes, worldVars, ProcessStarts
<1>26. CASE \E k \in Keys : Replay(k)
  BY <1>26, <1>0, Places DEF WorldTypes, worldVars, Replay
<1>27. CASE Crash
  BY <1>27, <1>0, Places DEF WorldTypes, worldVars, Crash
<1>28. CASE OtherLatches
  BY <1>28, <1>0, Places DEF WorldTypes, worldVars, OtherLatches
<1>29. CASE ServiceStep
  BY <1>29, <1>0, Places DEF WorldTypes, worldVars, ServiceStep
<1>30. CASE UNCHANGED suspensionVars
  BY <1>30, <1>0, Places DEF WorldTypes, worldVars, suspensionVars, serviceVars, callVars,
     stateVars
<1> QED  BY <1>1, <1>2, <1>3, <1>4, <1>5, <1>6, <1>7, <1>8, <1>9, <1>10, <1>11, <1>12, <1>13, <1>14,
   <1>15, <1>16, <1>17, <1>18, <1>19, <1>20, <1>21, <1>22, <1>23, <1>24, <1>25, <1>26, <1>27,
   <1>28, <1>29, <1>30, EachStep

\* Labels, calls and their parts keep their types.
LEMMA ControlStep ==
    IInv /\ [Next]_suspensionVars => ControlTypes'
<1> SUFFICES ASSUME IInv, [Next]_suspensionVars PROVE ControlTypes'
  OBVIOUS
<1>0. /\ ServiceTypeOK /\ ControlTypes /\ StateTypes /\ WorldTypes /\ BoundTypes
      /\ ServiceInv /\ StepOK /\ RoomOK /\ EntryOK /\ TurnOK /\ WishOK /\ WantedOK
      /\ OwnersOK /\ FrozenOK /\ CallOK /\ LedgerOK /\ RecordOK /\ ClearOK /\ ShutdownThaws
  BY Parts
<1>1. CASE Release
  BY <1>1, <1>0, Places, ReleaseEffect DEF ControlTypes, PartLabels, BusyLabels, FreezeLabels,
     Done, Idle, Goto, Ask, Retained, SamePart, PartStarts, callVars, worldVars, stateVars
<1>2. CASE Keep
  BY <1>2, <1>0, Places, KeepEffect DEF ControlTypes, PartLabels, BusyLabels, FreezeLabels,
     Done, Idle, Goto, Ask, Retained, SamePart, PartStarts, callVars, worldVars, stateVars
<1>3. CASE Thaw
  BY <1>3, <1>0, Places, ThawEffect DEF ControlTypes, PartLabels, BusyLabels, FreezeLabels,
     Done, Idle, Goto, Ask, Retained, SamePart, PartStarts, callVars, worldVars, stateVars
<1>4. CASE FinishCleanup
  BY <1>4, <1>0, Places, FinishCleanupEffect DEF ControlTypes, PartLabels, BusyLabels,
     FreezeLabels, Done, Idle, Goto, Ask, Retained, SamePart, PartStarts, callVars, worldVars,
     stateVars
<1>5. CASE ReleaseStale
  BY <1>5, <1>0, Places, ReleaseStaleEffect DEF ControlTypes, PartLabels, BusyLabels,
     FreezeLabels, Done, Idle, Goto, Ask, Retained, SamePart, PartStarts, callVars, worldVars,
     stateVars
<1>6. CASE Assign
  BY <1>6, <1>0, Places, AssignEffect DEF ControlTypes, PartLabels, BusyLabels, FreezeLabels,
     Done, Idle, Goto, Ask, Retained, SamePart, PartStarts, callVars, worldVars, stateVars
<1>7. CASE DecideFreeze
  BY <1>7, <1>0, Places, DecideFreezeEffect DEF ControlTypes, PartLabels, BusyLabels,
     FreezeLabels, Done, Idle, Goto, Ask, Retained, SamePart, PartStarts, callVars, worldVars,
     stateVars
<1>8. CASE Refreeze
  BY <1>8, <1>0, Places, RefreezeEffect DEF ControlTypes, PartLabels, BusyLabels, FreezeLabels,
     Done, Idle, Goto, Ask, Retained, SamePart, PartStarts, callVars, worldVars, stateVars
<1>9. CASE BeginFreeze
  BY <1>9, <1>0, Places, BeginFreezeEffect DEF ControlTypes, PartLabels, BusyLabels,
     FreezeLabels, Done, Idle, Goto, Ask, Retained, SamePart, PartStarts, callVars, worldVars,
     stateVars
<1>10. CASE Freeze
  BY <1>10, <1>0, Places DEF ControlTypes, PartLabels, BusyLabels, FreezeLabels, Freeze, Done,
     Idle, Goto, Ask, Retained, SamePart, PartStarts, callVars, worldVars, stateVars
<1>11. CASE CancelFreeze
  BY <1>11, <1>0, Places, CancelFreezeEffect DEF ControlTypes, PartLabels, BusyLabels,
     FreezeLabels, Done, Idle, Goto, Ask, Retained, SamePart, PartStarts, callVars, worldVars,
     stateVars
<1>12. CASE CommitFreeze
  BY <1>12, <1>0, Places, CommitFreezeEffect DEF ControlTypes, PartLabels, BusyLabels,
     FreezeLabels, Done, Idle, Goto, Ask, Retained, SamePart, PartStarts, callVars, worldVars,
     stateVars
<1>13. CASE Compensate
  BY <1>13, <1>0, Places, CompensateEffect DEF ControlTypes, PartLabels, BusyLabels,
     FreezeLabels, Done, Idle, Goto, Ask, Retained, SamePart, PartStarts, callVars, worldVars,
     stateVars
<1>14. CASE NextKey
  BY <1>14, <1>0, Places, NextKeyEffect DEF ControlTypes, PartLabels, BusyLabels, FreezeLabels,
     Done, Idle, Goto, Ask, Retained, SamePart, PartStarts, callVars, worldVars, stateVars
<1>15. CASE LoopDone
  BY <1>15, <1>0, Places DEF ControlTypes, PartLabels, BusyLabels, FreezeLabels, LoopDone, Done,
     Idle, Goto, Ask, Retained, SamePart, PartStarts, callVars, worldVars, stateVars
<1>16. CASE \E k \in Keys : FreezeProcess(k)
  BY <1>16, <1>0, Places, FreezeProcessEffect DEF ControlTypes, PartLabels, BusyLabels,
     FreezeLabels, Asks, Done, Idle, Goto, Ask, Retained, SamePart, PartStarts, callVars,
     worldVars, stateVars
<1>17. CASE \E k \in Keys : LimiterFreezes(k)
  BY <1>17, <1>0, Places, LimiterFreezesEffect DEF ControlTypes, PartLabels, BusyLabels,
     FreezeLabels, Starts, Done, Idle, Goto, Ask, Retained, SamePart, PartStarts, callVars,
     worldVars, stateVars
<1>18. CASE \E k \in Keys : LimiterThaws(k)
  BY <1>18, <1>0, Places, LimiterThawsEffect DEF ControlTypes, PartLabels, BusyLabels,
     FreezeLabels, Asks, Done, Idle, Goto, Ask, Retained, SamePart, PartStarts, callVars,
     worldVars, stateVars
<1>19. CASE \E k \in Keys, force \in BOOLEAN : ThawKeep(k, force)
  BY <1>19, <1>0, Places, ThawKeepEffect DEF ControlTypes, PartLabels, BusyLabels, FreezeLabels,
     Starts, PartStarts, Done, Idle, Goto, Ask, Retained, SamePart, callVars, worldVars, stateVars
<1>20. CASE \E k \in Keys, force \in BOOLEAN : LimiterReleases(k, force)
  BY <1>20, <1>0, Places, LimiterReleasesEffect DEF ControlTypes, PartLabels, BusyLabels,
     FreezeLabels, Starts, PartStarts, Done, Idle, Goto, Ask, Retained, SamePart, callVars,
     worldVars, stateVars
<1>21. CASE \E k \in Keys, force \in BOOLEAN : ReleaseProcess(k, force)
  BY <1>21, <1>0, Places, ReleaseProcessEffect DEF ControlTypes, PartLabels, BusyLabels,
     FreezeLabels, Lists, Done, Idle, Goto, Ask, Retained, SamePart, PartStarts, callVars,
     worldVars, stateVars
<1>22. CASE ReconcilePending
  BY <1>22, <1>0, Places, ReconcilePendingEffect DEF ControlTypes, PartLabels, BusyLabels,
     FreezeLabels, Lists, Done, Idle, Goto, Ask, Retained, SamePart, PartStarts, callVars,
     worldVars, stateVars
<1>23. CASE Shutdown
  BY <1>23, <1>0, Places, ShutdownEffect DEF ControlTypes, PartLabels, BusyLabels, FreezeLabels,
     Lists, Done, Idle, Goto, Ask, Retained, SamePart, PartStarts, callVars, worldVars, stateVars
<1>24. CASE \E k \in Keys : ProcessExits(k)
  BY <1>24, <1>0, Places DEF ControlTypes, PartLabels, BusyLabels, FreezeLabels, ProcessExits,
     Done, Idle, Goto, Ask, Retained, SamePart, PartStarts, callVars, worldVars, stateVars
<1>25. CASE \E k \in Keys : ProcessStarts(k)
  BY <1>25, <1>0, Places DEF ControlTypes, PartLabels, BusyLabels, FreezeLabels, ProcessStarts,
     Done, Idle, Goto, Ask, Retained, SamePart, PartStarts, callVars, worldVars, stateVars
<1>26. CASE \E k \in Keys : Replay(k)
  BY <1>26, <1>0, Places DEF ControlTypes, PartLabels, BusyLabels, FreezeLabels, Replay, Done,
     Idle, Goto, Ask, Retained, SamePart, PartStarts, callVars, worldVars, stateVars
<1>27. CASE Crash
  BY <1>27, <1>0, Places DEF ControlTypes, PartLabels, BusyLabels, FreezeLabels, Crash, Done,
     Idle, Goto, Ask, Retained, SamePart, PartStarts, callVars, worldVars, stateVars
<1>28. CASE OtherLatches
  BY <1>28, <1>0, Places DEF ControlTypes, PartLabels, BusyLabels, FreezeLabels, OtherLatches,
     Done, Idle, Goto, Ask, Retained, SamePart, PartStarts, callVars, worldVars, stateVars
<1>29. CASE ServiceStep
  BY <1>29, <1>0, Places DEF ControlTypes, PartLabels, BusyLabels, FreezeLabels, ServiceStep,
     Done, Idle, Goto, Ask, Retained, SamePart, PartStarts, callVars, worldVars, stateVars
<1>30. CASE UNCHANGED suspensionVars
  BY <1>30, <1>0, Places DEF ControlTypes, PartLabels, BusyLabels, FreezeLabels, suspensionVars,
     serviceVars, callVars, stateVars, worldVars
<1> QED  BY <1>1, <1>2, <1>3, <1>4, <1>5, <1>6, <1>7, <1>8, <1>9, <1>10, <1>11, <1>12, <1>13, <1>14,
   <1>15, <1>16, <1>17, <1>18, <1>19, <1>20, <1>21, <1>22, <1>23, <1>24, <1>25, <1>26, <1>27,
   <1>28, <1>29, <1>30, EachStep

\* Where calls and their parts go on.
LEMMA StepStep ==
    IInv /\ [Next]_suspensionVars => StepOK'
<1> SUFFICES ASSUME IInv, [Next]_suspensionVars PROVE StepOK'
  OBVIOUS
<1>0. /\ ServiceTypeOK /\ ControlTypes /\ StateTypes /\ WorldTypes /\ BoundTypes
      /\ ServiceInv /\ StepOK /\ RoomOK /\ EntryOK /\ TurnOK /\ WishOK /\ WantedOK
      /\ OwnersOK /\ FrozenOK /\ CallOK /\ LedgerOK /\ RecordOK /\ ClearOK /\ ShutdownThaws
  BY Parts
<1>1. CASE Release
  BY <1>1, <1>0, Places, ReleaseEffect DEF StepOK, Freezing, Loops, PartLabels, BusyLabels,
     FreezeLabels, IntentLabels, Done, Idle, Goto, SamePart, PartStarts
<1>2. CASE Keep
  BY <1>2, <1>0, Places, KeepEffect DEF StepOK, Freezing, Loops, PartLabels, BusyLabels,
     FreezeLabels, IntentLabels, Done, Idle, Goto, SamePart, PartStarts
<1>3. CASE Thaw
  BY <1>3, <1>0, Places, ThawEffect DEF StepOK, Freezing, Loops, PartLabels, BusyLabels,
     FreezeLabels, IntentLabels, Done, Idle, Goto, SamePart, PartStarts
<1>4. CASE FinishCleanup
  BY <1>4, <1>0, Places, FinishCleanupEffect DEF StepOK, Freezing, Loops, PartLabels,
     BusyLabels, FreezeLabels, IntentLabels, Done, Idle, Goto, SamePart, PartStarts, Ask, Granted,
     Denied, callVars, serviceVars, Acknowledge, Called, Submit, Abandon
<1>5. CASE ReleaseStale
  BY <1>5, <1>0, Places, ReleaseStaleEffect DEF StepOK, Freezing, Loops, PartLabels, BusyLabels,
     FreezeLabels, IntentLabels, Done, Idle, Goto, SamePart, PartStarts, Stale
<1>6. CASE Assign
  BY <1>6, <1>0, Places, AssignEffect DEF StepOK, Freezing, Loops, PartLabels, BusyLabels,
     FreezeLabels, IntentLabels, Done, Idle, Goto, SamePart, PartStarts
<1>7. CASE DecideFreeze
  <2>1. /\ pc = "decide" /\ Freezing /\ op \in Ops /\ op'  \in {op, NoOp} /\ call' = call
        /\ pc' \in {"idle", "refreeze", "begin", "routine", "cleanup"}
        /\ pc' = "begin" => call = NoCall
        /\ pc' # "idle" => op' = op
        /\ pc' \in {"routine", "cleanup"} => PartStarts(op.key, "release", FALSE, "decide")
    BY <1>7, <1>0, Places, DecideFreezeEffect DEF StepOK, BusyLabels, Idle, Goto, CallOK, serviceVars
  <2> QED  BY <2>1 DEF StepOK, Freezing, Loops, PartLabels, BusyLabels, FreezeLabels, IntentLabels,
     PartStarts
<1>8. CASE Refreeze
  BY <1>8, <1>0, Places, RefreezeEffect DEF StepOK, Freezing, Loops, PartLabels, BusyLabels,
     FreezeLabels, IntentLabels, Done, Idle, Goto, SamePart, PartStarts
<1>9. CASE BeginFreeze
  BY <1>9, <1>0, Places, BeginFreezeEffect DEF StepOK, Freezing, Loops, PartLabels, BusyLabels,
     FreezeLabels, IntentLabels, Done, Idle, Goto, SamePart, PartStarts, Ask, Granted, Denied,
     callVars, serviceVars, Acknowledge, Called, Submit, Abandon
<1>10. CASE Freeze
  BY <1>10, <1>0, Places DEF StepOK, Freezing, Loops, PartLabels, BusyLabels, FreezeLabels,
     IntentLabels, Freeze, Done, Idle, Goto, SamePart, PartStarts
<1>11. CASE CancelFreeze
  BY <1>11, <1>0, Places, CancelFreezeEffect DEF StepOK, Freezing, Loops, PartLabels,
     BusyLabels, FreezeLabels, IntentLabels, Done, Idle, Goto, SamePart, PartStarts, Ask, Granted,
     Denied, callVars, serviceVars, Acknowledge, Called, Submit, Abandon
<1>12. CASE CommitFreeze
  BY <1>12, <1>0, Places, CommitFreezeEffect DEF StepOK, Freezing, Loops, PartLabels,
     BusyLabels, FreezeLabels, IntentLabels, Done, Idle, Goto, SamePart, PartStarts, Ask, Granted,
     Denied, callVars, serviceVars, Acknowledge, Called, Submit, Abandon
<1>13. CASE Compensate
  BY <1>13, <1>0, Places, CompensateEffect DEF StepOK, Freezing, Loops, PartLabels, BusyLabels,
     FreezeLabels, IntentLabels, Done, Idle, Goto, SamePart, PartStarts
<1>14. CASE NextKey
  BY <1>14, <1>0, Places, NextKeyEffect DEF StepOK, Freezing, Loops, PartLabels, BusyLabels,
     FreezeLabels, IntentLabels, Done, Idle, Goto, SamePart, PartStarts
<1>15. CASE LoopDone
  BY <1>15, <1>0, Places DEF StepOK, Freezing, Loops, PartLabels, BusyLabels, FreezeLabels,
     IntentLabels, LoopDone, Done, Idle, Goto, SamePart, PartStarts
<1>16. CASE \E k \in Keys : FreezeProcess(k)
  BY <1>16, <1>0, Places, FreezeProcessEffect DEF StepOK, Freezing, Loops, PartLabels,
     BusyLabels, FreezeLabels, IntentLabels, Asks, Done, Idle, Goto, SamePart, PartStarts
<1>17. CASE \E k \in Keys : LimiterFreezes(k)
  BY <1>17, <1>0, Places, LimiterFreezesEffect DEF StepOK, Freezing, Loops, PartLabels,
     BusyLabels, FreezeLabels, IntentLabels, Starts, Done, Idle, Goto, SamePart, PartStarts
<1>18. CASE \E k \in Keys : LimiterThaws(k)
  BY <1>18, <1>0, Places, LimiterThawsEffect DEF StepOK, Freezing, Loops, PartLabels,
     BusyLabels, FreezeLabels, IntentLabels, Asks, Done, Idle, Goto, SamePart, PartStarts
<1>19. CASE \E k \in Keys, force \in BOOLEAN : ThawKeep(k, force)
  BY <1>19, <1>0, Places, ThawKeepEffect DEF StepOK, Freezing, Loops, PartLabels, BusyLabels,
     FreezeLabels, IntentLabels, Starts, PartStarts, Done, Idle, Goto, SamePart
<1>20. CASE \E k \in Keys, force \in BOOLEAN : LimiterReleases(k, force)
  BY <1>20, <1>0, Places, LimiterReleasesEffect DEF StepOK, Freezing, Loops, PartLabels,
     BusyLabels, FreezeLabels, IntentLabels, Starts, PartStarts, Done, Idle, Goto, SamePart,
     callVars, serviceVars
<1>21. CASE \E k \in Keys, force \in BOOLEAN : ReleaseProcess(k, force)
  BY <1>21, <1>0, Places, ReleaseProcessEffect DEF StepOK, Freezing, Loops, PartLabels,
     BusyLabels, FreezeLabels, IntentLabels, Lists, Done, Idle, Goto, SamePart, PartStarts
<1>22. CASE ReconcilePending
  BY <1>22, <1>0, Places, ReconcilePendingEffect DEF StepOK, Freezing, Loops, PartLabels,
     BusyLabels, FreezeLabels, IntentLabels, Lists, Done, Idle, Goto, SamePart, PartStarts
<1>23. CASE Shutdown
  BY <1>23, <1>0, Places, ShutdownEffect DEF StepOK, Freezing, Loops, PartLabels, BusyLabels,
     FreezeLabels, IntentLabels, Lists, Done, Idle, Goto, SamePart, PartStarts
<1>24. CASE \E k \in Keys : ProcessExits(k)
  BY <1>24, <1>0, Places DEF StepOK, Freezing, Loops, PartLabels, BusyLabels, FreezeLabels,
     IntentLabels, ProcessExits, callVars, serviceVars
<1>25. CASE \E k \in Keys : ProcessStarts(k)
  BY <1>25, <1>0, Places DEF StepOK, Freezing, Loops, PartLabels, BusyLabels, FreezeLabels,
     IntentLabels, ProcessStarts, callVars, serviceVars
<1>26. CASE \E k \in Keys : Replay(k)
  BY <1>26, <1>0, Places DEF StepOK, Freezing, Loops, PartLabels, BusyLabels, FreezeLabels,
     IntentLabels, Replay, callVars, serviceVars
<1>27. CASE Crash
  BY <1>27, <1>0, Places DEF StepOK, Freezing, Loops, PartLabels, BusyLabels, FreezeLabels,
     IntentLabels, Crash, Done, Idle, Goto, SamePart, PartStarts
<1>28. CASE OtherLatches
  BY <1>28, <1>0, Places DEF StepOK, Freezing, Loops, PartLabels, BusyLabels, FreezeLabels,
     IntentLabels, OtherLatches, Latch, callVars
<1>29. CASE ServiceStep
  BY <1>29, <1>0, Places DEF StepOK, Freezing, Loops, PartLabels, BusyLabels, FreezeLabels,
     IntentLabels, ServiceStep, ServiceActs, Land, LateLand, LateLoss, Called, callVars
<1>30. CASE UNCHANGED suspensionVars
  BY <1>30, <1>0, Places DEF StepOK, Freezing, Loops, PartLabels, BusyLabels, FreezeLabels,
     IntentLabels, suspensionVars, serviceVars, callVars, stateVars, worldVars
<1> QED  BY <1>1, <1>2, <1>3, <1>4, <1>5, <1>6, <1>7, <1>8, <1>9, <1>10, <1>11, <1>12, <1>13, <1>14,
   <1>15, <1>16, <1>17, <1>18, <1>19, <1>20, <1>21, <1>22, <1>23, <1>24, <1>25, <1>26, <1>27,
   <1>28, <1>29, <1>30, EachStep

\* A freeze keeps an id until it begins its intent.
LEMMA RoomStep ==
    IInv /\ [Next]_suspensionVars => RoomOK'
<1> SUFFICES ASSUME IInv, [Next]_suspensionVars PROVE RoomOK'
  OBVIOUS
<1>0. /\ ServiceTypeOK /\ ControlTypes /\ StateTypes /\ WorldTypes /\ BoundTypes
      /\ ServiceInv /\ StepOK /\ RoomOK /\ EntryOK /\ TurnOK /\ WishOK /\ WantedOK
      /\ OwnersOK /\ FrozenOK /\ CallOK /\ LedgerOK /\ RecordOK /\ ClearOK /\ ShutdownThaws
  BY Parts
<1>1. CASE Release
  BY <1>1, <1>0, Places, ReleaseEffect DEF RoomOK, StepOK, Freezing, Loops, PartLabels,
     BusyLabels, FreezeLabels, IntentLabels, Done, Idle, Goto, SamePart, PartStarts, stateVars
<1>2. CASE Keep
  BY <1>2, <1>0, Places, KeepEffect DEF RoomOK, StepOK, Freezing, Loops, PartLabels, BusyLabels,
     FreezeLabels, IntentLabels, Done, Idle, Goto, SamePart, PartStarts, stateVars
<1>3. CASE Thaw
  BY <1>3, <1>0, Places, ThawEffect DEF RoomOK, StepOK, Freezing, Loops, PartLabels, BusyLabels,
     FreezeLabels, IntentLabels, Done, Idle, Goto, SamePart, PartStarts, stateVars
<1>4. CASE FinishCleanup
  BY <1>4, <1>0, Places, FinishCleanupEffect DEF RoomOK, StepOK, Freezing, Loops, PartLabels,
     BusyLabels, FreezeLabels, IntentLabels, Done, Idle, Goto, SamePart, PartStarts, Ask, Granted,
     Denied, callVars, serviceVars, Acknowledge, Called, Submit, Abandon, stateVars
<1>5. CASE ReleaseStale
  BY <1>5, <1>0, Places, ReleaseStaleEffect DEF RoomOK, StepOK, Freezing, Loops, PartLabels,
     BusyLabels, FreezeLabels, IntentLabels, Done, Idle, Goto, SamePart, PartStarts, stateVars
<1>6. CASE Assign
  BY <1>6, <1>0, Places, AssignEffect DEF RoomOK, StepOK, Freezing, Loops, PartLabels,
     BusyLabels, FreezeLabels, IntentLabels, Done, Idle, Goto, SamePart, PartStarts, stateVars
<1>7. CASE DecideFreeze
  BY <1>7, <1>0, Places, DecideFreezeEffect DEF RoomOK, StepOK, Freezing, Loops, PartLabels,
     BusyLabels, FreezeLabels, IntentLabels, Done, Idle, Goto, SamePart, PartStarts, stateVars
<1>8. CASE Refreeze
  BY <1>8, <1>0, Places, RefreezeEffect DEF RoomOK, StepOK, Freezing, Loops, PartLabels,
     BusyLabels, FreezeLabels, IntentLabels, Done, Idle, Goto, SamePart, PartStarts, stateVars
<1>9. CASE BeginFreeze
  BY <1>9, <1>0, Places, BeginFreezeEffect, FrozenEdgeType, CommandTypes, SubmitCall DEF RoomOK,
     StepOK, Freezing, Loops, PartLabels, BusyLabels, FreezeLabels, IntentLabels, Done, Idle, Goto,
     SamePart, PartStarts, Ask, Granted, Denied, callVars, serviceVars, Acknowledge, Called,
     Abandon, stateVars
<1>10. CASE Freeze
  BY <1>10, <1>0, Places DEF RoomOK, StepOK, Freezing, Loops, PartLabels, BusyLabels,
     FreezeLabels, IntentLabels, Freeze, Done, Idle, Goto, SamePart, PartStarts, stateVars
<1>11. CASE CancelFreeze
  BY <1>11, <1>0, Places, CancelFreezeEffect DEF RoomOK, StepOK, Freezing, Loops, PartLabels,
     BusyLabels, FreezeLabels, IntentLabels, Done, Idle, Goto, SamePart, PartStarts, Ask, Granted,
     Denied, callVars, serviceVars, Acknowledge, Called, Submit, Abandon, stateVars
<1>12. CASE CommitFreeze
  BY <1>12, <1>0, Places, CommitFreezeEffect DEF RoomOK, StepOK, Freezing, Loops, PartLabels,
     BusyLabels, FreezeLabels, IntentLabels, Done, Idle, Goto, SamePart, PartStarts, Ask, Granted,
     Denied, callVars, serviceVars, Acknowledge, Called, Submit, Abandon, stateVars
<1>13. CASE Compensate
  BY <1>13, <1>0, Places, CompensateEffect DEF RoomOK, StepOK, Freezing, Loops, PartLabels,
     BusyLabels, FreezeLabels, IntentLabels, Done, Idle, Goto, SamePart, PartStarts, stateVars
<1>14. CASE NextKey
  BY <1>14, <1>0, Places, NextKeyEffect DEF RoomOK, StepOK, Freezing, Loops, PartLabels,
     BusyLabels, FreezeLabels, IntentLabels, Done, Idle, Goto, SamePart, PartStarts, stateVars
<1>15. CASE LoopDone
  BY <1>15, <1>0, Places DEF RoomOK, StepOK, Freezing, Loops, PartLabels, BusyLabels,
     FreezeLabels, IntentLabels, LoopDone, Done, Idle, Goto, SamePart, PartStarts, stateVars
<1>16. CASE \E k \in Keys : FreezeProcess(k)
  BY <1>16, <1>0, Places, FreezeProcessEffect DEF RoomOK, StepOK, Freezing, Loops, PartLabels,
     BusyLabels, FreezeLabels, IntentLabels, Asks, Done, Idle, Goto, SamePart, PartStarts,
     stateVars
<1>17. CASE \E k \in Keys : LimiterFreezes(k)
  BY <1>17, <1>0, Places, LimiterFreezesEffect DEF RoomOK, StepOK, Freezing, Loops, PartLabels,
     BusyLabels, FreezeLabels, IntentLabels, Starts, Done, Idle, Goto, SamePart, PartStarts,
     stateVars
<1>18. CASE \E k \in Keys : LimiterThaws(k)
  BY <1>18, <1>0, Places, LimiterThawsEffect DEF RoomOK, StepOK, Freezing, Loops, PartLabels,
     BusyLabels, FreezeLabels, IntentLabels, Asks, Done, Idle, Goto, SamePart, PartStarts,
     stateVars
<1>19. CASE \E k \in Keys, force \in BOOLEAN : ThawKeep(k, force)
  BY <1>19, <1>0, Places, ThawKeepEffect DEF RoomOK, StepOK, Freezing, Loops, PartLabels,
     BusyLabels, FreezeLabels, IntentLabels, Starts, PartStarts, Done, Idle, Goto, SamePart,
     stateVars
<1>20. CASE \E k \in Keys, force \in BOOLEAN : LimiterReleases(k, force)
  BY <1>20, <1>0, Places, LimiterReleasesEffect DEF RoomOK, StepOK, Freezing, Loops, PartLabels,
     BusyLabels, FreezeLabels, IntentLabels, Starts, PartStarts, Done, Idle, Goto, SamePart,
     callVars, serviceVars, stateVars
<1>21. CASE \E k \in Keys, force \in BOOLEAN : ReleaseProcess(k, force)
  BY <1>21, <1>0, Places, ReleaseProcessEffect DEF RoomOK, StepOK, Freezing, Loops, PartLabels,
     BusyLabels, FreezeLabels, IntentLabels, Lists, Done, Idle, Goto, SamePart, PartStarts,
     stateVars
<1>22. CASE ReconcilePending
  BY <1>22, <1>0, Places, ReconcilePendingEffect DEF RoomOK, StepOK, Freezing, Loops,
     PartLabels, BusyLabels, FreezeLabels, IntentLabels, Lists, Done, Idle, Goto, SamePart,
     PartStarts, stateVars
<1>23. CASE Shutdown
  BY <1>23, <1>0, Places, ShutdownEffect DEF RoomOK, StepOK, Freezing, Loops, PartLabels,
     BusyLabels, FreezeLabels, IntentLabels, Lists, Done, Idle, Goto, SamePart, PartStarts,
     stateVars
<1>24. CASE \E k \in Keys : ProcessExits(k)
  BY <1>24, <1>0, Places DEF RoomOK, StepOK, Freezing, Loops, PartLabels, BusyLabels,
     FreezeLabels, IntentLabels, ProcessExits, callVars, serviceVars, stateVars
<1>25. CASE \E k \in Keys : ProcessStarts(k)
  BY <1>25, <1>0, Places DEF RoomOK, StepOK, Freezing, Loops, PartLabels, BusyLabels,
     FreezeLabels, IntentLabels, ProcessStarts, callVars, serviceVars, stateVars
<1>26. CASE \E k \in Keys : Replay(k)
  BY <1>26, <1>0, Places DEF RoomOK, StepOK, Freezing, Loops, PartLabels, BusyLabels,
     FreezeLabels, IntentLabels, Replay, callVars, serviceVars, stateVars
<1>27. CASE Crash
  BY <1>27, <1>0, Places DEF RoomOK, StepOK, Freezing, Loops, PartLabels, BusyLabels,
     FreezeLabels, IntentLabels, Crash, Done, Idle, Goto, SamePart, PartStarts, stateVars
<1>28. CASE OtherLatches
  BY <1>28, <1>0, Places DEF RoomOK, StepOK, Freezing, Loops, PartLabels, BusyLabels,
     FreezeLabels, IntentLabels, OtherLatches, Latch, callVars, stateVars
<1>29. CASE ServiceStep
  BY <1>29, <1>0, Places, LandCall DEF RoomOK, StepOK, Freezing, Loops, PartLabels, BusyLabels,
     FreezeLabels, IntentLabels, ServiceStep, ServiceActs, LateLand, LateLoss, Called, callVars,
     stateVars
<1>30. CASE UNCHANGED suspensionVars
  BY <1>30, <1>0, Places DEF RoomOK, StepOK, Freezing, Loops, PartLabels, BusyLabels,
     FreezeLabels, IntentLabels, suspensionVars, serviceVars, callVars, stateVars, worldVars
<1> QED  BY <1>1, <1>2, <1>3, <1>4, <1>5, <1>6, <1>7, <1>8, <1>9, <1>10, <1>11, <1>12, <1>13, <1>14,
   <1>15, <1>16, <1>17, <1>18, <1>19, <1>20, <1>21, <1>22, <1>23, <1>24, <1>25, <1>26, <1>27,
   <1>28, <1>29, <1>30, EachStep

\* A part of a call ends, and the call with it or goes on.
LEMMA DoneFlow ==
    ASSUME NEW outcome, Done(outcome)
    PROVE  \/ pc' = "idle" /\ op' = NoOp /\ at' = NoStep /\ result' = "ok"
           \/ pc' = at.then /\ at.then # "idle" /\ op' = op /\ at' = at
BY DEF Done, Idle

\* What is known of the entry at hand.
LEMMA EntryStep ==
    IInv /\ [Next]_suspensionVars => EntryOK'
<1> SUFFICES ASSUME IInv, [Next]_suspensionVars PROVE EntryOK'
  OBVIOUS
<1>0. /\ ServiceTypeOK /\ ControlTypes /\ StateTypes /\ WorldTypes /\ BoundTypes
      /\ ServiceInv /\ StepOK /\ RoomOK /\ EntryOK /\ TurnOK /\ WishOK /\ WantedOK
      /\ OwnersOK /\ FrozenOK /\ CallOK /\ LedgerOK /\ RecordOK /\ ClearOK /\ ShutdownThaws
  BY Parts
<1>1. CASE Release
  BY <1>1, <1>0, Places, EntryFields, ReleaseEffect DEF EntryOK, StepOK, Wanted, States,
     PartLabels, BusyLabels, FreezeLabels, IntentLabels, Done, Idle, Goto, SamePart, PartStarts,
     Becomes, Dropped, State, stateVars
<1>2. CASE Keep
  BY <1>2, <1>0, Places, EntryFields, KeepEffect DEF EntryOK, StepOK, Wanted, States,
     PartLabels, BusyLabels, FreezeLabels, IntentLabels, Done, Idle, Goto, SamePart, PartStarts,
     Becomes, Dropped, State, stateVars
<1>3. CASE Thaw
  BY <1>3, <1>0, Places, EntryFields, ThawEffect DEF EntryOK, StepOK, Wanted, States,
     PartLabels, BusyLabels, FreezeLabels, IntentLabels, Done, Idle, Goto, SamePart, PartStarts,
     Becomes, Dropped, State, stateVars
<1>4. CASE FinishCleanup
  BY <1>4, <1>0, Places, EntryFields, FinishCleanupEffect DEF EntryOK, StepOK, Wanted, States,
     PartLabels, BusyLabels, FreezeLabels, IntentLabels, Done, Idle, Goto, SamePart, PartStarts,
     Ask, Granted, Denied, callVars, serviceVars, Acknowledge, Called, Submit, Abandon, Becomes,
     Dropped, State, stateVars
<1>5. CASE ReleaseStale
  BY <1>5, <1>0, Places, EntryFields, ReleaseStaleEffect DEF EntryOK, StepOK, Wanted, States,
     PartLabels, BusyLabels, FreezeLabels, IntentLabels, Done, Idle, Goto, SamePart, PartStarts,
     Becomes, Dropped, State, stateVars
<1>6. CASE Assign
  BY <1>6, <1>0, Places, EntryFields, AssignEffect DEF EntryOK, StepOK, Wanted, States,
     PartLabels, BusyLabels, FreezeLabels, IntentLabels, Done, Idle, Goto, SamePart, PartStarts,
     Becomes, Dropped, State, stateVars
<1>7. CASE DecideFreeze
  <2>1. op.key \in Keys /\ managed[op.key] \in Entry \cup {NoManaged} /\ managed' = managed
    BY <1>7, <1>0, DecideFreezeEffect DEF StateTypes, stateVars
  <2>2. State(op.key) \notin {"none", "frozen", "compensate", "cleanup", "cleanupRelease"} =>
           State(op.key) = "thawed"
    BY <2>1, EntryFields DEF State, States
  <2>3. pc' \in {"idle", "refreeze", "begin", "routine", "cleanup"} /\ (pc' # "idle" => op' = op)
    BY <1>7, <1>0, DecideFreezeEffect DEF Idle, Goto
  <2>4. /\ pc' = "begin" => State(op.key) = "thawed" /\ ~managed[op.key].armed
        /\ pc' = "refreeze" => State(op.key) = "thawed" /\ managed[op.key].armed
        /\ pc' = "routine" => at'.routine = "release"
        /\ pc' = "cleanup" => at'.key = op.key /\ State(op.key) \in {"cleanup", "cleanupRelease"}
    BY <1>7, <1>0, <2>2, DecideFreezeEffect DEF Idle, Goto, PartStarts
  <2> QED  BY <2>1, <2>3, <2>4 DEF EntryOK, State, FreezeLabels
<1>8. CASE Refreeze
  BY <1>8, <1>0, Places, EntryFields, RefreezeEffect DEF EntryOK, StepOK, Wanted, States,
     PartLabels, BusyLabels, FreezeLabels, IntentLabels, Done, Idle, Goto, SamePart, PartStarts,
     Becomes, Dropped, State, stateVars
<1>9. CASE BeginFreeze
  BY <1>9, <1>0, Places, EntryFields, BeginFreezeEffect DEF EntryOK, StepOK, Wanted, States,
     PartLabels, BusyLabels, FreezeLabels, IntentLabels, Done, Idle, Goto, SamePart, PartStarts,
     Ask, Granted, Denied, callVars, serviceVars, Acknowledge, Called, Submit, Abandon, Becomes,
     Dropped, State, stateVars
<1>10. CASE Freeze
  BY <1>10, <1>0, Places, EntryFields DEF EntryOK, StepOK, Wanted, States, PartLabels,
     BusyLabels, FreezeLabels, IntentLabels, Freeze, Done, Idle, Goto, SamePart, PartStarts,
     Becomes, Dropped, State, stateVars
<1>11. CASE CancelFreeze
  BY <1>11, <1>0, Places, EntryFields, CancelFreezeEffect DEF EntryOK, StepOK, Wanted, States,
     PartLabels, BusyLabels, FreezeLabels, IntentLabels, Done, Idle, Goto, SamePart, PartStarts,
     Ask, Granted, Denied, callVars, serviceVars, Acknowledge, Called, Submit, Abandon, Becomes,
     Dropped, State, stateVars
<1>12. CASE CommitFreeze
  BY <1>12, <1>0, Places, EntryFields, CommitFreezeEffect DEF EntryOK, StepOK, Wanted, States,
     PartLabels, BusyLabels, FreezeLabels, IntentLabels, Done, Idle, Goto, SamePart, PartStarts,
     Ask, Granted, Denied, callVars, serviceVars, Acknowledge, Called, Submit, Abandon, Becomes,
     Dropped, State, stateVars
<1>13. CASE Compensate
  <2>1. pc = "compensate" /\ op.key \in Keys /\ at.key = op.key
    BY <1>13, <1>0, CompensateEffect DEF StepOK
  <2>2. CASE pc' = "idle"
    BY <2>2 DEF EntryOK, FreezeLabels
  <2>3. CASE pc' = "cleanup" /\ at' = at /\ State(op.key)' = "cleanupRelease"
    <3>1. op.key' = op.key
      BY <1>13, <1>0, CompensateEffect, <2>3 DEF Idle, Goto
    <3> QED  BY <2>1, <2>3, <3>1 DEF EntryOK, FreezeLabels, State
  <2> QED  BY <2>1, <2>2, <2>3, <1>13, <1>0, CompensateEffect DEF Idle, Goto, Becomes, State
<1>14. CASE NextKey
  BY <1>14, <1>0, Places, EntryFields, NextKeyEffect DEF EntryOK, StepOK, Wanted, States,
     PartLabels, BusyLabels, FreezeLabels, IntentLabels, Done, Idle, Goto, SamePart, PartStarts,
     Becomes, Dropped, State, stateVars
<1>15. CASE LoopDone
  BY <1>15, <1>0, Places, EntryFields DEF EntryOK, StepOK, Wanted, States, PartLabels,
     BusyLabels, FreezeLabels, IntentLabels, LoopDone, Done, Idle, Goto, SamePart, PartStarts,
     Becomes, Dropped, State, stateVars
<1>16. CASE \E k \in Keys : FreezeProcess(k)
  BY <1>16, <1>0, Places, EntryFields, FreezeProcessEffect DEF EntryOK, StepOK, Wanted, States,
     PartLabels, BusyLabels, FreezeLabels, IntentLabels, Asks, Done, Idle, Goto, SamePart,
     PartStarts, Becomes, Dropped, State, stateVars
<1>17. CASE \E k \in Keys : LimiterFreezes(k)
  BY <1>17, <1>0, Places, EntryFields, LimiterFreezesEffect DEF EntryOK, StepOK, Wanted, States,
     PartLabels, BusyLabels, FreezeLabels, IntentLabels, Starts, Done, Idle, Goto, SamePart,
     PartStarts, Becomes, Dropped, State, stateVars
<1>18. CASE \E k \in Keys : LimiterThaws(k)
  BY <1>18, <1>0, Places, EntryFields, LimiterThawsEffect DEF EntryOK, StepOK, Wanted, States,
     PartLabels, BusyLabels, FreezeLabels, IntentLabels, Asks, Done, Idle, Goto, SamePart,
     PartStarts, Becomes, Dropped, State, stateVars
<1>19. CASE \E k \in Keys, force \in BOOLEAN : ThawKeep(k, force)
  BY <1>19, <1>0, Places, EntryFields, ThawKeepEffect DEF EntryOK, StepOK, Wanted, States,
     PartLabels, BusyLabels, FreezeLabels, IntentLabels, Starts, PartStarts, Done, Idle, Goto,
     SamePart, Becomes, Dropped, State, stateVars
<1>20. CASE \E k \in Keys, force \in BOOLEAN : LimiterReleases(k, force)
  BY <1>20, <1>0, Places, EntryFields, LimiterReleasesEffect DEF EntryOK, StepOK, Wanted,
     States, PartLabels, BusyLabels, FreezeLabels, IntentLabels, Starts, PartStarts, Done, Idle,
     Goto, SamePart, callVars, serviceVars, Becomes, Dropped, State, stateVars
<1>21. CASE \E k \in Keys, force \in BOOLEAN : ReleaseProcess(k, force)
  BY <1>21, <1>0, Places, EntryFields, ReleaseProcessEffect DEF EntryOK, StepOK, Wanted, States,
     PartLabels, BusyLabels, FreezeLabels, IntentLabels, Lists, Done, Idle, Goto, SamePart,
     PartStarts, Becomes, Dropped, State, stateVars
<1>22. CASE ReconcilePending
  BY <1>22, <1>0, Places, EntryFields, ReconcilePendingEffect DEF EntryOK, StepOK, Wanted,
     States, PartLabels, BusyLabels, FreezeLabels, IntentLabels, Lists, Done, Idle, Goto, SamePart,
     PartStarts, Becomes, Dropped, State, stateVars
<1>23. CASE Shutdown
  BY <1>23, <1>0, Places, EntryFields, ShutdownEffect DEF EntryOK, StepOK, Wanted, States,
     PartLabels, BusyLabels, FreezeLabels, IntentLabels, Lists, Done, Idle, Goto, SamePart,
     PartStarts, Becomes, Dropped, State, stateVars
<1>24. CASE \E k \in Keys : ProcessExits(k)
  BY <1>24, <1>0, Places, EntryFields DEF EntryOK, StepOK, Wanted, States, PartLabels,
     BusyLabels, FreezeLabels, IntentLabels, ProcessExits, callVars, serviceVars, Becomes, Dropped,
     State, stateVars
<1>25. CASE \E k \in Keys : ProcessStarts(k)
  BY <1>25, <1>0, Places, EntryFields DEF EntryOK, StepOK, Wanted, States, PartLabels,
     BusyLabels, FreezeLabels, IntentLabels, ProcessStarts, callVars, serviceVars, Becomes,
     Dropped, State, stateVars
<1>26. CASE \E k \in Keys : Replay(k)
  BY <1>26, <1>0, Places, EntryFields DEF EntryOK, StepOK, Wanted, States, PartLabels,
     BusyLabels, FreezeLabels, IntentLabels, Replay, callVars, serviceVars, Becomes, Dropped,
     State, stateVars
<1>27. CASE Crash
  BY <1>27, <1>0, Places, EntryFields DEF EntryOK, StepOK, Wanted, States, PartLabels,
     BusyLabels, FreezeLabels, IntentLabels, Crash, Done, Idle, Goto, SamePart, PartStarts,
     Becomes, Dropped, State, stateVars
<1>28. CASE OtherLatches
  BY <1>28, <1>0, Places, EntryFields DEF EntryOK, StepOK, Wanted, States, PartLabels,
     BusyLabels, FreezeLabels, IntentLabels, OtherLatches, Latch, callVars, Becomes, Dropped,
     State, stateVars
<1>29. CASE ServiceStep
  BY <1>29, <1>0, Places, EntryFields DEF EntryOK, StepOK, Wanted, States, PartLabels,
     BusyLabels, FreezeLabels, IntentLabels, ServiceStep, ServiceActs, Land, LateLand, LateLoss,
     Called, callVars, Becomes, Dropped, State, stateVars
<1>30. CASE UNCHANGED suspensionVars
  BY <1>30, <1>0, Places, EntryFields DEF EntryOK, StepOK, Wanted, States, PartLabels,
     BusyLabels, FreezeLabels, IntentLabels, suspensionVars, serviceVars, callVars, stateVars,
     worldVars, State
<1> QED  BY <1>1, <1>2, <1>3, <1>4, <1>5, <1>6, <1>7, <1>8, <1>9, <1>10, <1>11, <1>12, <1>13, <1>14,
   <1>15, <1>16, <1>17, <1>18, <1>19, <1>20, <1>21, <1>22, <1>23, <1>24, <1>25, <1>26, <1>27,
   <1>28, <1>29, <1>30, EachStep

\* Whoever asks for a freeze goes on to want it.
LEMMA WishStep ==
    IInv /\ [Next]_suspensionVars => WishOK'
<1> SUFFICES ASSUME IInv, [Next]_suspensionVars PROVE WishOK'
  OBVIOUS
<1>0. /\ ServiceTypeOK /\ ControlTypes /\ StateTypes /\ WorldTypes /\ BoundTypes
      /\ ServiceInv /\ StepOK /\ RoomOK /\ EntryOK /\ TurnOK /\ WishOK /\ WantedOK
      /\ OwnersOK /\ FrozenOK /\ CallOK /\ LedgerOK /\ RecordOK /\ ClearOK /\ ShutdownThaws
  BY Parts
<1>1. CASE Release
  BY <1>1, <1>0, Places, EntryFields, ReleaseEffect DEF WishOK, StepOK, Wanted, Freezing, Loops,
     PartLabels, BusyLabels, FreezeLabels, IntentLabels, Done, Idle, Goto, SamePart, PartStarts,
     Becomes, Dropped, State, stateVars, Stale
<1>2. CASE Keep
  BY <1>2, <1>0, Places, EntryFields, KeepEffect DEF WishOK, StepOK, Wanted, Freezing, Loops,
     PartLabels, BusyLabels, FreezeLabels, IntentLabels, Done, Idle, Goto, SamePart, PartStarts,
     Becomes, Dropped, State, stateVars, Stale
<1>3. CASE Thaw
  <2>1. pc = "thaw" /\ at.key \in Keys /\ op \in Ops /\ op.key \in Keys
    BY <1>3, <1>0, Places, ThawEffect DEF PartLabels, BusyLabels
  <2>2. \A k \in Keys : State(k)' # "none" => State(k) # "none" /\ managed'[k].app = managed[k].app
                                          /\ managed'[k].limiter = managed[k].limiter
    <3>1. \/ managed' = managed
          \/ /\ \A j \in Keys \ {at.key} : managed'[j] = managed[j]
             /\ managed'[at.key].app = managed[at.key].app
             /\ managed'[at.key].limiter = managed[at.key].limiter
      BY <1>3, <1>0, ThawEffect DEF Becomes
    <3>2. State(at.key) # "none" /\ managed[at.key] # NoManaged
      BY <2>1, <1>0 DEF EntryOK, State
    <3> QED  BY <2>1, <3>1, <3>2 DEF State
  <2>3. pc' = "idle" \/ (op' = op /\ at'.then = at.then /\ pc' \in {at.then, "cleanup"})
    <3>1. \/ Done("pending") \/ Done("ok") \/ Done(Retained(at.key))
          \/ SamePart /\ pc' = "cleanup"
      BY <1>3, <1>0, ThawEffect
    <3> QED  BY <3>1, DoneFlow DEF SamePart
  <2> QED  BY <1>0, <2>1, <2>2, <2>3, Places DEF WishOK, Wanted, FreezeLabels, PartLabels
<1>4. CASE FinishCleanup
  <2>1. pc = "cleanup" /\ at.key \in Keys /\ op \in Ops /\ op.key \in Keys
    BY <1>4, <1>0, Places, FinishCleanupEffect DEF PartLabels, BusyLabels
  <2>2. \A k \in Keys : State(k)' # "none" => State(k) # "none" /\ managed'[k].app = managed[k].app
                                          /\ managed'[k].limiter = managed[k].limiter
    BY <1>4, <1>0, <2>1, FinishCleanupEffect DEF Becomes, Dropped, State, Ask, stateVars
  <2>3. pc' = "idle" \/ (op' = op /\ at' = at /\ pc' \in {at.then, "cleanup"})
    BY <1>4, <1>0, <2>1, FinishCleanupEffect DEF Done, Idle, Ask, callVars
  <2> QED  BY <1>0, <2>1, <2>2, <2>3, Places DEF WishOK, Wanted, FreezeLabels, PartLabels
<1>5. CASE ReleaseStale
  BY <1>5, <1>0, Places, EntryFields, ReleaseStaleEffect DEF WishOK, StepOK, Wanted, Freezing,
     Loops, PartLabels, BusyLabels, FreezeLabels, IntentLabels, Done, Idle, Goto, SamePart,
     PartStarts, Becomes, Dropped, State, stateVars, Stale
<1>6. CASE Assign
  BY <1>6, <1>0, Places, EntryFields, AssignEffect DEF WishOK, StepOK, Wanted, Freezing, Loops,
     PartLabels, BusyLabels, FreezeLabels, IntentLabels, Done, Idle, Goto, SamePart, PartStarts,
     Becomes, Dropped, State, stateVars, Stale
<1>7. CASE DecideFreeze
  BY <1>7, <1>0, Places, EntryFields, DecideFreezeEffect DEF WishOK, StepOK, Wanted, Freezing,
     Loops, PartLabels, BusyLabels, FreezeLabels, IntentLabels, Done, Idle, Goto, SamePart,
     PartStarts, Becomes, Dropped, State, stateVars, Stale
<1>8. CASE Refreeze
  BY <1>8, <1>0, Places, EntryFields, RefreezeEffect DEF WishOK, StepOK, Wanted, Freezing,
     Loops, PartLabels, BusyLabels, FreezeLabels, IntentLabels, Done, Idle, Goto, SamePart,
     PartStarts, Becomes, Dropped, State, stateVars, Stale
<1>9. CASE BeginFreeze
  BY <1>9, <1>0, Places, EntryFields, BeginFreezeEffect DEF WishOK, StepOK, Wanted, Freezing,
     Loops, PartLabels, BusyLabels, FreezeLabels, IntentLabels, Done, Idle, Goto, SamePart,
     PartStarts, Ask, Granted, Denied, callVars, serviceVars, Acknowledge, Called, Submit, Abandon,
     Becomes, Dropped, State, stateVars, Stale
<1>10. CASE Freeze
  BY <1>10, <1>0, Places, EntryFields DEF WishOK, StepOK, Wanted, Freezing, Loops, PartLabels,
     BusyLabels, FreezeLabels, IntentLabels, Freeze, Done, Idle, Goto, SamePart, PartStarts,
     Becomes, Dropped, State, stateVars, Stale
<1>11. CASE CancelFreeze
  BY <1>11, <1>0, Places, EntryFields, CancelFreezeEffect DEF WishOK, StepOK, Wanted, Freezing,
     Loops, PartLabels, BusyLabels, FreezeLabels, IntentLabels, Done, Idle, Goto, SamePart,
     PartStarts, Ask, Granted, Denied, callVars, serviceVars, Acknowledge, Called, Submit, Abandon,
     Becomes, Dropped, State, stateVars, Stale
<1>12. CASE CommitFreeze
  BY <1>12, <1>0, Places, EntryFields, CommitFreezeEffect DEF WishOK, StepOK, Wanted, Freezing,
     Loops, PartLabels, BusyLabels, FreezeLabels, IntentLabels, Done, Idle, Goto, SamePart,
     PartStarts, Ask, Granted, Denied, callVars, serviceVars, Acknowledge, Called, Submit, Abandon,
     Becomes, Dropped, State, stateVars, Stale
<1>13. CASE Compensate
  BY <1>13, <1>0, Places, EntryFields, CompensateEffect DEF WishOK, StepOK, Wanted, Freezing,
     Loops, PartLabels, BusyLabels, FreezeLabels, IntentLabels, Done, Idle, Goto, SamePart,
     PartStarts, Becomes, Dropped, State, stateVars, Stale
<1>14. CASE NextKey
  BY <1>14, <1>0, Places, EntryFields, NextKeyEffect DEF WishOK, StepOK, Wanted, Freezing,
     Loops, PartLabels, BusyLabels, FreezeLabels, IntentLabels, Done, Idle, Goto, SamePart,
     PartStarts, Becomes, Dropped, State, stateVars, Stale
<1>15. CASE LoopDone
  BY <1>15, <1>0, Places, EntryFields DEF WishOK, StepOK, Wanted, Freezing, Loops, PartLabels,
     BusyLabels, FreezeLabels, IntentLabels, LoopDone, Done, Idle, Goto, SamePart, PartStarts,
     Becomes, Dropped, State, stateVars, Stale
<1>16. CASE \E k \in Keys : FreezeProcess(k)
  BY <1>16, <1>0, Places, EntryFields, FreezeProcessEffect DEF WishOK, StepOK, Wanted, Freezing,
     Loops, PartLabels, BusyLabels, FreezeLabels, IntentLabels, Asks, Done, Idle, Goto, SamePart,
     PartStarts, Becomes, Dropped, State, stateVars, Stale
<1>17. CASE \E k \in Keys : LimiterFreezes(k)
  BY <1>17, <1>0, Places, EntryFields, LimiterFreezesEffect DEF WishOK, StepOK, Wanted,
     Freezing, Loops, PartLabels, BusyLabels, FreezeLabels, IntentLabels, Starts, Done, Idle, Goto,
     SamePart, PartStarts, Becomes, Dropped, State, stateVars, Stale
<1>18. CASE \E k \in Keys : LimiterThaws(k)
  BY <1>18, <1>0, Places, EntryFields, LimiterThawsEffect DEF WishOK, StepOK, Wanted, Freezing,
     Loops, PartLabels, BusyLabels, FreezeLabels, IntentLabels, Asks, Done, Idle, Goto, SamePart,
     PartStarts, Becomes, Dropped, State, stateVars, Stale
<1>19. CASE \E k \in Keys, force \in BOOLEAN : ThawKeep(k, force)
  BY <1>19, <1>0, Places, EntryFields, ThawKeepEffect DEF WishOK, StepOK, Wanted, Freezing,
     Loops, PartLabels, BusyLabels, FreezeLabels, IntentLabels, Starts, PartStarts, Done, Idle,
     Goto, SamePart, Becomes, Dropped, State, stateVars, Stale
<1>20. CASE \E k \in Keys, force \in BOOLEAN : LimiterReleases(k, force)
  BY <1>20, <1>0, Places, EntryFields, LimiterReleasesEffect DEF WishOK, StepOK, Wanted,
     Freezing, Loops, PartLabels, BusyLabels, FreezeLabels, IntentLabels, Starts, PartStarts, Done,
     Idle, Goto, SamePart, callVars, serviceVars, Becomes, Dropped, State, stateVars, Stale
<1>21. CASE \E k \in Keys, force \in BOOLEAN : ReleaseProcess(k, force)
  BY <1>21, <1>0, Places, EntryFields, ReleaseProcessEffect DEF WishOK, StepOK, Wanted,
     Freezing, Loops, PartLabels, BusyLabels, FreezeLabels, IntentLabels, Lists, Done, Idle, Goto,
     SamePart, PartStarts, Becomes, Dropped, State, stateVars, Stale
<1>22. CASE ReconcilePending
  BY <1>22, <1>0, Places, EntryFields, ReconcilePendingEffect DEF WishOK, StepOK, Wanted,
     Freezing, Loops, PartLabels, BusyLabels, FreezeLabels, IntentLabels, Lists, Done, Idle, Goto,
     SamePart, PartStarts, Becomes, Dropped, State, stateVars, Stale
<1>23. CASE Shutdown
  BY <1>23, <1>0, Places, EntryFields, ShutdownEffect DEF WishOK, StepOK, Wanted, Freezing,
     Loops, PartLabels, BusyLabels, FreezeLabels, IntentLabels, Lists, Done, Idle, Goto, SamePart,
     PartStarts, Becomes, Dropped, State, stateVars, Stale
<1>24. CASE \E k \in Keys : ProcessExits(k)
  BY <1>24, <1>0, Places, EntryFields DEF WishOK, StepOK, Wanted, Freezing, Loops, PartLabels,
     BusyLabels, FreezeLabels, IntentLabels, ProcessExits, callVars, serviceVars, Becomes, Dropped,
     State, stateVars, Stale
<1>25. CASE \E k \in Keys : ProcessStarts(k)
  BY <1>25, <1>0, Places, EntryFields DEF WishOK, StepOK, Wanted, Freezing, Loops, PartLabels,
     BusyLabels, FreezeLabels, IntentLabels, ProcessStarts, callVars, serviceVars, Becomes,
     Dropped, State, stateVars, Stale
<1>26. CASE \E k \in Keys : Replay(k)
  BY <1>26, <1>0, Places, EntryFields DEF WishOK, StepOK, Wanted, Freezing, Loops, PartLabels,
     BusyLabels, FreezeLabels, IntentLabels, Replay, callVars, serviceVars, Becomes, Dropped,
     State, stateVars, Stale
<1>27. CASE Crash
  BY <1>27, <1>0, Places, EntryFields DEF WishOK, StepOK, Wanted, Freezing, Loops, PartLabels,
     BusyLabels, FreezeLabels, IntentLabels, Crash, Done, Idle, Goto, SamePart, PartStarts,
     Becomes, Dropped, State, stateVars, Stale
<1>28. CASE OtherLatches
  BY <1>28, <1>0, Places, EntryFields DEF WishOK, StepOK, Wanted, Freezing, Loops, PartLabels,
     BusyLabels, FreezeLabels, IntentLabels, OtherLatches, Latch, callVars, Becomes, Dropped,
     State, stateVars, Stale
<1>29. CASE ServiceStep
  BY <1>29, <1>0, Places, EntryFields DEF WishOK, StepOK, Wanted, Freezing, Loops, PartLabels,
     BusyLabels, FreezeLabels, IntentLabels, ServiceStep, ServiceActs, Land, LateLand, LateLoss,
     Called, callVars, Becomes, Dropped, State, stateVars, Stale
<1>30. CASE UNCHANGED suspensionVars
  BY <1>30, <1>0, Places, EntryFields DEF WishOK, StepOK, Wanted, Freezing, Loops, PartLabels,
     BusyLabels, FreezeLabels, IntentLabels, suspensionVars, serviceVars, callVars, stateVars,
     worldVars, State
<1> QED  BY <1>1, <1>2, <1>3, <1>4, <1>5, <1>6, <1>7, <1>8, <1>9, <1>10, <1>11, <1>12, <1>13, <1>14,
   <1>15, <1>16, <1>17, <1>18, <1>19, <1>20, <1>21, <1>22, <1>23, <1>24, <1>25, <1>26, <1>27,
   <1>28, <1>29, <1>30, EachStep

LEMMA OwnersFrame ==
    ASSUME OwnersOK, pc' # "assign", \A k \in Keys : managed'[k] # NoManaged => managed[k] # NoManaged
    PROVE  OwnersOK'
<1>1. ManagedKeys' \subseteq ManagedKeys
  BY DEF ManagedKeys
<1> QED  BY <1>1 DEF OwnersOK

LEMMA OwnersSame ==
    ASSUME OwnersOK, managed' = managed, pc' = "assign" => pc = "assign" /\ op' = op
    PROVE  OwnersOK'
BY DEF OwnersOK, ManagedKeys, Stale, State

\* A process id has one entry.
LEMMA OwnersStep ==
    IInv /\ [Next]_suspensionVars => OwnersOK'
<1> SUFFICES ASSUME IInv, [Next]_suspensionVars PROVE OwnersOK'
  OBVIOUS
<1>0. /\ ServiceTypeOK /\ ControlTypes /\ StateTypes /\ WorldTypes /\ BoundTypes
      /\ ServiceInv /\ StepOK /\ RoomOK /\ EntryOK /\ TurnOK /\ WishOK /\ WantedOK
      /\ OwnersOK /\ FrozenOK /\ CallOK /\ LedgerOK /\ RecordOK /\ ClearOK /\ ShutdownThaws
  BY Parts
<1>1. CASE Release
  <2>1. pc' # "assign" /\ \A k \in Keys : managed'[k] # NoManaged => managed[k] # NoManaged
    BY <1>1, <1>0, Places, ReleaseEffect DEF PartLabels, BusyLabels, FreezeLabels, Becomes,
       Dropped, State, Done, Idle, Goto, EntryOK
  <2> QED  BY <2>1, <1>0, OwnersFrame
<1>2. CASE Keep
  <2>1. pc' # "assign" /\ \A k \in Keys : managed'[k] # NoManaged => managed[k] # NoManaged
    BY <1>2, <1>0, Places, KeepEffect DEF PartLabels, BusyLabels, FreezeLabels, Becomes,
       Dropped, State, Done, Idle, Goto, EntryOK
  <2> QED  BY <2>1, <1>0, OwnersFrame
<1>3. CASE Thaw
  <2>1. pc' # "assign" /\ \A k \in Keys : managed'[k] # NoManaged => managed[k] # NoManaged
    BY <1>3, <1>0, Places, ThawEffect DEF PartLabels, BusyLabels, FreezeLabels, Becomes,
       Dropped, State, Done, Idle, Goto, EntryOK
  <2> QED  BY <2>1, <1>0, OwnersFrame
<1>4. CASE FinishCleanup
  <2>1. pc' # "assign" /\ \A k \in Keys : managed'[k] # NoManaged => managed[k] # NoManaged
    BY <1>4, <1>0, Places, FinishCleanupEffect DEF PartLabels, BusyLabels, FreezeLabels,
       Becomes, Dropped, State, Done, Idle, Goto, Ask, stateVars, callVars, EntryOK
  <2> QED  BY <2>1, <1>0, OwnersFrame
<1>5. CASE ReleaseStale
  <2>1. CASE \E s \in Stale(op.key) : pc' = "routine" /\ UNCHANGED managed
    BY <2>1, <1>0, OwnersSame
  <2>2. CASE Stale(op.key) = {} /\ State(op.key) = "none" /\ Goto("assign") /\ UNCHANGED managed
    <3>1. Stale(op.key)' = {} /\ State(op.key)' = "none"
      BY <2>2 DEF Stale, State, ManagedKeys, Goto
    <3>2. ManagedKeys' = ManagedKeys
      BY <2>2 DEF ManagedKeys
    <3> QED  BY <3>1, <3>2, <1>0 DEF OwnersOK
  <2>3. CASE pc' # "assign" /\ \A k \in Keys : managed'[k] # NoManaged => managed[k] # NoManaged
    BY <2>3, <1>0, OwnersFrame
  <2> QED
    BY <2>1, <2>2, <2>3, <1>5, <1>0, ReleaseStaleEffect DEF Becomes, Goto, Idle, State
<1>6. CASE Assign
  <2>1. CASE UNCHANGED managed /\ pc' = "idle"
    BY <2>1, <1>0, OwnersSame
  <2>2. CASE pc' # "assign" /\ managed'[op.key] # NoManaged
             /\ \A j \in Keys \ {op.key} : managed'[j] = managed[j]
    <3>1. \A j \in ManagedKeys \ {op.key} : Pid[j] # Pid[op.key]
      BY <1>6, <1>0, AssignEffect DEF OwnersOK, Stale
    <3>2. ManagedKeys' \subseteq ManagedKeys \cup {op.key}
      BY <2>2 DEF ManagedKeys
    <3> QED  BY <2>2, <3>1, <3>2, <1>0 DEF OwnersOK
  <2> QED  BY <2>1, <2>2, <1>6, <1>0, AssignEffect DEF Becomes, Goto, Idle
<1>7. CASE DecideFreeze
  BY <1>7, <1>0, Places, DecideFreezeEffect, OwnersSame DEF Done, Idle, Goto, SamePart,
     PartStarts, stateVars, callVars
<1>8. CASE Refreeze
  <2>1. pc' # "assign" /\ \A k \in Keys : managed'[k] # NoManaged => managed[k] # NoManaged
    BY <1>8, <1>0, Places, RefreezeEffect DEF PartLabels, BusyLabels, FreezeLabels, Becomes,
       Dropped, State, Done, Idle, Goto, EntryOK
  <2> QED  BY <2>1, <1>0, OwnersFrame
<1>9. CASE BeginFreeze
  <2>1. pc' # "assign" /\ \A k \in Keys : managed'[k] # NoManaged => managed[k] # NoManaged
    BY <1>9, <1>0, Places, BeginFreezeEffect DEF PartLabels, BusyLabels, FreezeLabels, Becomes,
       Dropped, State, Done, Idle, Goto, Ask, stateVars, callVars, EntryOK
  <2> QED  BY <2>1, <1>0, OwnersFrame
<1>10. CASE Freeze
  BY <1>10, <1>0, Places, OwnersSame DEF Freeze, Done, Idle, Goto, SamePart, PartStarts,
     stateVars, callVars
<1>11. CASE CancelFreeze
  <2>1. pc' # "assign" /\ \A k \in Keys : managed'[k] # NoManaged => managed[k] # NoManaged
    BY <1>11, <1>0, Places, CancelFreezeEffect DEF PartLabels, BusyLabels, FreezeLabels,
       Becomes, Dropped, State, Done, Idle, Goto, Ask, stateVars, callVars, EntryOK
  <2> QED  BY <2>1, <1>0, OwnersFrame
<1>12. CASE CommitFreeze
  <2>1. pc' # "assign" /\ \A k \in Keys : managed'[k] # NoManaged => managed[k] # NoManaged
    BY <1>12, <1>0, Places, CommitFreezeEffect DEF PartLabels, BusyLabels, FreezeLabels,
       Becomes, Dropped, State, Done, Idle, Goto, Ask, stateVars, callVars, EntryOK
  <2> QED  BY <2>1, <1>0, OwnersFrame
<1>13. CASE Compensate
  <2>1. pc' # "assign" /\ \A k \in Keys : managed'[k] # NoManaged => managed[k] # NoManaged
    BY <1>13, <1>0, Places, CompensateEffect DEF PartLabels, BusyLabels, FreezeLabels, Becomes,
       Dropped, State, Done, Idle, Goto, EntryOK
  <2> QED  BY <2>1, <1>0, OwnersFrame
<1>14. CASE NextKey
  <2>1. pc' # "assign" /\ \A k \in Keys : managed'[k] # NoManaged => managed[k] # NoManaged
    BY <1>14, <1>0, Places, NextKeyEffect DEF PartLabels, BusyLabels, FreezeLabels, Becomes,
       Dropped, State, Done, Idle, Goto, callVars
  <2> QED  BY <2>1, <1>0, OwnersFrame
<1>15. CASE LoopDone
  BY <1>15, <1>0, Places, OwnersSame DEF LoopDone, Done, Idle, Goto, SamePart, PartStarts,
     stateVars, callVars
<1>16. CASE \E k \in Keys : FreezeProcess(k)
  BY <1>16, <1>0, Places, FreezeProcessEffect, OwnersSame DEF Asks, Done, Idle, Goto, SamePart,
     PartStarts, stateVars, callVars
<1>17. CASE \E k \in Keys : LimiterFreezes(k)
  <2>1. pc' # "assign" /\ \A k \in Keys : managed'[k] # NoManaged => managed[k] # NoManaged
    BY <1>17, <1>0, Places, LimiterFreezesEffect DEF Starts, PartLabels, BusyLabels,
       FreezeLabels, Becomes, Dropped, State, Done, Idle, Goto, callVars
  <2> QED  BY <2>1, <1>0, OwnersFrame
<1>18. CASE \E k \in Keys : LimiterThaws(k)
  BY <1>18, <1>0, Places, LimiterThawsEffect, OwnersSame DEF Asks, Done, Idle, Goto, SamePart,
     PartStarts, stateVars, callVars
<1>19. CASE \E k \in Keys, force \in BOOLEAN : ThawKeep(k, force)
  <2>1. pc' # "assign" /\ \A k \in Keys : managed'[k] # NoManaged => managed[k] # NoManaged
    BY <1>19, <1>0, Places, ThawKeepEffect DEF Starts, PartStarts, PartLabels, BusyLabels,
       FreezeLabels, Becomes, Dropped, State, Done, Idle, Goto, callVars
  <2> QED  BY <2>1, <1>0, OwnersFrame
<1>20. CASE \E k \in Keys, force \in BOOLEAN : LimiterReleases(k, force)
  <2>1. pc' # "assign" /\ \A k \in Keys : managed'[k] # NoManaged => managed[k] # NoManaged
    BY <1>20, <1>0, Places, LimiterReleasesEffect DEF Starts, PartStarts, PartLabels,
       BusyLabels, FreezeLabels, Becomes, Dropped, State, Done, Idle, Goto, callVars
  <2> QED  BY <2>1, <1>0, OwnersFrame
<1>21. CASE \E k \in Keys, force \in BOOLEAN : ReleaseProcess(k, force)
  BY <1>21, <1>0, Places, ReleaseProcessEffect, OwnersSame DEF Lists, Done, Idle, Goto,
     SamePart, PartStarts, stateVars, callVars
<1>22. CASE ReconcilePending
  BY <1>22, <1>0, Places, ReconcilePendingEffect, OwnersSame DEF Lists, Done, Idle, Goto,
     SamePart, PartStarts, stateVars, callVars
<1>23. CASE Shutdown
  BY <1>23, <1>0, Places, ShutdownEffect, OwnersSame DEF Lists, Done, Idle, Goto, SamePart,
     PartStarts, stateVars, callVars
<1>24. CASE \E k \in Keys : ProcessExits(k)
  BY <1>24, <1>0, Places, OwnersSame DEF ProcessExits, callVars, serviceVars, stateVars
<1>25. CASE \E k \in Keys : ProcessStarts(k)
  BY <1>25, <1>0, Places, OwnersSame DEF ProcessStarts, callVars, serviceVars, stateVars
<1>26. CASE \E k \in Keys : Replay(k)
  BY <1>26, <1>0, Places, OwnersSame DEF Replay, callVars, serviceVars, stateVars
<1>27. CASE Crash
  BY <1>27, <1>0, Places, OwnersSame DEF Crash, Done, Idle, Goto, SamePart, PartStarts,
     stateVars, callVars
<1>28. CASE OtherLatches
  BY <1>28, <1>0, Places, OwnersSame DEF OtherLatches, Latch, callVars, stateVars
<1>29. CASE ServiceStep
  BY <1>29, <1>0, Places, OwnersSame DEF ServiceStep, ServiceActs, Land, LateLand, LateLoss,
     Called, callVars, stateVars
<1>30. CASE UNCHANGED suspensionVars
  BY <1>30, <1>0, Places DEF suspensionVars, callVars, stateVars, OwnersOK, ManagedKeys, Stale,
     State
<1> QED  BY <1>1, <1>2, <1>3, <1>4, <1>5, <1>6, <1>7, <1>8, <1>9, <1>10, <1>11, <1>12, <1>13, <1>14,
   <1>15, <1>16, <1>17, <1>18, <1>19, <1>20, <1>21, <1>22, <1>23, <1>24, <1>25, <1>26, <1>27,
   <1>28, <1>29, <1>30, EachStep

LEMMA FrozenFrame ==
    ASSUME FrozenOK, ~Gone, NEW k \in Keys,
           pc \in {"commit", "compensate"} => op.key = k,
           pc' \in {"commit", "compensate"} => op'.key = k,
           \A j \in Keys \ {k} : State(j)' = State(j) /\ frozen'[j] = frozen[j],
           frozen'[k] <=> \/ State(k)' \in {"frozen", "compensate"}
                          \/ pc' \in {"commit", "compensate"}
    PROVE  FrozenOK'
BY DEF FrozenOK

LEMMA FrozenSame ==
    ASSUME FrozenOK, ~Gone, frozen' = frozen, \A j \in Keys : State(j)' = State(j),
           pc \notin {"commit", "compensate"}, pc' \notin {"commit", "compensate"}
    PROVE  FrozenOK'
BY DEF FrozenOK

\* A job is frozen as its entry says, or by the freeze under way.
LEMMA FrozenStep ==
    IInv /\ [Next]_suspensionVars => FrozenOK'
<1> SUFFICES ASSUME IInv, [Next]_suspensionVars PROVE FrozenOK'
  OBVIOUS
<1>0. /\ ServiceTypeOK /\ ControlTypes /\ StateTypes /\ WorldTypes /\ BoundTypes
      /\ ServiceInv /\ StepOK /\ RoomOK /\ EntryOK /\ TurnOK /\ WishOK /\ WantedOK
      /\ OwnersOK /\ FrozenOK /\ CallOK /\ LedgerOK /\ RecordOK /\ ClearOK /\ ShutdownThaws
  BY Parts
<1>1. CASE Release
  BY <1>1, <1>0, Places, ReleaseEffect DEF FrozenOK, Gone, WorldTypes, Done, Idle, Goto,
     SamePart, PartStarts, Becomes, Dropped, State, stateVars, worldVars, PartLabels, FreezeLabels,
     BusyLabels, EntryOK
<1>2. CASE Keep
  BY <1>2, <1>0, Places, KeepEffect DEF FrozenOK, Gone, WorldTypes, Done, Idle, Goto, SamePart,
     PartStarts, Becomes, Dropped, State, stateVars, worldVars, PartLabels, FreezeLabels,
     BusyLabels, EntryOK
<1>3. CASE Thaw
  <2>1. /\ at.key \in Keys /\ ~Gone
        /\ pc \in {"commit", "compensate"} => op.key = at.key
        /\ pc' \in {"commit", "compensate"} => op'.key = at.key
    BY <1>3, <1>0, Places, DoneFlow, ThawEffect DEF PartLabels, BusyLabels, FreezeLabels, Gone,
       Idle, Goto, SamePart, StepOK
  <2>2. PICK k \in Keys : k = at.key
    BY <2>1
  <2>3. \A j \in Keys \ {k} : State(j)' = State(j) /\ frozen'[j] = frozen[j]
    BY <1>3, <1>0, <2>1, <2>2, ThawEffect DEF Becomes, Dropped, State, WorldTypes, worldVars,
       stateVars
  <2>4. frozen'[k] <=> \/ State(k)' \in {"frozen", "compensate"}
                      \/ pc' \in {"commit", "compensate"}
    BY <1>3, <1>0, <2>1, <2>2, Places, DoneFlow, ThawEffect DEF FrozenOK, OwnersOK, Becomes,
       Dropped, State, WorldTypes, worldVars, stateVars, callVars, PartLabels, EntryOK,
       FreezeLabels, Idle, Goto
  <2> QED  BY <1>0, <2>1, <2>2, <2>3, <2>4, FrozenFrame
<1>4. CASE FinishCleanup
  <2>1. /\ at.key \in Keys /\ ~Gone
        /\ pc \in {"commit", "compensate"} => op.key = at.key
        /\ pc' \in {"commit", "compensate"} => op'.key = at.key
    BY <1>4, <1>0, Places, DoneFlow, FinishCleanupEffect DEF PartLabels, BusyLabels,
       FreezeLabels, Gone, Idle, Goto, SamePart, StepOK, Ask, callVars
  <2>2. PICK k \in Keys : k = at.key
    BY <2>1
  <2>3. \A j \in Keys \ {k} : State(j)' = State(j) /\ frozen'[j] = frozen[j]
    BY <1>4, <1>0, <2>1, <2>2, FinishCleanupEffect DEF Becomes, Dropped, State, WorldTypes,
       worldVars, stateVars, Ask
  <2>4. frozen'[k] <=> \/ State(k)' \in {"frozen", "compensate"}
                      \/ pc' \in {"commit", "compensate"}
    BY <1>4, <1>0, <2>1, <2>2, Places, DoneFlow, FinishCleanupEffect DEF FrozenOK, OwnersOK,
       Becomes, Dropped, State, WorldTypes, worldVars, stateVars, callVars, PartLabels, EntryOK,
       FreezeLabels, Idle, Goto, Ask
  <2> QED  BY <1>0, <2>1, <2>2, <2>3, <2>4, FrozenFrame
<1>5. CASE ReleaseStale
  <2>1. /\ ~Gone /\ frozen' = frozen /\ \A j \in Keys : State(j)' = State(j)
        /\ pc \notin {"commit", "compensate"} /\ pc' \notin {"commit", "compensate"}
    BY <1>5, <1>0, ReleaseStaleEffect DEF Becomes, State, worldVars, stateVars, Gone, Idle, Goto
  <2> QED  BY <1>0, <2>1, FrozenSame
<1>6. CASE Assign
  <2>1. /\ op.key \in Keys /\ ~Gone
        /\ pc \in {"commit", "compensate"} => op.key = op.key
        /\ pc' \in {"commit", "compensate"} => op'.key = op.key
    BY <1>6, <1>0, Places, DoneFlow, AssignEffect DEF PartLabels, BusyLabels, FreezeLabels,
       Gone, Idle, Goto, SamePart, StepOK
  <2>2. PICK k \in Keys : k = op.key
    BY <2>1
  <2>3. \A j \in Keys \ {k} : State(j)' = State(j) /\ frozen'[j] = frozen[j]
    BY <1>6, <1>0, <2>1, <2>2, AssignEffect DEF Becomes, Dropped, State, WorldTypes, worldVars,
       stateVars
  <2>4. frozen'[k] <=> \/ State(k)' \in {"frozen", "compensate"}
                      \/ pc' \in {"commit", "compensate"}
    BY <1>6, <1>0, <2>1, <2>2, Places, DoneFlow, AssignEffect DEF FrozenOK, OwnersOK, Becomes,
       Dropped, State, WorldTypes, worldVars, stateVars, callVars, PartLabels, EntryOK,
       FreezeLabels, Idle, Goto
  <2> QED  BY <1>0, <2>1, <2>2, <2>3, <2>4, FrozenFrame
<1>7. CASE DecideFreeze
  <2>1. /\ ~Gone /\ frozen' = frozen /\ \A j \in Keys : State(j)' = State(j)
        /\ pc \notin {"commit", "compensate"} /\ pc' \notin {"commit", "compensate"}
    BY <1>7, <1>0, DecideFreezeEffect DEF Becomes, State, worldVars, stateVars, Gone, Idle, Goto
  <2> QED  BY <1>0, <2>1, FrozenSame
<1>8. CASE Refreeze
  <2>1. /\ op.key \in Keys /\ ~Gone
        /\ pc \in {"commit", "compensate"} => op.key = op.key
        /\ pc' \in {"commit", "compensate"} => op'.key = op.key
    BY <1>8, <1>0, Places, DoneFlow, RefreezeEffect DEF PartLabels, BusyLabels, FreezeLabels,
       Gone, Idle, Goto, SamePart, StepOK
  <2>2. PICK k \in Keys : k = op.key
    BY <2>1
  <2>3. \A j \in Keys \ {k} : State(j)' = State(j) /\ frozen'[j] = frozen[j]
    BY <1>8, <1>0, <2>1, <2>2, RefreezeEffect DEF Becomes, Dropped, State, WorldTypes,
       worldVars, stateVars
  <2>4. frozen'[k] <=> \/ State(k)' \in {"frozen", "compensate"}
                      \/ pc' \in {"commit", "compensate"}
    BY <1>8, <1>0, <2>1, <2>2, Places, DoneFlow, RefreezeEffect DEF FrozenOK, OwnersOK, Becomes,
       Dropped, State, WorldTypes, worldVars, stateVars, callVars, PartLabels, EntryOK,
       FreezeLabels, Idle, Goto
  <2> QED  BY <1>0, <2>1, <2>2, <2>3, <2>4, FrozenFrame
<1>9. CASE BeginFreeze
  <2>1. /\ op.key \in Keys /\ ~Gone
        /\ pc \in {"commit", "compensate"} => op.key = op.key
        /\ pc' \in {"commit", "compensate"} => op'.key = op.key
    BY <1>9, <1>0, Places, DoneFlow, BeginFreezeEffect DEF PartLabels, BusyLabels, FreezeLabels,
       Gone, Idle, Goto, SamePart, StepOK, Ask, callVars
  <2>2. PICK k \in Keys : k = op.key
    BY <2>1
  <2>3. \A j \in Keys \ {k} : State(j)' = State(j) /\ frozen'[j] = frozen[j]
    BY <1>9, <1>0, <2>1, <2>2, BeginFreezeEffect DEF Becomes, Dropped, State, WorldTypes,
       worldVars, stateVars, Ask
  <2>4. frozen'[k] <=> \/ State(k)' \in {"frozen", "compensate"}
                      \/ pc' \in {"commit", "compensate"}
    BY <1>9, <1>0, <2>1, <2>2, Places, DoneFlow, BeginFreezeEffect DEF FrozenOK, OwnersOK,
       Becomes, Dropped, State, WorldTypes, worldVars, stateVars, callVars, PartLabels, EntryOK,
       FreezeLabels, Idle, Goto, Ask
  <2> QED  BY <1>0, <2>1, <2>2, <2>3, <2>4, FrozenFrame
<1>10. CASE Freeze
  BY <1>10, <1>0, Places DEF FrozenOK, Gone, WorldTypes, Freeze, Done, Idle, Goto, SamePart,
     PartStarts, Becomes, Dropped, State, stateVars, worldVars, PartLabels, FreezeLabels,
     BusyLabels, EntryOK
<1>11. CASE CancelFreeze
  <2>1. /\ op.key \in Keys /\ ~Gone
        /\ pc \in {"commit", "compensate"} => op.key = op.key
        /\ pc' \in {"commit", "compensate"} => op'.key = op.key
    BY <1>11, <1>0, Places, DoneFlow, CancelFreezeEffect DEF PartLabels, BusyLabels,
       FreezeLabels, Gone, Idle, Goto, SamePart, StepOK, Ask, callVars
  <2>2. PICK k \in Keys : k = op.key
    BY <2>1
  <2>3. \A j \in Keys \ {k} : State(j)' = State(j) /\ frozen'[j] = frozen[j]
    BY <1>11, <1>0, <2>1, <2>2, CancelFreezeEffect DEF Becomes, Dropped, State, WorldTypes,
       worldVars, stateVars, Ask
  <2>4. frozen'[k] <=> \/ State(k)' \in {"frozen", "compensate"}
                      \/ pc' \in {"commit", "compensate"}
    BY <1>11, <1>0, <2>1, <2>2, Places, DoneFlow, CancelFreezeEffect DEF FrozenOK, OwnersOK,
       Becomes, Dropped, State, WorldTypes, worldVars, stateVars, callVars, PartLabels, EntryOK,
       FreezeLabels, Idle, Goto, Ask
  <2> QED  BY <1>0, <2>1, <2>2, <2>3, <2>4, FrozenFrame
<1>12. CASE CommitFreeze
  <2>1. /\ op.key \in Keys /\ ~Gone
        /\ pc \in {"commit", "compensate"} => op.key = op.key
        /\ pc' \in {"commit", "compensate"} => op'.key = op.key
    BY <1>12, <1>0, Places, DoneFlow, CommitFreezeEffect DEF PartLabels, BusyLabels,
       FreezeLabels, Gone, Idle, Goto, SamePart, StepOK, Ask, callVars
  <2>2. PICK k \in Keys : k = op.key
    BY <2>1
  <2>3. \A j \in Keys \ {k} : State(j)' = State(j) /\ frozen'[j] = frozen[j]
    BY <1>12, <1>0, <2>1, <2>2, CommitFreezeEffect DEF Becomes, Dropped, State, WorldTypes,
       worldVars, stateVars, Ask
  <2>4. frozen'[k] <=> \/ State(k)' \in {"frozen", "compensate"}
                      \/ pc' \in {"commit", "compensate"}
    BY <1>12, <1>0, <2>1, <2>2, Places, DoneFlow, CommitFreezeEffect DEF FrozenOK, OwnersOK,
       Becomes, Dropped, State, WorldTypes, worldVars, stateVars, callVars, PartLabels, EntryOK,
       FreezeLabels, Idle, Goto, Ask
  <2> QED  BY <1>0, <2>1, <2>2, <2>3, <2>4, FrozenFrame
<1>13. CASE Compensate
  <2>1. /\ op.key \in Keys /\ ~Gone
        /\ pc \in {"commit", "compensate"} => op.key = op.key
        /\ pc' \in {"commit", "compensate"} => op'.key = op.key
    BY <1>13, <1>0, Places, DoneFlow, CompensateEffect DEF PartLabels, BusyLabels, FreezeLabels,
       Gone, Idle, Goto, SamePart, StepOK
  <2>2. PICK k \in Keys : k = op.key
    BY <2>1
  <2>3. \A j \in Keys \ {k} : State(j)' = State(j) /\ frozen'[j] = frozen[j]
    BY <1>13, <1>0, <2>1, <2>2, CompensateEffect DEF Becomes, Dropped, State, WorldTypes,
       worldVars, stateVars
  <2>4. frozen'[k] <=> \/ State(k)' \in {"frozen", "compensate"}
                      \/ pc' \in {"commit", "compensate"}
    BY <1>13, <1>0, <2>1, <2>2, Places, DoneFlow, CompensateEffect DEF FrozenOK, OwnersOK,
       Becomes, Dropped, State, WorldTypes, worldVars, stateVars, callVars, PartLabels, EntryOK,
       FreezeLabels, Idle, Goto
  <2> QED  BY <1>0, <2>1, <2>2, <2>3, <2>4, FrozenFrame
<1>14. CASE NextKey
  BY <1>14, <1>0, Places, NextKeyEffect DEF FrozenOK, Gone, WorldTypes, Done, Idle, Goto,
     SamePart, PartStarts, Becomes, Dropped, State, stateVars, worldVars, PartLabels, FreezeLabels,
     BusyLabels, EntryOK
<1>15. CASE LoopDone
  BY <1>15, <1>0, Places DEF FrozenOK, Gone, WorldTypes, LoopDone, Done, Idle, Goto, SamePart,
     PartStarts, Becomes, Dropped, State, stateVars, worldVars, PartLabels, FreezeLabels,
     BusyLabels, EntryOK
<1>16. CASE \E k \in Keys : FreezeProcess(k)
  BY <1>16, <1>0, Places, FreezeProcessEffect DEF FrozenOK, Gone, WorldTypes, Asks, Done, Idle,
     Goto, SamePart, PartStarts, Becomes, Dropped, State, stateVars, worldVars, PartLabels,
     FreezeLabels, BusyLabels, EntryOK
<1>17. CASE \E k \in Keys : LimiterFreezes(k)
  <2>1. /\ ~Gone /\ frozen' = frozen /\ \A j \in Keys : State(j)' = State(j)
        /\ pc \notin {"commit", "compensate"} /\ pc' \notin {"commit", "compensate"}
    BY <1>17, <1>0, LimiterFreezesEffect DEF Starts, Becomes, State, worldVars, stateVars, Gone,
       Idle, Goto
  <2> QED  BY <1>0, <2>1, FrozenSame
<1>18. CASE \E k \in Keys : LimiterThaws(k)
  BY <1>18, <1>0, Places, LimiterThawsEffect DEF FrozenOK, Gone, WorldTypes, Asks, Done, Idle,
     Goto, SamePart, PartStarts, Becomes, Dropped, State, stateVars, worldVars, PartLabels,
     FreezeLabels, BusyLabels, EntryOK
<1>19. CASE \E k \in Keys, force \in BOOLEAN : ThawKeep(k, force)
  BY <1>19, <1>0, Places, ThawKeepEffect DEF FrozenOK, Gone, WorldTypes, Starts, PartStarts,
     Done, Idle, Goto, SamePart, Becomes, Dropped, State, stateVars, worldVars, PartLabels,
     FreezeLabels, BusyLabels, EntryOK
<1>20. CASE \E k \in Keys, force \in BOOLEAN : LimiterReleases(k, force)
  BY <1>20, <1>0, Places, LimiterReleasesEffect DEF FrozenOK, Gone, WorldTypes, Starts,
     PartStarts, Done, Idle, Goto, SamePart, callVars, serviceVars, Becomes, Dropped, State,
     stateVars, worldVars, PartLabels, FreezeLabels, BusyLabels, EntryOK
<1>21. CASE \E k \in Keys, force \in BOOLEAN : ReleaseProcess(k, force)
  BY <1>21, <1>0, Places, ReleaseProcessEffect DEF FrozenOK, Gone, WorldTypes, Lists, Done,
     Idle, Goto, SamePart, PartStarts, Becomes, Dropped, State, stateVars, worldVars, PartLabels,
     FreezeLabels, BusyLabels, EntryOK
<1>22. CASE ReconcilePending
  BY <1>22, <1>0, Places, ReconcilePendingEffect DEF FrozenOK, Gone, WorldTypes, Lists, Done,
     Idle, Goto, SamePart, PartStarts, Becomes, Dropped, State, stateVars, worldVars, PartLabels,
     FreezeLabels, BusyLabels, EntryOK
<1>23. CASE Shutdown
  BY <1>23, <1>0, Places, ShutdownEffect DEF FrozenOK, Gone, WorldTypes, Lists, Done, Idle,
     Goto, SamePart, PartStarts, Becomes, Dropped, State, stateVars, worldVars, PartLabels,
     FreezeLabels, BusyLabels, EntryOK
<1>24. CASE \E k \in Keys : ProcessExits(k)
  BY <1>24, <1>0, Places DEF FrozenOK, Gone, WorldTypes, ProcessExits, callVars, serviceVars,
     Becomes, Dropped, State, stateVars, worldVars, PartLabels, FreezeLabels, BusyLabels, EntryOK
<1>25. CASE \E k \in Keys : ProcessStarts(k)
  BY <1>25, <1>0, Places DEF FrozenOK, Gone, WorldTypes, ProcessStarts, callVars, serviceVars,
     Becomes, Dropped, State, stateVars, worldVars, PartLabels, FreezeLabels, BusyLabels, EntryOK
<1>26. CASE \E k \in Keys : Replay(k)
  BY <1>26, <1>0, Places DEF FrozenOK, Gone, WorldTypes, Replay, callVars, serviceVars, Becomes,
     Dropped, State, stateVars, worldVars, PartLabels, FreezeLabels, BusyLabels, EntryOK
<1>27. CASE Crash
  BY <1>27, <1>0, Places DEF FrozenOK, Gone, WorldTypes, Crash, Done, Idle, Goto, SamePart,
     PartStarts, Becomes, Dropped, State, stateVars, worldVars, PartLabels, FreezeLabels,
     BusyLabels, EntryOK
<1>28. CASE OtherLatches
  BY <1>28, <1>0, Places DEF FrozenOK, Gone, WorldTypes, OtherLatches, Latch, callVars, Becomes,
     Dropped, State, stateVars, worldVars, PartLabels, FreezeLabels, BusyLabels, EntryOK
<1>29. CASE ServiceStep
  BY <1>29, <1>0, Places DEF FrozenOK, Gone, WorldTypes, ServiceStep, ServiceActs, Land,
     LateLand, LateLoss, Called, callVars, Becomes, Dropped, State, stateVars, worldVars,
     PartLabels, FreezeLabels, BusyLabels, EntryOK
<1>30. CASE UNCHANGED suspensionVars
  BY <1>30, <1>0, Places DEF FrozenOK, Gone, WorldTypes, suspensionVars, serviceVars, callVars,
     stateVars, worldVars, State
<1> QED  BY <1>1, <1>2, <1>3, <1>4, <1>5, <1>6, <1>7, <1>8, <1>9, <1>10, <1>11, <1>12, <1>13, <1>14,
   <1>15, <1>16, <1>17, <1>18, <1>19, <1>20, <1>21, <1>22, <1>23, <1>24, <1>25, <1>26, <1>27,
   <1>28, <1>29, <1>30, EachStep

LEMMA WantedFrame ==
    ASSUME WantedOK, ~Gone, NEW k \in Keys, pc \in {"routine", "thaw"} => at.key = k,
           \A j \in Keys \ {k} : managed'[j] = managed[j],
           State(k)' = "frozen" =>
              \/ "freeze" \in {managed'[k].app, managed'[k].limiter} \/ managed'[k].retry
              \/ pc' \in {"routine", "thaw"} /\ at'.key = k
    PROVE  WantedOK'
BY DEF WantedOK, ManagedKeys, State, Wanted

\* A frozen entry that nobody wants frozen waits for a retry, or is being thawed.
LEMMA WantedStep ==
    IInv /\ [Next]_suspensionVars => WantedOK'
<1> SUFFICES ASSUME IInv, [Next]_suspensionVars PROVE WantedOK'
  OBVIOUS
<1>0. /\ ServiceTypeOK /\ ControlTypes /\ StateTypes /\ WorldTypes /\ BoundTypes
      /\ ServiceInv /\ StepOK /\ RoomOK /\ EntryOK /\ TurnOK /\ WishOK /\ WantedOK
      /\ OwnersOK /\ FrozenOK /\ CallOK /\ LedgerOK /\ RecordOK /\ ClearOK /\ ShutdownThaws
  BY Parts
<1>1. CASE Release
  BY <1>1, <1>0, Places, ReleaseEffect DEF WantedOK, Gone, Wanted, Done, Idle, Goto, SamePart,
     PartStarts, Becomes, Dropped, State, stateVars, ManagedKeys, PartLabels, BusyLabels, EntryOK,
     WishOK
<1>2. CASE Keep
  BY <1>2, <1>0, Places, KeepEffect DEF WantedOK, Gone, Wanted, Done, Idle, Goto, SamePart,
     PartStarts, Becomes, Dropped, State, stateVars, ManagedKeys, PartLabels, BusyLabels, EntryOK,
     WishOK
<1>3. CASE Thaw
  <2>1. at.key \in Keys /\ ~Gone /\ (pc \in {"routine", "thaw"} => at.key = at.key)
    BY <1>3, <1>0, Places, ThawEffect DEF PartLabels, BusyLabels, Gone
  <2>2. PICK k \in Keys : k = at.key
    BY <2>1
  <2>3. \A j \in Keys \ {k} : managed'[j] = managed[j]
    BY <1>3, <1>0, <2>1, <2>2, ThawEffect DEF Becomes, Dropped, stateVars
  <2>4. State(k)' = "frozen" =>
           \/ "freeze" \in {managed'[k].app, managed'[k].limiter} \/ managed'[k].retry
           \/ pc' \in {"routine", "thaw"} /\ at'.key = k
    BY <1>3, <1>0, <2>1, <2>2, Places, DoneFlow, ThawEffect DEF WantedOK, Wanted, ManagedKeys,
       WishOK, FreezeLabels, PartStarts, Becomes, Dropped, State, stateVars, callVars, EntryOK,
       Idle, Goto
  <2> QED  BY <1>0, <2>1, <2>2, <2>3, <2>4, WantedFrame
<1>4. CASE FinishCleanup
  BY <1>4, <1>0, Places, FinishCleanupEffect DEF WantedOK, Gone, Wanted, Done, Idle, Goto,
     SamePart, PartStarts, Ask, Granted, Denied, callVars, serviceVars, Acknowledge, Called,
     Submit, Abandon, Becomes, Dropped, State, stateVars, ManagedKeys, PartLabels, BusyLabels,
     EntryOK, WishOK
<1>5. CASE ReleaseStale
  <2>1. op.key \in Keys /\ ~Gone /\ (pc \in {"routine", "thaw"} => at.key = op.key)
    BY <1>5, <1>0, Places, ReleaseStaleEffect DEF PartLabels, BusyLabels, Gone
  <2>2. PICK k \in Keys : k = op.key
    BY <2>1
  <2>3. \A j \in Keys \ {k} : managed'[j] = managed[j]
    BY <1>5, <1>0, <2>1, <2>2, ReleaseStaleEffect DEF Becomes, Dropped, stateVars
  <2>4. State(k)' = "frozen" =>
           \/ "freeze" \in {managed'[k].app, managed'[k].limiter} \/ managed'[k].retry
           \/ pc' \in {"routine", "thaw"} /\ at'.key = k
    BY <1>5, <1>0, <2>1, <2>2, Places, DoneFlow, ReleaseStaleEffect DEF WantedOK, Wanted,
       ManagedKeys, WishOK, FreezeLabels, PartStarts, Becomes, Dropped, State, stateVars, callVars,
       EntryOK, Idle, Goto
  <2> QED  BY <1>0, <2>1, <2>2, <2>3, <2>4, WantedFrame
<1>6. CASE Assign
  BY <1>6, <1>0, Places, AssignEffect DEF WantedOK, Gone, Wanted, Done, Idle, Goto, SamePart,
     PartStarts, Becomes, Dropped, State, stateVars, ManagedKeys, PartLabels, BusyLabels, EntryOK,
     WishOK
<1>7. CASE DecideFreeze
  BY <1>7, <1>0, Places, DecideFreezeEffect DEF WantedOK, Gone, Wanted, Done, Idle, Goto,
     SamePart, PartStarts, Becomes, Dropped, State, stateVars, ManagedKeys, PartLabels, BusyLabels,
     EntryOK, WishOK
<1>8. CASE Refreeze
  <2>1. op.key \in Keys /\ ~Gone /\ (pc \in {"routine", "thaw"} => at.key = op.key)
    BY <1>8, <1>0, Places, RefreezeEffect DEF PartLabels, BusyLabels, Gone
  <2>2. PICK k \in Keys : k = op.key
    BY <2>1
  <2>3. \A j \in Keys \ {k} : managed'[j] = managed[j]
    BY <1>8, <1>0, <2>1, <2>2, RefreezeEffect DEF Becomes, Dropped, stateVars
  <2>4. State(k)' = "frozen" =>
           \/ "freeze" \in {managed'[k].app, managed'[k].limiter} \/ managed'[k].retry
           \/ pc' \in {"routine", "thaw"} /\ at'.key = k
    BY <1>8, <1>0, <2>1, <2>2, Places, DoneFlow, RefreezeEffect DEF WantedOK, Wanted,
       ManagedKeys, WishOK, FreezeLabels, PartStarts, Becomes, Dropped, State, stateVars, callVars,
       EntryOK, Idle, Goto
  <2> QED  BY <1>0, <2>1, <2>2, <2>3, <2>4, WantedFrame
<1>9. CASE BeginFreeze
  BY <1>9, <1>0, Places, BeginFreezeEffect DEF WantedOK, Gone, Wanted, Done, Idle, Goto,
     SamePart, PartStarts, Ask, Granted, Denied, callVars, serviceVars, Acknowledge, Called,
     Submit, Abandon, Becomes, Dropped, State, stateVars, ManagedKeys, PartLabels, BusyLabels,
     EntryOK, WishOK
<1>10. CASE Freeze
  BY <1>10, <1>0, Places DEF WantedOK, Gone, Wanted, Freeze, Done, Idle, Goto, SamePart,
     PartStarts, Becomes, Dropped, State, stateVars, ManagedKeys, PartLabels, BusyLabels, EntryOK,
     WishOK
<1>11. CASE CancelFreeze
  BY <1>11, <1>0, Places, CancelFreezeEffect DEF WantedOK, Gone, Wanted, Done, Idle, Goto,
     SamePart, PartStarts, Ask, Granted, Denied, callVars, serviceVars, Acknowledge, Called,
     Submit, Abandon, Becomes, Dropped, State, stateVars, ManagedKeys, PartLabels, BusyLabels,
     EntryOK, WishOK
<1>12. CASE CommitFreeze
  <2>1. op.key \in Keys /\ ~Gone /\ (pc \in {"routine", "thaw"} => at.key = op.key)
    BY <1>12, <1>0, Places, CommitFreezeEffect DEF PartLabels, BusyLabels, Gone
  <2>2. PICK k \in Keys : k = op.key
    BY <2>1
  <2>3. \A j \in Keys \ {k} : managed'[j] = managed[j]
    BY <1>12, <1>0, <2>1, <2>2, CommitFreezeEffect DEF Becomes, Dropped, stateVars, Ask
  <2>4. State(k)' = "frozen" =>
           \/ "freeze" \in {managed'[k].app, managed'[k].limiter} \/ managed'[k].retry
           \/ pc' \in {"routine", "thaw"} /\ at'.key = k
    BY <1>12, <1>0, <2>1, <2>2, Places, DoneFlow, CommitFreezeEffect DEF WantedOK, Wanted,
       ManagedKeys, WishOK, FreezeLabels, PartStarts, Becomes, Dropped, State, stateVars, callVars,
       EntryOK, Idle, Goto, Ask
  <2> QED  BY <1>0, <2>1, <2>2, <2>3, <2>4, WantedFrame
<1>13. CASE Compensate
  BY <1>13, <1>0, Places, CompensateEffect DEF WantedOK, Gone, Wanted, Done, Idle, Goto,
     SamePart, PartStarts, Becomes, Dropped, State, stateVars, ManagedKeys, PartLabels, BusyLabels,
     EntryOK, WishOK
<1>14. CASE NextKey
  BY <1>14, <1>0, Places, NextKeyEffect DEF WantedOK, Gone, Wanted, Done, Idle, Goto, SamePart,
     PartStarts, Becomes, Dropped, State, stateVars, ManagedKeys, PartLabels, BusyLabels, EntryOK,
     WishOK
<1>15. CASE LoopDone
  BY <1>15, <1>0, Places DEF WantedOK, Gone, Wanted, LoopDone, Done, Idle, Goto, SamePart,
     PartStarts, Becomes, Dropped, State, stateVars, ManagedKeys, PartLabels, BusyLabels, EntryOK,
     WishOK
<1>16. CASE \E k \in Keys : FreezeProcess(k)
  BY <1>16, <1>0, Places, FreezeProcessEffect DEF WantedOK, Gone, Wanted, Asks, Done, Idle,
     Goto, SamePart, PartStarts, Becomes, Dropped, State, stateVars, ManagedKeys, PartLabels,
     BusyLabels, EntryOK, WishOK
<1>17. CASE \E k \in Keys : LimiterFreezes(k)
  <2>0. PICK k \in Keys : LimiterFreezes(k)
    BY <1>17
  <2>1. ~Gone /\ pc \notin {"routine", "thaw"}
    BY <2>0, <1>0, LimiterFreezesEffect DEF Starts, Gone
  <2>3. \A j \in Keys \ {k} : managed'[j] = managed[j]
    BY <2>0, <1>0, <2>1, LimiterFreezesEffect DEF Starts, Becomes, Dropped, stateVars
  <2>4. State(k)' = "frozen" =>
           \/ "freeze" \in {managed'[k].app, managed'[k].limiter} \/ managed'[k].retry
           \/ pc' \in {"routine", "thaw"} /\ at'.key = k
    <3>1. CASE State(k) = "none" /\ UNCHANGED managed
      BY <3>1 DEF State
    <3>2. CASE managed'[k].limiter = "freeze"
      BY <3>2
    <3> QED  BY <2>0, <1>0, <3>1, <3>2, LimiterFreezesEffect DEF Becomes
  <2> QED  BY <1>0, <2>1, <2>3, <2>4, WantedFrame
<1>18. CASE \E k \in Keys : LimiterThaws(k)
  BY <1>18, <1>0, Places, LimiterThawsEffect DEF WantedOK, Gone, Wanted, Asks, Done, Idle, Goto,
     SamePart, PartStarts, Becomes, Dropped, State, stateVars, ManagedKeys, PartLabels, BusyLabels,
     EntryOK, WishOK
<1>19. CASE \E k \in Keys, force \in BOOLEAN : ThawKeep(k, force)
  BY <1>19, <1>0, Places, ThawKeepEffect DEF WantedOK, Gone, Wanted, Starts, PartStarts, Done,
     Idle, Goto, SamePart, Becomes, Dropped, State, stateVars, ManagedKeys, PartLabels, BusyLabels,
     EntryOK, WishOK
<1>20. CASE \E k \in Keys, force \in BOOLEAN : LimiterReleases(k, force)
  BY <1>20, <1>0, Places, LimiterReleasesEffect DEF WantedOK, Gone, Wanted, Starts, PartStarts,
     Done, Idle, Goto, SamePart, callVars, serviceVars, Becomes, Dropped, State, stateVars,
     ManagedKeys, PartLabels, BusyLabels, EntryOK, WishOK
<1>21. CASE \E k \in Keys, force \in BOOLEAN : ReleaseProcess(k, force)
  BY <1>21, <1>0, Places, ReleaseProcessEffect DEF WantedOK, Gone, Wanted, Lists, Done, Idle,
     Goto, SamePart, PartStarts, Becomes, Dropped, State, stateVars, ManagedKeys, PartLabels,
     BusyLabels, EntryOK, WishOK
<1>22. CASE ReconcilePending
  BY <1>22, <1>0, Places, ReconcilePendingEffect DEF WantedOK, Gone, Wanted, Lists, Done, Idle,
     Goto, SamePart, PartStarts, Becomes, Dropped, State, stateVars, ManagedKeys, PartLabels,
     BusyLabels, EntryOK, WishOK
<1>23. CASE Shutdown
  BY <1>23, <1>0, Places, ShutdownEffect DEF WantedOK, Gone, Wanted, Lists, Done, Idle, Goto,
     SamePart, PartStarts, Becomes, Dropped, State, stateVars, ManagedKeys, PartLabels, BusyLabels,
     EntryOK, WishOK
<1>24. CASE \E k \in Keys : ProcessExits(k)
  BY <1>24, <1>0, Places DEF WantedOK, Gone, Wanted, ProcessExits, callVars, serviceVars,
     Becomes, Dropped, State, stateVars, ManagedKeys, PartLabels, BusyLabels, EntryOK, WishOK
<1>25. CASE \E k \in Keys : ProcessStarts(k)
  BY <1>25, <1>0, Places DEF WantedOK, Gone, Wanted, ProcessStarts, callVars, serviceVars,
     Becomes, Dropped, State, stateVars, ManagedKeys, PartLabels, BusyLabels, EntryOK, WishOK
<1>26. CASE \E k \in Keys : Replay(k)
  BY <1>26, <1>0, Places DEF WantedOK, Gone, Wanted, Replay, callVars, serviceVars, Becomes,
     Dropped, State, stateVars, ManagedKeys, PartLabels, BusyLabels, EntryOK, WishOK
<1>27. CASE Crash
  BY <1>27, <1>0, Places DEF WantedOK, Gone, Wanted, Crash, Done, Idle, Goto, SamePart,
     PartStarts, Becomes, Dropped, State, stateVars, ManagedKeys, PartLabels, BusyLabels, EntryOK,
     WishOK
<1>28. CASE OtherLatches
  BY <1>28, <1>0, Places DEF WantedOK, Gone, Wanted, OtherLatches, Latch, callVars, Becomes,
     Dropped, State, stateVars, ManagedKeys, PartLabels, BusyLabels, EntryOK, WishOK
<1>29. CASE ServiceStep
  BY <1>29, <1>0, Places DEF WantedOK, Gone, Wanted, ServiceStep, ServiceActs, Land, LateLand,
     LateLoss, Called, callVars, Becomes, Dropped, State, stateVars, ManagedKeys, PartLabels,
     BusyLabels, EntryOK, WishOK
<1>30. CASE UNCHANGED suspensionVars
  BY <1>30, <1>0, Places DEF WantedOK, Gone, Wanted, suspensionVars, serviceVars, callVars,
     stateVars, worldVars, State, ManagedKeys
<1> QED  BY <1>1, <1>2, <1>3, <1>4, <1>5, <1>6, <1>7, <1>8, <1>9, <1>10, <1>11, <1>12, <1>13, <1>14,
   <1>15, <1>16, <1>17, <1>18, <1>19, <1>20, <1>21, <1>22, <1>23, <1>24, <1>25, <1>26, <1>27,
   <1>28, <1>29, <1>30, EachStep

\* Releases are for entries nobody wants, pending entries stay so until their turn.
LEMMA TurnStep ==
    IInv /\ [Next]_suspensionVars => TurnOK'
<1> SUFFICES ASSUME IInv, [Next]_suspensionVars PROVE TurnOK'
  OBVIOUS
<1>0. /\ ServiceTypeOK /\ ControlTypes /\ StateTypes /\ WorldTypes /\ BoundTypes
      /\ ServiceInv /\ StepOK /\ RoomOK /\ EntryOK /\ TurnOK /\ WishOK /\ WantedOK
      /\ OwnersOK /\ FrozenOK /\ CallOK /\ LedgerOK /\ RecordOK /\ ClearOK /\ ShutdownThaws
  BY Parts
<1>1. CASE Release
  BY <1>1, <1>0, Places, ReleaseEffect DEF TurnOK, Wanted, StepOK, Freezing, Loops, Done, Idle,
     Goto, SamePart, PartStarts, Becomes, Dropped, State, stateVars, Pending, PartLabels,
     BusyLabels, FreezeLabels, EntryOK
<1>2. CASE Keep
  BY <1>2, <1>0, Places, KeepEffect DEF TurnOK, Wanted, StepOK, Freezing, Loops, Done, Idle,
     Goto, SamePart, PartStarts, Becomes, Dropped, State, stateVars, Pending, PartLabels,
     BusyLabels, FreezeLabels, EntryOK
<1>3. CASE Thaw
  <2>1. pc = "thaw" /\ at.key \in Keys /\ op.todo \subseteq Keys
        /\ at.then \in {"stale", "decide", "next", "idle"}
    BY <1>3, <1>0, Places, ThawEffect DEF PartLabels, BusyLabels
  <2>2. \/ Done("pending") \/ Done("ok") \/ Done(Retained(at.key))
        \/ op' = op /\ at'.key = at.key /\ pc' = "cleanup"
    BY <1>3, <1>0, <2>1, ThawEffect DEF SamePart
  <2>3. \/ pc' = "idle"
        \/ op' = op /\ at'.key = at.key /\ pc' \in {at.then, "cleanup"}
    BY <2>2, DoneFlow
  <2>4. \A j \in Keys : j # at.key => State(j)' = State(j)
    BY <1>3, <1>0, <2>1, ThawEffect DEF Becomes, Dropped, State, stateVars
  <2> QED  BY <1>0, <2>1, <2>3, <2>4 DEF TurnOK, PartLabels
<1>4. CASE FinishCleanup
  <2>1. pc = "cleanup" /\ at.key \in Keys /\ op.todo \subseteq Keys
        /\ at.then \in {"stale", "decide", "next", "idle"}
    BY <1>4, <1>0, Places, FinishCleanupEffect DEF PartLabels, BusyLabels
  <2>2. \/ Done("pending") \/ Done("ok") \/ Done(Retained(at.key))
        \/ op' = op /\ at'.key = at.key /\ pc' = "cleanup"
    BY <1>4, <1>0, <2>1, FinishCleanupEffect DEF SamePart, Ask, callVars
  <2>3. \/ pc' = "idle"
        \/ op' = op /\ at'.key = at.key /\ pc' \in {at.then, "cleanup"}
    BY <2>2, DoneFlow
  <2>4. \A j \in Keys : j # at.key => State(j)' = State(j)
    BY <1>4, <1>0, <2>1, FinishCleanupEffect DEF Becomes, Dropped, State, stateVars, Ask,
       callVars
  <2> QED  BY <1>0, <2>1, <2>3, <2>4 DEF TurnOK, PartLabels
<1>5. CASE ReleaseStale
  BY <1>5, <1>0, Places, ReleaseStaleEffect DEF TurnOK, Wanted, StepOK, Freezing, Loops, Done,
     Idle, Goto, SamePart, PartStarts, Becomes, Dropped, State, stateVars, Pending, PartLabels,
     BusyLabels, FreezeLabels, EntryOK
<1>6. CASE Assign
  BY <1>6, <1>0, Places, AssignEffect DEF TurnOK, Wanted, StepOK, Freezing, Loops, Done, Idle,
     Goto, SamePart, PartStarts, Becomes, Dropped, State, stateVars, Pending, PartLabels,
     BusyLabels, FreezeLabels, EntryOK
<1>7. CASE DecideFreeze
  BY <1>7, <1>0, Places, DecideFreezeEffect DEF TurnOK, Wanted, StepOK, Freezing, Loops, Done,
     Idle, Goto, SamePart, PartStarts, Becomes, Dropped, State, stateVars, Pending, PartLabels,
     BusyLabels, FreezeLabels, EntryOK
<1>8. CASE Refreeze
  BY <1>8, <1>0, Places, RefreezeEffect DEF TurnOK, Wanted, StepOK, Freezing, Loops, Done, Idle,
     Goto, SamePart, PartStarts, Becomes, Dropped, State, stateVars, Pending, PartLabels,
     BusyLabels, FreezeLabels, EntryOK
<1>9. CASE BeginFreeze
  BY <1>9, <1>0, Places, BeginFreezeEffect DEF TurnOK, Wanted, StepOK, Freezing, Loops, Done,
     Idle, Goto, SamePart, PartStarts, Ask, Granted, Denied, callVars, serviceVars, Acknowledge,
     Called, Submit, Abandon, Becomes, Dropped, State, stateVars, Pending, PartLabels, BusyLabels,
     FreezeLabels, EntryOK
<1>10. CASE Freeze
  BY <1>10, <1>0, Places DEF TurnOK, Wanted, StepOK, Freezing, Loops, Freeze, Done, Idle, Goto,
     SamePart, PartStarts, Becomes, Dropped, State, stateVars, Pending, PartLabels, BusyLabels,
     FreezeLabels, EntryOK
<1>11. CASE CancelFreeze
  BY <1>11, <1>0, Places, CancelFreezeEffect DEF TurnOK, Wanted, StepOK, Freezing, Loops, Done,
     Idle, Goto, SamePart, PartStarts, Ask, Granted, Denied, callVars, serviceVars, Acknowledge,
     Called, Submit, Abandon, Becomes, Dropped, State, stateVars, Pending, PartLabels, BusyLabels,
     FreezeLabels, EntryOK
<1>12. CASE CommitFreeze
  BY <1>12, <1>0, Places, CommitFreezeEffect DEF TurnOK, Wanted, StepOK, Freezing, Loops, Done,
     Idle, Goto, SamePart, PartStarts, Ask, Granted, Denied, callVars, serviceVars, Acknowledge,
     Called, Submit, Abandon, Becomes, Dropped, State, stateVars, Pending, PartLabels, BusyLabels,
     FreezeLabels, EntryOK
<1>13. CASE Compensate
  BY <1>13, <1>0, Places, CompensateEffect DEF TurnOK, Wanted, StepOK, Freezing, Loops, Done,
     Idle, Goto, SamePart, PartStarts, Becomes, Dropped, State, stateVars, Pending, PartLabels,
     BusyLabels, FreezeLabels, EntryOK
<1>14. CASE NextKey
  BY <1>14, <1>0, Places, NextKeyEffect DEF TurnOK, Wanted, StepOK, Freezing, Loops, Done, Idle,
     Goto, SamePart, PartStarts, Becomes, Dropped, State, stateVars, Pending, PartLabels,
     BusyLabels, FreezeLabels, EntryOK
<1>15. CASE LoopDone
  BY <1>15, <1>0, Places DEF TurnOK, Wanted, StepOK, Freezing, Loops, LoopDone, Done, Idle,
     Goto, SamePart, PartStarts, Becomes, Dropped, State, stateVars, Pending, PartLabels,
     BusyLabels, FreezeLabels, EntryOK
<1>16. CASE \E k \in Keys : FreezeProcess(k)
  BY <1>16, <1>0, Places, FreezeProcessEffect DEF TurnOK, Wanted, StepOK, Freezing, Loops, Asks,
     Done, Idle, Goto, SamePart, PartStarts, Becomes, Dropped, State, stateVars, Pending,
     PartLabels, BusyLabels, FreezeLabels, EntryOK
<1>17. CASE \E k \in Keys : LimiterFreezes(k)
  BY <1>17, <1>0, Places, LimiterFreezesEffect DEF TurnOK, Wanted, StepOK, Freezing, Loops,
     Starts, Done, Idle, Goto, SamePart, PartStarts, Becomes, Dropped, State, stateVars, Pending,
     PartLabels, BusyLabels, FreezeLabels, EntryOK
<1>18. CASE \E k \in Keys : LimiterThaws(k)
  BY <1>18, <1>0, Places, LimiterThawsEffect DEF TurnOK, Wanted, StepOK, Freezing, Loops, Asks,
     Done, Idle, Goto, SamePart, PartStarts, Becomes, Dropped, State, stateVars, Pending,
     PartLabels, BusyLabels, FreezeLabels, EntryOK
<1>19. CASE \E k \in Keys, force \in BOOLEAN : ThawKeep(k, force)
  BY <1>19, <1>0, Places, ThawKeepEffect DEF TurnOK, Wanted, StepOK, Freezing, Loops, Starts,
     PartStarts, Done, Idle, Goto, SamePart, Becomes, Dropped, State, stateVars, Pending,
     PartLabels, BusyLabels, FreezeLabels, EntryOK
<1>20. CASE \E k \in Keys, force \in BOOLEAN : LimiterReleases(k, force)
  BY <1>20, <1>0, Places, LimiterReleasesEffect DEF TurnOK, Wanted, StepOK, Freezing, Loops,
     Starts, PartStarts, Done, Idle, Goto, SamePart, callVars, serviceVars, Becomes, Dropped,
     State, stateVars, Pending, PartLabels, BusyLabels, FreezeLabels, EntryOK
<1>21. CASE \E k \in Keys, force \in BOOLEAN : ReleaseProcess(k, force)
  BY <1>21, <1>0, Places, ReleaseProcessEffect DEF TurnOK, Wanted, StepOK, Freezing, Loops,
     Lists, Done, Idle, Goto, SamePart, PartStarts, Becomes, Dropped, State, stateVars, Pending,
     PartLabels, BusyLabels, FreezeLabels, EntryOK
<1>22. CASE ReconcilePending
  BY <1>22, <1>0, Places, ReconcilePendingEffect DEF TurnOK, Wanted, StepOK, Freezing, Loops,
     Lists, Done, Idle, Goto, SamePart, PartStarts, Becomes, Dropped, State, stateVars, Pending,
     PartLabels, BusyLabels, FreezeLabels, EntryOK
<1>23. CASE Shutdown
  BY <1>23, <1>0, Places, ShutdownEffect DEF TurnOK, Wanted, StepOK, Freezing, Loops, Lists,
     Done, Idle, Goto, SamePart, PartStarts, Becomes, Dropped, State, stateVars, Pending,
     PartLabels, BusyLabels, FreezeLabels, EntryOK
<1>24. CASE \E k \in Keys : ProcessExits(k)
  BY <1>24, <1>0, Places DEF TurnOK, Wanted, StepOK, Freezing, Loops, ProcessExits, callVars,
     serviceVars, Becomes, Dropped, State, stateVars, Pending, PartLabels, BusyLabels,
     FreezeLabels, EntryOK
<1>25. CASE \E k \in Keys : ProcessStarts(k)
  BY <1>25, <1>0, Places DEF TurnOK, Wanted, StepOK, Freezing, Loops, ProcessStarts, callVars,
     serviceVars, Becomes, Dropped, State, stateVars, Pending, PartLabels, BusyLabels,
     FreezeLabels, EntryOK
<1>26. CASE \E k \in Keys : Replay(k)
  BY <1>26, <1>0, Places DEF TurnOK, Wanted, StepOK, Freezing, Loops, Replay, callVars,
     serviceVars, Becomes, Dropped, State, stateVars, Pending, PartLabels, BusyLabels,
     FreezeLabels, EntryOK
<1>27. CASE Crash
  BY <1>27, <1>0, Places DEF TurnOK, Wanted, StepOK, Freezing, Loops, Crash, Done, Idle, Goto,
     SamePart, PartStarts, Becomes, Dropped, State, stateVars, Pending, PartLabels, BusyLabels,
     FreezeLabels, EntryOK
<1>28. CASE OtherLatches
  BY <1>28, <1>0, Places DEF TurnOK, Wanted, StepOK, Freezing, Loops, OtherLatches, Latch,
     callVars, Becomes, Dropped, State, stateVars, Pending, PartLabels, BusyLabels, FreezeLabels,
     EntryOK
<1>29. CASE ServiceStep
  BY <1>29, <1>0, Places DEF TurnOK, Wanted, StepOK, Freezing, Loops, ServiceStep, ServiceActs,
     Land, LateLand, LateLoss, Called, callVars, Becomes, Dropped, State, stateVars, Pending,
     PartLabels, BusyLabels, FreezeLabels, EntryOK
<1>30. CASE UNCHANGED suspensionVars
  BY <1>30, <1>0, Places DEF TurnOK, Wanted, StepOK, Freezing, Loops, suspensionVars,
     serviceVars, callVars, stateVars, worldVars, State
<1> QED  BY <1>1, <1>2, <1>3, <1>4, <1>5, <1>6, <1>7, <1>8, <1>9, <1>10, <1>11, <1>12, <1>13, <1>14,
   <1>15, <1>16, <1>17, <1>18, <1>19, <1>20, <1>21, <1>22, <1>23, <1>24, <1>25, <1>26, <1>27,
   <1>28, <1>29, <1>30, EachStep

\* The command under way is the one of the label.
LEMMA CallStep ==
    IInv /\ [Next]_suspensionVars => CallOK'
<1> SUFFICES ASSUME IInv, [Next]_suspensionVars PROVE CallOK'
  OBVIOUS
<1>0. /\ ServiceTypeOK /\ ControlTypes /\ StateTypes /\ WorldTypes /\ BoundTypes
      /\ ServiceInv /\ StepOK /\ RoomOK /\ EntryOK /\ TurnOK /\ WishOK /\ WantedOK
      /\ OwnersOK /\ FrozenOK /\ CallOK /\ LedgerOK /\ RecordOK /\ ClearOK /\ ShutdownThaws
  BY Parts
<1>1. CASE Release
  BY <1>1, <1>0, Places, ReleaseEffect DEF CallOK, IntentLabels, ServiceInv, Done, Idle, Goto,
     SamePart, PartStarts, PartLabels, BusyLabels, StepOK, callVars, serviceVars
<1>2. CASE Keep
  BY <1>2, <1>0, Places, KeepEffect DEF CallOK, IntentLabels, ServiceInv, Done, Idle, Goto,
     SamePart, PartStarts, PartLabels, BusyLabels, StepOK, callVars, serviceVars
<1>3. CASE Thaw
  BY <1>3, <1>0, Places, ThawEffect DEF CallOK, IntentLabels, ServiceInv, Done, Idle, Goto,
     SamePart, PartStarts, PartLabels, BusyLabels, StepOK, callVars, serviceVars
<1>4. CASE FinishCleanup
  BY <1>4, <1>0, Places, FinishCleanupEffect, SubmitCall, CommandTypes, FrozenEdgeType DEF
     CallOK, IntentLabels, ServiceInv, Done, Idle, Goto, SamePart, PartStarts, Ask, Granted,
     Denied, callVars, serviceVars, Acknowledge, Called, Abandon, PartLabels, BusyLabels, StepOK
<1>5. CASE ReleaseStale
  BY <1>5, <1>0, Places, ReleaseStaleEffect DEF CallOK, IntentLabels, ServiceInv, Done, Idle,
     Goto, SamePart, PartStarts, PartLabels, BusyLabels, StepOK, callVars, serviceVars
<1>6. CASE Assign
  BY <1>6, <1>0, Places, AssignEffect DEF CallOK, IntentLabels, ServiceInv, Done, Idle, Goto,
     SamePart, PartStarts, PartLabels, BusyLabels, StepOK, callVars, serviceVars
<1>7. CASE DecideFreeze
  BY <1>7, <1>0, Places, DecideFreezeEffect DEF CallOK, IntentLabels, ServiceInv, Done, Idle,
     Goto, SamePart, PartStarts, PartLabels, BusyLabels, StepOK, callVars, serviceVars
<1>8. CASE Refreeze
  BY <1>8, <1>0, Places, RefreezeEffect DEF CallOK, IntentLabels, ServiceInv, Done, Idle, Goto,
     SamePart, PartStarts, PartLabels, BusyLabels, StepOK, callVars, serviceVars
<1>9. CASE BeginFreeze
  <2>1. CASE /\ nextId \in Ids /\ Submit(Begin(nextId, op.key, FrozenEdge))
             /\ at'.id = nextId /\ UNCHANGED <<pc, op>> /\ pc = "begin" /\ op.key \in Keys
    <3>1. Begin(nextId, op.key, FrozenEdge) \in Commands
      BY <2>1, CommandTypes, FrozenEdgeType
    <3>2. /\ call'.command = Begin(nextId, op.key, FrozenEdge) /\ call'.phase = "sent"
          /\ latched' = latched
      BY <3>1, <2>1, SubmitCall
    <3> QED  BY <2>1, <3>2 DEF CallOK, IntentLabels
  <2>2. CASE Granted /\ Goto("freeze")
    BY <2>2, <1>0 DEF CallOK, IntentLabels, Granted, Acknowledge, Called, Goto, ServiceInv
  <2>3. CASE (Denied \/ (call = NoCall /\ UNCHANGED serviceVars)) /\ Idle("idle")
    BY <2>3 DEF CallOK, IntentLabels, Denied, Abandon, serviceVars, Idle
  <2> QED  BY <2>1, <2>2, <2>3, <1>9, <1>0, BeginFreezeEffect
<1>10. CASE Freeze
  BY <1>10, <1>0, Places DEF CallOK, IntentLabels, ServiceInv, Freeze, Done, Idle, Goto,
     SamePart, PartStarts, PartLabels, BusyLabels, StepOK, callVars, serviceVars
<1>11. CASE CancelFreeze
  BY <1>11, <1>0, Places, CancelFreezeEffect, SubmitCall, CommandTypes, FrozenEdgeType DEF
     CallOK, IntentLabels, ServiceInv, Done, Idle, Goto, SamePart, PartStarts, Ask, Granted,
     Denied, callVars, serviceVars, Acknowledge, Called, Abandon, PartLabels, BusyLabels, StepOK
<1>12. CASE CommitFreeze
  BY <1>12, <1>0, Places, CommitFreezeEffect, SubmitCall, CommandTypes, FrozenEdgeType DEF
     CallOK, IntentLabels, ServiceInv, Done, Idle, Goto, SamePart, PartStarts, Ask, Granted,
     Denied, callVars, serviceVars, Acknowledge, Called, Abandon, PartLabels, BusyLabels, StepOK
<1>13. CASE Compensate
  BY <1>13, <1>0, Places, CompensateEffect DEF CallOK, IntentLabels, ServiceInv, Done, Idle,
     Goto, SamePart, PartStarts, PartLabels, BusyLabels, StepOK, callVars, serviceVars
<1>14. CASE NextKey
  BY <1>14, <1>0, Places, NextKeyEffect DEF CallOK, IntentLabels, ServiceInv, Done, Idle, Goto,
     SamePart, PartStarts, PartLabels, BusyLabels, StepOK, callVars, serviceVars
<1>15. CASE LoopDone
  BY <1>15, <1>0, Places DEF CallOK, IntentLabels, ServiceInv, LoopDone, Done, Idle, Goto,
     SamePart, PartStarts, PartLabels, BusyLabels, StepOK, callVars, serviceVars
<1>16. CASE \E k \in Keys : FreezeProcess(k)
  BY <1>16, <1>0, Places, FreezeProcessEffect DEF CallOK, IntentLabels, ServiceInv, Asks, Done,
     Idle, Goto, SamePart, PartStarts, PartLabels, BusyLabels, StepOK, callVars, serviceVars
<1>17. CASE \E k \in Keys : LimiterFreezes(k)
  BY <1>17, <1>0, Places, LimiterFreezesEffect DEF CallOK, IntentLabels, ServiceInv, Starts,
     Done, Idle, Goto, SamePart, PartStarts, PartLabels, BusyLabels, StepOK, callVars, serviceVars
<1>18. CASE \E k \in Keys : LimiterThaws(k)
  BY <1>18, <1>0, Places, LimiterThawsEffect DEF CallOK, IntentLabels, ServiceInv, Asks, Done,
     Idle, Goto, SamePart, PartStarts, PartLabels, BusyLabels, StepOK, callVars, serviceVars
<1>19. CASE \E k \in Keys, force \in BOOLEAN : ThawKeep(k, force)
  BY <1>19, <1>0, Places, ThawKeepEffect DEF CallOK, IntentLabels, ServiceInv, Starts,
     PartStarts, Done, Idle, Goto, SamePart, PartLabels, BusyLabels, StepOK, callVars, serviceVars
<1>20. CASE \E k \in Keys, force \in BOOLEAN : LimiterReleases(k, force)
  BY <1>20, <1>0, Places, LimiterReleasesEffect DEF CallOK, IntentLabels, ServiceInv, Starts,
     PartStarts, Done, Idle, Goto, SamePart, callVars, serviceVars, PartLabels, BusyLabels, StepOK
<1>21. CASE \E k \in Keys, force \in BOOLEAN : ReleaseProcess(k, force)
  BY <1>21, <1>0, Places, ReleaseProcessEffect DEF CallOK, IntentLabels, ServiceInv, Lists,
     Done, Idle, Goto, SamePart, PartStarts, PartLabels, BusyLabels, StepOK, callVars, serviceVars
<1>22. CASE ReconcilePending
  BY <1>22, <1>0, Places, ReconcilePendingEffect DEF CallOK, IntentLabels, ServiceInv, Lists,
     Done, Idle, Goto, SamePart, PartStarts, PartLabels, BusyLabels, StepOK, callVars, serviceVars
<1>23. CASE Shutdown
  BY <1>23, <1>0, Places, ShutdownEffect DEF CallOK, IntentLabels, ServiceInv, Lists, Done,
     Idle, Goto, SamePart, PartStarts, PartLabels, BusyLabels, StepOK, callVars, serviceVars
<1>24. CASE \E k \in Keys : ProcessExits(k)
  BY <1>24, <1>0, Places DEF CallOK, IntentLabels, ServiceInv, ProcessExits, callVars,
     serviceVars, PartLabels, BusyLabels, StepOK
<1>25. CASE \E k \in Keys : ProcessStarts(k)
  BY <1>25, <1>0, Places DEF CallOK, IntentLabels, ServiceInv, ProcessStarts, callVars,
     serviceVars, PartLabels, BusyLabels, StepOK
<1>26. CASE \E k \in Keys : Replay(k)
  BY <1>26, <1>0, Places DEF CallOK, IntentLabels, ServiceInv, Replay, callVars, serviceVars,
     PartLabels, BusyLabels, StepOK
<1>27. CASE Crash
  BY <1>27, <1>0, Places DEF CallOK, IntentLabels, ServiceInv, Crash, Abandon, Latch, Idle,
     Called, PartLabels, BusyLabels, StepOK, callVars, serviceVars
<1>28. CASE OtherLatches
  BY <1>28, <1>0, Places DEF CallOK, IntentLabels, ServiceInv, OtherLatches, Latch, callVars,
     PartLabels, BusyLabels, StepOK, serviceVars
<1>29. CASE ServiceStep
  BY <1>29, <1>0, Places, LandCall DEF CallOK, IntentLabels, ServiceInv, ServiceStep,
     ServiceActs, LateLand, LateLoss, callVars, PartLabels, BusyLabels, StepOK, serviceVars
<1>30. CASE UNCHANGED suspensionVars
  BY <1>30, <1>0, Places DEF CallOK, IntentLabels, ServiceInv, suspensionVars, serviceVars,
     callVars, stateVars, worldVars, State
<1> QED  BY <1>1, <1>2, <1>3, <1>4, <1>5, <1>6, <1>7, <1>8, <1>9, <1>10, <1>11, <1>12, <1>13, <1>14,
   <1>15, <1>16, <1>17, <1>18, <1>19, <1>20, <1>21, <1>22, <1>23, <1>24, <1>25, <1>26, <1>27,
   <1>28, <1>29, <1>30, EachStep

LEMMA ServiceKept == IInv /\ [Next]_suspensionVars => ServiceInv' /\ ServiceTypeOK'
BY Parts, ServiceMoves, ServiceStep_Inv DEF ServiceInv

--------------------------------------------------------------------------------
(***************************************************************************)
(* The journal, as long as the service answers.                            *)
(***************************************************************************)
\* Nothing is said of the journal of a latched service, nor after a crash.
LEMMA LedgerVoid == latched' \/ pc' = "dead" => LedgerOK'
BY DEF LedgerOK

\* An entry is armed as before, and no command has landed.
LEMMA LedgerQuiet ==
    ASSUME LedgerOK, pc # "dead", journal' = journal, latched' = latched, ~Landed, ~Landed',
           pc \notin IntentLabels, pc' \notin IntentLabels,
           \A k \in Keys : Armed(k)' <=> Armed(k)
    PROVE  LedgerOK'
BY DEF LedgerOK, Open, Kept, IntentLabels

\* A change of an entry that arms or disarms nothing.
LEMMA ArmedSame ==
    ASSUME NEW k \in Keys, \A j \in Keys \ {k} : managed'[j] = managed[j],
           \/ managed'[k] = managed[k]
           \/ /\ managed[k] # NoManaged /\ managed'[k] # NoManaged
              /\ managed'[k].armed = managed[k].armed
           \/ managed'[k] = NoManaged /\ ~Armed(k)
           \/ managed[k] = NoManaged /\ ~managed'[k].armed
    PROVE  \A j \in Keys : Armed(j)' <=> Armed(j)
BY DEF Armed

\* What landed at a label, and what is open there.
LEMMA NotLanded ==
    ASSUME CallOK, pc \notin {"begin", "commit", "cancel", "cleanup"}
    PROVE  call = NoCall /\ ~Landed
BY DEF CallOK, Landed, Called

\* The command under way takes effect; an abandoned one only once the service is latched.
LEMMA LedgerLand == IInv /\ Land /\ UNCHANGED <<callVars, stateVars, worldVars>> => LedgerOK'
<1> SUFFICES ASSUME IInv, Land, UNCHANGED <<callVars, stateVars, worldVars>> PROVE LedgerOK'
  OBVIOUS
<1>0. /\ ServiceTypeOK /\ ServiceInv /\ StepOK /\ EntryOK /\ CallOK /\ LedgerOK /\ RecordOK
  BY Parts
<1>1. /\ call # NoCall /\ call.phase = "sent" /\ call'.phase = "landed" /\ call' # NoCall
      /\ journal' = Apply(journal, call.command) /\ latched' = latched
  BY <1>0, LandCall
<1>2. ~latched /\ ~Landed /\ Landed'
  BY <1>0, <1>1 DEF ServiceInv, Landed, Called
<1>3. OneRecord(journal)
  BY <1>0 DEF RecordOK, Futures
<1>4. UNCHANGED <<pc, op, at, managed>> /\ pc \in {"begin", "commit", "cancel", "cleanup"}
  BY <1>0, <1>1 DEF callVars, stateVars, CallOK
<1>5. op.key \in Keys
  BY <1>0, <1>4, Places DEF BusyLabels, PartLabels, FreezeLabels
<1>6. /\ journal.pending = IF Open THEN {[id |-> at.id, key |-> op.key, edge |-> FrozenEdge]} ELSE {}
      /\ \A k \in Keys : journal.committed[k] # << >> <=> Kept(k)
  BY <1>0, <1>2, <1>4 DEF LedgerOK
<1>7. \A k \in Keys : Armed(k)' <=> Armed(k)
  BY <1>4 DEF Armed
<1>8. CASE pc = "begin"
  <2>1. call.command = Begin(at.id, op.key, FrozenEdge) /\ at.id \in Ids
    BY <1>0, <1>1, <1>8 DEF CallOK, StepOK
  <2>2. ~Open /\ Open' /\ ~Armed(op.key)
    BY <1>0, <1>2, <1>4, <1>8 DEF Open, EntryOK, FreezeLabels, Armed
  <2>3. journal.committed[op.key] = << >> /\ journal.pending = {}
    BY <1>5, <1>6, <1>8, <2>2 DEF Kept
  <2>4. journal' = ApplyBegin(journal, at.id, op.key, FrozenEdge)
    BY <1>1, <2>1, Applies
  <2>5. /\ journal'.committed = journal.committed
        /\ journal'.pending = {[id |-> at.id, key |-> op.key, edge |-> FrozenEdge]}
    BY <1>3, <1>5, <2>1, <2>3, <2>4, OneBegin, FrozenEdgeType
  <2>6. \A k \in Keys : Kept(k)' <=> Kept(k)
    BY <1>4, <1>7, <1>8 DEF Kept
  <2> QED  BY <1>4, <1>6, <2>2, <2>5, <2>6 DEF LedgerOK
<1>9. CASE pc = "commit"
  <2>1. call.command = Commit(at.id) /\ at.id \in Ids
    BY <1>0, <1>1, <1>9 DEF CallOK, StepOK, IntentLabels
  <2>2. Open /\ ~Open'
    BY <1>2, <1>4, <1>9 DEF Open
  <2>3. journal' = ApplyCommit(journal, at.id)
    BY <1>1, <2>1, Applies
  <2>4. /\ journal'.pending = {} /\ journal'.committed[op.key] = <<FrozenEdge>>
        /\ \A j \in Keys \ {op.key} : journal'.committed[j] = journal.committed[j]
    BY <1>3, <1>5, <1>6, <2>1, <2>2, <2>3, OneCommit, FrozenEdgeType
  <2>5. \A k \in Keys : Kept(k)' <=> Kept(k) \/ k = op.key
    BY <1>2, <1>4, <1>7, <1>9 DEF Kept
  <2>6. <<FrozenEdge>> # << >>
    OBVIOUS
  <2> QED  BY <1>4, <1>5, <1>6, <2>2, <2>4, <2>5, <2>6 DEF LedgerOK
<1>10. CASE pc = "cancel"
  <2>1. call.command = Cancel(at.id) /\ at.id \in Ids
    BY <1>0, <1>1, <1>10 DEF CallOK, StepOK, IntentLabels
  <2>2. Open /\ ~Open'
    BY <1>2, <1>4, <1>10 DEF Open
  <2>3. journal' = ApplyCancel(journal, at.id)
    BY <1>1, <2>1, Applies
  <2>4. journal'.pending = {} /\ journal'.committed = journal.committed
    BY <1>3, <1>5, <1>6, <2>1, <2>2, <2>3, FrozenEdgeType, OneCancel
  <2>5. \A k \in Keys : Kept(k)' <=> Kept(k)
    BY <1>4, <1>7, <1>10 DEF Kept
  <2> QED  BY <1>4, <1>6, <2>2, <2>4, <2>5 DEF LedgerOK
<1>11. CASE pc = "cleanup"
  <2>1. call.command = Forget(at.key) /\ at.key \in Keys
    BY <1>0, <1>1, <1>11, Places DEF CallOK, PartLabels
  <2>2. ~Open /\ ~Open'
    BY <1>4, <1>11 DEF Open
  <2>3. journal' = ApplyForget(journal, at.key)
    BY <1>1, <2>1, Applies
  <2>4. /\ journal'.pending = {} /\ journal'.committed[at.key] = << >>
        /\ \A j \in Keys \ {at.key} : journal'.committed[j] = journal.committed[j]
    BY <1>3, <1>6, <2>1, <2>2, <2>3, OneForget
  <2>5. \A k \in Keys : Kept(k)' <=> Kept(k) /\ k # at.key
    BY <1>2, <1>4, <1>7, <1>11 DEF Kept
  <2> QED  BY <1>4, <1>6, <2>1, <2>2, <2>4, <2>5 DEF LedgerOK
<1> QED  BY <1>4, <1>8, <1>9, <1>10, <1>11

LEMMA LedgerService == IInv /\ ServiceStep => LedgerOK'
<1> SUFFICES ASSUME IInv, ServiceStep PROVE LedgerOK'
  OBVIOUS
<1>0. ServiceInv /\ LedgerOK
  BY Parts
<1>1. CASE Land
  BY <1>1, LedgerLand DEF ServiceStep
<1>2. CASE LateLand
  BY <1>0, <1>2, LedgerVoid DEF LateLand, ServiceInv
<1>3. CASE LateLoss
  BY <1>0, <1>3, LedgerVoid DEF LateLoss, ServiceInv
<1> QED  BY <1>1, <1>2, <1>3 DEF ServiceStep, ServiceActs

\* While the service answers, its journal is what the controller believes.
LEMMA LedgerStep ==
    IInv /\ [Next]_suspensionVars => LedgerOK'
<1> SUFFICES ASSUME IInv, [Next]_suspensionVars PROVE LedgerOK'
  OBVIOUS
<1>0. /\ ServiceTypeOK /\ ControlTypes /\ StateTypes /\ WorldTypes /\ BoundTypes
      /\ ServiceInv /\ StepOK /\ RoomOK /\ EntryOK /\ TurnOK /\ WishOK /\ WantedOK
      /\ OwnersOK /\ FrozenOK /\ CallOK /\ LedgerOK /\ RecordOK /\ ClearOK /\ ShutdownThaws
  BY Parts
<1>1. CASE Release
  <2>1. pc \notin {"dead", "begin", "commit", "cancel", "freeze", "cleanup"} /\ call = NoCall /\ ~Landed
    BY <1>1, <1>0, ReleaseEffect, NotLanded
  <2>2. pc' \notin IntentLabels /\ UNCHANGED serviceVars
    BY <1>1, <1>0, ReleaseEffect, <2>1, Places, DoneFlow DEF Idle, Goto, SamePart, PartLabels,
       IntentLabels, callVars
  <2>3. at.key \in Keys
    BY <1>1, <1>0, ReleaseEffect, <2>1, Places DEF PartLabels, BusyLabels
  <2>4. \A j \in Keys \ {at.key} : managed'[j] = managed[j]
    BY <1>1, <1>0, ReleaseEffect, <2>3 DEF Becomes, Dropped
  <2>5. \/ managed'[at.key] = managed[at.key]
        \/ /\ managed[at.key] # NoManaged /\ managed'[at.key] # NoManaged
           /\ managed'[at.key].armed = managed[at.key].armed
        \/ managed'[at.key] = NoManaged /\ ~Armed(at.key)
        \/ managed[at.key] = NoManaged /\ ~managed'[at.key].armed
    BY <1>1, <1>0, ReleaseEffect, <2>1, <2>3 DEF Becomes, Dropped, State, Armed, EntryOK,
       OwnersOK, StateTypes
  <2>6. \A j \in Keys : Armed(j)' <=> Armed(j)
    BY <2>3, <2>4, <2>5, ArmedSame
  <2>7. /\ journal' = journal /\ latched' = latched /\ ~Landed' /\ pc \notin IntentLabels
    BY <2>1, <2>2 DEF serviceVars, Landed, Called, IntentLabels
  <2> QED  BY <1>0, <2>1, <2>2, <2>6, <2>7, LedgerQuiet
<1>2. CASE Keep
  <2>1. pc \notin {"dead", "begin", "commit", "cancel", "freeze", "cleanup"} /\ call = NoCall /\ ~Landed
    BY <1>2, <1>0, KeepEffect, NotLanded
  <2>2. pc' \notin IntentLabels /\ UNCHANGED serviceVars
    BY <1>2, <1>0, KeepEffect, <2>1, Places, DoneFlow DEF Idle, Goto, SamePart, PartLabels,
       IntentLabels, callVars
  <2>3. at.key \in Keys
    BY <1>2, <1>0, KeepEffect, <2>1, Places DEF PartLabels, BusyLabels
  <2>4. \A j \in Keys \ {at.key} : managed'[j] = managed[j]
    BY <1>2, <1>0, KeepEffect, <2>3 DEF Becomes, Dropped
  <2>5. \/ managed'[at.key] = managed[at.key]
        \/ /\ managed[at.key] # NoManaged /\ managed'[at.key] # NoManaged
           /\ managed'[at.key].armed = managed[at.key].armed
        \/ managed'[at.key] = NoManaged /\ ~Armed(at.key)
        \/ managed[at.key] = NoManaged /\ ~managed'[at.key].armed
    BY <1>2, <1>0, KeepEffect, <2>1, <2>3 DEF Becomes, Dropped, State, Armed, EntryOK, OwnersOK,
       StateTypes
  <2>6. \A j \in Keys : Armed(j)' <=> Armed(j)
    BY <2>3, <2>4, <2>5, ArmedSame
  <2>7. /\ journal' = journal /\ latched' = latched /\ ~Landed' /\ pc \notin IntentLabels
    BY <2>1, <2>2 DEF serviceVars, Landed, Called, IntentLabels
  <2> QED  BY <1>0, <2>1, <2>2, <2>6, <2>7, LedgerQuiet
<1>3. CASE Thaw
  <2>1. pc \notin {"dead", "begin", "commit", "cancel", "freeze", "cleanup"} /\ call = NoCall /\ ~Landed
    BY <1>3, <1>0, ThawEffect, NotLanded
  <2>2. pc' \notin IntentLabels /\ UNCHANGED serviceVars
    BY <1>3, <1>0, ThawEffect, <2>1, Places, DoneFlow DEF Idle, Goto, SamePart, PartLabels,
       IntentLabels, callVars
  <2>3. at.key \in Keys
    BY <1>3, <1>0, ThawEffect, <2>1, Places DEF PartLabels, BusyLabels
  <2>4. \A j \in Keys \ {at.key} : managed'[j] = managed[j]
    BY <1>3, <1>0, ThawEffect, <2>3 DEF Becomes, Dropped
  <2>5. \/ managed'[at.key] = managed[at.key]
        \/ /\ managed[at.key] # NoManaged /\ managed'[at.key] # NoManaged
           /\ managed'[at.key].armed = managed[at.key].armed
        \/ managed'[at.key] = NoManaged /\ ~Armed(at.key)
        \/ managed[at.key] = NoManaged /\ ~managed'[at.key].armed
    BY <1>3, <1>0, ThawEffect, <2>1, <2>3 DEF Becomes, Dropped, State, Armed, EntryOK, OwnersOK,
       StateTypes
  <2>6. \A j \in Keys : Armed(j)' <=> Armed(j)
    BY <2>3, <2>4, <2>5, ArmedSame
  <2>7. /\ journal' = journal /\ latched' = latched /\ ~Landed' /\ pc \notin IntentLabels
    BY <2>1, <2>2 DEF serviceVars, Landed, Called, IntentLabels
  <2> QED  BY <1>0, <2>1, <2>2, <2>6, <2>7, LedgerQuiet
<1>4. CASE FinishCleanup
  <2>1. pc = "cleanup" /\ at.key \in Keys
    BY <1>4, <1>0, FinishCleanupEffect, Places DEF PartLabels
  <2>2. PICK k \in Keys : k = at.key
    BY <2>1
  <2>3. CASE Done("pending") /\ UNCHANGED <<serviceVars, managed>> /\ call = NoCall
    <3>1. pc' \notin IntentLabels
      BY <2>1, <2>3, <1>0, DoneFlow, Places DEF IntentLabels, PartLabels
    <3> QED  BY <2>1, <2>3, <3>1, <1>0, LedgerQuiet DEF serviceVars, Landed, Called, IntentLabels, Armed
  <2>4. CASE Ask(Forget(at.key))
    <3>1. /\ call = NoCall /\ call'.phase = "sent" /\ UNCHANGED <<journal, latched>>
          /\ UNCHANGED <<pc, managed>>
      BY <2>1, <2>4, SubmitCall, CommandTypes DEF Ask, callVars, stateVars
    <3> QED  BY <2>1, <3>1, <1>0, LedgerQuiet DEF Landed, Called, IntentLabels, Armed
  <2>5. CASE /\ Granted /\ Done("ok")
             /\ \A j \in Keys \ {k} : managed'[j] = managed[j]
             /\ managed'[k] = NoManaged \/ ~managed'[k].armed
    <3>1. Landed /\ call' = NoCall /\ UNCHANGED <<journal, latched>>
      BY <2>5 DEF Granted, Acknowledge, Landed
    <3>2. ~Open
      BY <2>1 DEF Open
    <3>3. ~Open'
      BY <2>1, <2>5, <3>1, <1>0, DoneFlow, Places DEF Open, PartLabels, Landed, Called
    <3>4. \A j \in Keys : Kept(j)' <=> Armed(j)'
      BY <3>1 DEF Kept, Landed, Called
    <3>5. \A j \in Keys : Kept(j) <=> Armed(j) /\ j # k
      BY <2>1, <2>2, <3>1 DEF Kept
    <3>6. \A j \in Keys : Armed(j)' <=> Armed(j) /\ j # k
      BY <2>5 DEF Armed
    <3>7. \A j \in Keys : Kept(j)' <=> Kept(j)
      BY <3>4, <3>5, <3>6
    <3> QED  BY <2>1, <3>1, <3>2, <3>3, <3>7, <1>0 DEF LedgerOK
  <2>6. CASE Denied
    BY <2>6, LedgerVoid DEF Denied, Abandon, serviceVars
  <2> QED  BY <2>2, <2>3, <2>4, <2>5, <2>6, <1>4, <1>0, FinishCleanupEffect DEF Becomes, Dropped
<1>5. CASE ReleaseStale
  <2>1. pc \notin {"dead", "begin", "commit", "cancel", "freeze", "cleanup"} /\ call = NoCall /\ ~Landed
    BY <1>5, <1>0, ReleaseStaleEffect, NotLanded
  <2>2. pc' \notin IntentLabels /\ UNCHANGED serviceVars
    BY <1>5, <1>0, ReleaseStaleEffect, <2>1, Places, DoneFlow DEF Idle, Goto, SamePart,
       PartLabels, IntentLabels, callVars
  <2>3. op.key \in Keys
    BY <1>5, <1>0, ReleaseStaleEffect, <2>1, Places DEF PartLabels, BusyLabels
  <2>4. \A j \in Keys \ {op.key} : managed'[j] = managed[j]
    BY <1>5, <1>0, ReleaseStaleEffect, <2>3 DEF Becomes, Dropped
  <2>5. \/ managed'[op.key] = managed[op.key]
        \/ /\ managed[op.key] # NoManaged /\ managed'[op.key] # NoManaged
           /\ managed'[op.key].armed = managed[op.key].armed
        \/ managed'[op.key] = NoManaged /\ ~Armed(op.key)
        \/ managed[op.key] = NoManaged /\ ~managed'[op.key].armed
    BY <1>5, <1>0, ReleaseStaleEffect, <2>1, <2>3 DEF Becomes, Dropped, State, Armed, EntryOK,
       OwnersOK, StateTypes
  <2>6. \A j \in Keys : Armed(j)' <=> Armed(j)
    BY <2>3, <2>4, <2>5, ArmedSame
  <2>7. /\ journal' = journal /\ latched' = latched /\ ~Landed' /\ pc \notin IntentLabels
    BY <2>1, <2>2 DEF serviceVars, Landed, Called, IntentLabels
  <2> QED  BY <1>0, <2>1, <2>2, <2>6, <2>7, LedgerQuiet
<1>6. CASE Assign
  <2>1. pc \notin {"dead", "begin", "commit", "cancel", "freeze", "cleanup"} /\ call = NoCall /\ ~Landed
    BY <1>6, <1>0, AssignEffect, NotLanded
  <2>2. pc' \notin IntentLabels /\ UNCHANGED serviceVars
    BY <1>6, <1>0, AssignEffect, <2>1, Places, DoneFlow DEF Idle, Goto, SamePart, PartLabels,
       IntentLabels, callVars
  <2>3. op.key \in Keys
    BY <1>6, <1>0, AssignEffect, <2>1, Places DEF PartLabels, BusyLabels
  <2>4. \A j \in Keys \ {op.key} : managed'[j] = managed[j]
    BY <1>6, <1>0, AssignEffect, <2>3 DEF Becomes, Dropped
  <2>5. \/ managed'[op.key] = managed[op.key]
        \/ /\ managed[op.key] # NoManaged /\ managed'[op.key] # NoManaged
           /\ managed'[op.key].armed = managed[op.key].armed
        \/ managed'[op.key] = NoManaged /\ ~Armed(op.key)
        \/ managed[op.key] = NoManaged /\ ~managed'[op.key].armed
    <3>1. State(op.key) = "none" /\ managed[op.key] \in Entry \cup {NoManaged}
      BY <2>1, <2>3, <1>6, <1>0, AssignEffect DEF OwnersOK, StateTypes
    <3>2. managed[op.key] = NoManaged
      BY <3>1, EntryFields DEF State, States
    <3>3. UNCHANGED managed \/ ~managed'[op.key].armed
      BY <1>6, <1>0, AssignEffect DEF Becomes
    <3> QED  BY <3>2, <3>3
  <2>6. \A j \in Keys : Armed(j)' <=> Armed(j)
    BY <2>3, <2>4, <2>5, ArmedSame
  <2>7. /\ journal' = journal /\ latched' = latched /\ ~Landed' /\ pc \notin IntentLabels
    BY <2>1, <2>2 DEF serviceVars, Landed, Called, IntentLabels
  <2> QED  BY <1>0, <2>1, <2>2, <2>6, <2>7, LedgerQuiet
<1>7. CASE DecideFreeze
  <2>1. pc \notin {"dead", "begin", "commit", "cancel", "freeze", "cleanup"} /\ call = NoCall /\ ~Landed
    BY <1>7, <1>0, DecideFreezeEffect, NotLanded
  <2>2. pc' \notin IntentLabels /\ UNCHANGED serviceVars
    BY <1>7, <1>0, DecideFreezeEffect, <2>1, Places, DoneFlow DEF Idle, Goto, SamePart,
       PartLabels, IntentLabels, callVars
  <2>6. \A j \in Keys : Armed(j)' <=> Armed(j)
    BY <1>7, <1>0, DecideFreezeEffect DEF Armed, stateVars
  <2>7. /\ journal' = journal /\ latched' = latched /\ ~Landed' /\ pc \notin IntentLabels
    BY <2>1, <2>2 DEF serviceVars, Landed, Called, IntentLabels
  <2> QED  BY <1>0, <2>1, <2>2, <2>6, <2>7, LedgerQuiet
<1>8. CASE Refreeze
  <2>1. pc \notin {"dead", "begin", "commit", "cancel", "freeze", "cleanup"} /\ call = NoCall /\ ~Landed
    BY <1>8, <1>0, RefreezeEffect, NotLanded
  <2>2. pc' \notin IntentLabels /\ UNCHANGED serviceVars
    BY <1>8, <1>0, RefreezeEffect, <2>1, Places, DoneFlow DEF Idle, Goto, SamePart, PartLabels,
       IntentLabels, callVars
  <2>3. op.key \in Keys
    BY <1>8, <1>0, RefreezeEffect, <2>1, Places DEF PartLabels, BusyLabels
  <2>4. \A j \in Keys \ {op.key} : managed'[j] = managed[j]
    BY <1>8, <1>0, RefreezeEffect, <2>3 DEF Becomes, Dropped
  <2>5. \/ managed'[op.key] = managed[op.key]
        \/ /\ managed[op.key] # NoManaged /\ managed'[op.key] # NoManaged
           /\ managed'[op.key].armed = managed[op.key].armed
        \/ managed'[op.key] = NoManaged /\ ~Armed(op.key)
        \/ managed[op.key] = NoManaged /\ ~managed'[op.key].armed
    BY <1>8, <1>0, RefreezeEffect, <2>1, <2>3 DEF Becomes, Dropped, State, Armed, EntryOK,
       OwnersOK, StateTypes
  <2>6. \A j \in Keys : Armed(j)' <=> Armed(j)
    BY <2>3, <2>4, <2>5, ArmedSame
  <2>7. /\ journal' = journal /\ latched' = latched /\ ~Landed' /\ pc \notin IntentLabels
    BY <2>1, <2>2 DEF serviceVars, Landed, Called, IntentLabels
  <2> QED  BY <1>0, <2>1, <2>2, <2>6, <2>7, LedgerQuiet
<1>9. CASE BeginFreeze
  <2>1. /\ pc = "begin" /\ op.key \in Keys /\ ~Armed(op.key)
    BY <1>9, <1>0, BeginFreezeEffect DEF EntryOK, FreezeLabels, Armed
  <2>2. CASE /\ Submit(Begin(nextId, op.key, FrozenEdge)) /\ nextId \in Ids /\ UNCHANGED <<pc, managed>>
    <3>1. call = NoCall /\ call'.phase = "sent" /\ UNCHANGED <<journal, latched>>
      BY <2>1, <2>2, SubmitCall, CommandTypes, FrozenEdgeType
    <3> QED  BY <2>1, <2>2, <3>1, <1>0, LedgerQuiet DEF Landed, Called, IntentLabels, Armed
  <2>3. CASE Granted /\ Goto("freeze") /\ UNCHANGED stateVars
    <3>1. Landed /\ ~Landed' /\ UNCHANGED <<journal, latched, op, at, managed>> /\ pc' = "freeze"
      BY <2>3 DEF Granted, Acknowledge, Landed, Called, Goto, stateVars
    <3>2. Open /\ Open'
      BY <2>1, <3>1 DEF Open
    <3>3. \A j \in Keys : Kept(j)' <=> Kept(j)
      BY <2>1, <3>1 DEF Kept, Armed
    <3> QED  BY <2>1, <3>1, <3>2, <3>3, <1>0 DEF LedgerOK
  <2>4. CASE Denied
    BY <2>4, LedgerVoid DEF Denied, Abandon, serviceVars
  <2>5. CASE call = NoCall /\ UNCHANGED serviceVars /\ Dropped(op.key) /\ Idle("idle")
    <3>1. ~Landed /\ ~Landed' /\ UNCHANGED <<journal, latched>> /\ pc' = "idle"
      BY <2>5 DEF serviceVars, Landed, Called, Idle
    <3>2. \A j \in Keys : Armed(j)' <=> Armed(j)
      BY <2>1, <2>5, ArmedSame DEF Dropped
    <3> QED  BY <2>1, <3>1, <3>2, <1>0, LedgerQuiet DEF IntentLabels
  <2> QED  BY <2>2, <2>3, <2>4, <2>5, <1>9, <1>0, BeginFreezeEffect
<1>10. CASE Freeze
  <2>1. /\ pc = "freeze" /\ pc' \in {"commit", "cancel"} /\ call = NoCall
        /\ UNCHANGED <<serviceVars, managed, op, at>>
    BY <1>10, <1>0, NotLanded DEF Freeze, Goto, stateVars
  <2>2. Open /\ Open' /\ UNCHANGED <<journal, latched>>
    BY <2>1 DEF Open, Landed, Called, serviceVars
  <2>3. \A j \in Keys : Kept(j)' <=> Kept(j)
    BY <2>1 DEF Kept, Armed, Landed, Called, serviceVars
  <2> QED  BY <2>1, <2>2, <2>3, <1>0 DEF LedgerOK
<1>11. CASE CancelFreeze
  <2>1. pc = "cancel" /\ op.key \in Keys /\ at.id \in Ids /\ ~Armed(op.key)
    BY <1>11, <1>0, CancelFreezeEffect DEF StepOK, EntryOK, FreezeLabels, IntentLabels, Armed
  <2>2. CASE Ask(Cancel(at.id))
    <3>1. /\ call = NoCall /\ call'.phase = "sent" /\ UNCHANGED <<journal, latched>>
          /\ UNCHANGED <<pc, op, at, managed>>
      BY <2>1, <2>2, SubmitCall, CommandTypes DEF Ask, callVars, stateVars
    <3>2. ~Landed /\ ~Landed'
      BY <3>1 DEF Landed, Called
    <3>3. Open /\ Open' /\ \A j \in Keys : Kept(j)' <=> Kept(j)
      BY <2>1, <3>1, <3>2 DEF Open, Kept, Armed
    <3> QED  BY <2>1, <3>1, <3>3, <1>0 DEF LedgerOK
  <2>3. CASE Granted /\ Dropped(op.key) /\ Idle("idle")
    <3>1. Landed /\ ~Landed' /\ UNCHANGED <<journal, latched>> /\ pc' = "idle"
      BY <2>3 DEF Granted, Acknowledge, Landed, Called, Idle
    <3>2. ~Open /\ ~Open'
      BY <2>1, <3>1 DEF Open
    <3>3. \A j \in Keys : Armed(j)' <=> Armed(j)
      BY <2>1, <2>3, ArmedSame DEF Dropped
    <3>4. \A j \in Keys : Kept(j)' <=> Kept(j)
      BY <2>1, <3>1, <3>3 DEF Kept
    <3> QED  BY <2>1, <3>1, <3>2, <3>4, <1>0 DEF LedgerOK
  <2>4. CASE Denied
    BY <2>4, LedgerVoid DEF Denied, Abandon, serviceVars
  <2> QED  BY <2>2, <2>3, <2>4, <1>11, <1>0, CancelFreezeEffect
<1>12. CASE CommitFreeze
  <2>1. pc = "commit" /\ op.key \in Keys /\ at.id \in Ids
    BY <1>12, <1>0, CommitFreezeEffect DEF StepOK, IntentLabels
  <2>2. CASE Ask(Commit(at.id))
    <3>1. /\ call = NoCall /\ call'.phase = "sent" /\ UNCHANGED <<journal, latched>>
          /\ UNCHANGED <<pc, op, at, managed>>
      BY <2>1, <2>2, SubmitCall, CommandTypes DEF Ask, callVars, stateVars
    <3>2. ~Landed /\ ~Landed'
      BY <3>1 DEF Landed, Called
    <3>3. Open /\ Open' /\ \A j \in Keys : Kept(j)' <=> Kept(j)
      BY <2>1, <3>1, <3>2 DEF Open, Kept, Armed
    <3> QED  BY <2>1, <3>1, <3>3, <1>0 DEF LedgerOK
  <2>3. CASE /\ Granted /\ Idle("idle")
             /\ \A j \in Keys \ {op.key} : managed'[j] = managed[j]
             /\ managed'[op.key] # NoManaged /\ managed'[op.key].armed
    <3>1. Landed /\ ~Landed' /\ UNCHANGED <<journal, latched>> /\ pc' = "idle"
      BY <2>3 DEF Granted, Acknowledge, Landed, Called, Idle
    <3>2. ~Open /\ ~Open'
      BY <2>1, <3>1 DEF Open
    <3>3. \A j \in Keys : Kept(j)' <=> Armed(j)'
      BY <3>1 DEF Kept
    <3>4. \A j \in Keys : Kept(j) <=> Armed(j) \/ j = op.key
      BY <2>1, <3>1 DEF Kept
    <3>5. \A j \in Keys : Armed(j)' <=> Armed(j) \/ j = op.key
      BY <2>3 DEF Armed
    <3>6. \A j \in Keys : Kept(j)' <=> Kept(j)
      BY <3>3, <3>4, <3>5
    <3> QED  BY <2>1, <3>1, <3>2, <3>6, <1>0 DEF LedgerOK
  <2>4. CASE Denied
    BY <2>4, LedgerVoid DEF Denied, Abandon, serviceVars
  <2> QED  BY <2>2, <2>3, <2>4, <1>12, <1>0, CommitFreezeEffect DEF Becomes
<1>13. CASE Compensate
  BY <1>13, <1>0, CompensateEffect, LedgerVoid DEF CallOK, serviceVars
<1>14. CASE NextKey
  <2>1. pc = "next" /\ call = NoCall /\ ~Landed /\ UNCHANGED serviceVars
    BY <1>14, <1>0, NextKeyEffect, NotLanded
  <2>2. pc' \in {"routine", "cleanup"}
    BY <1>14, <1>0, NextKeyEffect
  <2>3. PICK k \in Keys : /\ \A j \in Keys \ {k} : managed'[j] = managed[j]
                         /\ \/ managed' = managed
                            \/ State(k) # "none" /\ managed'[k] # NoManaged
                               /\ managed'[k].armed = managed[k].armed
    BY <1>14, <1>0, NextKeyEffect DEF Becomes
  <2>4. \A j \in Keys : Armed(j)' <=> Armed(j)
    BY <2>3 DEF Armed, State
  <2>5. /\ journal' = journal /\ latched' = latched /\ ~Landed'
        /\ pc \notin IntentLabels /\ pc' \notin IntentLabels
    BY <2>1, <2>2 DEF serviceVars, Landed, Called, IntentLabels
  <2> QED  BY <1>0, <2>1, <2>4, <2>5, LedgerQuiet
<1>15. CASE LoopDone
  <2>1. pc \notin {"dead", "begin", "commit", "cancel", "freeze", "cleanup"} /\ call = NoCall /\ ~Landed
    BY <1>15, <1>0, NotLanded DEF LoopDone
  <2>2. pc' \notin IntentLabels /\ UNCHANGED serviceVars
    BY <1>15, <1>0, <2>1, Places, DoneFlow DEF LoopDone, Idle, Goto, SamePart, PartLabels,
       IntentLabels, callVars
  <2>6. \A j \in Keys : Armed(j)' <=> Armed(j)
    BY <1>15, <1>0 DEF LoopDone, Armed, stateVars
  <2>7. /\ journal' = journal /\ latched' = latched /\ ~Landed' /\ pc \notin IntentLabels
    BY <2>1, <2>2 DEF serviceVars, Landed, Called, IntentLabels
  <2> QED  BY <1>0, <2>1, <2>2, <2>6, <2>7, LedgerQuiet
<1>16. CASE \E k \in Keys : FreezeProcess(k)
  <2>1. pc \notin {"dead", "begin", "commit", "cancel", "freeze", "cleanup"} /\ call = NoCall /\ ~Landed
    BY <1>16, <1>0, FreezeProcessEffect, NotLanded DEF Asks
  <2>2. pc' \notin IntentLabels /\ UNCHANGED serviceVars
    BY <1>16, <1>0, FreezeProcessEffect, <2>1, Places, DoneFlow DEF Asks, Idle, Goto, SamePart,
       PartLabels, IntentLabels, callVars
  <2>6. \A j \in Keys : Armed(j)' <=> Armed(j)
    BY <1>16, <1>0, FreezeProcessEffect DEF Asks, Armed, stateVars
  <2>7. /\ journal' = journal /\ latched' = latched /\ ~Landed' /\ pc \notin IntentLabels
    BY <2>1, <2>2 DEF serviceVars, Landed, Called, IntentLabels
  <2> QED  BY <1>0, <2>1, <2>2, <2>6, <2>7, LedgerQuiet
<1>17. CASE \E k \in Keys : LimiterFreezes(k)
  <2>0. PICK k \in Keys : LimiterFreezes(k)
    BY <1>17
  <2>1. pc \notin {"dead", "begin", "commit", "cancel", "freeze", "cleanup"} /\ call = NoCall /\ ~Landed
    BY <2>0, <1>0, LimiterFreezesEffect, NotLanded DEF Starts
  <2>2. pc' \notin IntentLabels /\ UNCHANGED serviceVars
    BY <2>0, <1>0, LimiterFreezesEffect, <2>1, Places, DoneFlow DEF Starts, Idle, Goto,
       SamePart, PartLabels, IntentLabels, callVars
  <2>3. k \in Keys
    BY <2>0, <1>0, LimiterFreezesEffect, <2>1, Places DEF Starts, PartLabels, BusyLabels
  <2>4. \A j \in Keys \ {k} : managed'[j] = managed[j]
    BY <2>0, <1>0, LimiterFreezesEffect, <2>3 DEF Starts, Becomes, Dropped
  <2>5. \/ managed'[k] = managed[k]
        \/ /\ managed[k] # NoManaged /\ managed'[k] # NoManaged
           /\ managed'[k].armed = managed[k].armed
        \/ managed'[k] = NoManaged /\ ~Armed(k)
        \/ managed[k] = NoManaged /\ ~managed'[k].armed
    BY <2>0, <1>0, LimiterFreezesEffect, <2>1, <2>3 DEF Starts, Becomes, Dropped, State, Armed,
       EntryOK, OwnersOK, StateTypes
  <2>6. \A j \in Keys : Armed(j)' <=> Armed(j)
    BY <2>3, <2>4, <2>5, ArmedSame
  <2>7. /\ journal' = journal /\ latched' = latched /\ ~Landed' /\ pc \notin IntentLabels
    BY <2>1, <2>2 DEF serviceVars, Landed, Called, IntentLabels
  <2> QED  BY <1>0, <2>1, <2>2, <2>6, <2>7, LedgerQuiet
<1>18. CASE \E k \in Keys : LimiterThaws(k)
  <2>1. pc \notin {"dead", "begin", "commit", "cancel", "freeze", "cleanup"} /\ call = NoCall /\ ~Landed
    BY <1>18, <1>0, LimiterThawsEffect, NotLanded DEF Asks
  <2>2. pc' \notin IntentLabels /\ UNCHANGED serviceVars
    BY <1>18, <1>0, LimiterThawsEffect, <2>1, Places, DoneFlow DEF Asks, Idle, Goto, SamePart,
       PartLabels, IntentLabels, callVars
  <2>6. \A j \in Keys : Armed(j)' <=> Armed(j)
    BY <1>18, <1>0, LimiterThawsEffect DEF Asks, Armed, stateVars
  <2>7. /\ journal' = journal /\ latched' = latched /\ ~Landed' /\ pc \notin IntentLabels
    BY <2>1, <2>2 DEF serviceVars, Landed, Called, IntentLabels
  <2> QED  BY <1>0, <2>1, <2>2, <2>6, <2>7, LedgerQuiet
<1>19. CASE \E k \in Keys, force \in BOOLEAN : ThawKeep(k, force)
  <2>0. PICK k \in Keys, force \in BOOLEAN : ThawKeep(k, force)
    BY <1>19
  <2>1. pc \notin {"dead", "begin", "commit", "cancel", "freeze", "cleanup"} /\ call = NoCall /\ ~Landed
    BY <2>0, <1>0, ThawKeepEffect, NotLanded DEF Starts, PartStarts
  <2>2. pc' \notin IntentLabels /\ UNCHANGED serviceVars
    BY <2>0, <1>0, ThawKeepEffect, <2>1, Places, DoneFlow DEF Starts, PartStarts, Idle, Goto,
       SamePart, PartLabels, IntentLabels, callVars
  <2>3. k \in Keys
    BY <2>0, <1>0, ThawKeepEffect, <2>1, Places DEF Starts, PartStarts, PartLabels, BusyLabels
  <2>4. \A j \in Keys \ {k} : managed'[j] = managed[j]
    BY <2>0, <1>0, ThawKeepEffect, <2>3 DEF Starts, PartStarts, Becomes, Dropped
  <2>5. \/ managed'[k] = managed[k]
        \/ /\ managed[k] # NoManaged /\ managed'[k] # NoManaged
           /\ managed'[k].armed = managed[k].armed
        \/ managed'[k] = NoManaged /\ ~Armed(k)
        \/ managed[k] = NoManaged /\ ~managed'[k].armed
    BY <2>0, <1>0, ThawKeepEffect, <2>1, <2>3 DEF Starts, PartStarts, Becomes, Dropped, State,
       Armed, EntryOK, OwnersOK, StateTypes
  <2>6. \A j \in Keys : Armed(j)' <=> Armed(j)
    BY <2>3, <2>4, <2>5, ArmedSame
  <2>7. /\ journal' = journal /\ latched' = latched /\ ~Landed' /\ pc \notin IntentLabels
    BY <2>1, <2>2 DEF serviceVars, Landed, Called, IntentLabels
  <2> QED  BY <1>0, <2>1, <2>2, <2>6, <2>7, LedgerQuiet
<1>20. CASE \E k \in Keys, force \in BOOLEAN : LimiterReleases(k, force)
  <2>0. PICK k \in Keys, force \in BOOLEAN : LimiterReleases(k, force)
    BY <1>20
  <2>1. pc \notin {"dead", "begin", "commit", "cancel", "freeze", "cleanup"} /\ call = NoCall /\ ~Landed
    BY <2>0, <1>0, LimiterReleasesEffect, NotLanded DEF Starts, PartStarts
  <2>2. pc' \notin IntentLabels /\ UNCHANGED serviceVars
    BY <2>0, <1>0, LimiterReleasesEffect, <2>1, Places, DoneFlow DEF Starts, PartStarts, Idle,
       Goto, SamePart, PartLabels, IntentLabels, callVars
  <2>3. k \in Keys
    BY <2>0, <1>0, LimiterReleasesEffect, <2>1, Places DEF Starts, PartStarts, PartLabels,
       BusyLabels
  <2>4. \A j \in Keys \ {k} : managed'[j] = managed[j]
    BY <2>0, <1>0, LimiterReleasesEffect, <2>3 DEF Starts, PartStarts, Becomes, Dropped
  <2>5. \/ managed'[k] = managed[k]
        \/ /\ managed[k] # NoManaged /\ managed'[k] # NoManaged
           /\ managed'[k].armed = managed[k].armed
        \/ managed'[k] = NoManaged /\ ~Armed(k)
        \/ managed[k] = NoManaged /\ ~managed'[k].armed
    BY <2>0, <1>0, LimiterReleasesEffect, <2>1, <2>3 DEF Starts, PartStarts, Becomes, Dropped,
       State, Armed, EntryOK, OwnersOK, StateTypes
  <2>6. \A j \in Keys : Armed(j)' <=> Armed(j)
    BY <2>3, <2>4, <2>5, ArmedSame
  <2>7. /\ journal' = journal /\ latched' = latched /\ ~Landed' /\ pc \notin IntentLabels
    BY <2>1, <2>2 DEF serviceVars, Landed, Called, IntentLabels
  <2> QED  BY <1>0, <2>1, <2>2, <2>6, <2>7, LedgerQuiet
<1>21. CASE \E k \in Keys, force \in BOOLEAN : ReleaseProcess(k, force)
  <2>1. pc \notin {"dead", "begin", "commit", "cancel", "freeze", "cleanup"} /\ call = NoCall /\ ~Landed
    BY <1>21, <1>0, ReleaseProcessEffect, NotLanded DEF Lists
  <2>2. pc' \notin IntentLabels /\ UNCHANGED serviceVars
    BY <1>21, <1>0, ReleaseProcessEffect, <2>1, Places, DoneFlow DEF Lists, Idle, Goto,
       SamePart, PartLabels, IntentLabels, callVars
  <2>6. \A j \in Keys : Armed(j)' <=> Armed(j)
    BY <1>21, <1>0, ReleaseProcessEffect DEF Lists, Armed, stateVars
  <2>7. /\ journal' = journal /\ latched' = latched /\ ~Landed' /\ pc \notin IntentLabels
    BY <2>1, <2>2 DEF serviceVars, Landed, Called, IntentLabels
  <2> QED  BY <1>0, <2>1, <2>2, <2>6, <2>7, LedgerQuiet
<1>22. CASE ReconcilePending
  <2>1. pc \notin {"dead", "begin", "commit", "cancel", "freeze", "cleanup"} /\ call = NoCall /\ ~Landed
    BY <1>22, <1>0, ReconcilePendingEffect, NotLanded DEF Lists
  <2>2. pc' \notin IntentLabels /\ UNCHANGED serviceVars
    BY <1>22, <1>0, ReconcilePendingEffect, <2>1, Places, DoneFlow DEF Lists, Idle, Goto,
       SamePart, PartLabels, IntentLabels, callVars
  <2>6. \A j \in Keys : Armed(j)' <=> Armed(j)
    BY <1>22, <1>0, ReconcilePendingEffect DEF Lists, Armed, stateVars
  <2>7. /\ journal' = journal /\ latched' = latched /\ ~Landed' /\ pc \notin IntentLabels
    BY <2>1, <2>2 DEF serviceVars, Landed, Called, IntentLabels
  <2> QED  BY <1>0, <2>1, <2>2, <2>6, <2>7, LedgerQuiet
<1>23. CASE Shutdown
  <2>1. pc \notin {"dead", "begin", "commit", "cancel", "freeze", "cleanup"} /\ call = NoCall /\ ~Landed
    BY <1>23, <1>0, ShutdownEffect, NotLanded DEF Lists
  <2>2. pc' \notin IntentLabels /\ UNCHANGED serviceVars
    BY <1>23, <1>0, ShutdownEffect, <2>1, Places, DoneFlow DEF Lists, Idle, Goto, SamePart,
       PartLabels, IntentLabels, callVars
  <2>6. \A j \in Keys : Armed(j)' <=> Armed(j)
    BY <1>23, <1>0, ShutdownEffect DEF Lists, Armed, stateVars
  <2>7. /\ journal' = journal /\ latched' = latched /\ ~Landed' /\ pc \notin IntentLabels
    BY <2>1, <2>2 DEF serviceVars, Landed, Called, IntentLabels
  <2> QED  BY <1>0, <2>1, <2>2, <2>6, <2>7, LedgerQuiet
<1>24. CASE \E k \in Keys : ProcessExits(k)
  BY <1>24, <1>0 DEF ProcessExits, LedgerOK, Open, Kept, Armed, Landed, Called, serviceVars,
     callVars, stateVars
<1>25. CASE \E k \in Keys : ProcessStarts(k)
  BY <1>25, <1>0 DEF ProcessStarts, LedgerOK, Open, Kept, Armed, Landed, Called, serviceVars,
     callVars, stateVars
<1>26. CASE \E k \in Keys : Replay(k)
  BY <1>26, <1>0 DEF Replay, LedgerOK, Open, Kept, Armed, Landed, Called, serviceVars, callVars,
     stateVars
<1>27. CASE Crash
  BY <1>27, LedgerVoid DEF Crash, Idle, Latch
<1>28. CASE OtherLatches
  BY <1>28, LedgerVoid DEF OtherLatches, Idle, Latch
<1>29. CASE ServiceStep
  BY <1>29, LedgerService
<1>30. CASE UNCHANGED suspensionVars
  BY <1>30, <1>0 DEF suspensionVars, serviceVars, callVars, stateVars, worldVars, State,
     LedgerOK, Open, Kept, Armed, Landed, Called
<1> QED  BY <1>1, <1>2, <1>3, <1>4, <1>5, <1>6, <1>7, <1>8, <1>9, <1>10, <1>11, <1>12, <1>13, <1>14,
   <1>15, <1>16, <1>17, <1>18, <1>19, <1>20, <1>21, <1>22, <1>23, <1>24, <1>25, <1>26, <1>27,
   <1>28, <1>29, <1>30, EachStep

--------------------------------------------------------------------------------
(***************************************************************************)
(* The journals that the helper may find.                                  *)
(***************************************************************************)
\* A job that is frozen, or may be frozen again without a new intent.
Exposed(k) == frozen[k] \/ (State(k) \in {"thawed", "frozen"} /\ managed[k].armed)

LEMMA RecordFrame ==
    ASSUME RecordOK, Futures' \subseteq Futures, \A k \in Keys : Exposed(k)' => Exposed(k)
    PROVE  RecordOK'
BY DEF RecordOK, Exposed

\* No step but a freeze exposes a job.
LEMMA ExposedStep ==
    IInv /\ [Next]_suspensionVars /\ ~Freeze => \A k \in Keys : Exposed(k)' => Exposed(k)
<1> SUFFICES ASSUME IInv, [Next]_suspensionVars, ~Freeze PROVE \A k \in Keys : Exposed(k)' => Exposed(k)
  OBVIOUS
<1>0. /\ ServiceTypeOK /\ ControlTypes /\ StateTypes /\ WorldTypes /\ BoundTypes
      /\ ServiceInv /\ StepOK /\ RoomOK /\ EntryOK /\ TurnOK /\ WishOK /\ WantedOK
      /\ OwnersOK /\ FrozenOK /\ CallOK /\ LedgerOK /\ RecordOK /\ ClearOK /\ ShutdownThaws
  BY Parts
<1>1. CASE Release
  <2>1. at.key \in Keys
    BY <1>1, <1>0, ReleaseEffect, Places DEF PartLabels, BusyLabels
  <2>2. PICK k \in Keys : k = at.key
    BY <2>1
  <2>3. \A j \in Keys \ {k} : managed'[j] = managed[j] /\ frozen'[j] = frozen[j]
    BY <1>1, <1>0, ReleaseEffect, <2>1, <2>2 DEF Becomes, Dropped, stateVars, worldVars,
       WorldTypes
  <2>4. Exposed(k)' => Exposed(k)
    BY <1>1, <1>0, ReleaseEffect, <2>1, <2>2, EntryFields DEF Exposed, State, Becomes, Dropped,
       stateVars, worldVars, WorldTypes, StateTypes, EntryOK, FrozenOK, Gone
  <2> QED  BY <1>0, <2>3, <2>4 DEF Exposed, State
<1>2. CASE Keep
  <2>1. at.key \in Keys
    BY <1>2, <1>0, KeepEffect, Places DEF PartLabels, BusyLabels
  <2>2. PICK k \in Keys : k = at.key
    BY <2>1
  <2>3. \A j \in Keys \ {k} : managed'[j] = managed[j] /\ frozen'[j] = frozen[j]
    BY <1>2, <1>0, KeepEffect, <2>1, <2>2 DEF Becomes, Dropped, stateVars, worldVars, WorldTypes
  <2>4. Exposed(k)' => Exposed(k)
    BY <1>2, <1>0, KeepEffect, <2>1, <2>2, EntryFields DEF Exposed, State, Becomes, Dropped,
       stateVars, worldVars, WorldTypes, StateTypes, EntryOK, FrozenOK, Gone
  <2> QED  BY <1>0, <2>3, <2>4 DEF Exposed, State
<1>3. CASE Thaw
  <2>1. at.key \in Keys
    BY <1>3, <1>0, ThawEffect, Places DEF PartLabels, BusyLabels
  <2>2. PICK k \in Keys : k = at.key
    BY <2>1
  <2>3. \A j \in Keys \ {k} : managed'[j] = managed[j] /\ frozen'[j] = frozen[j]
    BY <1>3, <1>0, ThawEffect, <2>1, <2>2 DEF Becomes, Dropped, stateVars, worldVars, WorldTypes
  <2>4. Exposed(k)' => Exposed(k)
    BY <1>3, <1>0, ThawEffect, <2>1, <2>2, EntryFields DEF Exposed, State, Becomes, Dropped,
       stateVars, worldVars, WorldTypes, StateTypes, EntryOK, FrozenOK, Gone
  <2> QED  BY <1>0, <2>3, <2>4 DEF Exposed, State
<1>4. CASE FinishCleanup
  <2>1. at.key \in Keys
    BY <1>4, <1>0, FinishCleanupEffect, Places DEF PartLabels, BusyLabels
  <2>2. PICK k \in Keys : k = at.key
    BY <2>1
  <2>3. \A j \in Keys \ {k} : managed'[j] = managed[j] /\ frozen'[j] = frozen[j]
    BY <1>4, <1>0, FinishCleanupEffect, <2>1, <2>2 DEF Becomes, Dropped, stateVars, worldVars,
       WorldTypes, Ask
  <2>4. Exposed(k)' => Exposed(k)
    BY <1>4, <1>0, FinishCleanupEffect, <2>1, <2>2, EntryFields DEF Exposed, State, Becomes,
       Dropped, stateVars, worldVars, WorldTypes, StateTypes, EntryOK, FrozenOK, Gone, Ask
  <2> QED  BY <1>0, <2>3, <2>4 DEF Exposed, State
<1>5. CASE ReleaseStale
  <2>1. op.key \in Keys
    BY <1>5, <1>0, ReleaseStaleEffect, Places DEF PartLabels, BusyLabels
  <2>2. PICK k \in Keys : k = op.key
    BY <2>1
  <2>3. \A j \in Keys \ {k} : managed'[j] = managed[j] /\ frozen'[j] = frozen[j]
    BY <1>5, <1>0, ReleaseStaleEffect, <2>1, <2>2 DEF Becomes, Dropped, stateVars, worldVars,
       WorldTypes
  <2>4. Exposed(k)' => Exposed(k)
    BY <1>5, <1>0, ReleaseStaleEffect, <2>1, <2>2, EntryFields DEF Exposed, State, Becomes,
       Dropped, stateVars, worldVars, WorldTypes, StateTypes, EntryOK, FrozenOK, Gone, OwnersOK,
       FreezeLabels
  <2> QED  BY <1>0, <2>3, <2>4 DEF Exposed, State
<1>6. CASE Assign
  <2>1. op.key \in Keys
    BY <1>6, <1>0, AssignEffect, Places DEF PartLabels, BusyLabels
  <2>2. PICK k \in Keys : k = op.key
    BY <2>1
  <2>3. \A j \in Keys \ {k} : managed'[j] = managed[j] /\ frozen'[j] = frozen[j]
    BY <1>6, <1>0, AssignEffect, <2>1, <2>2 DEF Becomes, Dropped, stateVars, worldVars,
       WorldTypes
  <2>4. Exposed(k)' => Exposed(k)
    BY <1>6, <1>0, AssignEffect, <2>1, <2>2, EntryFields DEF Exposed, State, Becomes, Dropped,
       stateVars, worldVars, WorldTypes, StateTypes, EntryOK, FrozenOK, Gone, OwnersOK,
       FreezeLabels
  <2> QED  BY <1>0, <2>3, <2>4 DEF Exposed, State
<1>7. CASE DecideFreeze
  BY <1>7, <1>0, DecideFreezeEffect DEF stateVars, worldVars, Exposed, State
<1>8. CASE Refreeze
  <2>1. op.key \in Keys
    BY <1>8, <1>0, RefreezeEffect, Places DEF PartLabels, BusyLabels
  <2>2. PICK k \in Keys : k = op.key
    BY <2>1
  <2>3. \A j \in Keys \ {k} : managed'[j] = managed[j] /\ frozen'[j] = frozen[j]
    BY <1>8, <1>0, RefreezeEffect, <2>1, <2>2 DEF Becomes, Dropped, stateVars, worldVars,
       WorldTypes
  <2>4. Exposed(k)' => Exposed(k)
    BY <1>8, <1>0, RefreezeEffect, <2>1, <2>2, EntryFields DEF Exposed, State, Becomes, Dropped,
       stateVars, worldVars, WorldTypes, StateTypes, EntryOK, FrozenOK, Gone, OwnersOK,
       FreezeLabels
  <2> QED  BY <1>0, <2>3, <2>4 DEF Exposed, State
<1>9. CASE BeginFreeze
  <2>1. op.key \in Keys
    BY <1>9, <1>0, BeginFreezeEffect, Places DEF PartLabels, BusyLabels
  <2>2. PICK k \in Keys : k = op.key
    BY <2>1
  <2>3. \A j \in Keys \ {k} : managed'[j] = managed[j] /\ frozen'[j] = frozen[j]
    BY <1>9, <1>0, BeginFreezeEffect, <2>1, <2>2 DEF Becomes, Dropped, stateVars, worldVars,
       WorldTypes, Ask
  <2>4. Exposed(k)' => Exposed(k)
    BY <1>9, <1>0, BeginFreezeEffect, <2>1, <2>2, EntryFields DEF Exposed, State, Becomes,
       Dropped, stateVars, worldVars, WorldTypes, StateTypes, EntryOK, FrozenOK, Gone, Ask,
       FreezeLabels
  <2> QED  BY <1>0, <2>3, <2>4 DEF Exposed, State
<1>10. CASE Freeze
  BY <1>10
<1>11. CASE CancelFreeze
  <2>1. op.key \in Keys
    BY <1>11, <1>0, CancelFreezeEffect, Places DEF PartLabels, BusyLabels
  <2>2. PICK k \in Keys : k = op.key
    BY <2>1
  <2>3. \A j \in Keys \ {k} : managed'[j] = managed[j] /\ frozen'[j] = frozen[j]
    BY <1>11, <1>0, CancelFreezeEffect, <2>1, <2>2 DEF Becomes, Dropped, stateVars, worldVars,
       WorldTypes, Ask
  <2>4. Exposed(k)' => Exposed(k)
    BY <1>11, <1>0, CancelFreezeEffect, <2>1, <2>2, EntryFields DEF Exposed, State, Becomes,
       Dropped, stateVars, worldVars, WorldTypes, StateTypes, EntryOK, FrozenOK, Gone, Ask,
       FreezeLabels
  <2> QED  BY <1>0, <2>3, <2>4 DEF Exposed, State
<1>12. CASE CommitFreeze
  <2>1. op.key \in Keys
    BY <1>12, <1>0, CommitFreezeEffect, Places DEF PartLabels, BusyLabels
  <2>2. PICK k \in Keys : k = op.key
    BY <2>1
  <2>3. \A j \in Keys \ {k} : managed'[j] = managed[j] /\ frozen'[j] = frozen[j]
    BY <1>12, <1>0, CommitFreezeEffect, <2>1, <2>2 DEF Becomes, Dropped, stateVars, worldVars,
       WorldTypes, Ask
  <2>4. Exposed(k)' => Exposed(k)
    BY <1>12, <1>0, CommitFreezeEffect, <2>1, <2>2, EntryFields DEF Exposed, State, Becomes,
       Dropped, stateVars, worldVars, WorldTypes, StateTypes, EntryOK, FrozenOK, Gone, Ask,
       FreezeLabels
  <2> QED  BY <1>0, <2>3, <2>4 DEF Exposed, State
<1>13. CASE Compensate
  <2>1. op.key \in Keys
    BY <1>13, <1>0, CompensateEffect, Places DEF PartLabels, BusyLabels
  <2>2. PICK k \in Keys : k = op.key
    BY <2>1
  <2>3. \A j \in Keys \ {k} : managed'[j] = managed[j] /\ frozen'[j] = frozen[j]
    BY <1>13, <1>0, CompensateEffect, <2>1, <2>2 DEF Becomes, Dropped, stateVars, worldVars,
       WorldTypes
  <2>4. Exposed(k)' => Exposed(k)
    BY <1>13, <1>0, CompensateEffect, <2>1, <2>2, EntryFields DEF Exposed, State, Becomes,
       Dropped, stateVars, worldVars, WorldTypes, StateTypes, EntryOK, FrozenOK, Gone, OwnersOK,
       FreezeLabels
  <2> QED  BY <1>0, <2>3, <2>4 DEF Exposed, State
<1>14. CASE NextKey
  <2>1. PICK k \in Keys : /\ \A j \in Keys \ {k} : managed'[j] = managed[j]
                         /\ \/ managed' = managed
                            \/ /\ State(k) # "none" /\ managed'[k] # NoManaged
                               /\ managed'[k].state = managed[k].state
                               /\ managed'[k].armed = managed[k].armed
    BY <1>14, <1>0, NextKeyEffect DEF Becomes
  <2>2. frozen' = frozen
    BY <1>14, <1>0, NextKeyEffect DEF worldVars
  <2> QED  BY <2>1, <2>2 DEF Exposed, State
<1>15. CASE LoopDone
  BY <1>15, <1>0 DEF LoopDone, stateVars, worldVars, Exposed, State
<1>16. CASE \E k \in Keys : FreezeProcess(k)
  BY <1>16, <1>0, FreezeProcessEffect DEF Asks, stateVars, worldVars, Exposed, State
<1>17. CASE \E k \in Keys : LimiterFreezes(k)
  <2>1. PICK k \in Keys : /\ \A j \in Keys \ {k} : managed'[j] = managed[j]
                         /\ \/ managed' = managed
                            \/ /\ State(k) # "none" /\ managed'[k] # NoManaged
                               /\ managed'[k].state = managed[k].state
                               /\ managed'[k].armed = managed[k].armed
    BY <1>17, <1>0, LimiterFreezesEffect DEF Becomes
  <2>2. frozen' = frozen
    BY <1>17, <1>0, LimiterFreezesEffect DEF worldVars
  <2> QED  BY <2>1, <2>2 DEF Exposed, State
<1>18. CASE \E k \in Keys : LimiterThaws(k)
  BY <1>18, <1>0, LimiterThawsEffect DEF Asks, stateVars, worldVars, Exposed, State
<1>19. CASE \E k \in Keys, force \in BOOLEAN : ThawKeep(k, force)
  <2>1. PICK k \in Keys : /\ \A j \in Keys \ {k} : managed'[j] = managed[j]
                         /\ \/ managed' = managed
                            \/ /\ State(k) # "none" /\ managed'[k] # NoManaged
                               /\ managed'[k].state = managed[k].state
                               /\ managed'[k].armed = managed[k].armed
    BY <1>19, <1>0, ThawKeepEffect DEF Becomes
  <2>2. frozen' = frozen
    BY <1>19, <1>0, ThawKeepEffect DEF worldVars
  <2> QED  BY <2>1, <2>2 DEF Exposed, State
<1>20. CASE \E k \in Keys, force \in BOOLEAN : LimiterReleases(k, force)
  <2>1. PICK k \in Keys : /\ \A j \in Keys \ {k} : managed'[j] = managed[j]
                         /\ \/ managed' = managed
                            \/ /\ State(k) # "none" /\ managed'[k] # NoManaged
                               /\ managed'[k].state = managed[k].state
                               /\ managed'[k].armed = managed[k].armed
    BY <1>20, <1>0, LimiterReleasesEffect DEF Becomes
  <2>2. frozen' = frozen
    BY <1>20, <1>0, LimiterReleasesEffect DEF worldVars
  <2> QED  BY <2>1, <2>2 DEF Exposed, State
<1>21. CASE \E k \in Keys, force \in BOOLEAN : ReleaseProcess(k, force)
  BY <1>21, <1>0, ReleaseProcessEffect DEF Lists, stateVars, worldVars, Exposed, State
<1>22. CASE ReconcilePending
  BY <1>22, <1>0, ReconcilePendingEffect DEF Lists, stateVars, worldVars, Exposed, State
<1>23. CASE Shutdown
  BY <1>23, <1>0, ShutdownEffect DEF Lists, stateVars, worldVars, Exposed, State
<1>24. CASE \E k \in Keys : ProcessExits(k)
  BY <1>24, <1>0 DEF ProcessExits, stateVars, worldVars, Exposed, State
<1>25. CASE \E k \in Keys : ProcessStarts(k)
  BY <1>25, <1>0 DEF ProcessStarts, stateVars, worldVars, Exposed, State
<1>26. CASE \E k \in Keys : Replay(k)
  BY <1>26, <1>0 DEF Replay, stateVars, worldVars, Exposed, State, WorldTypes
<1>27. CASE Crash
  BY <1>27, <1>0 DEF Crash, stateVars, worldVars, Exposed, State
<1>28. CASE OtherLatches
  BY <1>28, <1>0 DEF OtherLatches, stateVars, worldVars, Exposed, State
<1>29. CASE ServiceStep
  BY <1>29, <1>0 DEF ServiceStep, stateVars, worldVars, Exposed, State
<1>30. CASE UNCHANGED suspensionVars
  BY <1>30 DEF suspensionVars, stateVars, worldVars, Exposed, State
<1> QED  BY <1>1, <1>2, <1>3, <1>4, <1>5, <1>6, <1>7, <1>8, <1>9, <1>10, <1>11, <1>12, <1>13, <1>14,
   <1>15, <1>16, <1>17, <1>18, <1>19, <1>20, <1>21, <1>22, <1>23, <1>24, <1>25, <1>26, <1>27,
   <1>28, <1>29, <1>30, EachStep

\* The four places that send a command.
Sends ==
    \/ pc = "cleanup" /\ at.key \in Keys /\ Submit(Forget(at.key))
    \/ pc = "begin" /\ op.key \in Keys /\ nextId \in Ids /\ Submit(Begin(nextId, op.key, FrozenEdge))
    \/ pc = "commit" /\ op.key \in Keys /\ at.id \in Ids /\ Submit(Commit(at.id))
    \/ pc = "cancel" /\ op.key \in Keys /\ at.id \in Ids /\ Submit(Cancel(at.id))

LEMMA CallEnds == Granted \/ Denied => call' = NoCall
BY DEF Granted, Acknowledge, Denied, Abandon, serviceVars

LEMMA SendStep ==
    ASSUME IInv, [Next]_suspensionVars PROVE Sends \/ call # NoCall \/ call' = NoCall
<1>0. StateTypes /\ StepOK /\ EntryOK /\ RoomOK /\ CallOK
  BY Parts
<1>1. CASE FinishCleanup
  <2>1. pc = "cleanup" /\ at.key \in Keys
    BY <1>1, <1>0, FinishCleanupEffect, Places DEF PartLabels
  <2> QED  BY <1>1, <1>0, <2>1, CallEnds, FinishCleanupEffect DEF Sends, Ask, serviceVars
<1>2. CASE BeginFreeze
  BY <1>2, <1>0, CallEnds, BeginFreezeEffect DEF Sends, serviceVars
<1>3. CASE CancelFreeze
  <2>1. pc = "cancel" /\ op.key \in Keys /\ at.id \in Ids
    BY <1>3, <1>0, CancelFreezeEffect DEF StepOK, IntentLabels
  <2> QED  BY <1>3, <1>0, <2>1, CallEnds, CancelFreezeEffect DEF Sends, Ask
<1>4. CASE CommitFreeze
  <2>1. pc = "commit" /\ op.key \in Keys /\ at.id \in Ids
    BY <1>4, <1>0, CommitFreezeEffect DEF StepOK, IntentLabels
  <2> QED  BY <1>4, <1>0, <2>1, CallEnds, CommitFreezeEffect DEF Sends, Ask
<1>5. CASE Crash \/ OtherLatches
  BY <1>5 DEF Crash, OtherLatches, Abandon, Latch
<1>6. CASE ServiceStep
  BY <1>6 DEF ServiceStep, ServiceActs, Land, LateLand, LateLoss, Called
<1>7. CASE \/ Release \/ Keep \/ Thaw \/ ReleaseStale \/ Assign \/ DecideFreeze \/ Refreeze
           \/ Freeze \/ Compensate \/ NextKey \/ LoopDone
  BY <1>7 DEF Release, Keep, Thaw, ReleaseStale, Assign, DecideFreeze, Refreeze, Freeze,
     Compensate, NextKey, LoopDone, serviceVars
<1>8. CASE \/ EntryPoint \/ (\E k \in Keys : ProcessExits(k) \/ ProcessStarts(k) \/ Replay(k))
           \/ UNCHANGED suspensionVars
  BY <1>8 DEF EntryPoint, FreezeProcess, LimiterFreezes, RequestFreeze, LimiterThaws, ThawKeep,
     LimiterReleases, ReleaseProcess, ReconcilePending, StartLoop, Shutdown, ProcessExits,
     ProcessStarts, Replay, suspensionVars, serviceVars
<1> QED
  BY <1>1, <1>2, <1>3, <1>4, <1>5, <1>6, <1>7, <1>8 DEF Next, Controller, Environment

\* What a command makes of the journal records what is exposed.
LEMMA SendKeeps ==
    ASSUME IInv, Sends
    PROVE  \A J \in Futures' : OneRecord(J) /\ \A k \in Keys : Exposed(k) => Rec(J, k)
<1>0. /\ ServiceInv /\ StepOK /\ EntryOK /\ FrozenOK /\ LedgerOK /\ RecordOK
  BY Parts
<1>1. call = NoCall /\ ~latched /\ pc \in {"cleanup", "begin", "commit", "cancel"}
  BY DEF Sends, Submit
<1>2. /\ OneRecord(journal) /\ \A k \in Keys : Exposed(k) => Rec(journal, k)
  BY <1>0 DEF RecordOK, Futures, Exposed
<1>3. /\ journal.pending = IF Open THEN {[id |-> at.id, key |-> op.key, edge |-> FrozenEdge]} ELSE {}
      /\ \A k \in Keys : journal.committed[k] # << >> <=> Kept(k)
  BY <1>0, <1>1 DEF LedgerOK
<1>4. ~Landed
  BY <1>1 DEF Landed, Called
<1> DEFINE Good(J) == OneRecord(J) /\ \A k \in Keys : Exposed(k) => Rec(J, k)
<1>5. \A c \in Commands : Submit(c) => Futures' = {journal, Apply(journal, c)}
  BY <1>0, FuturesOfSubmit
<1>6. CASE pc = "cleanup" /\ at.key \in Keys /\ Submit(Forget(at.key))
  <2>1. Futures' = {journal, ApplyForget(journal, at.key)}
    BY <1>5, <1>6, CommandTypes, Applies
  <2>2. ~Open /\ ~Exposed(at.key)
    BY <1>0, <1>6 DEF Open, EntryOK, FrozenOK, Exposed, Gone
  <2>3. /\ OneRecord(ApplyForget(journal, at.key)) /\ journal.pending = {}
        /\ \A j \in Keys \ {at.key} : ApplyForget(journal, at.key).committed[j] = journal.committed[j]
    BY <1>2, <1>3, <1>6, <2>2, OneForget
  <2>4. \A k \in Keys : Exposed(k) => Rec(ApplyForget(journal, at.key), k)
    BY <1>2, <2>2, <2>3 DEF Rec
  <2> QED  BY <1>2, <2>1, <2>3, <2>4
<1>7. CASE pc = "begin" /\ op.key \in Keys /\ nextId \in Ids /\ Submit(Begin(nextId, op.key, FrozenEdge))
  <2>1. Futures' = {journal, ApplyBegin(journal, nextId, op.key, FrozenEdge)}
    BY <1>5, <1>7, CommandTypes, FrozenEdgeType, Applies
  <2>2. ~Open /\ ~Kept(op.key)
    BY <1>0, <1>4, <1>7 DEF Open, Kept, Armed, EntryOK, FreezeLabels
  <2>3. /\ OneRecord(ApplyBegin(journal, nextId, op.key, FrozenEdge)) /\ journal.pending = {}
        /\ ApplyBegin(journal, nextId, op.key, FrozenEdge).committed = journal.committed
    BY <1>2, <1>3, <1>7, <2>2, OneBegin, FrozenEdgeType
  <2>4. \A k \in Keys : Exposed(k) => Rec(ApplyBegin(journal, nextId, op.key, FrozenEdge), k)
    BY <1>2, <2>3 DEF Rec
  <2> QED  BY <1>2, <2>1, <2>3, <2>4
<1>8. CASE pc = "commit" /\ op.key \in Keys /\ at.id \in Ids /\ Submit(Commit(at.id))
  <2>1. Futures' = {journal, ApplyCommit(journal, at.id)}
    BY <1>5, <1>8, CommandTypes, Applies
  <2>2. Open
    BY <1>4, <1>8 DEF Open
  <2>3. /\ OneRecord(ApplyCommit(journal, at.id))
        /\ ApplyCommit(journal, at.id).committed[op.key] = <<FrozenEdge>>
        /\ \A j \in Keys \ {op.key} : ApplyCommit(journal, at.id).committed[j] = journal.committed[j]
    BY <1>2, <1>3, <1>8, <2>2, OneCommit, FrozenEdgeType
  <2>4. ASSUME NEW k \in Keys, Exposed(k) PROVE Rec(ApplyCommit(journal, at.id), k)
    <3>1. CASE k = op.key
      <4>1. <<FrozenEdge>> # << >>
        OBVIOUS
      <4> QED  BY <2>3, <3>1, <4>1 DEF Rec
    <3>2. CASE k # op.key
      <4>1. journal.committed[k] # << >>
        BY <1>2, <1>3, <2>2, <2>4, <3>2 DEF Rec
      <4> QED  BY <2>3, <3>2, <4>1 DEF Rec
    <3> QED  BY <3>1, <3>2
  <2> QED  BY <1>2, <2>1, <2>3, <2>4
<1>9. CASE pc = "cancel" /\ op.key \in Keys /\ at.id \in Ids /\ Submit(Cancel(at.id))
  <2>1. Futures' = {journal, ApplyCancel(journal, at.id)}
    BY <1>5, <1>9, CommandTypes, Applies
  <2>2. Open /\ ~Exposed(op.key)
    BY <1>0, <1>4, <1>9 DEF Open, EntryOK, FreezeLabels, FrozenOK, Exposed, Gone
  <2>3. OneRecord(ApplyCancel(journal, at.id)) /\ ApplyCancel(journal, at.id).committed = journal.committed
    BY <1>2, <1>3, <1>9, <2>2, FrozenEdgeType, OneCancel
  <2>4. \A k \in Keys : Exposed(k) => Rec(ApplyCancel(journal, at.id), k)
    BY <1>2, <1>3, <2>2, <2>3 DEF Rec
  <2> QED  BY <1>2, <2>1, <2>3, <2>4
<1> QED  BY <1>6, <1>7, <1>8, <1>9 DEF Sends

LEMMA NoSend ==
    ASSUME call # NoCall \/ call' = NoCall PROVE \A c \in Commands : ~Submit(c)
BY SubmitCall

\* Whatever the helper finds records each job that is frozen, or may be.
LEMMA RecordStep == IInv /\ [Next]_suspensionVars => RecordOK'
<1> SUFFICES ASSUME IInv, [Next]_suspensionVars PROVE RecordOK'
  OBVIOUS
<1>0. /\ ServiceInv /\ StepOK /\ WorldTypes /\ CallOK /\ LedgerOK /\ RecordOK
  BY Parts
<1>1. CASE Freeze
  <2>1. /\ pc = "freeze" /\ call = NoCall /\ ~latched /\ op.key \in Keys
        /\ UNCHANGED <<serviceVars, managed>>
    BY <1>1, <1>0, NotLanded, Places DEF Freeze, CallOK, IntentLabels, BusyLabels, FreezeLabels, stateVars
  <2>2. Futures = {journal} /\ Futures' = {journal}
    BY <2>1, <1>0 DEF ServiceInv, Futures, Called, serviceVars
  <2>3. journal.pending = {[id |-> at.id, key |-> op.key, edge |-> FrozenEdge]}
    BY <2>1, <1>0 DEF LedgerOK, Open
  <2>4. Rec(journal, op.key)
    BY <2>3 DEF Rec
  <2>5. \A k \in Keys : Exposed(k)' => Exposed(k) \/ k = op.key
    BY <1>1, <1>0, <2>1 DEF Exposed, State, Freeze, WorldTypes
  <2>6. OneRecord(journal) /\ \A k \in Keys : Exposed(k) => Rec(journal, k)
    BY <1>0, <2>2 DEF RecordOK, Exposed
  <2>7. \A k \in Keys : Exposed(k)' => Rec(journal, k)
    BY <2>4, <2>5, <2>6
  <2> QED  BY <2>2, <2>6, <2>7 DEF RecordOK, Exposed
<1>2. CASE ~Freeze /\ Sends
  <2>1. \A k \in Keys : Exposed(k)' => Exposed(k)
    BY <1>2, ExposedStep
  <2>2. \A J \in Futures' : OneRecord(J) /\ \A k \in Keys : Exposed(k) => Rec(J, k)
    BY <1>2, SendKeeps
  <2>3. \A J \in Futures' : OneRecord(J) /\ \A k \in Keys : Exposed(k)' => Rec(J, k)
    BY <2>1, <2>2
  <2> QED  BY <2>3 DEF RecordOK, Exposed
<1>3. CASE ~Freeze /\ ~Sends
  <2>1. \A k \in Keys : Exposed(k)' => Exposed(k)
    BY <1>3, ExposedStep
  <2>2. Futures' \subseteq Futures
    BY <1>3, <1>0, SendStep, NoSend, ServiceMoves, FuturesShrink
  <2> QED  BY <1>0, <2>1, <2>2, RecordFrame
<1> QED  BY <1>1, <1>2, <1>3

--------------------------------------------------------------------------------
(***************************************************************************)
(* Shutdown.                                                               *)
(***************************************************************************)
\* A loop that goes on reports success only if this part of it succeeded too.
LEMMA DoneResult ==
    ASSUME NEW outcome \in {"ok", "pending", "failed"}, Done(outcome), pc' # "idle", result' = "ok"
    PROVE  outcome = "ok" /\ result = "ok" /\ pc' = at.then /\ op' = op
BY DEF Done, Idle

LEMMA RetainedIs == \A k : Retained(k) \in {"pending", "failed"}
BY DEF Retained

\* What a shutdown has succeeded with is gone.
LEMMA ClearStep ==
    IInv /\ [Next]_suspensionVars => ClearOK'
<1> SUFFICES ASSUME IInv, [Next]_suspensionVars PROVE ClearOK'
  OBVIOUS
<1>0. /\ ServiceTypeOK /\ ControlTypes /\ StateTypes /\ WorldTypes /\ BoundTypes
      /\ ServiceInv /\ StepOK /\ RoomOK /\ EntryOK /\ TurnOK /\ WishOK /\ WantedOK
      /\ OwnersOK /\ FrozenOK /\ CallOK /\ LedgerOK /\ RecordOK /\ ClearOK /\ ShutdownThaws
  BY Parts
<1>1. CASE Release
  <2> SUFFICES ASSUME pc' \in PartLabels \cup {"next"}, op'.kind = "shutdown" PROVE ClearOK'
    BY DEF ClearOK
  <2>1. pc \in PartLabels /\ at.key \in Keys /\ op \in Ops
    BY <1>1, <1>0, ReleaseEffect, Places DEF PartLabels, BusyLabels
  <2>2. pc' # "idle" /\ pc' \notin {"stale", "decide"}
    BY DEF PartLabels
  <2>3. op' = op
    BY <1>1, <1>0, ReleaseEffect, <2>2, DoneFlow DEF Goto, SamePart, Ask, callVars
  <2>4. \A k \in Keys : managed'[k] # NoManaged => managed[k] # NoManaged
    BY <1>1, <1>0, ReleaseEffect, <2>1 DEF Becomes, Dropped, State, stateVars, Ask, EntryOK
  <2>5. CASE pc' = "next"
    <3>0. State(at.key) = "none" => managed[at.key] = NoManaged
      BY <1>0, <2>1, EntryFields DEF State, StateTypes, States
    <3>1. ASSUME result' = "ok" PROVE result = "ok" /\ managed'[at.key] = NoManaged
      BY <1>1, <1>0, ReleaseEffect, <2>1, <2>2, <2>5, <3>1, <2>3, <3>0, DoneResult, RetainedIs
         DEF Dropped, State, Goto, SamePart, Ask, callVars, ClearOK, PartLabels
    <3> QED  BY <1>0, <2>1, <2>3, <2>4, <2>5, <3>1 DEF ClearOK, ManagedKeys
  <2>6. CASE pc' # "next"
    <3>1. at'.key = at.key /\ at'.routine = at.routine /\ result' = result
      BY <1>1, <1>0, ReleaseEffect, <2>1, <2>2, <2>6, DoneFlow, Places DEF Goto, SamePart, Ask,
         callVars
    <3>2. PICK k \in Keys : k = at.key
      BY <2>1
    <3>3. pc' = "cleanup" => State(k)' = "cleanupRelease"
      BY <1>1, <1>0, ReleaseEffect, <2>1, <2>2, <2>3, <2>6, <3>1, <3>2, DoneFlow, Places DEF
         Becomes, State, stateVars, Goto, SamePart, Ask, ClearOK, PartLabels, EntryOK
    <3>4. pc' = "cleanup" => State(at.key)' = "cleanupRelease"
      BY <3>1, <3>2, <3>3 DEF State
    <3>5. pc' # "next" /\ at'.routine = "release"
      BY <1>0, <2>1, <2>3, <2>6, <3>1 DEF ClearOK, PartLabels
    <3>6. result' = "ok" => \A j \in ManagedKeys' : j \in op'.todo \/ j = at'.key
      BY <1>0, <2>1, <2>3, <2>4, <3>1 DEF ClearOK, ManagedKeys, PartLabels
    <3> QED  BY <3>4, <3>5, <3>6 DEF ClearOK
  <2> QED  BY <2>5, <2>6
<1>2. CASE Keep
  <2> SUFFICES ASSUME pc' \in PartLabels \cup {"next"}, op'.kind = "shutdown" PROVE ClearOK'
    BY DEF ClearOK
  <2>1. pc \in PartLabels /\ at.key \in Keys /\ op \in Ops
    BY <1>2, <1>0, KeepEffect, Places DEF PartLabels, BusyLabels
  <2>2. pc' # "idle" /\ pc' \notin {"stale", "decide"}
    BY DEF PartLabels
  <2>3. op' = op
    BY <1>2, <1>0, KeepEffect, <2>2, DoneFlow DEF Goto, SamePart, Ask, callVars
  <2>4. \A k \in Keys : managed'[k] # NoManaged => managed[k] # NoManaged
    BY <1>2, <1>0, KeepEffect, <2>1 DEF Becomes, Dropped, State, stateVars, Ask, EntryOK
  <2>5. CASE pc' = "next"
    <3>0. State(at.key) = "none" => managed[at.key] = NoManaged
      BY <1>0, <2>1, EntryFields DEF State, StateTypes, States
    <3>1. ASSUME result' = "ok" PROVE result = "ok" /\ managed'[at.key] = NoManaged
      BY <1>2, <1>0, KeepEffect, <2>1, <2>2, <2>5, <3>1, <2>3, <3>0, DoneResult, RetainedIs DEF
         Dropped, State, Goto, SamePart, Ask, callVars, ClearOK, PartLabels
    <3> QED  BY <1>0, <2>1, <2>3, <2>4, <2>5, <3>1 DEF ClearOK, ManagedKeys
  <2>6. CASE pc' # "next"
    <3>1. at'.key = at.key /\ at'.routine = at.routine /\ result' = result
      BY <1>2, <1>0, KeepEffect, <2>1, <2>2, <2>6, DoneFlow, Places DEF Goto, SamePart, Ask,
         callVars
    <3>2. PICK k \in Keys : k = at.key
      BY <2>1
    <3>3. pc' = "cleanup" => State(k)' = "cleanupRelease"
      BY <1>2, <1>0, KeepEffect, <2>1, <2>2, <2>3, <2>6, <3>1, <3>2, DoneFlow, Places DEF
         Becomes, State, stateVars, Goto, SamePart, Ask, ClearOK, PartLabels, EntryOK
    <3>4. pc' = "cleanup" => State(at.key)' = "cleanupRelease"
      BY <3>1, <3>2, <3>3 DEF State
    <3>5. pc' # "next" /\ at'.routine = "release"
      BY <1>0, <2>1, <2>3, <2>6, <3>1 DEF ClearOK, PartLabels
    <3>6. result' = "ok" => \A j \in ManagedKeys' : j \in op'.todo \/ j = at'.key
      BY <1>0, <2>1, <2>3, <2>4, <3>1 DEF ClearOK, ManagedKeys, PartLabels
    <3> QED  BY <3>4, <3>5, <3>6 DEF ClearOK
  <2> QED  BY <2>5, <2>6
<1>3. CASE Thaw
  <2> SUFFICES ASSUME pc' \in PartLabels \cup {"next"}, op'.kind = "shutdown" PROVE ClearOK'
    BY DEF ClearOK
  <2>1. pc \in PartLabels /\ at.key \in Keys /\ op \in Ops
    BY <1>3, <1>0, ThawEffect, Places DEF PartLabels, BusyLabels
  <2>2. pc' # "idle" /\ pc' \notin {"stale", "decide"}
    BY DEF PartLabels
  <2>3. op' = op
    BY <1>3, <1>0, ThawEffect, <2>2, DoneFlow DEF Goto, SamePart, Ask, callVars
  <2>4. \A k \in Keys : managed'[k] # NoManaged => managed[k] # NoManaged
    BY <1>3, <1>0, ThawEffect, <2>1 DEF Becomes, Dropped, State, stateVars, Ask, EntryOK
  <2>5. CASE pc' = "next"
    <3>0. State(at.key) = "none" => managed[at.key] = NoManaged
      BY <1>0, <2>1, EntryFields DEF State, StateTypes, States
    <3>1. ASSUME result' = "ok" PROVE result = "ok" /\ managed'[at.key] = NoManaged
      BY <1>3, <1>0, ThawEffect, <2>1, <2>2, <2>5, <3>1, <2>3, <3>0, DoneResult, RetainedIs DEF
         Dropped, State, Goto, SamePart, Ask, callVars, ClearOK, PartLabels
    <3> QED  BY <1>0, <2>1, <2>3, <2>4, <2>5, <3>1 DEF ClearOK, ManagedKeys
  <2>6. CASE pc' # "next"
    <3>1. at'.key = at.key /\ at'.routine = at.routine /\ result' = result
      BY <1>3, <1>0, ThawEffect, <2>1, <2>2, <2>6, DoneFlow, Places DEF Goto, SamePart, Ask,
         callVars
    <3>2. PICK k \in Keys : k = at.key
      BY <2>1
    <3>3. pc' = "cleanup" => State(k)' = "cleanupRelease"
      BY <1>3, <1>0, ThawEffect, <2>1, <2>2, <2>3, <2>6, <3>1, <3>2, DoneFlow, Places DEF
         Becomes, State, stateVars, Goto, SamePart, Ask, ClearOK, PartLabels, EntryOK
    <3>4. pc' = "cleanup" => State(at.key)' = "cleanupRelease"
      BY <3>1, <3>2, <3>3 DEF State
    <3>5. pc' # "next" /\ at'.routine = "release"
      BY <1>0, <2>1, <2>3, <2>6, <3>1 DEF ClearOK, PartLabels
    <3>6. result' = "ok" => \A j \in ManagedKeys' : j \in op'.todo \/ j = at'.key
      BY <1>0, <2>1, <2>3, <2>4, <3>1 DEF ClearOK, ManagedKeys, PartLabels
    <3> QED  BY <3>4, <3>5, <3>6 DEF ClearOK
  <2> QED  BY <2>5, <2>6
<1>4. CASE FinishCleanup
  <2> SUFFICES ASSUME pc' \in PartLabels \cup {"next"}, op'.kind = "shutdown" PROVE ClearOK'
    BY DEF ClearOK
  <2>1. pc \in PartLabels /\ at.key \in Keys /\ op \in Ops
    BY <1>4, <1>0, FinishCleanupEffect, Places DEF PartLabels, BusyLabels
  <2>2. pc' # "idle" /\ pc' \notin {"stale", "decide"}
    BY DEF PartLabels
  <2>3. op' = op
    BY <1>4, <1>0, FinishCleanupEffect, <2>2, DoneFlow DEF Goto, SamePart, Ask, callVars
  <2>4. \A k \in Keys : managed'[k] # NoManaged => managed[k] # NoManaged
    BY <1>4, <1>0, FinishCleanupEffect, <2>1 DEF Becomes, Dropped, State, stateVars, Ask,
       EntryOK
  <2>5. CASE pc' = "next"
    <3>0. State(at.key) = "none" => managed[at.key] = NoManaged
      BY <1>0, <2>1, EntryFields DEF State, StateTypes, States
    <3>1. ASSUME result' = "ok" PROVE result = "ok" /\ managed'[at.key] = NoManaged
      BY <1>4, <1>0, FinishCleanupEffect, <2>1, <2>2, <2>5, <3>1, <2>3, <3>0, DoneResult,
         RetainedIs DEF Dropped, State, Goto, SamePart, Ask, callVars, ClearOK, PartLabels
    <3> QED  BY <1>0, <2>1, <2>3, <2>4, <2>5, <3>1 DEF ClearOK, ManagedKeys
  <2>6. CASE pc' # "next"
    <3>1. at'.key = at.key /\ at'.routine = at.routine /\ result' = result
      BY <1>4, <1>0, FinishCleanupEffect, <2>1, <2>2, <2>6, DoneFlow, Places DEF Goto, SamePart,
         Ask, callVars
    <3>2. PICK k \in Keys : k = at.key
      BY <2>1
    <3>3. pc' = "cleanup" => State(k)' = "cleanupRelease"
      BY <1>4, <1>0, FinishCleanupEffect, <2>1, <2>2, <2>3, <2>6, <3>1, <3>2, DoneFlow, Places
         DEF Becomes, State, stateVars, Goto, SamePart, Ask, ClearOK, PartLabels, EntryOK
    <3>4. pc' = "cleanup" => State(at.key)' = "cleanupRelease"
      BY <3>1, <3>2, <3>3 DEF State
    <3>5. pc' # "next" /\ at'.routine = "release"
      BY <1>0, <2>1, <2>3, <2>6, <3>1 DEF ClearOK, PartLabels
    <3>6. result' = "ok" => \A j \in ManagedKeys' : j \in op'.todo \/ j = at'.key
      BY <1>0, <2>1, <2>3, <2>4, <3>1 DEF ClearOK, ManagedKeys, PartLabels
    <3> QED  BY <3>4, <3>5, <3>6 DEF ClearOK
  <2> QED  BY <2>5, <2>6
<1>5. CASE ReleaseStale
  BY <1>5, <1>0, Places, ReleaseStaleEffect DEF ClearOK, StepOK, Freezing, Loops, Done, Idle,
     Goto, SamePart, PartStarts, Becomes, Dropped, State, stateVars, ManagedKeys, PartLabels,
     BusyLabels, FreezeLabels
<1>6. CASE Assign
  BY <1>6, <1>0, Places, AssignEffect DEF ClearOK, StepOK, Freezing, Loops, Done, Idle, Goto,
     SamePart, PartStarts, Becomes, Dropped, State, stateVars, ManagedKeys, PartLabels, BusyLabels,
     FreezeLabels
<1>7. CASE DecideFreeze
  BY <1>7, <1>0, Places, DecideFreezeEffect DEF ClearOK, StepOK, Freezing, Loops, Done, Idle,
     Goto, SamePart, PartStarts, Becomes, Dropped, State, stateVars, ManagedKeys, PartLabels,
     BusyLabels, FreezeLabels
<1>8. CASE Refreeze
  BY <1>8, <1>0, Places, RefreezeEffect DEF ClearOK, StepOK, Freezing, Loops, Done, Idle, Goto,
     SamePart, PartStarts, Becomes, Dropped, State, stateVars, ManagedKeys, PartLabels, BusyLabels,
     FreezeLabels
<1>9. CASE BeginFreeze
  BY <1>9, <1>0, Places, BeginFreezeEffect DEF ClearOK, StepOK, Freezing, Loops, Done, Idle,
     Goto, SamePart, PartStarts, Ask, Granted, Denied, callVars, serviceVars, Acknowledge, Called,
     Submit, Abandon, Becomes, Dropped, State, stateVars, ManagedKeys, PartLabels, BusyLabels,
     FreezeLabels
<1>10. CASE Freeze
  BY <1>10, <1>0, Places DEF ClearOK, StepOK, Freezing, Loops, Freeze, Done, Idle, Goto,
     SamePart, PartStarts, Becomes, Dropped, State, stateVars, ManagedKeys, PartLabels, BusyLabels,
     FreezeLabels
<1>11. CASE CancelFreeze
  BY <1>11, <1>0, Places, CancelFreezeEffect DEF ClearOK, StepOK, Freezing, Loops, Done, Idle,
     Goto, SamePart, PartStarts, Ask, Granted, Denied, callVars, serviceVars, Acknowledge, Called,
     Submit, Abandon, Becomes, Dropped, State, stateVars, ManagedKeys, PartLabels, BusyLabels,
     FreezeLabels
<1>12. CASE CommitFreeze
  BY <1>12, <1>0, Places, CommitFreezeEffect DEF ClearOK, StepOK, Freezing, Loops, Done, Idle,
     Goto, SamePart, PartStarts, Ask, Granted, Denied, callVars, serviceVars, Acknowledge, Called,
     Submit, Abandon, Becomes, Dropped, State, stateVars, ManagedKeys, PartLabels, BusyLabels,
     FreezeLabels
<1>13. CASE Compensate
  BY <1>13, <1>0, Places, CompensateEffect DEF ClearOK, StepOK, Freezing, Loops, Done, Idle,
     Goto, SamePart, PartStarts, Becomes, Dropped, State, stateVars, ManagedKeys, PartLabels,
     BusyLabels, FreezeLabels
<1>14. CASE NextKey
  BY <1>14, <1>0, Places, NextKeyEffect DEF ClearOK, StepOK, Freezing, Loops, Done, Idle, Goto,
     SamePart, PartStarts, Becomes, Dropped, State, stateVars, ManagedKeys, PartLabels, BusyLabels,
     FreezeLabels
<1>15. CASE LoopDone
  BY <1>15, <1>0, Places DEF ClearOK, StepOK, Freezing, Loops, LoopDone, Done, Idle, Goto,
     SamePart, PartStarts, Becomes, Dropped, State, stateVars, ManagedKeys, PartLabels, BusyLabels,
     FreezeLabels
<1>16. CASE \E k \in Keys : FreezeProcess(k)
  BY <1>16, <1>0, Places, FreezeProcessEffect DEF ClearOK, StepOK, Freezing, Loops, Asks, Done,
     Idle, Goto, SamePart, PartStarts, Becomes, Dropped, State, stateVars, ManagedKeys, PartLabels,
     BusyLabels, FreezeLabels
<1>17. CASE \E k \in Keys : LimiterFreezes(k)
  BY <1>17, <1>0, Places, LimiterFreezesEffect DEF ClearOK, StepOK, Freezing, Loops, Starts,
     Done, Idle, Goto, SamePart, PartStarts, Becomes, Dropped, State, stateVars, ManagedKeys,
     PartLabels, BusyLabels, FreezeLabels
<1>18. CASE \E k \in Keys : LimiterThaws(k)
  BY <1>18, <1>0, Places, LimiterThawsEffect DEF ClearOK, StepOK, Freezing, Loops, Asks, Done,
     Idle, Goto, SamePart, PartStarts, Becomes, Dropped, State, stateVars, ManagedKeys, PartLabels,
     BusyLabels, FreezeLabels
<1>19. CASE \E k \in Keys, force \in BOOLEAN : ThawKeep(k, force)
  BY <1>19, <1>0, Places, ThawKeepEffect DEF ClearOK, StepOK, Freezing, Loops, Starts,
     PartStarts, Done, Idle, Goto, SamePart, Becomes, Dropped, State, stateVars, ManagedKeys,
     PartLabels, BusyLabels, FreezeLabels
<1>20. CASE \E k \in Keys, force \in BOOLEAN : LimiterReleases(k, force)
  BY <1>20, <1>0, Places, LimiterReleasesEffect DEF ClearOK, StepOK, Freezing, Loops, Starts,
     PartStarts, Done, Idle, Goto, SamePart, callVars, serviceVars, Becomes, Dropped, State,
     stateVars, ManagedKeys, PartLabels, BusyLabels, FreezeLabels
<1>21. CASE \E k \in Keys, force \in BOOLEAN : ReleaseProcess(k, force)
  BY <1>21, <1>0, Places, ReleaseProcessEffect DEF ClearOK, StepOK, Freezing, Loops, Lists,
     Done, Idle, Goto, SamePart, PartStarts, Becomes, Dropped, State, stateVars, ManagedKeys,
     PartLabels, BusyLabels, FreezeLabels
<1>22. CASE ReconcilePending
  BY <1>22, <1>0, Places, ReconcilePendingEffect DEF ClearOK, StepOK, Freezing, Loops, Lists,
     Done, Idle, Goto, SamePart, PartStarts, Becomes, Dropped, State, stateVars, ManagedKeys,
     PartLabels, BusyLabels, FreezeLabels
<1>23. CASE Shutdown
  BY <1>23, <1>0, Places, ShutdownEffect DEF ClearOK, StepOK, Freezing, Loops, Lists, Done,
     Idle, Goto, SamePart, PartStarts, Becomes, Dropped, State, stateVars, ManagedKeys, PartLabels,
     BusyLabels, FreezeLabels
<1>24. CASE \E k \in Keys : ProcessExits(k)
  BY <1>24, <1>0, Places DEF ClearOK, StepOK, Freezing, Loops, ProcessExits, callVars,
     serviceVars, Becomes, Dropped, State, stateVars, ManagedKeys, PartLabels, BusyLabels,
     FreezeLabels
<1>25. CASE \E k \in Keys : ProcessStarts(k)
  BY <1>25, <1>0, Places DEF ClearOK, StepOK, Freezing, Loops, ProcessStarts, callVars,
     serviceVars, Becomes, Dropped, State, stateVars, ManagedKeys, PartLabels, BusyLabels,
     FreezeLabels
<1>26. CASE \E k \in Keys : Replay(k)
  BY <1>26, <1>0, Places DEF ClearOK, StepOK, Freezing, Loops, Replay, callVars, serviceVars,
     Becomes, Dropped, State, stateVars, ManagedKeys, PartLabels, BusyLabels, FreezeLabels
<1>27. CASE Crash
  BY <1>27, <1>0, Places DEF ClearOK, StepOK, Freezing, Loops, Crash, Done, Idle, Goto,
     SamePart, PartStarts, Becomes, Dropped, State, stateVars, ManagedKeys, PartLabels, BusyLabels,
     FreezeLabels
<1>28. CASE OtherLatches
  BY <1>28, <1>0, Places DEF ClearOK, StepOK, Freezing, Loops, OtherLatches, Latch, callVars,
     Becomes, Dropped, State, stateVars, ManagedKeys, PartLabels, BusyLabels, FreezeLabels
<1>29. CASE ServiceStep
  BY <1>29, <1>0, Places DEF ClearOK, StepOK, Freezing, Loops, ServiceStep, ServiceActs, Land,
     LateLand, LateLoss, Called, callVars, Becomes, Dropped, State, stateVars, ManagedKeys,
     PartLabels, BusyLabels, FreezeLabels
<1>30. CASE UNCHANGED suspensionVars
  BY <1>30, <1>0, Places DEF ClearOK, StepOK, Freezing, Loops, suspensionVars, serviceVars,
     callVars, stateVars, worldVars, State, ManagedKeys
<1> QED  BY <1>1, <1>2, <1>3, <1>4, <1>5, <1>6, <1>7, <1>8, <1>9, <1>10, <1>11, <1>12, <1>13, <1>14,
   <1>15, <1>16, <1>17, <1>18, <1>19, <1>20, <1>21, <1>22, <1>23, <1>24, <1>25, <1>26, <1>27,
   <1>28, <1>29, <1>30, EachStep

LEMMA ShutdownVoid == pc' # "stopped" => ShutdownThaws'
BY DEF ShutdownThaws

\* A shutdown that is over stays as it is, whatever else happens.
LEMMA ShutdownFrame ==
    ASSUME ShutdownThaws, pc = "stopped", result' = result,
           \A k \in Keys : frozen'[k] => frozen[k],
           latched' \/ (journal' = journal /\ latched' = latched)
    PROVE  ShutdownThaws'
BY DEF ShutdownThaws, Recorded

\* A shutdown that ends with success has emptied the list of entries.
LEMMA ShutdownEnds ==
    ASSUME IInv, LoopDone, op.kind = "shutdown" PROVE ShutdownThaws'
<1>0. /\ ServiceInv /\ StateTypes /\ WorldTypes /\ CallOK /\ FrozenOK /\ LedgerOK /\ RecordOK /\ ClearOK
  BY Parts
<1>1. /\ pc = "next" /\ op.todo = {}
      /\ UNCHANGED <<result, serviceVars, stateVars, worldVars>>
  BY DEF LoopDone, stateVars, worldVars
<1>2. call = NoCall /\ ~Landed
  BY <1>0, <1>1, NotLanded
<1>3. ASSUME result = "ok", NEW k \in Keys PROVE ~frozen[k] /\ (latched \/ ~Recorded(k))
  <2>1. managed[k] = NoManaged
    BY <1>0, <1>1, <1>3 DEF ClearOK, ManagedKeys, PartLabels
  <2>2. ~frozen[k]
    BY <1>0, <1>1, <2>1 DEF FrozenOK, State, Gone
  <2>3. ASSUME ~latched PROVE ~Recorded(k)
    <3>1. journal.pending = {} /\ journal.committed[k] = << >>
      BY <1>0, <1>1, <1>2, <2>1, <2>3 DEF LedgerOK, Open, Kept, Armed
    <3>2. OneRecord(journal) /\ ~Rec(journal, k)
      BY <1>0, <3>1 DEF RecordOK, Futures, Rec
    <3> QED  BY <3>2, RecordedRec DEF Recorded
  <2> QED  BY <2>2, <2>3
<1> QED  BY <1>1, <1>3 DEF ShutdownThaws, Recorded, serviceVars, worldVars

\* A shutdown that succeeded left nothing frozen.
LEMMA ShutdownStep ==
    IInv /\ [Next]_suspensionVars => ShutdownThaws'
<1> SUFFICES ASSUME IInv, [Next]_suspensionVars PROVE ShutdownThaws'
  OBVIOUS
<1>0. /\ ServiceTypeOK /\ ControlTypes /\ StateTypes /\ WorldTypes /\ BoundTypes
      /\ ServiceInv /\ StepOK /\ RoomOK /\ EntryOK /\ TurnOK /\ WishOK /\ WantedOK
      /\ OwnersOK /\ FrozenOK /\ CallOK /\ LedgerOK /\ RecordOK /\ ClearOK /\ ShutdownThaws
  BY Parts
<1>1. CASE Release
  BY <1>1, <1>0, Places, ReleaseEffect, ShutdownVoid DEF Done, Idle, Goto, Ask, SamePart,
     PartStarts, callVars, worldVars, stateVars, serviceVars, PartLabels, BusyLabels, FreezeLabels,
     IntentLabels
<1>2. CASE Keep
  BY <1>2, <1>0, Places, KeepEffect, ShutdownVoid DEF Done, Idle, Goto, Ask, SamePart,
     PartStarts, callVars, worldVars, stateVars, serviceVars, PartLabels, BusyLabels, FreezeLabels,
     IntentLabels
<1>3. CASE Thaw
  BY <1>3, <1>0, Places, ThawEffect, ShutdownVoid DEF Done, Idle, Goto, Ask, SamePart,
     PartStarts, callVars, worldVars, stateVars, serviceVars, PartLabels, BusyLabels, FreezeLabels,
     IntentLabels
<1>4. CASE FinishCleanup
  BY <1>4, <1>0, Places, FinishCleanupEffect, ShutdownVoid DEF Done, Idle, Goto, Ask, SamePart,
     PartStarts, callVars, worldVars, stateVars, serviceVars, PartLabels, BusyLabels, FreezeLabels,
     IntentLabels
<1>5. CASE ReleaseStale
  BY <1>5, <1>0, Places, ReleaseStaleEffect, ShutdownVoid DEF Done, Idle, Goto, Ask, SamePart,
     PartStarts, callVars, worldVars, stateVars, serviceVars, PartLabels, BusyLabels, FreezeLabels,
     IntentLabels
<1>6. CASE Assign
  BY <1>6, <1>0, Places, AssignEffect, ShutdownVoid DEF Done, Idle, Goto, Ask, SamePart,
     PartStarts, callVars, worldVars, stateVars, serviceVars, PartLabels, BusyLabels, FreezeLabels,
     IntentLabels
<1>7. CASE DecideFreeze
  BY <1>7, <1>0, Places, DecideFreezeEffect, ShutdownVoid DEF Done, Idle, Goto, Ask, SamePart,
     PartStarts, callVars, worldVars, stateVars, serviceVars, PartLabels, BusyLabels, FreezeLabels,
     IntentLabels
<1>8. CASE Refreeze
  BY <1>8, <1>0, Places, RefreezeEffect, ShutdownVoid DEF Done, Idle, Goto, Ask, SamePart,
     PartStarts, callVars, worldVars, stateVars, serviceVars, PartLabels, BusyLabels, FreezeLabels,
     IntentLabels
<1>9. CASE BeginFreeze
  BY <1>9, <1>0, Places, BeginFreezeEffect, ShutdownVoid DEF Done, Idle, Goto, Ask, SamePart,
     PartStarts, callVars, worldVars, stateVars, serviceVars, PartLabels, BusyLabels, FreezeLabels,
     IntentLabels
<1>10. CASE Freeze
  BY <1>10, <1>0, Places, ShutdownVoid DEF Freeze, Done, Idle, Goto, Ask, SamePart, PartStarts,
     callVars, worldVars, stateVars, serviceVars, PartLabels, BusyLabels, FreezeLabels,
     IntentLabels
<1>11. CASE CancelFreeze
  BY <1>11, <1>0, Places, CancelFreezeEffect, ShutdownVoid DEF Done, Idle, Goto, Ask, SamePart,
     PartStarts, callVars, worldVars, stateVars, serviceVars, PartLabels, BusyLabels, FreezeLabels,
     IntentLabels
<1>12. CASE CommitFreeze
  BY <1>12, <1>0, Places, CommitFreezeEffect, ShutdownVoid DEF Done, Idle, Goto, Ask, SamePart,
     PartStarts, callVars, worldVars, stateVars, serviceVars, PartLabels, BusyLabels, FreezeLabels,
     IntentLabels
<1>13. CASE Compensate
  BY <1>13, <1>0, Places, CompensateEffect, ShutdownVoid DEF Done, Idle, Goto, Ask, SamePart,
     PartStarts, callVars, worldVars, stateVars, serviceVars, PartLabels, BusyLabels, FreezeLabels,
     IntentLabels
<1>14. CASE NextKey
  BY <1>14, <1>0, Places, NextKeyEffect, ShutdownVoid DEF Done, Idle, Goto, Ask, SamePart,
     PartStarts, callVars, worldVars, stateVars, serviceVars, PartLabels, BusyLabels, FreezeLabels,
     IntentLabels
<1>15. CASE LoopDone
  <2>1. CASE op.kind = "shutdown"
    BY <1>15, <2>1, ShutdownEnds
  <2>2. CASE op.kind # "shutdown"
    BY <1>15, <2>2, ShutdownVoid DEF LoopDone, Idle
  <2> QED  BY <2>1, <2>2
<1>16. CASE \E k \in Keys : FreezeProcess(k)
  BY <1>16, <1>0, Places, FreezeProcessEffect, ShutdownVoid DEF Asks, Done, Idle, Goto, Ask,
     SamePart, PartStarts, callVars, worldVars, stateVars, serviceVars, PartLabels, BusyLabels,
     FreezeLabels, IntentLabels
<1>17. CASE \E k \in Keys : LimiterFreezes(k)
  BY <1>17, <1>0, Places, LimiterFreezesEffect, ShutdownVoid DEF Starts, Done, Idle, Goto, Ask,
     SamePart, PartStarts, callVars, worldVars, stateVars, serviceVars, PartLabels, BusyLabels,
     FreezeLabels, IntentLabels
<1>18. CASE \E k \in Keys : LimiterThaws(k)
  BY <1>18, <1>0, Places, LimiterThawsEffect, ShutdownVoid DEF Asks, Done, Idle, Goto, Ask,
     SamePart, PartStarts, callVars, worldVars, stateVars, serviceVars, PartLabels, BusyLabels,
     FreezeLabels, IntentLabels
<1>19. CASE \E k \in Keys, force \in BOOLEAN : ThawKeep(k, force)
  BY <1>19, <1>0, Places, ThawKeepEffect, ShutdownVoid DEF Starts, PartStarts, Done, Idle, Goto,
     Ask, SamePart, callVars, worldVars, stateVars, serviceVars, PartLabels, BusyLabels,
     FreezeLabels, IntentLabels
<1>20. CASE \E k \in Keys, force \in BOOLEAN : LimiterReleases(k, force)
  BY <1>20, <1>0, Places, LimiterReleasesEffect, ShutdownVoid DEF Starts, PartStarts, Done,
     Idle, Goto, Ask, SamePart, callVars, worldVars, stateVars, serviceVars, PartLabels,
     BusyLabels, FreezeLabels, IntentLabels
<1>21. CASE \E k \in Keys, force \in BOOLEAN : ReleaseProcess(k, force)
  BY <1>21, <1>0, Places, ReleaseProcessEffect, ShutdownVoid DEF Lists, Done, Idle, Goto, Ask,
     SamePart, PartStarts, callVars, worldVars, stateVars, serviceVars, PartLabels, BusyLabels,
     FreezeLabels, IntentLabels
<1>22. CASE ReconcilePending
  BY <1>22, <1>0, Places, ReconcilePendingEffect, ShutdownVoid DEF Lists, Done, Idle, Goto, Ask,
     SamePart, PartStarts, callVars, worldVars, stateVars, serviceVars, PartLabels, BusyLabels,
     FreezeLabels, IntentLabels
<1>23. CASE Shutdown
  BY <1>23, <1>0, Places, ShutdownEffect, ShutdownVoid DEF Lists, Done, Idle, Goto, Ask,
     SamePart, PartStarts, callVars, worldVars, stateVars, serviceVars, PartLabels, BusyLabels,
     FreezeLabels, IntentLabels
<1>24. CASE \E k \in Keys : ProcessExits(k)
  <2>1. CASE pc # "stopped"
    BY <1>24, <2>1, ShutdownVoid DEF ProcessExits, callVars
  <2>2. CASE pc = "stopped"
    BY <1>24, <1>0, <2>2, ShutdownFrame DEF ProcessExits, serviceVars, callVars
  <2> QED  BY <2>1, <2>2
<1>25. CASE \E k \in Keys : ProcessStarts(k)
  <2>1. CASE pc # "stopped"
    BY <1>25, <2>1, ShutdownVoid DEF ProcessStarts, callVars
  <2>2. CASE pc = "stopped"
    BY <1>25, <1>0, <2>2, ShutdownFrame DEF ProcessStarts, serviceVars, callVars
  <2> QED  BY <2>1, <2>2
<1>26. CASE \E k \in Keys : Replay(k)
  <2>1. CASE pc # "stopped"
    BY <1>26, <2>1, ShutdownVoid DEF Replay, callVars
  <2>2. CASE pc = "stopped"
    <3>1. PICK k \in Keys : Replay(k)
      BY <1>26
    <3>2. \A j \in Keys : frozen'[j] => frozen[j]
      BY <3>1, <1>0 DEF Replay, WorldTypes
    <3> QED  BY <3>1, <3>2, <1>0, <2>2, ShutdownFrame DEF Replay, serviceVars, callVars
  <2> QED  BY <2>1, <2>2
<1>27. CASE Crash
  BY <1>27, <1>0, Places, ShutdownVoid DEF Crash, Idle
<1>28. CASE OtherLatches
  <2>1. CASE pc # "stopped"
    BY <1>28, <2>1, ShutdownVoid DEF OtherLatches, callVars
  <2>2. CASE pc = "stopped"
    BY <1>28, <1>0, <2>2, ShutdownFrame DEF OtherLatches, Latch, callVars, worldVars
  <2> QED  BY <2>1, <2>2
<1>29. CASE ServiceStep
  <2>1. CASE pc # "stopped"
    BY <1>29, <2>1, ShutdownVoid DEF ServiceStep, callVars
  <2>2. CASE pc = "stopped"
    <3>1. call = NoCall
      BY <1>0, <2>2, NotLanded
    <3>2. latched' \/ (journal' = journal /\ latched' = latched)
      BY <1>29, <1>0, <3>1 DEF ServiceStep, ServiceActs, Land, LateLand, LateLoss, Called, ServiceInv
    <3> QED  BY <1>29, <1>0, <2>2, <3>2, ShutdownFrame DEF ServiceStep, callVars, worldVars
  <2> QED  BY <2>1, <2>2
<1>30. CASE UNCHANGED suspensionVars
  BY <1>30, <1>0 DEF ShutdownThaws, Recorded, suspensionVars, serviceVars, callVars, worldVars
<1> QED  BY <1>1, <1>2, <1>3, <1>4, <1>5, <1>6, <1>7, <1>8, <1>9, <1>10, <1>11, <1>12, <1>13, <1>14,
   <1>15, <1>16, <1>17, <1>18, <1>19, <1>20, <1>21, <1>22, <1>23, <1>24, <1>25, <1>26, <1>27,
   <1>28, <1>29, <1>30, EachStep

--------------------------------------------------------------------------------
(***************************************************************************)
(* The invariant holds throughout, and what follows from it.               *)
(***************************************************************************)
\* A fresh controller manages nothing, no job is frozen, and its journal is empty.
LEMMA InitInv == Init => IInv
<1> SUFFICES ASSUME Init PROVE IInv
  OBVIOUS
<1>1. ServiceInv /\ Futures = {EmptyJournal}
  BY ServiceInit_Inv DEF Init
<1>2. /\ pc = "idle" /\ op = NoOp /\ at = NoStep /\ result = "ok" /\ nextId = 1
      /\ call = NoCall /\ journal = EmptyJournal
      /\ \A k \in Keys : managed[k] = NoManaged /\ ~frozen[k]
  BY DEF Init, ServiceInit
<1>3. TypeOK
  <2>1. ControlTypes
    BY <1>2 DEF ControlTypes
  <2>2. StateTypes /\ WorldTypes
    BY <1>2 DEF Init, StateTypes, WorldTypes
  <2>3. BoundTypes
    BY FaultsAssumption DEF Init, BoundTypes
  <2> QED  BY <1>1, <2>1, <2>2, <2>3, TypeParts DEF ServiceInv
<1>4. /\ pc \notin BusyLabels /\ pc \notin PartLabels /\ pc \notin FreezeLabels
      /\ pc \notin IntentLabels
  BY <1>2 DEF BusyLabels, PartLabels, FreezeLabels, IntentLabels
<1>5. \A k \in Keys : State(k) = "none"
  BY <1>2 DEF State
<1>6. StepOK /\ RoomOK
  BY <1>2, <1>4 DEF StepOK, RoomOK, BusyLabels, FreezeLabels
<1>7. EntryOK /\ TurnOK /\ WishOK
  BY <1>2, <1>4 DEF EntryOK, TurnOK, WishOK
<1>8. WantedOK /\ OwnersOK /\ FrozenOK
  BY <1>2, <1>5 DEF WantedOK, OwnersOK, FrozenOK, ManagedKeys
<1>9. CallOK /\ ClearOK /\ ShutdownThaws
  BY <1>2, <1>4 DEF CallOK, ClearOK, ShutdownThaws
<1>10. LedgerOK
  BY <1>2 DEF LedgerOK, EmptyJournal, Open, Kept, Armed, Landed, Called
<1>11. RecordOK
  <2>1. OneRecord(EmptyJournal)
    BY DEF OneRecord, EmptyJournal, JournalType
  <2> QED  BY <1>1, <1>2, <1>5, <2>1 DEF RecordOK
<1> QED  BY <1>1, <1>3, <1>6, <1>7, <1>8, <1>9, <1>10, <1>11 DEF IInv

LEMMA StepInv == IInv /\ [Next]_suspensionVars => IInv'
<1> SUFFICES ASSUME IInv, [Next]_suspensionVars PROVE IInv'
  OBVIOUS
<1>1. ServiceInv' /\ ServiceTypeOK'
  BY ServiceKept
<1>2. TypeOK'
  <2>1. (ServiceTypeOK /\ ControlTypes /\ StateTypes /\ WorldTypes /\ BoundTypes => TypeOK)'
    BY TypeParts, PTL
  <2> QED  BY <1>1, <2>1, ControlStep, StateStep, WorldStep, BoundStep
<1>3. StepOK' /\ RoomOK' /\ EntryOK' /\ TurnOK' /\ WishOK'
  BY StepStep, RoomStep, EntryStep, TurnStep, WishStep
<1>4. WantedOK' /\ OwnersOK' /\ FrozenOK'
  BY WantedStep, OwnersStep, FrozenStep
<1>5. CallOK' /\ LedgerOK' /\ RecordOK'
  BY CallStep, LedgerStep, RecordStep
<1>6. ClearOK' /\ ShutdownThaws'
  BY ClearStep, ShutdownStep
<1> QED  BY <1>1, <1>2, <1>3, <1>4, <1>5, <1>6 DEF IInv

LEMMA Invariance == Spec => []IInv
BY InitInv, StepInv, PTL DEF Spec

\* Whenever Winderust dies, between any two calls, a job that is frozen is one that the
\* helper's journal lists for a thaw (freeze_managed records its intent first; refreeze,
\* thaw_keep_key and finish_cleanup rely on the record that is there).
THEOREM ThawableAnywhere == Spec => []Recoverable
<1>1. IInv => Recoverable
  <2> SUFFICES ASSUME IInv, NEW k \in Keys, frozen[k] PROVE Recorded(k)
    BY DEF Recoverable
  <2>1. journal \in Futures
    BY DEF Futures
  <2>2. OneRecord(journal) /\ Rec(journal, k)
    BY <2>1 DEF IInv, RecordOK
  <2> QED  BY <2>2, RecordedRec DEF Recorded
<1> QED  BY <1>1, Invariance, PTL

\* Between calls, every variable has its type; a job is frozen exactly when its entry says
\* so; while the service answers, the journal holds exactly the armed entries; nothing
\* stays frozen that no owner wants frozen unless a retry is scheduled; and a process id
\* has one entry (every routine of SuspensionController, with its failures).
THEOREM BooksInOrder == Spec => []Consistent
<1>1. IInv => FrozenIsManaged
  BY DEF IInv, FrozenOK, FrozenIsManaged, Gone
<1>2. IInv => LedgerAgrees
  <2> SUFFICES ASSUME IInv, pc = "idle", ~latched, NEW k \in Keys
               PROVE  Recorded(k) <=> (State(k) # "none" /\ managed[k].armed)
    BY DEF LedgerAgrees
  <2>1. StateTypes /\ CallOK /\ LedgerOK /\ RecordOK
    BY Parts
  <2>2. ~Open /\ (Kept(k) <=> Armed(k))
    BY <2>1, NotLanded DEF Open, Kept
  <2>3. journal.pending = {} /\ (journal.committed[k] # << >> <=> Armed(k))
    BY <2>1, <2>2 DEF LedgerOK
  <2>4. OneRecord(journal) /\ (Rec(journal, k) <=> Armed(k))
    BY <2>1, <2>3 DEF RecordOK, Futures, Rec
  <2>5. State(k) # "none" <=> managed[k] # NoManaged
    BY <2>1, EntryFields DEF State, StateTypes, States
  <2> QED  BY <2>4, <2>5, RecordedRec DEF Recorded, Armed
<1>3. IInv => NoUnwantedFreeze
  BY DEF IInv, WantedOK, Wanted, NoUnwantedFreeze, Gone
<1>4. IInv => ReusedIdHasOneEntry
  BY DEF IInv, OwnersOK, ReusedIdHasOneEntry
<1>5. IInv => Consistent
  BY <1>1, <1>2, <1>3, <1>4 DEF IInv, Consistent
<1> QED  BY <1>5, Invariance, PTL

\* A shutdown that reports success left nothing frozen and nothing for the helper to thaw
\* (shutdown goes on after a failure and reports it).
THEOREM ShutdownUndoes == Spec => []ShutdownThaws
<1>1. IInv => ShutdownThaws
  BY DEF IInv
<1> QED  BY <1>1, Invariance, PTL

\* While Winderust lives, only a thaw ends the freeze of an entry that is frozen.
LEMMA UnfreezeStep ==
    ASSUME IInv, [Next]_suspensionVars, NEW k \in Keys,
           frozen[k], ~frozen'[k], ~Gone, State(k) = "frozen"
    PROVE  pc = "thaw" /\ at.key = k
<1>0. StateTypes /\ WorldTypes /\ StepOK /\ EntryOK
  BY Parts
<1>1. CASE Thaw
  BY <1>1, <1>0, ThawEffect DEF WorldTypes
<1>2. CASE Compensate
  <2>1. pc = "compensate" /\ State(op.key) = "thawed"
    BY <1>2, <1>0 DEF Compensate, EntryOK, FreezeLabels
  <2> QED  BY <1>2, <1>0, <2>1 DEF Compensate, WorldTypes
<1>3. CASE Freeze \/ Refreeze
  BY <1>3, <1>0 DEF Freeze, Refreeze, WorldTypes
<1>4. CASE \/ Release \/ Keep \/ FinishCleanup \/ ReleaseStale \/ Assign \/ DecideFreeze \/ BeginFreeze
           \/ CancelFreeze \/ CommitFreeze \/ NextKey \/ LoopDone
  BY <1>4 DEF Release, Keep, FinishCleanup, ReleaseStale, Assign, DecideFreeze, BeginFreeze,
     CancelFreeze, CommitFreeze, NextKey, LoopDone, Ask, worldVars
<1>5. CASE EntryPoint \/ Environment \/ UNCHANGED suspensionVars
  BY <1>5 DEF EntryPoint, FreezeProcess, LimiterFreezes, RequestFreeze, LimiterThaws, ThawKeep,
     LimiterReleases, ReleaseProcess, ReconcilePending, StartLoop, Shutdown, Environment,
     ProcessExits, ProcessStarts, Replay, Crash, OtherLatches, ServiceStep, suspensionVars, worldVars
<1> QED  BY <1>1, <1>2, <1>3, <1>4, <1>5 DEF Next, Controller

\* No call of one owner thaws a process that the other wants frozen (thaw_keep_key,
\* release_cpu_limiter_target and release_process against the owner's wants); only a
\* shutdown, and a call for another instance under the same process id, thaw regardless.
THEOREM OneOwnerCannotThaw == Spec => OwnersHold
<1> DEFINE Holds == \A k \in ManagedKeys :
          frozen[k] /\ ~frozen'[k] /\ ~Gone /\ State(k) = "frozen" =>
              \/ op.kind = "shutdown" \/ at.then = "stale"
              \/ /\ managed[k].limiter # "freeze"
                 /\ managed[k].app = "freeze" => op.kind = "release"
<1>1. IInv /\ [Next]_suspensionVars => Holds
  <2> SUFFICES ASSUME IInv, [Next]_suspensionVars, NEW k \in ManagedKeys,
                      frozen[k], ~frozen'[k], ~Gone, State(k) = "frozen"
               PROVE  \/ op.kind = "shutdown" \/ at.then = "stale"
                      \/ /\ managed[k].limiter # "freeze"
                         /\ managed[k].app = "freeze" => op.kind = "release"
    OBVIOUS
  <2>1. StateTypes /\ WorldTypes /\ StepOK /\ EntryOK /\ TurnOK
    BY Parts
  <2>2. k \in Keys
    BY DEF ManagedKeys
  <2>3. pc = "thaw" /\ at.key = k
    BY <2>1, <2>2, UnfreezeStep
  <2>4. /\ op \in Ops /\ at \in Steps /\ at.then \in {"stale", "decide", "next", "idle"}
        /\ at.routine \in {"release", "keep"}
        /\ at.then = "next" => op.kind \in Loops
    BY <2>1, <2>3, Places DEF StepOK, PartLabels, BusyLabels
  <2>5. CASE at.routine = "keep"
    BY <2>1, <2>3, <2>5 DEF EntryOK, Wanted
  <2>6. CASE at.routine = "release"
    BY <2>1, <2>3, <2>4, <2>6 DEF TurnOK, Wanted, Loops
  <2> QED  BY <2>4, <2>5, <2>6
<1>2. IInv /\ [Next]_suspensionVars => [Holds]_suspensionVars
  BY <1>1
<1> QED  BY <1>2, Invariance, PTL DEF Spec, OwnersHold

\* The controller, its processes and crashes move the recovery service only as the service
\* allows: what is proved of the service holds of it under this controller.
THEOREM UsesService == Spec => ServiceSpec
<1>1. Init => ServiceInit
  BY DEF Init
<1> QED  BY <1>1, ServiceMoves, Invariance, PTL DEF Spec, ServiceSpec
================================================================================
