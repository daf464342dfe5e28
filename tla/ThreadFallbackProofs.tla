--------------------------- MODULE ThreadFallbackProofs ---------------------------
(***************************************************************************)
(* Proofs about ThreadFallback, for any threads, ids, failures and bounds  *)
(* on the suspensions by other programs.                                   *)
(***************************************************************************)
EXTENDS ThreadFallback, RecoveryServiceProofs

--------------------------------------------------------------------------------
(***************************************************************************)
(* The inductive invariant.                                                *)
(***************************************************************************)
\* Labels of the suspension of one thread, of those with its intent, of one thread's part
\* of a call, of any part.
SuspendLabels == {"begin", "suspendOnce", "cancel", "commit", "check", "compensate", "failed",
                  "resumeSuspending"}
IntentLabels == {"cancel", "commit"}
ThreadLabels == SuspendLabels \cup {"resume", "forget"}
BusyLabels == ThreadLabels \cup {"prune", "capture", "suspend", "rollback", "thaw", "forgetAll"}

Dead == pc \in {"dead", "replayed"}

Armed(t) == managed[t] # NoManaged /\ managed[t].armed

IsOwned(t) == managed[t] # NoManaged /\ managed[t].owned

\* Where a call is, and where it goes on from the thread at hand.
StepOK ==
    /\ pc = "idle" => op = NoOp
    /\ pc \in {"prune", "suspend", "rollback"} \cup SuspendLabels => op.kind \in {"freeze", "adopt"}
    /\ pc = "capture" => op.kind = "adopt"
    /\ pc = "thaw" => op.kind \in {"thaw", "release"}
    /\ pc = "forgetAll" => op.kind = "release"
    /\ pc \in SuspendLabels \ {"failed", "resumeSuspending"} => at.then = "failed"
    /\ pc = "failed" => at.then = "failed"
    /\ pc = "resumeSuspending" => at.then = "resumeSuspending"
    /\ pc = "resume" => at.then \in {"failed", "rollback", "thaw"}
    /\ pc = "forget" => at.then \in {"prune", "failed", "resumeSuspending", "rollback", "thaw", "forgetAll"}
    /\ pc \in {"resume", "forget"} =>
          /\ at.then \in {"prune", "failed", "resumeSuspending", "rollback"} => op.kind \in {"freeze", "adopt"}
          /\ at.then = "thaw" => op.kind \in {"thaw", "release"}
          /\ at.then = "forgetAll" => op.kind = "release"
    /\ pc \in {"cancel", "commit"} \/ (pc = "begin" /\ call # NoCall) => at.id \in Ids

\* What the worker knows of the target when it calls, and that it has none without threads.
StageOK ==
    /\ op.kind = "freeze" => stage = "awake"
    /\ op.kind = "adopt" => stage = "known"
    /\ op.kind = "thaw" => stage = "frozen"
    /\ op.kind = "release" => stage \in {"awake", "known", "frozen", "retiring"}
    /\ stage # "kept"
    /\ stage = "none" =>
          /\ pc = "idle" \/ Dead
          /\ \A t \in Keys : managed[t] = NoManaged /\ mine[t] = 0

\* Only a living thread can be suspended, and one that is not born is not known.
LifeOK ==
    /\ \A t \in Keys : life[t] # "alive" => mine[t] = 0 /\ others[t] = 0
    /\ \A t \in Threads : life[t] # "unborn"
    /\ pc = "prune" => \A t \in op.changed : life[t] # "unborn"
    /\ pc = "forget" /\ at.then = "prune" => \A t \in op.changed : life[t] # "unborn"
    /\ pc = "capture" => \A t \in op.todo : life[t] # "unborn"
    /\ pc = "forget" /\ at.then \in {"prune", "resumeSuspending"} => life[at.thread] = "exited"
    /\ pc = "resumeSuspending" => life[at.thread] = "exited"

\* Winderust holds the increments that it believes it owns.
OwnedOK == ~Dead => \A t \in Keys : life[t] = "alive" => (mine[t] = 1 <=> IsOwned(t))

Suspending == pc = "suspend" \/ pc \in SuspendLabels
                \/ (pc \in {"resume", "forget"} /\ at.then \in {"failed", "resumeSuspending"})

RollingBack == pc = "rollback" \/ (pc \in {"resume", "forget"} /\ at.then = "rollback")

Thawing == pc = "thaw" \/ (pc \in {"resume", "forget"} /\ at.then = "thaw")

\* The threads still to be visited, and those suspended in this call.
TodoOK ==
    /\ pc = "prune" \/ (pc = "forget" /\ at.then = "prune") =>
          /\ op.todo \subseteq Threads
          /\ pc = "forget" => at.thread \notin op.todo
          /\ op.kind = "freeze" => op.changed = {}
    /\ pc = "capture" => op.changed = {}
    /\ Suspending =>
          /\ \A t \in op.todo : t \in Threads /\ ~IsOwned(t)
          /\ \A t \in op.changed : IsOwned(t) /\ t \notin op.todo
          /\ pc # "suspend" => at.thread \notin op.todo \cup op.changed
    /\ RollingBack =>
          /\ \A t \in op.changed : IsOwned(t)
          /\ pc # "rollback" => at.thread \notin op.changed
    /\ Thawing =>
          /\ \A t \in op.todo : IsOwned(t)
          /\ pc # "thaw" => at.thread \notin op.todo
    /\ pc = "forgetAll" \/ (pc = "forget" /\ at.then = "forgetAll") =>
          op.todo \subseteq Threads /\ (pc = "forget" => at.thread \notin op.todo)

\* The thread at hand.
ThreadOK ==
    /\ pc \in ThreadLabels \ {"resumeSuspending"} => at.thread \in Threads
    /\ pc \in {"begin", "cancel"} => ~Armed(at.thread) /\ ~IsOwned(at.thread)
    /\ pc = "suspendOnce" => ~IsOwned(at.thread) /\ (at.id \in Ids <=> ~Armed(at.thread))
    /\ pc = "commit" => ~Armed(at.thread) /\ IsOwned(at.thread)
    /\ pc \in {"check", "compensate"} => Armed(at.thread) /\ IsOwned(at.thread)
    /\ pc = "resume" => IsOwned(at.thread)
    /\ pc = "forget" => ~IsOwned(at.thread)
    /\ pc = "forget" /\ at.then = "forgetAll" => Armed(at.thread)

\* A release that has not failed so far has not forgotten a thread.
ReleaseOK ==
    op.kind = "release" /\ op.ok =>
        /\ \A t \in Keys : IsOwned(t) =>
              Thawing /\ (t \in op.todo \/ (pc = "resume" /\ t = at.thread))
        /\ pc = "forgetAll" \/ (pc = "forget" /\ at.then = "forgetAll") =>
              \A t \in Keys : Armed(t) => t \in op.todo \/ (pc = "forget" /\ t = at.thread)

\* The command under way is the one of the label; an intent is held by an unlatched service.
CallOK ==
    /\ call # NoCall =>
          /\ call.phase \in {"sent", "landed"}
          /\ pc \in {"begin", "commit", "cancel", "forget"}
          /\ pc = "begin" => call.command = Begin(at.id, at.thread, ThreadEdge(at.thread))
          /\ pc = "commit" => call.command = Commit(at.id)
          /\ pc = "cancel" => call.command = Cancel(at.id)
          /\ pc = "forget" => call.command = Forget(at.thread) /\ Armed(at.thread)
    /\ pc \in IntentLabels \/ (pc = "suspendOnce" /\ at.id # 0) => ~latched
    /\ Dead => latched

Landed == Called("landed")

\* The intent at hand is pending.
Open ==
    \/ pc = "suspendOnce" /\ ~Armed(at.thread)
    \/ pc = "begin" /\ Landed
    \/ pc \in IntentLabels /\ ~Landed

\* The key has a committed record.
Kept(t) ==
    \/ Armed(t) /\ ~(pc = "forget" /\ Landed /\ t = at.thread)
    \/ pc = "commit" /\ Landed /\ t = at.thread

\* While the service answers, its journal is what the target believes.
LedgerOK ==
    ~latched =>
        /\ journal.pending =
              IF Open THEN {[id |-> at.id, key |-> at.thread, edge |-> ThreadEdge(at.thread)]} ELSE {}
        /\ \A t \in Keys : journal.committed[t] # << >> <=> Kept(t)

\* The target is on its way to be given up: no thread of it is suspended any more.
Doomed ==
    \/ Dead \/ stage = "retiring" \/ op.kind = "release" \/ RollingBack
    \/ op.kind = "thaw" /\ ~op.ok

\* The thread is suspended, or may be without a new record.
Exposed(t) ==
    \/ mine[t] = 1
    \/ Armed(t) /\ ~Doomed /\ ~(pc \in {"forget", "failed"} /\ t = at.thread)

\* Whatever the helper finds records each such thread.
RecordOK == \A J \in Futures : OneRecord(J) /\ \A t \in Keys : Exposed(t) => Rec(J, t)

IInv ==
    /\ TypeOK /\ ServiceInv /\ StepOK /\ StageOK /\ LifeOK /\ OwnedOK /\ TodoOK /\ ThreadOK
    /\ ReleaseOK /\ CallOK /\ LedgerOK /\ RecordOK

--------------------------------------------------------------------------------
(***************************************************************************)
(* Types, by the part of the state.                                        *)
(***************************************************************************)
OpTypes == [kind : {"none", "freeze", "adopt", "thaw", "release"}, todo : SUBSET Keys,
            changed : SUBSET Keys, ok : BOOLEAN]

Places == {"idle", "prune", "failed", "resumeSuspending", "rollback", "thaw", "forgetAll"}

AtTypes == [thread : Keys, id : Ids \cup {0}, prior : 0..(MaxOthers + 1), forget : BOOLEAN,
            then : Places]

ControlTypes ==
    /\ pc \in BusyLabels \cup {"idle", "dead", "replayed"}
    /\ op \in OpTypes /\ at \in AtTypes
    /\ stage \in {"none", "awake", "known", "frozen", "retiring", "kept"}

ManagedTypes == managed \in [Keys -> Managed \cup {NoManaged}]

WorldTypes ==
    /\ mine \in [Keys -> 0..1] /\ others \in [Keys -> 0..MaxOthers]
    /\ life \in [Keys -> {"unborn", "alive", "exited"}]

BoundTypes == nextId \in Nat \ {0} /\ faults \in 0..MaxFaults

LEMMA TypeParts ==
    TypeOK <=> ServiceTypeOK /\ ControlTypes /\ ManagedTypes /\ WorldTypes /\ BoundTypes
BY DEF TypeOK, ControlTypes, ManagedTypes, WorldTypes, BoundTypes, BusyLabels, ThreadLabels,
       SuspendLabels, OpTypes, AtTypes, Places

--------------------------------------------------------------------------------
(***************************************************************************)
(* The changes of the call, of the thread at hand and of what is managed,  *)
(* field by field.                                                         *)
(***************************************************************************)
OpNow(kind, todo, changed, ok) ==
    /\ op' \in OpTypes
    /\ op'.kind = kind /\ op'.todo = todo /\ op'.changed = changed /\ op'.ok = ok

AtNow(t, id, forget, then) ==
    /\ at' \in AtTypes
    /\ at'.thread = t /\ at'.id = id /\ at'.forget = forget /\ at'.then = then

Ends(next) == pc' = "idle" /\ op' = NoOp /\ at' \in AtTypes /\ stage' = next

\* Only what is known of thread t changes: it is managed, with these flags, or no more.
ThreadNow(t, armed, owned) ==
    /\ managed' \in [Keys -> Managed \cup {NoManaged}]
    /\ \A j \in Keys \ {t} : managed'[j] = managed[j]
    /\ managed'[t] # NoManaged /\ managed'[t].count = managed[t].count
    /\ managed'[t].armed = armed /\ managed'[t].owned = owned

ThreadGone(t) ==
    /\ managed' \in [Keys -> Managed \cup {NoManaged}]
    /\ \A j \in Keys \ {t} : managed'[j] = managed[j]
    /\ managed'[t] = NoManaged

LEMMA OpFields ==
    ASSUME op \in OpTypes
    PROVE  /\ op.kind \in {"none", "freeze", "adopt", "thaw", "release"}
           /\ op.todo \subseteq Keys /\ op.changed \subseteq Keys /\ op.ok \in BOOLEAN
BY DEF OpTypes

LEMMA AtFields ==
    ASSUME at \in AtTypes
    PROVE  /\ at.thread \in Keys /\ at.id \in Ids \cup {0} /\ at.prior \in 0..(MaxOthers + 1)
           /\ at.forget \in BOOLEAN /\ at.then \in Places
BY DEF AtTypes

LEMMA ThreadFields ==
    ASSUME ManagedTypes, NEW t \in Keys, managed[t] # NoManaged
    PROVE  /\ managed[t] \in Managed /\ managed[t].count \in 0..MaxOthers
           /\ managed[t].armed \in BOOLEAN /\ managed[t].owned \in BOOLEAN
BY DEF ManagedTypes, Managed

LEMMA OpChanges ==
    ASSUME op \in OpTypes
    PROVE  /\ \A S \in SUBSET Keys : op' = [op EXCEPT !.todo = S]
                 => OpNow(op.kind, S, op.changed, op.ok)
           /\ \A S \in SUBSET Keys : op' = [op EXCEPT !.changed = S]
                 => OpNow(op.kind, op.todo, S, op.ok)
           /\ \A S \in SUBSET Keys : op' = [op EXCEPT !.todo = S, !.changed = {}]
                 => OpNow(op.kind, S, {}, op.ok)
           /\ \A ok \in BOOLEAN : op' = [op EXCEPT !.ok = ok]
                 => OpNow(op.kind, op.todo, op.changed, ok)
           /\ UNCHANGED op => OpNow(op.kind, op.todo, op.changed, op.ok)
BY DEF OpTypes, OpNow

LEMMA OpStarts ==
    ASSUME NEW kind \in {"freeze", "adopt", "thaw", "release"}, NEW S \in SUBSET Keys
    PROVE  /\ op' = [NoOp EXCEPT !.kind = kind, !.todo = S] => OpNow(kind, S, {}, TRUE)
           /\ \A T \in SUBSET Keys :
                 op' = [NoOp EXCEPT !.kind = kind, !.todo = S, !.changed = T] => OpNow(kind, S, T, TRUE)
BY DEF NoOp, OpNow, OpTypes

LEMMA NoOpFields ==
    /\ NoOp \in OpTypes /\ NoOp.kind = "none" /\ NoOp.todo = {} /\ NoOp.changed = {} /\ NoOp.ok = TRUE
BY DEF NoOp, OpTypes

LEMMA AtChanges ==
    ASSUME at \in AtTypes
    PROVE  /\ \A n \in Ids \cup {0} : at' = [at EXCEPT !.id = n]
                 => AtNow(at.thread, n, at.forget, at.then)
           /\ \A n \in 0..(MaxOthers + 1) : at' = [at EXCEPT !.prior = n]
                 => AtNow(at.thread, at.id, at.forget, at.then)
           /\ \A b \in BOOLEAN : at' = [at EXCEPT !.forget = b]
                 => AtNow(at.thread, at.id, b, at.then)
           /\ \A then \in Places : at' = [at EXCEPT !.then = then]
                 => AtNow(at.thread, at.id, at.forget, then)
           /\ UNCHANGED at => AtNow(at.thread, at.id, at.forget, at.then)
           /\ at' = [at EXCEPT !.id = 0, !.prior = 0] => at' \in AtTypes
<1> DEFINE P == 0..(MaxOthers + 1)
           I == Ids \cup {0}
<1>1. 0 \in P /\ 0 \in I
  BY CountAssumption
<1>2. AtTypes = [thread : Keys, id : I, prior : P, forget : BOOLEAN, then : Places]
  BY DEF AtTypes
<1> HIDE DEF P, I
<1>3. ASSUME NEW n \in I, at' = [at EXCEPT !.id = n] PROVE AtNow(at.thread, n, at.forget, at.then)
  BY <1>2, <1>3 DEF AtNow
<1>4. ASSUME NEW n \in P, at' = [at EXCEPT !.prior = n]
      PROVE  AtNow(at.thread, at.id, at.forget, at.then)
  BY <1>2, <1>4 DEF AtNow
<1>5. ASSUME NEW b \in BOOLEAN, at' = [at EXCEPT !.forget = b]
      PROVE  AtNow(at.thread, at.id, b, at.then)
  BY <1>2, <1>5 DEF AtNow
<1>6. ASSUME NEW then \in Places, at' = [at EXCEPT !.then = then]
      PROVE  AtNow(at.thread, at.id, at.forget, then)
  BY <1>2, <1>6 DEF AtNow
<1>7. ASSUME UNCHANGED at PROVE AtNow(at.thread, at.id, at.forget, at.then)
  BY <1>7 DEF AtNow
<1>8. ASSUME at' = [at EXCEPT !.id = 0, !.prior = 0] PROVE at' \in AtTypes
  BY <1>1, <1>2, <1>8
<1> QED  BY <1>3, <1>4, <1>5, <1>6, <1>7, <1>8 DEF P, I

LEMMA AtStarts ==
    ASSUME NEW t \in Keys, NEW then \in Places
    PROVE  /\ at' = At(t, then) => AtNow(t, 0, FALSE, then)
           /\ at' = [At(t, then) EXCEPT !.forget = TRUE] => AtNow(t, 0, TRUE, then)
<1> DEFINE P == 0..(MaxOthers + 1)
           I == Ids \cup {0}
<1>1. 0 \in P /\ 0 \in I
  BY CountAssumption
<1>2. AtTypes = [thread : Keys, id : I, prior : P, forget : BOOLEAN, then : Places]
  BY DEF AtTypes
<1> HIDE DEF P, I
<1>3. ASSUME at' = At(t, then) PROVE AtNow(t, 0, FALSE, then)
  BY <1>1, <1>2, <1>3 DEF AtNow, At
<1>4. ASSUME at' = [At(t, then) EXCEPT !.forget = TRUE] PROVE AtNow(t, 0, TRUE, then)
  BY <1>1, <1>2, <1>4 DEF AtNow, At
<1> QED  BY <1>3, <1>4

LEMMA EndEffect ==
    ASSUME at \in AtTypes, NEW next, End(next) PROVE Ends(next)
BY AtChanges DEF End, Ends

LEMMA ThreadMade ==
    ASSUME ManagedTypes, NEW t \in Keys, NEW e \in Managed, managed' = [managed EXCEPT ![t] = e],
           e.count = managed[t].count
    PROVE  ThreadNow(t, e.armed, e.owned)
BY SentinelAssumption DEF ManagedTypes, ThreadNow

LEMMA ThreadChanges ==
    ASSUME ManagedTypes, NEW t \in Keys, managed[t] # NoManaged, NEW b \in BOOLEAN
    PROVE  /\ Set(t, "owned", b) => ThreadNow(t, managed[t].armed, b)
           /\ Set(t, "armed", b) => ThreadNow(t, b, managed[t].owned)
<1> DEFINE m == managed[t]
<1>1. m \in [count : 0..MaxOthers, armed : BOOLEAN, owned : BOOLEAN]
  BY ThreadFields DEF Managed
<1>2. ASSUME Set(t, "owned", b) PROVE ThreadNow(t, m.armed, b)
  <2> DEFINE e == [m EXCEPT !.owned = b]
  <2>1. e \in Managed /\ e.count = m.count /\ e.armed = m.armed /\ e.owned = b
    BY <1>1 DEF Managed
  <2>2. managed' = [managed EXCEPT ![t] = e]
    BY <1>2 DEF Set
  <2> HIDE DEF e
  <2> QED  BY <2>1, <2>2, ThreadMade
<1>3. ASSUME Set(t, "armed", b) PROVE ThreadNow(t, b, m.owned)
  <2> DEFINE e == [m EXCEPT !.armed = b]
  <2>1. e \in Managed /\ e.count = m.count /\ e.armed = b /\ e.owned = m.owned
    BY <1>1 DEF Managed
  <2>2. managed' = [managed EXCEPT ![t] = e]
    BY <1>3 DEF Set
  <2> HIDE DEF e
  <2> QED  BY <2>1, <2>2, ThreadMade
<1> QED  BY <1>2, <1>3

LEMMA ThreadDropped ==
    ASSUME ManagedTypes, NEW t \in Keys, Drop(t) PROVE ThreadGone(t)
BY DEF ManagedTypes, Drop, ThreadGone

--------------------------------------------------------------------------------
(***************************************************************************)
(* What the actions do, field by field.                                    *)
(***************************************************************************)
LEMMA ForgetThreadEffect ==
    ASSUME ControlTypes, ManagedTypes, ThreadOK, ForgetThread
    PROVE  LET t == at.thread
           IN  /\ pc = "forget" /\ UNCHANGED <<worldVars, nextId>>
               /\ \/ Armed(t) /\ Ask(Forget(t))
                  \/ /\ (Armed(t) /\ Granted) \/ (~Armed(t) /\ UNCHANGED <<serviceVars, faults>>)
                     /\ at.then \in {"prune", "resumeSuspending"} /\ ThreadGone(t)
                     /\ pc' = at.then /\ UNCHANGED <<op, at, stage>>
                  \/ /\ (Armed(t) /\ Granted) \/ (~Armed(t) /\ UNCHANGED <<serviceVars, faults>>)
                     /\ at.then \notin {"prune", "resumeSuspending"}
                     /\ ThreadNow(t, FALSE, managed[t].owned)
                     /\ pc' = at.then /\ UNCHANGED <<op, at, stage>>
                  \/ Armed(t) /\ Denied /\ at.then = "prune" /\ Ends("retiring") /\ UNCHANGED managed
                  \/ /\ Armed(t) /\ Denied /\ at.then # "prune"
                     /\ OpNow(op.kind, op.todo, op.changed, FALSE)
                     /\ pc' = IF at.then = "resumeSuspending" THEN "rollback" ELSE at.then
                     /\ UNCHANGED <<at, stage, managed>>
<1> DEFINE t == at.thread
<1>1. pc = "forget" /\ t \in Keys /\ managed[t] # NoManaged /\ (managed[t].armed <=> Armed(t))
  BY AtFields DEF ForgetThread, ControlTypes, ThreadOK, ThreadLabels, SuspendLabels, Threads, Armed
<1>2. CASE managed[t].armed /\ Ask(Forget(t))
  BY <1>1, <1>2 DEF Ask, callVars
<1>3. CASE /\ (managed[t].armed /\ Granted) \/ (~managed[t].armed /\ UNCHANGED <<serviceVars, faults>>)
           /\ Forgotten(t) /\ Goto(at.then)
           /\ UNCHANGED <<op, at, stage, worldVars, nextId>>
  BY <1>1, <1>3, ThreadDropped, ThreadChanges DEF Forgotten, Goto
<1>4. CASE /\ managed[t].armed /\ Denied
           /\ IF at.then = "prune" THEN Fails
              ELSE Noted /\ Goto(IF at.then = "resumeSuspending" THEN "rollback" ELSE at.then)
                   /\ UNCHANGED <<at, stage>>
           /\ UNCHANGED <<managed, worldVars, nextId>>
  BY <1>1, <1>4, EndEffect, OpChanges DEF ControlTypes, Fails, Noted, Goto
<1> QED  BY <1>2, <1>3, <1>4 DEF ForgetThread

LEMMA PruneEffect ==
    ASSUME ControlTypes, ManagedTypes, TodoOK, Prune
    PROVE  /\ pc = "prune" /\ UNCHANGED <<serviceVars, worldVars, nextId>>
           /\ \/ \E t \in op.todo :
                    /\ life[t] = "alive" /\ OpNow(op.kind, op.todo \ {t}, op.changed, op.ok)
                    /\ UNCHANGED <<pc, at, stage, managed, faults>>
              \/ \E t \in op.todo :
                    /\ life[t] = "exited" /\ OpNow(op.kind, op.todo \ {t}, op.changed, op.ok)
                    /\ ThreadNow(t, managed[t].armed, FALSE) /\ AtNow(t, 0, FALSE, "prune")
                    /\ pc' = "forget" /\ UNCHANGED <<stage, faults>>
              \/ Fault /\ Ends("retiring") /\ UNCHANGED managed
              \/ /\ op.todo = {} /\ op.kind = "freeze"
                 /\ OpNow(op.kind, Threads \ Owned, op.changed, op.ok)
                 /\ pc' = "suspend" /\ UNCHANGED <<at, stage, managed, faults>>
              \/ /\ op.todo = {} /\ op.kind # "freeze"
                 /\ OpNow(op.kind, op.changed, {}, op.ok)
                 /\ pc' = "capture" /\ UNCHANGED <<at, stage, managed, faults>>
<1>1. /\ pc = "prune" /\ op \in OpTypes /\ at \in AtTypes
      /\ op.todo \subseteq Threads /\ op.todo \subseteq Keys /\ op.changed \subseteq Keys
      /\ UNCHANGED <<serviceVars, worldVars, nextId>> /\ Threads \ Owned \subseteq Keys
  BY OpFields DEF Prune, ControlTypes, TodoOK, Threads
<1>2. \A t \in op.todo : op.todo \ {t} \in SUBSET Keys
  BY <1>1
<1>3. ASSUME NEW t \in op.todo, life[t] = "alive", op' = [op EXCEPT !.todo = @ \ {t}],
             UNCHANGED <<pc, at, stage, managed, faults>>
      PROVE  OpNow(op.kind, op.todo \ {t}, op.changed, op.ok)
  BY <1>1, <1>2, <1>3, OpChanges
<1>4. ASSUME NEW t \in op.todo, op' = [op EXCEPT !.todo = @ \ {t}], Set(t, "owned", FALSE),
             at' = At(t, "prune")
      PROVE  /\ OpNow(op.kind, op.todo \ {t}, op.changed, op.ok)
             /\ ThreadNow(t, managed[t].armed, FALSE) /\ AtNow(t, 0, FALSE, "prune")
  <2>1. t \in Keys /\ managed[t] # NoManaged /\ "prune" \in Places
    BY <1>1 DEF Threads, Places
  <2> QED  BY <1>1, <1>2, <1>4, <2>1, OpChanges, ThreadChanges, AtStarts
<1>5. Fails => Ends("retiring")
  BY <1>1, EndEffect DEF Fails
<1>6. CASE \E t \in op.todo :
            \/ /\ life[t] = "alive" /\ op' = [op EXCEPT !.todo = @ \ {t}]
               /\ UNCHANGED <<pc, at, stage, managed, faults>>
            \/ /\ life[t] = "exited" /\ op' = [op EXCEPT !.todo = @ \ {t}]
               /\ Set(t, "owned", FALSE)
               /\ at' = At(t, "prune") /\ Goto("forget")
               /\ UNCHANGED <<stage, faults>>
            \/ Fault /\ Fails /\ UNCHANGED managed
  <2>1. PICK t \in op.todo :
            \/ /\ life[t] = "alive" /\ op' = [op EXCEPT !.todo = @ \ {t}]
               /\ UNCHANGED <<pc, at, stage, managed, faults>>
            \/ /\ life[t] = "exited" /\ op' = [op EXCEPT !.todo = @ \ {t}]
               /\ Set(t, "owned", FALSE)
               /\ at' = At(t, "prune") /\ Goto("forget")
               /\ UNCHANGED <<stage, faults>>
            \/ Fault /\ Fails /\ UNCHANGED managed
    BY <1>6
  <2> QED  BY <1>1, <1>3, <1>4, <1>5, <2>1 DEF Goto
<1>7. CASE /\ op.todo = {}
           /\ IF op.kind = "freeze"
              THEN op' = [op EXCEPT !.todo = Threads \ Owned] /\ Goto("suspend")
              ELSE op' = [op EXCEPT !.todo = op.changed, !.changed = {}] /\ Goto("capture")
           /\ UNCHANGED <<at, stage, managed, faults>>
  BY <1>1, <1>7, OpChanges DEF Goto
<1> QED  BY <1>6, <1>7 DEF Prune

\* Captured threads are managed, neither recorded nor suspended.
LEMMA CaptureEffect ==
    ASSUME ControlTypes, ManagedTypes, WorldTypes, OwnedOK, Capture
    PROVE  /\ pc = "capture" /\ UNCHANGED <<serviceVars, worldVars, nextId>>
           /\ \/ /\ \A t \in Unknown : life[t] = "alive"
                 /\ managed' \in [Keys -> Managed \cup {NoManaged}]
                 /\ \A t \in Keys : t \notin Unknown => managed'[t] = managed[t]
                 /\ \A t \in Unknown :
                       managed'[t] # NoManaged /\ ~managed'[t].armed /\ ~managed'[t].owned
                 /\ OpNow(op.kind, Unknown, op.changed, op.ok)
                 /\ pc' = "suspend" /\ UNCHANGED <<at, stage, faults>>
              \/ Ends("retiring") /\ UNCHANGED managed /\ (UNCHANGED faults \/ Fault)
<1>1. /\ pc = "capture" /\ op \in OpTypes /\ at \in AtTypes
      /\ Unknown \in SUBSET Keys /\ UNCHANGED <<serviceVars, worldVars, nextId>>
  BY OpFields DEF Capture, ControlTypes, Unknown
<1>2. Fails => Ends("retiring")
  BY <1>1, EndEffect DEF Fails
<1>3. CASE /\ \A t \in Unknown : life[t] = "alive"
           /\ managed' = [t \in Keys |->
                 IF t \in Unknown THEN [count |-> Count(t), armed |-> FALSE, owned |-> FALSE]
                 ELSE managed[t]]
           /\ op' = [op EXCEPT !.todo = Unknown] /\ Goto("suspend")
           /\ UNCHANGED <<at, stage, faults>>
  <2>1. ASSUME NEW t \in Unknown
        PROVE  [count |-> Count(t), armed |-> FALSE, owned |-> FALSE] \in Managed
    <3>1. mine[t] = 0 /\ others[t] \in 0..MaxOthers
      BY <1>1, <1>3 DEF OwnedOK, Dead, IsOwned, Unknown, Threads, WorldTypes
    <3>2. Count(t) \in 0..MaxOthers
      BY <3>1, CountAssumption DEF Count
    <3> QED  BY <3>2 DEF Managed
  <2>2. managed' \in [Keys -> Managed \cup {NoManaged}]
    BY <1>3, <2>1 DEF ManagedTypes
  <2>3. \A t \in Unknown :
           managed'[t] # NoManaged /\ ~managed'[t].armed /\ ~managed'[t].owned
    BY <1>1, <1>3, <2>1, SentinelAssumption
  <2>4. \A t \in Keys : t \notin Unknown => managed'[t] = managed[t]
    BY <1>3
  <2>5. OpNow(op.kind, Unknown, op.changed, op.ok)
    BY <1>1, <1>3, OpChanges
  <2> QED  BY <1>1, <1>3, <2>2, <2>3, <2>4, <2>5 DEF Goto
<1>4. CASE Fails /\ UNCHANGED managed /\ (UNCHANGED faults \/ Fault)
  BY <1>1, <1>2, <1>4
<1> QED  BY <1>3, <1>4 DEF Capture

LEMMA NextThreadEffect ==
    ASSUME ControlTypes, NextThread
    PROVE  /\ pc = "suspend" /\ UNCHANGED <<serviceVars, managed, worldVars, nextId, faults>>
           /\ \/ \E t \in op.todo :
                    /\ OpNow(op.kind, op.todo \ {t}, op.changed, op.ok)
                    /\ AtNow(t, 0, FALSE, "failed") /\ UNCHANGED stage
                    /\ pc' = IF managed[t].armed THEN "suspendOnce" ELSE "begin"
              \/ op.todo = {} /\ Ends(IF op.kind = "freeze" THEN "known" ELSE "frozen")
<1>1. pc = "suspend" /\ op \in OpTypes /\ at \in AtTypes /\ op.todo \subseteq Keys
  BY OpFields DEF NextThread, ControlTypes
<1>2. ASSUME NEW t \in op.todo, op' = [op EXCEPT !.todo = @ \ {t}], at' = At(t, "failed")
      PROVE  OpNow(op.kind, op.todo \ {t}, op.changed, op.ok) /\ AtNow(t, 0, FALSE, "failed")
  <2>1. t \in Keys /\ "failed" \in Places /\ op.todo \ {t} \in SUBSET Keys
    BY <1>1 DEF Places
  <2> QED  BY <1>1, <1>2, <2>1, OpChanges, AtStarts
<1>3. CASE \E t \in op.todo :
            /\ op' = [op EXCEPT !.todo = @ \ {t}]
            /\ at' = At(t, "failed")
            /\ Goto(IF managed[t].armed THEN "suspendOnce" ELSE "begin")
            /\ UNCHANGED stage
  BY <1>1, <1>2, <1>3 DEF NextThread, Goto
<1>4. CASE op.todo = {} /\ End(IF op.kind = "freeze" THEN "known" ELSE "frozen")
  BY <1>1, <1>4, EndEffect DEF NextThread
<1> QED  BY <1>3, <1>4 DEF NextThread

LEMMA BeginSuspensionEffect ==
    ASSUME ControlTypes, BeginSuspension
    PROVE  /\ pc = "begin" /\ at.thread \in Keys /\ UNCHANGED <<op, stage, managed, worldVars>>
           /\ \/ /\ nextId \in Ids /\ Submit(Begin(nextId, at.thread, ThreadEdge(at.thread)))
                 /\ AtNow(at.thread, nextId, at.forget, at.then)
                 /\ nextId' = nextId + 1 /\ UNCHANGED <<pc, faults>>
              \/ Granted /\ pc' = "suspendOnce" /\ UNCHANGED <<at, nextId>>
              \/ /\ Denied \/ (call = NoCall /\ UNCHANGED serviceVars /\ (Fault \/ UNCHANGED faults))
                 /\ pc' = "failed" /\ UNCHANGED <<at, nextId>>
<1>1. pc = "begin" /\ at \in AtTypes /\ at.thread \in Keys
  BY AtFields DEF BeginSuspension, ControlTypes
<1> QED  BY <1>1, AtChanges DEF BeginSuspension, Goto

LEMMA SuspendOnceEffect ==
    ASSUME ControlTypes, ManagedTypes, WorldTypes, ThreadOK, OwnedOK, SuspendOnce
    PROVE  LET t == at.thread
           IN  /\ pc = "suspendOnce" /\ t \in Keys
               /\ UNCHANGED <<serviceVars, op, stage, others, life, nextId>>
               /\ \/ /\ life[t] = "alive" /\ mine[t] = 0
                     /\ mine' = [mine EXCEPT ![t] = 1]
                     /\ ThreadNow(t, managed[t].armed, TRUE)
                     /\ AtNow(t, at.id, at.forget, at.then)
                     /\ pc' = IF Armed(t) THEN "check" ELSE "commit"
                     /\ UNCHANGED faults
                  \/ /\ pc' = IF Armed(t) THEN "failed" ELSE "cancel"
                     /\ UNCHANGED <<mine, managed, at>> /\ (UNCHANGED faults \/ Fault)
<1> DEFINE t == at.thread
<1>1. /\ pc = "suspendOnce" /\ t \in Keys /\ at \in AtTypes /\ managed[t] # NoManaged
      /\ managed[t].armed <=> Armed(t)
      /\ UNCHANGED <<serviceVars, op, stage, others, life, nextId>>
  BY AtFields DEF SuspendOnce, ControlTypes, ThreadOK, ThreadLabels, SuspendLabels, Threads, Armed
<1>2. ASSUME life[t] = "alive" PROVE mine[t] = 0 /\ Count(t) \in 0..(MaxOthers + 1)
  <2>1. mine[t] = 0 /\ others[t] \in 0..MaxOthers
    BY <1>1, <1>2 DEF OwnedOK, Dead, ThreadOK, WorldTypes
  <2> QED  BY <2>1, CountAssumption DEF Count
<1>3. CASE /\ life[t] = "alive"
           /\ mine' = [mine EXCEPT ![t] = @ + 1]
           /\ Set(t, "owned", TRUE)
           /\ at' = [at EXCEPT !.prior = Count(t)]
           /\ Goto(IF managed[t].armed THEN "check" ELSE "commit")
           /\ UNCHANGED faults
  <2>1. ThreadNow(t, managed[t].armed, TRUE)
    BY <1>1, <1>3, ThreadChanges
  <2>2. AtNow(t, at.id, at.forget, at.then)
    BY <1>1, <1>2, <1>3, AtChanges
  <2>3. mine[t] = 0 /\ mine' = [mine EXCEPT ![t] = mine[t] + 1]
    BY <1>2, <1>3
  <2>4. mine' = [mine EXCEPT ![t] = 1]
    BY <2>3
  <2> QED  BY <1>1, <1>3, <2>1, <2>2, <2>3, <2>4 DEF Goto
<1>4. CASE /\ (life[t] = "exited" /\ UNCHANGED faults) \/ Fault
           /\ Goto(IF managed[t].armed THEN "failed" ELSE "cancel")
           /\ UNCHANGED <<mine, managed, at>>
  BY <1>1, <1>4 DEF Goto
<1> QED  BY <1>3, <1>4 DEF SuspendOnce

LEMMA CancelSuspensionEffect ==
    ASSUME CancelSuspension
    PROVE  /\ pc = "cancel"
           /\ \/ Ask(Cancel(at.id))
              \/ /\ Granted \/ Denied
                 /\ pc' = "failed" /\ UNCHANGED <<op, at, stage, managed, worldVars, nextId>>
BY DEF CancelSuspension, Goto

LEMMA CommitSuspensionEffect ==
    ASSUME ControlTypes, ManagedTypes, ThreadOK, CommitSuspension
    PROVE  /\ pc = "commit" /\ at.thread \in Keys
           /\ \/ Ask(Commit(at.id))
              \/ /\ Granted /\ ThreadNow(at.thread, TRUE, managed[at.thread].owned)
                 /\ pc' = "check" /\ UNCHANGED <<op, at, stage, worldVars, nextId>>
              \/ /\ Denied /\ AtNow(at.thread, at.id, TRUE, at.then)
                 /\ pc' = "resume" /\ UNCHANGED <<op, managed, stage, worldVars, nextId>>
<1>1. /\ pc = "commit" /\ at.thread \in Keys /\ at \in AtTypes /\ managed[at.thread] # NoManaged
  BY AtFields DEF CommitSuspension, ControlTypes, ThreadOK, ThreadLabels, SuspendLabels, Threads
<1> QED  BY <1>1, ThreadChanges, AtChanges DEF CommitSuspension, Goto

LEMMA CheckEffect ==
    ASSUME ControlTypes, Check
    PROVE  /\ pc = "check" /\ at.thread \in Keys
           /\ UNCHANGED <<serviceVars, at, stage, managed, worldVars, nextId, faults>>
           /\ \/ /\ OpNow(op.kind, op.todo, op.changed \cup {at.thread}, op.ok) /\ pc' = "suspend"
              \/ pc' = "compensate" /\ UNCHANGED op
<1>1. /\ pc = "check" /\ at.thread \in Keys /\ op \in OpTypes /\ op.changed \cup {at.thread} \in SUBSET Keys
  BY AtFields, OpFields DEF Check, ControlTypes
<1> QED  BY <1>1, OpChanges DEF Check, Goto

LEMMA CompensateEffect ==
    ASSUME ControlTypes, ManagedTypes, WorldTypes, ThreadOK, OwnedOK, Compensate
    PROVE  LET t == at.thread
           IN  /\ pc = "compensate" /\ t \in Keys
               /\ UNCHANGED <<serviceVars, op, at, stage, others, life, nextId>>
               /\ \/ /\ mine' = IF life[t] = "alive" THEN [mine EXCEPT ![t] = 0] ELSE mine
                     /\ ThreadNow(t, managed[t].armed, FALSE)
                     /\ pc' = "forget" /\ UNCHANGED faults
                  \/ Fault /\ pc' = "failed" /\ UNCHANGED <<managed, mine>>
<1> DEFINE t == at.thread
<1>1. /\ pc = "compensate" /\ t \in Keys /\ managed[t] # NoManaged
      /\ UNCHANGED <<serviceVars, op, at, stage, life, nextId>>
  BY AtFields DEF Compensate, ControlTypes, ThreadOK, ThreadLabels, SuspendLabels, Threads
<1>2. life[t] = "alive" => mine[t] = 1
  BY <1>1 DEF OwnedOK, Dead, ThreadOK
<1>3. life[t] = "alive" /\ TakeBack(t) => mine' = [mine EXCEPT ![t] = 0] /\ UNCHANGED others
  BY <1>1, <1>2 DEF TakeBack
<1>4. CASE /\ IF life[t] = "alive" THEN TakeBack(t) ELSE UNCHANGED <<mine, others>>
           /\ Set(t, "owned", FALSE) /\ Goto("forget") /\ UNCHANGED faults
  <2>1. ThreadNow(t, managed[t].armed, FALSE)
    BY <1>1, <1>4, ThreadChanges
  <2> QED  BY <1>1, <1>3, <1>4, <2>1 DEF Goto
<1>5. CASE Fault /\ Goto("failed") /\ UNCHANGED <<managed, mine, others>>
  BY <1>1, <1>5 DEF Goto
<1> QED  BY <1>4, <1>5 DEF Compensate

LEMMA SuspendFailedEffect ==
    ASSUME ControlTypes, ManagedTypes, ThreadOK, SuspendFailed
    PROVE  LET t == at.thread
           IN  /\ pc = "failed" /\ t \in Keys /\ UNCHANGED <<serviceVars, op, stage, worldVars, nextId>>
               /\ \/ /\ life[t] = "exited" /\ ThreadNow(t, managed[t].armed, FALSE)
                     /\ AtNow(t, at.id, at.forget, "resumeSuspending")
                     /\ pc' = "forget" /\ UNCHANGED faults
                  \/ pc' = "rollback" /\ UNCHANGED <<managed, at>> /\ (UNCHANGED faults \/ Fault)
<1>1. /\ pc = "failed" /\ at.thread \in Keys /\ at \in AtTypes /\ managed[at.thread] # NoManaged
      /\ "resumeSuspending" \in Places
  BY AtFields DEF SuspendFailed, ControlTypes, ThreadOK, ThreadLabels, SuspendLabels, Threads, Places
<1> QED  BY <1>1, ThreadChanges, AtChanges DEF SuspendFailed, Goto

LEMMA ResumeSuspendingEffect ==
    ASSUME ControlTypes, ResumeSuspending
    PROVE  /\ pc = "resumeSuspending" /\ pc' = "suspend" /\ OpNow(op.kind, op.todo, op.changed, TRUE)
           /\ UNCHANGED <<serviceVars, at, stage, managed, worldVars, nextId, faults>>
BY OpChanges DEF ResumeSuspending, ControlTypes, Goto

LEMMA RollbackEffect ==
    ASSUME ControlTypes, RollbackThreads
    PROVE  /\ pc = "rollback" /\ UNCHANGED <<serviceVars, managed, worldVars, nextId, faults>>
           /\ \/ \E t \in op.changed :
                    /\ OpNow(op.kind, op.todo, op.changed \ {t}, op.ok)
                    /\ AtNow(t, 0, TRUE, "rollback") /\ pc' = "resume" /\ UNCHANGED stage
              \/ op.changed = {} /\ Ends("retiring")
<1>1. pc = "rollback" /\ op \in OpTypes /\ at \in AtTypes /\ op.changed \subseteq Keys
  BY OpFields DEF RollbackThreads, Rollback, ControlTypes
<1>2. ASSUME NEW t \in op.changed, op' = [op EXCEPT !.changed = @ \ {t}],
             at' = [At(t, "rollback") EXCEPT !.forget = TRUE]
      PROVE  OpNow(op.kind, op.todo, op.changed \ {t}, op.ok) /\ AtNow(t, 0, TRUE, "rollback")
  <2>1. t \in Keys /\ "rollback" \in Places /\ op.changed \ {t} \in SUBSET Keys
    BY <1>1 DEF Places
  <2> QED  BY <1>1, <1>2, <2>1, OpChanges, AtStarts
<1>3. CASE \E t \in op.changed :
            /\ op' = [op EXCEPT !.changed = @ \ {t}]
            /\ at' = [At(t, "rollback") EXCEPT !.forget = TRUE]
            /\ Goto("resume") /\ UNCHANGED stage
  BY <1>1, <1>2, <1>3 DEF RollbackThreads, Goto
<1>4. CASE op.changed = {} /\ Fails
  BY <1>1, <1>4, EndEffect DEF RollbackThreads, Fails
<1> QED  BY <1>3, <1>4 DEF RollbackThreads, Rollback

LEMMA ResumeOwnedEffect ==
    ASSUME ControlTypes, ManagedTypes, WorldTypes, ThreadOK, OwnedOK, ResumeOwned
    PROVE  LET t == at.thread
           IN  /\ pc = "resume" /\ t \in Keys
               /\ UNCHANGED <<serviceVars, at, stage, others, life, nextId>>
               /\ \/ /\ life[t] = "alive" /\ mine' = [mine EXCEPT ![t] = 0]
                     /\ ThreadNow(t, managed[t].armed, FALSE)
                     /\ pc' = "forget" \/ (pc' = at.then /\ ~at.forget)
                     /\ \E ok \in BOOLEAN :
                           (ok => op.ok) /\ OpNow(op.kind, op.todo, op.changed, ok)
                     /\ UNCHANGED faults
                  \/ /\ life[t] = "exited" /\ ThreadNow(t, managed[t].armed, FALSE)
                     /\ pc' = "forget" /\ UNCHANGED <<op, mine, faults>>
                  \/ /\ OpNow(op.kind, op.todo, op.changed, FALSE)
                     /\ pc' = at.then /\ UNCHANGED <<managed, mine>> /\ (UNCHANGED faults \/ Fault)
<1> DEFINE t == at.thread
<1>1. /\ pc = "resume" /\ t \in Keys /\ managed[t] # NoManaged /\ op \in OpTypes
      /\ UNCHANGED <<serviceVars, at, stage, life, nextId>> /\ op.ok \in BOOLEAN
  BY AtFields, OpFields DEF ResumeOwned, ControlTypes, ThreadOK, ThreadLabels, SuspendLabels, Threads
<1>2. ThreadNow(t, managed[t].armed, FALSE) \/ ~Set(t, "owned", FALSE)
  BY <1>1, ThreadChanges
<1>3. CASE /\ life[t] = "alive" /\ TakeBack(t)
           /\ Set(t, "owned", FALSE)
           /\ IF Conflicting(t) \/ at.forget THEN Goto("forget") ELSE Goto(at.then)
           /\ op' = [op EXCEPT !.ok = @ /\ ~Conflicting(t)]
           /\ UNCHANGED faults
  <2>1. mine[t] = 1
    BY <1>1, <1>3 DEF OwnedOK, Dead, ThreadOK
  <2>2. mine' = [mine EXCEPT ![t] = 0] /\ UNCHANGED others
    BY <1>1, <1>3, <2>1 DEF TakeBack
  <2>3. pc' = "forget" \/ (pc' = at.then /\ ~at.forget)
    BY <1>3 DEF Goto
  <2> DEFINE ok == op.ok /\ ~Conflicting(t)
  <2>4. ok \in BOOLEAN /\ (ok => op.ok) /\ op' = [op EXCEPT !.ok = ok]
    BY <1>1, <1>3
  <2> HIDE DEF ok
  <2>5. OpNow(op.kind, op.todo, op.changed, ok)
    BY <1>1, <2>4, OpChanges
  <2> QED  BY <1>1, <1>2, <1>3, <2>2, <2>3, <2>4, <2>5
<1>4. CASE /\ life[t] = "exited" /\ Set(t, "owned", FALSE) /\ Goto("forget")
           /\ UNCHANGED <<op, mine, others, faults>>
  BY <1>1, <1>2, <1>4 DEF Goto
<1>5. CASE /\ (life[t] = "exited" /\ UNCHANGED faults) \/ Fault
           /\ Noted /\ Goto(at.then) /\ UNCHANGED <<managed, mine, others>>
  BY <1>1, <1>5, OpChanges DEF Noted, Goto
<1> QED  BY <1>3, <1>4, <1>5 DEF ResumeOwned

LEMMA ThawEffect ==
    ASSUME ControlTypes, ThawThreads
    PROVE  /\ pc = "thaw" /\ UNCHANGED <<serviceVars, managed, worldVars, nextId, faults>>
           /\ \/ \E t \in op.todo :
                    /\ OpNow(op.kind, op.todo \ {t}, op.changed, op.ok)
                    /\ AtNow(t, 0, FALSE, "thaw") /\ pc' = "resume" /\ UNCHANGED stage
              \/ /\ op.todo = {} /\ op.kind = "release" /\ pc' = "forgetAll"
                 /\ OpNow(op.kind, Threads, op.changed, op.ok) /\ UNCHANGED <<at, stage>>
              \/ /\ op.todo = {} /\ op.kind # "release"
                 /\ Ends(IF op.ok THEN "awake" ELSE "retiring")
<1>1. /\ pc = "thaw" /\ op \in OpTypes /\ at \in AtTypes /\ op.todo \subseteq Keys
      /\ Threads \in SUBSET Keys
  BY OpFields DEF ThawThreads, Thaw, ControlTypes, Threads
<1>2. ASSUME NEW t \in op.todo, op' = [op EXCEPT !.todo = @ \ {t}], at' = At(t, "thaw")
      PROVE  OpNow(op.kind, op.todo \ {t}, op.changed, op.ok) /\ AtNow(t, 0, FALSE, "thaw")
  <2>1. t \in Keys /\ "thaw" \in Places /\ op.todo \ {t} \in SUBSET Keys
    BY <1>1 DEF Places
  <2> QED  BY <1>1, <1>2, <2>1, OpChanges, AtStarts
<1>3. CASE \E t \in op.todo :
            /\ op' = [op EXCEPT !.todo = @ \ {t}]
            /\ at' = At(t, "thaw") /\ Goto("resume") /\ UNCHANGED stage
  BY <1>1, <1>2, <1>3 DEF ThawThreads, Goto
<1>4. CASE /\ op.todo = {}
           /\ IF op.kind = "release" THEN Goto("forgetAll") /\ op' = [op EXCEPT !.todo = Threads]
                                          /\ UNCHANGED <<at, stage>>
              ELSE End(IF op.ok THEN "awake" ELSE "retiring")
  <2>1. CASE op.kind = "release"
    BY <1>1, <1>4, <2>1, OpChanges DEF ThawThreads, Goto
  <2>2. CASE op.kind # "release"
    BY <1>1, <1>4, <2>2, EndEffect DEF ThawThreads
  <2> QED  BY <2>1, <2>2
<1> QED  BY <1>3, <1>4 DEF ThawThreads, Thaw

LEMMA ForgetAllEffect ==
    ASSUME ControlTypes, ManagedTypes, ForgetAll
    PROVE  LET Rest == {t \in Keys : IsOwned(t) \/ Armed(t)}
           IN  /\ pc = "forgetAll" /\ UNCHANGED <<serviceVars, worldVars, nextId, faults>>
               /\ \/ \E t \in op.todo :
                        /\ OpNow(op.kind, op.todo \ {t}, op.changed, op.ok)
                        /\ \/ /\ ToForget(t) /\ AtNow(t, 0, FALSE, "forgetAll") /\ pc' = "forget"
                           \/ ~ToForget(t) /\ UNCHANGED <<pc, at>>
                        /\ UNCHANGED <<stage, managed>>
                  \/ /\ op.todo = {}
                     /\ managed' \in [Keys -> Managed \cup {NoManaged}]
                     /\ \A t \in Rest : managed'[t] = managed[t]
                     /\ \A t \in Keys \ Rest : managed'[t] = NoManaged
                     /\ \/ op.ok /\ Rest = {} /\ Ends("none")
                        \/ op.ok /\ Rest # {} /\ Ends("kept")
                        \/ ~op.ok /\ Ends("retiring")
<1> DEFINE Rest == {t \in Keys : IsOwned(t) \/ Armed(t)}
           rest == {t \in Threads : managed[t].owned \/ managed[t].armed}
<1>1. pc = "forgetAll" /\ op \in OpTypes /\ at \in AtTypes /\ op.todo \subseteq Keys /\ op.ok \in BOOLEAN
  BY OpFields DEF ForgetAll, ControlTypes
<1>2. Rest = rest
  BY DEF Threads, IsOwned, Armed
<1>3. ASSUME NEW t \in op.todo, op' = [op EXCEPT !.todo = @ \ {t}]
      PROVE  /\ OpNow(op.kind, op.todo \ {t}, op.changed, op.ok)
             /\ at' = At(t, "forgetAll") => AtNow(t, 0, FALSE, "forgetAll")
  <2>1. t \in Keys /\ "forgetAll" \in Places /\ op.todo \ {t} \in SUBSET Keys
    BY <1>1 DEF Places
  <2> QED  BY <1>1, <1>3, <2>1, OpChanges, AtStarts
<1>4. CASE \E t \in op.todo :
                /\ op' = [op EXCEPT !.todo = @ \ {t}]
                /\ IF ToForget(t) THEN at' = At(t, "forgetAll") /\ Goto("forget")
                   ELSE UNCHANGED <<pc, at>>
                /\ UNCHANGED <<stage, managed>>
  BY <1>1, <1>3, <1>4 DEF ForgetAll, Goto
<1>5. CASE /\ op.todo = {}
           /\ managed' = [t \in Keys |-> IF t \in rest THEN managed[t] ELSE NoManaged]
           /\ End(IF op.ok THEN (IF rest = {} THEN "none" ELSE "kept") ELSE "retiring")
  <2> HIDE DEF Rest, rest
  <2>1. /\ managed' \in [Keys -> Managed \cup {NoManaged}]
        /\ \A t \in Keys : t \in Rest => managed'[t] = managed[t]
        /\ \A t \in Keys : t \notin Rest => managed'[t] = NoManaged
    BY <1>2, <1>5 DEF ManagedTypes
  <2>2. Ends(IF op.ok THEN (IF rest = {} THEN "none" ELSE "kept") ELSE "retiring")
    BY <1>1, <1>5, EndEffect
  <2>3. \/ op.ok /\ Rest = {} /\ Ends("none")
        \/ op.ok /\ Rest # {} /\ Ends("kept")
        \/ ~op.ok /\ Ends("retiring")
    BY <1>2, <2>2
  <2>4. Rest \subseteq Keys
    BY DEF Rest
  <2> QED  BY <1>1, <1>5, <2>1, <2>3, <2>4 DEF ForgetAll, Rest
<1> QED  BY <1>2, <1>4, <1>5 DEF ForgetAll

\* A fresh target: the living threads, none recorded, none suspended.
LEMMA PrepareEffect ==
    ASSUME ManagedTypes, WorldTypes, StageOK, Prepare
    PROVE  /\ pc = "idle" /\ stage = "none" /\ stage' = "awake"
           /\ managed' \in [Keys -> Managed \cup {NoManaged}]
           /\ \A t \in Keys : managed[t] = NoManaged /\ mine[t] = 0 /\ ~Armed(t)' /\ ~IsOwned(t)'
           /\ \A t \in Keys : managed'[t] # NoManaged => life[t] = "alive"
           /\ UNCHANGED <<serviceVars, pc, op, at, worldVars, nextId, faults>>
<1>1. /\ pc = "idle" /\ stage = "none" /\ stage' = "awake"
      /\ UNCHANGED <<serviceVars, pc, op, at, worldVars, nextId, faults>>
      /\ \A t \in Keys : managed[t] = NoManaged /\ mine[t] = 0
  BY DEF Prepare, StageOK
<1>2. ASSUME NEW t \in Keys
      PROVE  [count |-> Count(t), armed |-> FALSE, owned |-> FALSE] \in Managed
  <2>1. mine[t] = 0 /\ others[t] \in 0..MaxOthers
    BY <1>1 DEF WorldTypes
  <2>2. Count(t) \in 0..MaxOthers
    BY <2>1, CountAssumption DEF Count
  <2> QED  BY <2>2 DEF Managed
<1>3. managed' = [t \in Keys |->
          IF life[t] = "alive" THEN [count |-> Count(t), armed |-> FALSE, owned |-> FALSE]
          ELSE NoManaged]
  BY DEF Prepare
<1>4. managed' \in [Keys -> Managed \cup {NoManaged}]
  BY <1>2, <1>3
<1>5. \A t \in Keys : ~Armed(t)' /\ ~IsOwned(t)' /\ (managed'[t] # NoManaged => life[t] = "alive")
  BY <1>3 DEF Armed, IsOwned
<1> QED  BY <1>1, <1>4, <1>5

\* A call starts.
Starts(kind, label, todo, changed) ==
    /\ pc = "idle" /\ pc' = label /\ OpNow(kind, todo, changed, TRUE)
    /\ UNCHANGED <<serviceVars, at, stage, managed, worldVars, nextId, faults>>

LEMMA EntryEffect ==
    /\ FreezeKnown => stage = "awake" /\ Starts("freeze", "prune", Threads, {})
    /\ AdoptNew => /\ stage = "known"
                   /\ \E inventory \in SUBSET {t \in Keys : life[t] # "unborn"} :
                         Starts("adopt", "prune", Threads, inventory)
    /\ ThawTarget => stage = "frozen" /\ Starts("thaw", "thaw", Owned, {})
    /\ ReleaseTarget => /\ stage \in {"awake", "known", "frozen", "retiring"}
                        /\ Starts("release", "thaw", Owned, {})
<1>1. Threads \in SUBSET Keys /\ Owned \in SUBSET Keys
  BY DEF Threads, Owned
<1>2. ASSUME FreezeKnown PROVE stage = "awake" /\ Starts("freeze", "prune", Threads, {})
  BY <1>1, <1>2, OpStarts DEF FreezeKnown, Start, Starts
<1>3. ASSUME AdoptNew
      PROVE  /\ stage = "known"
             /\ \E inventory \in SUBSET {t \in Keys : life[t] # "unborn"} :
                   Starts("adopt", "prune", Threads, inventory)
  <2>1. PICK inventory \in SUBSET {t \in Keys : life[t] # "unborn"} :
            op' = [NoOp EXCEPT !.kind = "adopt", !.todo = Threads, !.changed = inventory]
    BY <1>3 DEF AdoptNew
  <2>2. inventory \in SUBSET Keys
    OBVIOUS
  <2>3. OpNow("adopt", Threads, inventory, TRUE)
    BY <1>1, <2>1, <2>2, OpStarts
  <2> QED  BY <1>3, <2>3 DEF AdoptNew, Starts
<1>4. ASSUME ThawTarget PROVE stage = "frozen" /\ Starts("thaw", "thaw", Owned, {})
  BY <1>1, <1>4, OpStarts DEF ThawTarget, ToResume, Start, Starts
<1>5. ASSUME ReleaseTarget
      PROVE  stage \in {"awake", "known", "frozen", "retiring"} /\ Starts("release", "thaw", Owned, {})
  BY <1>1, <1>5, OpStarts DEF ReleaseTarget, ToResume, Start, Starts
<1> QED  BY <1>2, <1>3, <1>4, <1>5

--------------------------------------------------------------------------------
(***************************************************************************)
(* The steps preserve the inductive invariant, part by part.               *)
(***************************************************************************)
LEMMA Parts ==
    IInv => /\ ServiceTypeOK /\ ControlTypes /\ ManagedTypes /\ WorldTypes /\ BoundTypes
            /\ ServiceInv /\ StepOK /\ StageOK /\ LifeOK /\ OwnedOK /\ TodoOK /\ ThreadOK
            /\ ReleaseOK /\ CallOK /\ LedgerOK /\ RecordOK
BY TypeParts DEF IInv

LEMMA EdgeType ==
    ASSUME ManagedTypes, NEW t \in Keys, managed[t] # NoManaged PROVE ThreadEdge(t) \in Edge
<1>1. managed[t].count \in 0..MaxOthers
  BY ThreadFields
<1>2. managed[t].count \in Values /\ managed[t].count + 1 \in Values
  BY <1>1, CountAssumption
<1> QED  BY <1>2 DEF ThreadEdge, Edge

\* The steps, one action each.
LEMMA EachStep ==
    Next => \/ ForgetThread
            \/ Prune
            \/ Capture
            \/ NextThread
            \/ BeginSuspension
            \/ SuspendOnce
            \/ CancelSuspension
            \/ CommitSuspension
            \/ Check
            \/ Compensate
            \/ SuspendFailed
            \/ ResumeSuspending
            \/ RollbackThreads
            \/ ResumeOwned
            \/ ThawThreads
            \/ ForgetAll
            \/ Prepare
            \/ FreezeKnown
            \/ AdoptNew
            \/ ThawTarget
            \/ ReleaseTarget
            \/ (\E t \in Keys : ThreadStarts(t))
            \/ (\E t \in Keys : ThreadExits(t))
            \/ (\E t \in Keys : OtherSuspends(t))
            \/ (\E t \in Keys : OtherResumes(t))
            \/ Crash
            \/ Replay
            \/ OtherLatches
            \/ ServiceStep
            \/ UNCHANGED threadVars
BY DEF Next, Proceed, Worker, Environment, Finished

\* Whatever happens, the recovery service moves as RecoveryService says.
LEMMA ServiceMoves == IInv /\ [Next]_threadVars => [ServiceNext]_serviceVars
<1> SUFFICES ASSUME IInv, [Next]_threadVars PROVE [ServiceNext]_serviceVars
  OBVIOUS
<1>0. ControlTypes /\ ManagedTypes /\ WorldTypes /\ StepOK /\ OwnedOK /\ ThreadOK /\ TodoOK
  BY Parts
<1> USE DEF ServiceNext
<1>1. CASE ForgetThread
  <2>1. Forget(at.thread) \in Commands
    BY <1>0, AtFields, CommandTypes DEF ControlTypes
  <2> QED  BY <1>1, <2>1 DEF ForgetThread, Granted, Denied, Ask, serviceVars
<1>2. CASE BeginSuspension
  <2>1. pc = "begin" /\ at.thread \in Keys /\ managed[at.thread] # NoManaged
    BY <1>2, <1>0, BeginSuspensionEffect DEF ThreadOK, ThreadLabels, SuspendLabels, Threads
  <2>2. nextId \in Ids => Begin(nextId, at.thread, ThreadEdge(at.thread)) \in Commands
    BY <1>0, <2>1, EdgeType, CommandTypes
  <2> QED  BY <1>2, <2>2 DEF BeginSuspension, Granted, Denied, serviceVars
<1>3. CASE CancelSuspension
  <2>1. Cancel(at.id) \in Commands
    BY <1>3, <1>0, CommandTypes DEF CancelSuspension, StepOK
  <2> QED  BY <1>3, <2>1 DEF CancelSuspension, Granted, Denied, Ask, serviceVars
<1>4. CASE CommitSuspension
  <2>1. Commit(at.id) \in Commands
    BY <1>4, <1>0, CommandTypes DEF CommitSuspension, StepOK
  <2> QED  BY <1>4, <2>1 DEF CommitSuspension, Granted, Denied, Ask, serviceVars
<1>5. CASE Crash \/ OtherLatches \/ ServiceStep
  BY <1>5 DEF Crash, OtherLatches, ServiceStep, ServiceActs
<1>6. CASE \/ Prune \/ Capture \/ NextThread \/ SuspendOnce \/ Check \/ Compensate \/ SuspendFailed
           \/ ResumeSuspending \/ RollbackThreads \/ ResumeOwned \/ ThawThreads \/ ForgetAll
  BY <1>6 DEF Prune, Capture, NextThread, SuspendOnce, Check, Compensate, SuspendFailed,
     ResumeSuspending, RollbackThreads, ResumeOwned, ThawThreads, ForgetAll
<1>7. CASE \/ Worker \/ Replay \/ UNCHANGED threadVars
           \/ (\E t \in Keys : ThreadStarts(t) \/ ThreadExits(t) \/ OtherSuspends(t) \/ OtherResumes(t))
  BY <1>7 DEF Worker, Prepare, FreezeKnown, AdoptNew, ThawTarget, ReleaseTarget, Start, Replay,
     ThreadStarts, ThreadExits, OtherSuspends, OtherResumes, threadVars
<1> QED
  BY <1>1, <1>2, <1>3, <1>4, <1>5, <1>6, <1>7 DEF Next, Proceed, Environment, Finished

LEMMA ServiceKept == IInv /\ [Next]_threadVars => ServiceInv' /\ ServiceTypeOK'
BY Parts, ServiceMoves, ServiceStep_Inv DEF ServiceInv

\* What is known of a thread keeps its type.
LEMMA ManagedStep ==
    IInv /\ [Next]_threadVars => ManagedTypes'
<1> SUFFICES ASSUME IInv, [Next]_threadVars PROVE ManagedTypes'
  OBVIOUS
<1>0. /\ ServiceTypeOK /\ ControlTypes /\ ManagedTypes /\ WorldTypes /\ BoundTypes
      /\ ServiceInv /\ StepOK /\ StageOK /\ LifeOK /\ OwnedOK /\ TodoOK /\ ThreadOK
      /\ ReleaseOK /\ CallOK /\ LedgerOK /\ RecordOK
  BY Parts
<1>1. CASE ForgetThread
  BY <1>1, <1>0, ForgetThreadEffect DEF ManagedTypes, ThreadNow, ThreadGone, Ask
<1>2. CASE Prune
  BY <1>2, <1>0, PruneEffect DEF ManagedTypes, ThreadNow, ThreadGone, Ask
<1>3. CASE Capture
  BY <1>3, <1>0, CaptureEffect DEF ManagedTypes, ThreadNow, ThreadGone, Ask
<1>4. CASE NextThread
  BY <1>4, <1>0, NextThreadEffect DEF ManagedTypes, ThreadNow, ThreadGone, Ask
<1>5. CASE BeginSuspension
  BY <1>5, <1>0, BeginSuspensionEffect DEF ManagedTypes, ThreadNow, ThreadGone, Ask
<1>6. CASE SuspendOnce
  BY <1>6, <1>0, SuspendOnceEffect DEF ManagedTypes, ThreadNow, ThreadGone, Ask
<1>7. CASE CancelSuspension
  BY <1>7, <1>0, CancelSuspensionEffect DEF ManagedTypes, ThreadNow, ThreadGone, Ask
<1>8. CASE CommitSuspension
  BY <1>8, <1>0, CommitSuspensionEffect DEF ManagedTypes, ThreadNow, ThreadGone, Ask
<1>9. CASE Check
  BY <1>9, <1>0, CheckEffect DEF ManagedTypes, ThreadNow, ThreadGone, Ask
<1>10. CASE Compensate
  BY <1>10, <1>0, CompensateEffect DEF ManagedTypes, ThreadNow, ThreadGone, Ask
<1>11. CASE SuspendFailed
  BY <1>11, <1>0, SuspendFailedEffect DEF ManagedTypes, ThreadNow, ThreadGone, Ask
<1>12. CASE ResumeSuspending
  BY <1>12, <1>0, ResumeSuspendingEffect DEF ManagedTypes, ThreadNow, ThreadGone, Ask
<1>13. CASE RollbackThreads
  BY <1>13, <1>0, RollbackEffect DEF ManagedTypes, ThreadNow, ThreadGone, Ask
<1>14. CASE ResumeOwned
  BY <1>14, <1>0, ResumeOwnedEffect DEF ManagedTypes, ThreadNow, ThreadGone, Ask
<1>15. CASE ThawThreads
  BY <1>15, <1>0, ThawEffect DEF ManagedTypes, ThreadNow, ThreadGone, Ask
<1>16. CASE ForgetAll
  BY <1>16, <1>0, ForgetAllEffect DEF ManagedTypes, ThreadNow, ThreadGone, Ask
<1>17. CASE Prepare
  BY <1>17, <1>0, PrepareEffect DEF ManagedTypes, ThreadNow, ThreadGone, Ask
<1>18. CASE FreezeKnown
  BY <1>18, <1>0, EntryEffect DEF ManagedTypes, Starts, ThreadNow, ThreadGone, Ask
<1>19. CASE AdoptNew
  BY <1>19, <1>0, EntryEffect DEF ManagedTypes, Starts, ThreadNow, ThreadGone, Ask
<1>20. CASE ThawTarget
  BY <1>20, <1>0, EntryEffect DEF ManagedTypes, Starts, ThreadNow, ThreadGone, Ask
<1>21. CASE ReleaseTarget
  BY <1>21, <1>0, EntryEffect DEF ManagedTypes, Starts, ThreadNow, ThreadGone, Ask
<1>22. CASE \E t \in Keys : ThreadStarts(t)
  BY <1>22, <1>0 DEF ManagedTypes, ThreadStarts, callVars, worldVars, serviceVars
<1>23. CASE \E t \in Keys : ThreadExits(t)
  BY <1>23, <1>0 DEF ManagedTypes, ThreadExits, callVars, worldVars, serviceVars
<1>24. CASE \E t \in Keys : OtherSuspends(t)
  BY <1>24, <1>0 DEF ManagedTypes, OtherSuspends, callVars, worldVars, serviceVars
<1>25. CASE \E t \in Keys : OtherResumes(t)
  BY <1>25, <1>0 DEF ManagedTypes, OtherResumes, callVars, worldVars, serviceVars
<1>26. CASE Crash
  BY <1>26, <1>0 DEF ManagedTypes, Crash, callVars, worldVars, serviceVars
<1>27. CASE Replay
  BY <1>27, <1>0 DEF ManagedTypes, Replay, callVars, worldVars, serviceVars
<1>28. CASE OtherLatches
  BY <1>28, <1>0 DEF ManagedTypes, OtherLatches, callVars, worldVars, serviceVars
<1>29. CASE ServiceStep
  BY <1>29, <1>0 DEF ManagedTypes, ServiceStep, callVars, worldVars, serviceVars
<1>30. CASE UNCHANGED threadVars
  BY <1>30, <1>0 DEF ManagedTypes, threadVars, serviceVars, callVars, worldVars
<1> QED  BY <1>1, <1>2, <1>3, <1>4, <1>5, <1>6, <1>7, <1>8, <1>9, <1>10, <1>11, <1>12, <1>13, <1>14,
   <1>15, <1>16, <1>17, <1>18, <1>19, <1>20, <1>21, <1>22, <1>23, <1>24, <1>25, <1>26, <1>27,
   <1>28, <1>29, <1>30, EachStep

\* Each step uses up at most one failure and one id.
LEMMA CountStep ==
    IInv /\ [Next]_threadVars => (UNCHANGED faults \/ Fault) /\ nextId' \in {nextId, nextId + 1}
<1> SUFFICES ASSUME IInv, [Next]_threadVars PROVE (UNCHANGED faults \/ Fault) /\ nextId' \in {nextId, nextId + 1}
  OBVIOUS
<1>0. /\ ServiceTypeOK /\ ControlTypes /\ ManagedTypes /\ WorldTypes /\ BoundTypes
      /\ ServiceInv /\ StepOK /\ StageOK /\ LifeOK /\ OwnedOK /\ TodoOK /\ ThreadOK
      /\ ReleaseOK /\ CallOK /\ LedgerOK /\ RecordOK
  BY Parts
<1>1. CASE ForgetThread
  BY <1>1, <1>0, ForgetThreadEffect DEF Ask, Granted, Denied
<1>2. CASE Prune
  BY <1>2, <1>0, PruneEffect DEF Ask, Granted, Denied
<1>3. CASE Capture
  BY <1>3, <1>0, CaptureEffect DEF Ask, Granted, Denied
<1>4. CASE NextThread
  BY <1>4, <1>0, NextThreadEffect DEF Ask, Granted, Denied
<1>5. CASE BeginSuspension
  BY <1>5, <1>0, BeginSuspensionEffect DEF Ask, Granted, Denied
<1>6. CASE SuspendOnce
  BY <1>6, <1>0, SuspendOnceEffect DEF Ask, Granted, Denied
<1>7. CASE CancelSuspension
  BY <1>7, <1>0, CancelSuspensionEffect DEF Ask, Granted, Denied
<1>8. CASE CommitSuspension
  BY <1>8, <1>0, CommitSuspensionEffect DEF Ask, Granted, Denied
<1>9. CASE Check
  BY <1>9, <1>0, CheckEffect DEF Ask, Granted, Denied
<1>10. CASE Compensate
  BY <1>10, <1>0, CompensateEffect DEF Ask, Granted, Denied
<1>11. CASE SuspendFailed
  BY <1>11, <1>0, SuspendFailedEffect DEF Ask, Granted, Denied
<1>12. CASE ResumeSuspending
  BY <1>12, <1>0, ResumeSuspendingEffect DEF Ask, Granted, Denied
<1>13. CASE RollbackThreads
  BY <1>13, <1>0, RollbackEffect DEF Ask, Granted, Denied
<1>14. CASE ResumeOwned
  BY <1>14, <1>0, ResumeOwnedEffect DEF Ask, Granted, Denied
<1>15. CASE ThawThreads
  BY <1>15, <1>0, ThawEffect DEF Ask, Granted, Denied
<1>16. CASE ForgetAll
  BY <1>16, <1>0, ForgetAllEffect DEF Ask, Granted, Denied
<1>17. CASE Prepare
  BY <1>17, <1>0, PrepareEffect DEF Ask, Granted, Denied
<1>18. CASE FreezeKnown
  BY <1>18, <1>0, EntryEffect DEF Starts, Ask, Granted, Denied
<1>19. CASE AdoptNew
  BY <1>19, <1>0, EntryEffect DEF Starts, Ask, Granted, Denied
<1>20. CASE ThawTarget
  BY <1>20, <1>0, EntryEffect DEF Starts, Ask, Granted, Denied
<1>21. CASE ReleaseTarget
  BY <1>21, <1>0, EntryEffect DEF Starts, Ask, Granted, Denied
<1>22. CASE \E t \in Keys : ThreadStarts(t)
  BY <1>22, <1>0 DEF ThreadStarts, ServiceActs
<1>23. CASE \E t \in Keys : ThreadExits(t)
  BY <1>23, <1>0 DEF ThreadExits, ServiceActs
<1>24. CASE \E t \in Keys : OtherSuspends(t)
  BY <1>24, <1>0 DEF OtherSuspends, ServiceActs
<1>25. CASE \E t \in Keys : OtherResumes(t)
  BY <1>25, <1>0 DEF OtherResumes, ServiceActs
<1>26. CASE Crash
  BY <1>26, <1>0 DEF Crash, ServiceActs
<1>27. CASE Replay
  BY <1>27, <1>0 DEF Replay, ServiceActs
<1>28. CASE OtherLatches
  BY <1>28, <1>0 DEF OtherLatches, ServiceActs
<1>29. CASE ServiceStep
  BY <1>29, <1>0 DEF ServiceStep, ServiceActs
<1>30. CASE UNCHANGED threadVars
  BY <1>30 DEF threadVars
<1> QED  BY <1>1, <1>2, <1>3, <1>4, <1>5, <1>6, <1>7, <1>8, <1>9, <1>10, <1>11, <1>12, <1>13, <1>14,
   <1>15, <1>16, <1>17, <1>18, <1>19, <1>20, <1>21, <1>22, <1>23, <1>24, <1>25, <1>26, <1>27,
   <1>28, <1>29, <1>30, EachStep

LEMMA BoundStep == IInv /\ [Next]_threadVars => BoundTypes'
<1> SUFFICES ASSUME IInv, [Next]_threadVars PROVE BoundTypes'
  OBVIOUS
<1>1. BoundTypes /\ (UNCHANGED faults \/ Fault) /\ nextId' \in {nextId, nextId + 1}
  BY Parts, CountStep
<1>2. faults' \in 0..MaxFaults
  BY <1>1, FaultsAssumption DEF BoundTypes, Fault
<1> QED  BY <1>1, <1>2 DEF BoundTypes

\* The counts stay within their bounds.
LEMMA WorldStep ==
    IInv /\ [Next]_threadVars => WorldTypes'
<1> SUFFICES ASSUME IInv, [Next]_threadVars PROVE WorldTypes'
  OBVIOUS
<1>0. /\ ServiceTypeOK /\ ControlTypes /\ ManagedTypes /\ WorldTypes /\ BoundTypes
      /\ ServiceInv /\ StepOK /\ StageOK /\ LifeOK /\ OwnedOK /\ TodoOK /\ ThreadOK
      /\ ReleaseOK /\ CallOK /\ LedgerOK /\ RecordOK
  BY Parts
<1>1. CASE ForgetThread
  BY <1>1, <1>0, ForgetThreadEffect DEF WorldTypes, worldVars, Ask
<1>2. CASE Prune
  BY <1>2, <1>0, PruneEffect DEF WorldTypes, worldVars, Ask
<1>3. CASE Capture
  BY <1>3, <1>0, CaptureEffect DEF WorldTypes, worldVars, Ask
<1>4. CASE NextThread
  BY <1>4, <1>0, NextThreadEffect DEF WorldTypes, worldVars, Ask
<1>5. CASE BeginSuspension
  BY <1>5, <1>0, BeginSuspensionEffect DEF WorldTypes, worldVars, Ask
<1>6. CASE SuspendOnce
  <2>1. /\ at.thread \in Keys /\ UNCHANGED <<others, life>>
        /\ UNCHANGED mine \/ mine' = [mine EXCEPT ![at.thread] = 1]
    BY <1>6, <1>0, SuspendOnceEffect
  <2> QED  BY <2>1, <1>0 DEF WorldTypes
<1>7. CASE CancelSuspension
  BY <1>7, <1>0, CancelSuspensionEffect DEF WorldTypes, worldVars, Ask
<1>8. CASE CommitSuspension
  BY <1>8, <1>0, CommitSuspensionEffect DEF WorldTypes, worldVars, Ask
<1>9. CASE Check
  BY <1>9, <1>0, CheckEffect DEF WorldTypes, worldVars, Ask
<1>10. CASE Compensate
  <2>1. /\ at.thread \in Keys /\ UNCHANGED <<others, life>>
        /\ UNCHANGED mine \/ mine' = [mine EXCEPT ![at.thread] = 0]
    BY <1>10, <1>0, CompensateEffect
  <2> QED  BY <2>1, <1>0 DEF WorldTypes
<1>11. CASE SuspendFailed
  BY <1>11, <1>0, SuspendFailedEffect DEF WorldTypes, worldVars, Ask
<1>12. CASE ResumeSuspending
  BY <1>12, <1>0, ResumeSuspendingEffect DEF WorldTypes, worldVars, Ask
<1>13. CASE RollbackThreads
  BY <1>13, <1>0, RollbackEffect DEF WorldTypes, worldVars, Ask
<1>14. CASE ResumeOwned
  <2>1. /\ at.thread \in Keys /\ UNCHANGED <<others, life>>
        /\ UNCHANGED mine \/ mine' = [mine EXCEPT ![at.thread] = 0]
    BY <1>14, <1>0, ResumeOwnedEffect
  <2> QED  BY <2>1, <1>0 DEF WorldTypes
<1>15. CASE ThawThreads
  BY <1>15, <1>0, ThawEffect DEF WorldTypes, worldVars, Ask
<1>16. CASE ForgetAll
  BY <1>16, <1>0, ForgetAllEffect DEF WorldTypes, worldVars, Ask
<1>17. CASE Prepare
  BY <1>17, <1>0, PrepareEffect DEF WorldTypes, worldVars, Ask
<1>18. CASE FreezeKnown
  BY <1>18, <1>0, EntryEffect DEF WorldTypes, Starts, worldVars, Ask
<1>19. CASE AdoptNew
  BY <1>19, <1>0, EntryEffect DEF WorldTypes, Starts, worldVars, Ask
<1>20. CASE ThawTarget
  BY <1>20, <1>0, EntryEffect DEF WorldTypes, Starts, worldVars, Ask
<1>21. CASE ReleaseTarget
  BY <1>21, <1>0, EntryEffect DEF WorldTypes, Starts, worldVars, Ask
<1>22. CASE \E t \in Keys : ThreadStarts(t)
  BY <1>22, <1>0 DEF WorldTypes, ThreadStarts, callVars, worldVars, serviceVars
<1>23. CASE \E t \in Keys : ThreadExits(t)
  BY <1>23, <1>0, CountAssumption DEF WorldTypes, ThreadExits, callVars, worldVars, serviceVars
<1>24. CASE \E t \in Keys : OtherSuspends(t)
  <2>1. PICK t \in Keys : OtherSuspends(t)
    BY <1>24
  <2>2. others[t] + 1 \in 0..MaxOthers
    BY <2>1, <1>0, CountAssumption DEF OtherSuspends, WorldTypes
  <2> QED  BY <2>1, <2>2, <1>0 DEF OtherSuspends, WorldTypes
<1>25. CASE \E t \in Keys : OtherResumes(t)
  <2>1. PICK t \in Keys : OtherResumes(t)
    BY <1>25
  <2>2. others[t] - 1 \in 0..MaxOthers
    BY <2>1, <1>0, CountAssumption DEF OtherResumes, WorldTypes
  <2> QED  BY <2>1, <2>2, <1>0 DEF OtherResumes, WorldTypes
<1>26. CASE Crash
  BY <1>26, <1>0 DEF WorldTypes, Crash, callVars, worldVars, serviceVars
<1>27. CASE Replay
  <2>1. CASE UNCHANGED <<mine, others, life>>
    BY <2>1, <1>0 DEF WorldTypes
  <2>2. ASSUME NEW t \in Keys, TakeBack(t), UNCHANGED life PROVE WorldTypes'
    <3>1. CASE mine[t] > 0
      <4>1. mine[t] - 1 \in 0..1
        BY <3>1, <1>0 DEF WorldTypes
      <4> QED  BY <2>2, <3>1, <4>1, <1>0 DEF TakeBack, WorldTypes
    <3>2. CASE ~(mine[t] > 0)
      <4>1. (IF others[t] = 0 THEN 0 ELSE others[t] - 1) \in 0..MaxOthers
        BY <1>0, CountAssumption DEF WorldTypes
      <4> QED  BY <2>2, <3>2, <4>1, <1>0 DEF TakeBack, WorldTypes
    <3> QED  BY <3>1, <3>2
  <2> QED  BY <1>27, <2>1, <2>2 DEF Replay
<1>28. CASE OtherLatches
  BY <1>28, <1>0 DEF WorldTypes, OtherLatches, callVars, worldVars, serviceVars
<1>29. CASE ServiceStep
  BY <1>29, <1>0 DEF WorldTypes, ServiceStep, callVars, worldVars, serviceVars
<1>30. CASE UNCHANGED threadVars
  BY <1>30, <1>0 DEF WorldTypes, threadVars, serviceVars, callVars, worldVars
<1> QED  BY <1>1, <1>2, <1>3, <1>4, <1>5, <1>6, <1>7, <1>8, <1>9, <1>10, <1>11, <1>12, <1>13, <1>14,
   <1>15, <1>16, <1>17, <1>18, <1>19, <1>20, <1>21, <1>22, <1>23, <1>24, <1>25, <1>26, <1>27,
   <1>28, <1>29, <1>30, EachStep

\* A call goes from label to label.
LEMMA ControlStep ==
    IInv /\ [Next]_threadVars => ControlTypes'
<1> SUFFICES ASSUME IInv, [Next]_threadVars PROVE ControlTypes'
  OBVIOUS
<1>0. /\ ServiceTypeOK /\ ControlTypes /\ ManagedTypes /\ WorldTypes /\ BoundTypes
      /\ ServiceInv /\ StepOK /\ StageOK /\ LifeOK /\ OwnedOK /\ TodoOK /\ ThreadOK
      /\ ReleaseOK /\ CallOK /\ LedgerOK /\ RecordOK
  BY Parts
<1>1. CASE ForgetThread
  BY <1>1, <1>0, NoOpFields, OpFields, AtFields, ForgetThreadEffect DEF ControlTypes,
     BusyLabels, ThreadLabels, SuspendLabels, OpNow, AtNow, Ends, Ask, callVars, StepOK
<1>2. CASE Prune
  BY <1>2, <1>0, NoOpFields, OpFields, AtFields, PruneEffect DEF ControlTypes, BusyLabels,
     ThreadLabels, SuspendLabels, OpNow, AtNow, Ends, Ask, callVars, StepOK
<1>3. CASE Capture
  BY <1>3, <1>0, NoOpFields, OpFields, AtFields, CaptureEffect DEF ControlTypes, BusyLabels,
     ThreadLabels, SuspendLabels, OpNow, AtNow, Ends, Ask, callVars, StepOK
<1>4. CASE NextThread
  BY <1>4, <1>0, NoOpFields, OpFields, AtFields, NextThreadEffect DEF ControlTypes, BusyLabels,
     ThreadLabels, SuspendLabels, OpNow, AtNow, Ends, Ask, callVars, StepOK
<1>5. CASE BeginSuspension
  BY <1>5, <1>0, NoOpFields, OpFields, AtFields, BeginSuspensionEffect DEF ControlTypes,
     BusyLabels, ThreadLabels, SuspendLabels, OpNow, AtNow, Ends, Ask, callVars, StepOK
<1>6. CASE SuspendOnce
  BY <1>6, <1>0, NoOpFields, OpFields, AtFields, SuspendOnceEffect DEF ControlTypes, BusyLabels,
     ThreadLabels, SuspendLabels, OpNow, AtNow, Ends, Ask, callVars, StepOK
<1>7. CASE CancelSuspension
  BY <1>7, <1>0, NoOpFields, OpFields, AtFields, CancelSuspensionEffect DEF ControlTypes,
     BusyLabels, ThreadLabels, SuspendLabels, OpNow, AtNow, Ends, Ask, callVars, StepOK
<1>8. CASE CommitSuspension
  BY <1>8, <1>0, NoOpFields, OpFields, AtFields, CommitSuspensionEffect DEF ControlTypes,
     BusyLabels, ThreadLabels, SuspendLabels, OpNow, AtNow, Ends, Ask, callVars, StepOK
<1>9. CASE Check
  BY <1>9, <1>0, NoOpFields, OpFields, AtFields, CheckEffect DEF ControlTypes, BusyLabels,
     ThreadLabels, SuspendLabels, OpNow, AtNow, Ends, Ask, callVars, StepOK
<1>10. CASE Compensate
  BY <1>10, <1>0, NoOpFields, OpFields, AtFields, CompensateEffect DEF ControlTypes, BusyLabels,
     ThreadLabels, SuspendLabels, OpNow, AtNow, Ends, Ask, callVars, StepOK
<1>11. CASE SuspendFailed
  BY <1>11, <1>0, NoOpFields, OpFields, AtFields, SuspendFailedEffect DEF ControlTypes,
     BusyLabels, ThreadLabels, SuspendLabels, OpNow, AtNow, Ends, Ask, callVars, StepOK
<1>12. CASE ResumeSuspending
  BY <1>12, <1>0, NoOpFields, OpFields, AtFields, ResumeSuspendingEffect DEF ControlTypes,
     BusyLabels, ThreadLabels, SuspendLabels, OpNow, AtNow, Ends, Ask, callVars, StepOK
<1>13. CASE RollbackThreads
  BY <1>13, <1>0, NoOpFields, OpFields, AtFields, RollbackEffect DEF ControlTypes, BusyLabels,
     ThreadLabels, SuspendLabels, OpNow, AtNow, Ends, Ask, callVars, StepOK
<1>14. CASE ResumeOwned
  BY <1>14, <1>0, NoOpFields, OpFields, AtFields, ResumeOwnedEffect DEF ControlTypes,
     BusyLabels, ThreadLabels, SuspendLabels, OpNow, AtNow, Ends, Ask, callVars, StepOK
<1>15. CASE ThawThreads
  BY <1>15, <1>0, NoOpFields, OpFields, AtFields, ThawEffect DEF ControlTypes, BusyLabels,
     ThreadLabels, SuspendLabels, OpNow, AtNow, Ends, Ask, callVars, StepOK
<1>16. CASE ForgetAll
  BY <1>16, <1>0, NoOpFields, OpFields, AtFields, ForgetAllEffect DEF ControlTypes, BusyLabels,
     ThreadLabels, SuspendLabels, OpNow, AtNow, Ends, Ask, callVars, StepOK
<1>17. CASE Prepare
  BY <1>17, <1>0, NoOpFields, OpFields, AtFields, PrepareEffect DEF ControlTypes, BusyLabels,
     ThreadLabels, SuspendLabels, OpNow, AtNow, Ends, Ask, callVars, StepOK
<1>18. CASE FreezeKnown
  BY <1>18, <1>0, NoOpFields, OpFields, AtFields, EntryEffect DEF ControlTypes, BusyLabels,
     ThreadLabels, SuspendLabels, Starts, OpNow, AtNow, Ends, Ask, callVars, StepOK
<1>19. CASE AdoptNew
  BY <1>19, <1>0, NoOpFields, OpFields, AtFields, EntryEffect DEF ControlTypes, BusyLabels,
     ThreadLabels, SuspendLabels, Starts, OpNow, AtNow, Ends, Ask, callVars, StepOK
<1>20. CASE ThawTarget
  BY <1>20, <1>0, NoOpFields, OpFields, AtFields, EntryEffect DEF ControlTypes, BusyLabels,
     ThreadLabels, SuspendLabels, Starts, OpNow, AtNow, Ends, Ask, callVars, StepOK
<1>21. CASE ReleaseTarget
  BY <1>21, <1>0, NoOpFields, OpFields, AtFields, EntryEffect DEF ControlTypes, BusyLabels,
     ThreadLabels, SuspendLabels, Starts, OpNow, AtNow, Ends, Ask, callVars, StepOK
<1>22. CASE \E t \in Keys : ThreadStarts(t)
  BY <1>22, <1>0, NoOpFields, OpFields, AtFields DEF ControlTypes, BusyLabels, ThreadLabels,
     SuspendLabels, ThreadStarts, callVars
<1>23. CASE \E t \in Keys : ThreadExits(t)
  BY <1>23, <1>0, NoOpFields, OpFields, AtFields DEF ControlTypes, BusyLabels, ThreadLabels,
     SuspendLabels, ThreadExits, callVars
<1>24. CASE \E t \in Keys : OtherSuspends(t)
  BY <1>24, <1>0, NoOpFields, OpFields, AtFields DEF ControlTypes, BusyLabels, ThreadLabels,
     SuspendLabels, OtherSuspends, callVars
<1>25. CASE \E t \in Keys : OtherResumes(t)
  BY <1>25, <1>0, NoOpFields, OpFields, AtFields DEF ControlTypes, BusyLabels, ThreadLabels,
     SuspendLabels, OtherResumes, callVars
<1>26. CASE Crash
  BY <1>26, <1>0, NoOpFields, OpFields, AtFields DEF ControlTypes, BusyLabels, ThreadLabels,
     SuspendLabels, Crash, callVars
<1>27. CASE Replay
  <2>1. ASSUME NEW t \in Keys, op' = [op EXCEPT !.todo = @ \cup {t}], UNCHANGED <<pc, at, stage>>
        PROVE  ControlTypes'
    <3>1. op.todo \cup {t} \in SUBSET Keys
      BY <1>0, OpFields DEF ControlTypes
    <3>2. op' \in OpTypes
      BY <1>0, <2>1, <3>1, OpChanges DEF ControlTypes, OpNow
    <3> QED  BY <1>0, <2>1, <3>2 DEF ControlTypes
  <2>2. CASE pc' = "replayed" /\ op' = NoOp /\ UNCHANGED <<at, stage>>
    BY <1>0, <2>2, NoOpFields DEF ControlTypes
  <2> QED  BY <1>27, <2>1, <2>2 DEF Replay
<1>28. CASE OtherLatches
  BY <1>28, <1>0, NoOpFields, OpFields, AtFields DEF ControlTypes, BusyLabels, ThreadLabels,
     SuspendLabels, OtherLatches, callVars
<1>29. CASE ServiceStep
  BY <1>29, <1>0, NoOpFields, OpFields, AtFields DEF ControlTypes, BusyLabels, ThreadLabels,
     SuspendLabels, ServiceStep, callVars
<1>30. CASE UNCHANGED threadVars
  BY <1>30, <1>0, NoOpFields, OpFields, AtFields DEF ControlTypes, BusyLabels, ThreadLabels,
     SuspendLabels, threadVars, serviceVars, callVars, worldVars
<1> QED  BY <1>1, <1>2, <1>3, <1>4, <1>5, <1>6, <1>7, <1>8, <1>9, <1>10, <1>11, <1>12, <1>13, <1>14,
   <1>15, <1>16, <1>17, <1>18, <1>19, <1>20, <1>21, <1>22, <1>23, <1>24, <1>25, <1>26, <1>27,
   <1>28, <1>29, <1>30, EachStep

\* Outside the labels with a command none is under way.
LEMMA NotLanded ==
    ASSUME CallOK, pc \notin {"begin", "commit", "cancel", "forget"}
    PROVE  call = NoCall /\ ~Landed
BY DEF CallOK, Landed, Called

\* The replay visits a thread and takes back one suspension at most.
LEMMA ReplayEffect ==
    ASSUME ControlTypes, WorldTypes, Replay
    PROVE  /\ pc = "dead" /\ pc' \in {"dead", "replayed"} /\ call = NoCall
           /\ UNCHANGED <<serviceVars, at, stage, managed, life, nextId, faults>>
           /\ (op'.kind = op.kind /\ op'.ok = op.ok) \/ op' = NoOp
           /\ \A t \in Keys : mine'[t] \in {mine[t], 0} /\ (life[t] # "alive" => UNCHANGED <<mine[t], others[t]>>)
<1>1. /\ pc = "dead" /\ pc' \in {"dead", "replayed"} /\ call = NoCall
      /\ UNCHANGED <<serviceVars, at, stage, managed, life, nextId, faults>>
  BY DEF Replay
<1>2. ASSUME NEW t \in Keys, op' = [op EXCEPT !.todo = @ \cup {t}],
             IF ReplayResumes(t) THEN TakeBack(t) ELSE UNCHANGED <<mine, others>>
      PROVE  /\ op'.kind = op.kind /\ op'.ok = op.ok
             /\ \A j \in Keys : mine'[j] \in {mine[j], 0} /\ (life[j] # "alive" => UNCHANGED <<mine[j], others[j]>>)
  <2>1. op.todo \cup {t} \in SUBSET Keys
    BY OpFields DEF ControlTypes
  <2>2. op'.kind = op.kind /\ op'.ok = op.ok
    BY <1>2, <2>1, OpChanges DEF ControlTypes, OpNow
  <2>3. CASE ReplayResumes(t) /\ mine[t] > 0
    <3>1. life[t] = "alive" /\ mine' = [mine EXCEPT ![t] = mine[t] - 1] /\ others' = others
      BY <1>2, <2>3 DEF ReplayResumes, TakeBack
    <3>2. mine[t] = 1
      BY <2>3 DEF WorldTypes
    <3> QED  BY <2>2, <3>1, <3>2 DEF WorldTypes
  <2>4. CASE ReplayResumes(t) /\ ~(mine[t] > 0)
    BY <1>2, <2>2, <2>4 DEF ReplayResumes, TakeBack, WorldTypes
  <2>5. CASE ~ReplayResumes(t)
    BY <1>2, <2>2, <2>5
  <2> QED  BY <2>3, <2>4, <2>5
<1>3. CASE op' = NoOp /\ UNCHANGED <<mine, others>>
  BY <1>1, <1>3
<1> QED  BY <1>1, <1>2, <1>3 DEF Replay

\* Where a call goes on from the thread at hand.
LEMMA StepStep ==
    IInv /\ [Next]_threadVars => StepOK'
<1> SUFFICES ASSUME IInv, [Next]_threadVars PROVE StepOK'
  OBVIOUS
<1>0. /\ ServiceTypeOK /\ ControlTypes /\ ManagedTypes /\ WorldTypes /\ BoundTypes
      /\ ServiceInv /\ StepOK /\ StageOK /\ LifeOK /\ OwnedOK /\ TodoOK /\ ThreadOK
      /\ ReleaseOK /\ CallOK /\ LedgerOK /\ RecordOK
  BY Parts
<1>1. CASE ForgetThread
  BY <1>1, <1>0, NoOpFields, ForgetThreadEffect DEF StepOK, BusyLabels, ThreadLabels,
     SuspendLabels, OpNow, AtNow, Ends, Ask, callVars, serviceVars, IsOwned, ThreadOK
<1>2. CASE Prune
  BY <1>2, <1>0, NoOpFields, PruneEffect DEF StepOK, BusyLabels, ThreadLabels, SuspendLabels,
     OpNow, AtNow, Ends, Ask, callVars, serviceVars, IsOwned, ThreadOK
<1>3. CASE Capture
  BY <1>3, <1>0, NoOpFields, CaptureEffect DEF StepOK, BusyLabels, ThreadLabels, SuspendLabels,
     OpNow, AtNow, Ends, Ask, callVars, serviceVars, IsOwned, ThreadOK
<1>4. CASE NextThread
  BY <1>4, <1>0, NoOpFields, NextThreadEffect, NotLanded DEF StepOK, BusyLabels, ThreadLabels,
     SuspendLabels, OpNow, AtNow, Ends, callVars, serviceVars
<1>5. CASE BeginSuspension
  BY <1>5, <1>0, NoOpFields, BeginSuspensionEffect DEF StepOK, BusyLabels, ThreadLabels,
     SuspendLabels, OpNow, AtNow, Ends, Ask, callVars, serviceVars, IsOwned, ThreadOK, Submit,
     Granted, Denied, Acknowledge, Abandon
<1>6. CASE SuspendOnce
  BY <1>6, <1>0, NoOpFields, SuspendOnceEffect DEF StepOK, BusyLabels, ThreadLabels,
     SuspendLabels, OpNow, AtNow, Ends, Ask, callVars, serviceVars, IsOwned, ThreadOK
<1>7. CASE CancelSuspension
  BY <1>7, <1>0, NoOpFields, CancelSuspensionEffect DEF StepOK, BusyLabels, ThreadLabels,
     SuspendLabels, OpNow, AtNow, Ends, Ask, callVars, serviceVars, IsOwned, ThreadOK
<1>8. CASE CommitSuspension
  BY <1>8, <1>0, NoOpFields, CommitSuspensionEffect DEF StepOK, BusyLabels, ThreadLabels,
     SuspendLabels, OpNow, AtNow, Ends, Ask, callVars, serviceVars, IsOwned, ThreadOK
<1>9. CASE Check
  BY <1>9, <1>0, NoOpFields, CheckEffect DEF StepOK, BusyLabels, ThreadLabels, SuspendLabels,
     OpNow, AtNow, Ends, Ask, callVars, serviceVars, IsOwned, ThreadOK
<1>10. CASE Compensate
  BY <1>10, <1>0, NoOpFields, CompensateEffect DEF StepOK, BusyLabels, ThreadLabels,
     SuspendLabels, OpNow, AtNow, Ends, Ask, callVars, serviceVars, IsOwned, ThreadOK
<1>11. CASE SuspendFailed
  BY <1>11, <1>0, NoOpFields, SuspendFailedEffect DEF StepOK, BusyLabels, ThreadLabels,
     SuspendLabels, OpNow, AtNow, Ends, Ask, callVars, serviceVars, IsOwned, ThreadOK
<1>12. CASE ResumeSuspending
  BY <1>12, <1>0, NoOpFields, ResumeSuspendingEffect DEF StepOK, BusyLabels, ThreadLabels,
     SuspendLabels, OpNow, AtNow, Ends, Ask, callVars, serviceVars, IsOwned, ThreadOK
<1>13. CASE RollbackThreads
  BY <1>13, <1>0, NoOpFields, RollbackEffect DEF StepOK, BusyLabels, ThreadLabels,
     SuspendLabels, OpNow, AtNow, Ends, Ask, callVars, serviceVars, IsOwned, ThreadOK
<1>14. CASE ResumeOwned
  BY <1>14, <1>0, NoOpFields, ResumeOwnedEffect DEF StepOK, BusyLabels, ThreadLabels,
     SuspendLabels, OpNow, AtNow, Ends, Ask, callVars, serviceVars, IsOwned, ThreadOK
<1>15. CASE ThawThreads
  BY <1>15, <1>0, NoOpFields, ThawEffect DEF StepOK, BusyLabels, ThreadLabels, SuspendLabels,
     OpNow, AtNow, Ends, Ask, callVars, serviceVars, IsOwned, ThreadOK
<1>16. CASE ForgetAll
  BY <1>16, <1>0, NoOpFields, ForgetAllEffect DEF StepOK, BusyLabels, ThreadLabels,
     SuspendLabels, OpNow, AtNow, Ends, Ask, callVars, serviceVars, IsOwned, ThreadOK
<1>17. CASE Prepare
  BY <1>17, <1>0, NoOpFields, PrepareEffect DEF StepOK, BusyLabels, ThreadLabels, SuspendLabels,
     OpNow, AtNow, Ends, Ask, callVars, serviceVars, IsOwned, ThreadOK
<1>18. CASE FreezeKnown
  BY <1>18, <1>0, NoOpFields, EntryEffect DEF StepOK, BusyLabels, ThreadLabels, SuspendLabels,
     Starts, OpNow, AtNow, Ends, Ask, callVars, serviceVars, IsOwned, ThreadOK
<1>19. CASE AdoptNew
  BY <1>19, <1>0, NoOpFields, EntryEffect DEF StepOK, BusyLabels, ThreadLabels, SuspendLabels,
     Starts, OpNow, AtNow, Ends, Ask, callVars, serviceVars, IsOwned, ThreadOK
<1>20. CASE ThawTarget
  BY <1>20, <1>0, NoOpFields, EntryEffect DEF StepOK, BusyLabels, ThreadLabels, SuspendLabels,
     Starts, OpNow, AtNow, Ends, Ask, callVars, serviceVars, IsOwned, ThreadOK
<1>21. CASE ReleaseTarget
  BY <1>21, <1>0, NoOpFields, EntryEffect DEF StepOK, BusyLabels, ThreadLabels, SuspendLabels,
     Starts, OpNow, AtNow, Ends, Ask, callVars, serviceVars, IsOwned, ThreadOK
<1>22. CASE \E t \in Keys : ThreadStarts(t)
  BY <1>22, <1>0, NoOpFields DEF StepOK, BusyLabels, ThreadLabels, SuspendLabels, ThreadStarts,
     callVars, serviceVars
<1>23. CASE \E t \in Keys : ThreadExits(t)
  BY <1>23, <1>0, NoOpFields DEF StepOK, BusyLabels, ThreadLabels, SuspendLabels, ThreadExits,
     callVars, serviceVars
<1>24. CASE \E t \in Keys : OtherSuspends(t)
  BY <1>24, <1>0, NoOpFields DEF StepOK, BusyLabels, ThreadLabels, SuspendLabels, OtherSuspends,
     callVars, serviceVars
<1>25. CASE \E t \in Keys : OtherResumes(t)
  BY <1>25, <1>0, NoOpFields DEF StepOK, BusyLabels, ThreadLabels, SuspendLabels, OtherResumes,
     callVars, serviceVars
<1>26. CASE Crash
  BY <1>26, <1>0, NoOpFields DEF StepOK, BusyLabels, ThreadLabels, SuspendLabels, Crash,
     callVars, serviceVars, Abandon, Latch
<1>27. CASE Replay
  BY <1>27, <1>0, NoOpFields, ReplayEffect DEF StepOK, BusyLabels, ThreadLabels, SuspendLabels,
     callVars, serviceVars
<1>28. CASE OtherLatches
  BY <1>28, <1>0, NoOpFields DEF StepOK, BusyLabels, ThreadLabels, SuspendLabels, OtherLatches,
     callVars, serviceVars, Latch
<1>29. CASE ServiceStep
  BY <1>29, <1>0, NoOpFields DEF StepOK, BusyLabels, ThreadLabels, SuspendLabels, ServiceStep,
     callVars, serviceVars, ServiceActs, Land, LateLand, LateLoss, Called
<1>30. CASE UNCHANGED threadVars
  BY <1>30, <1>0, NoOpFields DEF StepOK, BusyLabels, ThreadLabels, SuspendLabels, threadVars,
     serviceVars, callVars, worldVars
<1> QED  BY <1>1, <1>2, <1>3, <1>4, <1>5, <1>6, <1>7, <1>8, <1>9, <1>10, <1>11, <1>12, <1>13, <1>14,
   <1>15, <1>16, <1>17, <1>18, <1>19, <1>20, <1>21, <1>22, <1>23, <1>24, <1>25, <1>26, <1>27,
   <1>28, <1>29, <1>30, EachStep

\* What the worker knows of the target follows the calls.
LEMMA StageStep ==
    IInv /\ [Next]_threadVars => StageOK'
<1> SUFFICES ASSUME IInv, [Next]_threadVars PROVE StageOK'
  OBVIOUS
<1>0. /\ ServiceTypeOK /\ ControlTypes /\ ManagedTypes /\ WorldTypes /\ BoundTypes
      /\ ServiceInv /\ StepOK /\ StageOK /\ LifeOK /\ OwnedOK /\ TodoOK /\ ThreadOK
      /\ ReleaseOK /\ CallOK /\ LedgerOK /\ RecordOK
  BY Parts
<1>1. CASE ForgetThread
  BY <1>1, <1>0, NoOpFields, ForgetThreadEffect DEF StageOK, Dead, OpNow, AtNow, Ends, Ask,
     callVars, serviceVars, BusyLabels, WorldTypes, worldVars
<1>2. CASE Prune
  BY <1>2, <1>0, NoOpFields, PruneEffect DEF StageOK, Dead, OpNow, AtNow, Ends, Ask, callVars,
     serviceVars, BusyLabels, WorldTypes, worldVars
<1>3. CASE Capture
  BY <1>3, <1>0, NoOpFields, CaptureEffect DEF StageOK, Dead, OpNow, AtNow, Ends, Ask, callVars,
     serviceVars, BusyLabels, WorldTypes, worldVars
<1>4. CASE NextThread
  BY <1>4, <1>0, NoOpFields, NextThreadEffect DEF StageOK, Dead, OpNow, AtNow, Ends, Ask,
     callVars, serviceVars, BusyLabels, WorldTypes, worldVars
<1>5. CASE BeginSuspension
  BY <1>5, <1>0, NoOpFields, BeginSuspensionEffect DEF StageOK, Dead, OpNow, AtNow, Ends, Ask,
     callVars, serviceVars, BusyLabels, WorldTypes, worldVars, Submit, Granted, Denied,
     Acknowledge, Abandon
<1>6. CASE SuspendOnce
  BY <1>6, <1>0, NoOpFields, SuspendOnceEffect DEF StageOK, Dead, OpNow, AtNow, Ends, Ask,
     callVars, serviceVars, BusyLabels, WorldTypes, worldVars
<1>7. CASE CancelSuspension
  BY <1>7, <1>0, NoOpFields, CancelSuspensionEffect DEF StageOK, Dead, OpNow, AtNow, Ends, Ask,
     callVars, serviceVars, BusyLabels, WorldTypes, worldVars
<1>8. CASE CommitSuspension
  BY <1>8, <1>0, NoOpFields, CommitSuspensionEffect DEF StageOK, Dead, OpNow, AtNow, Ends, Ask,
     callVars, serviceVars, BusyLabels, WorldTypes, worldVars
<1>9. CASE Check
  BY <1>9, <1>0, NoOpFields, CheckEffect DEF StageOK, Dead, OpNow, AtNow, Ends, Ask, callVars,
     serviceVars, BusyLabels, WorldTypes, worldVars
<1>10. CASE Compensate
  BY <1>10, <1>0, NoOpFields, CompensateEffect DEF StageOK, Dead, OpNow, AtNow, Ends, Ask,
     callVars, serviceVars, BusyLabels, WorldTypes, worldVars
<1>11. CASE SuspendFailed
  BY <1>11, <1>0, NoOpFields, SuspendFailedEffect DEF StageOK, Dead, OpNow, AtNow, Ends, Ask,
     callVars, serviceVars, BusyLabels, WorldTypes, worldVars
<1>12. CASE ResumeSuspending
  BY <1>12, <1>0, NoOpFields, ResumeSuspendingEffect DEF StageOK, Dead, OpNow, AtNow, Ends, Ask,
     callVars, serviceVars, BusyLabels, WorldTypes, worldVars
<1>13. CASE RollbackThreads
  BY <1>13, <1>0, NoOpFields, RollbackEffect DEF StageOK, Dead, OpNow, AtNow, Ends, Ask,
     callVars, serviceVars, BusyLabels, WorldTypes, worldVars
<1>14. CASE ResumeOwned
  BY <1>14, <1>0, NoOpFields, ResumeOwnedEffect DEF StageOK, Dead, OpNow, AtNow, Ends, Ask,
     callVars, serviceVars, BusyLabels, WorldTypes, worldVars
<1>15. CASE ThawThreads
  BY <1>15, <1>0, NoOpFields, ThawEffect DEF StageOK, Dead, OpNow, AtNow, Ends, Ask, callVars,
     serviceVars, BusyLabels, WorldTypes, worldVars
<1>16. CASE ForgetAll
  <2>1. pc = "forgetAll" /\ UNCHANGED <<worldVars>> /\ op.kind = "release"
        /\ stage \in {"awake", "known", "frozen", "retiring"}
    BY <1>16, <1>0, ForgetAllEffect DEF StepOK, StageOK
  <2>2. CASE \E t \in op.todo : OpNow(op.kind, op.todo \ {t}, op.changed, op.ok) /\ UNCHANGED stage
    BY <2>1, <2>2 DEF OpNow, StageOK
  <2>3. CASE ~op.ok /\ Ends("retiring")
    BY <2>3, NoOpFields DEF Ends, StageOK
  <2> DEFINE Rest == {t \in Keys : IsOwned(t) \/ Armed(t)}
  <2>4. op.todo = {} /\ op.ok => Rest = {}
    BY <1>0, <2>1 DEF ReleaseOK, Thawing
  <2>5. CASE op.ok /\ op.todo = {} /\ Ends("none") /\ \A t \in Keys \ Rest : managed'[t] = NoManaged
    <3>1. ASSUME NEW t \in Keys PROVE managed'[t] = NoManaged /\ mine[t] = 0
      <4>1. managed'[t] = NoManaged /\ ~IsOwned(t)
        BY <2>4, <2>5
      <4>2. life[t] = "alive" => mine[t] = 0
        BY <1>0, <2>1, <4>1 DEF OwnedOK, Dead, WorldTypes
      <4> QED  BY <1>0, <4>1, <4>2 DEF LifeOK
    <3> QED  BY <2>1, <2>5, <3>1, NoOpFields DEF Ends, StageOK, worldVars
  <2>6. \/ \E t \in op.todo : OpNow(op.kind, op.todo \ {t}, op.changed, op.ok) /\ UNCHANGED stage
        \/ ~op.ok /\ Ends("retiring")
        \/ op.ok /\ op.todo = {} /\ Ends("none") /\ \A t \in Keys \ Rest : managed'[t] = NoManaged
    <3>1. op.todo = {} \/ op.todo # {}
      OBVIOUS
    <3> QED  BY <1>16, <1>0, <2>4, ForgetAllEffect
  <2> QED  BY <2>2, <2>3, <2>5, <2>6
<1>17. CASE Prepare
  BY <1>17, <1>0, NoOpFields, PrepareEffect DEF StageOK, Dead, OpNow, AtNow, Ends, Ask,
     callVars, serviceVars, BusyLabels, WorldTypes, worldVars
<1>18. CASE FreezeKnown
  BY <1>18, <1>0, NoOpFields, EntryEffect DEF StageOK, Dead, Starts, OpNow, AtNow, Ends, Ask,
     callVars, serviceVars, BusyLabels, WorldTypes, worldVars
<1>19. CASE AdoptNew
  BY <1>19, <1>0, NoOpFields, EntryEffect DEF StageOK, Dead, Starts, OpNow, AtNow, Ends, Ask,
     callVars, serviceVars, BusyLabels, WorldTypes, worldVars
<1>20. CASE ThawTarget
  BY <1>20, <1>0, NoOpFields, EntryEffect DEF StageOK, Dead, Starts, OpNow, AtNow, Ends, Ask,
     callVars, serviceVars, BusyLabels, WorldTypes, worldVars
<1>21. CASE ReleaseTarget
  BY <1>21, <1>0, NoOpFields, EntryEffect DEF StageOK, Dead, Starts, OpNow, AtNow, Ends, Ask,
     callVars, serviceVars, BusyLabels, WorldTypes, worldVars
<1>22. CASE \E t \in Keys : ThreadStarts(t)
  BY <1>22, <1>0, NoOpFields DEF StageOK, Dead, ThreadStarts, callVars, serviceVars, worldVars
<1>23. CASE \E t \in Keys : ThreadExits(t)
  BY <1>23, <1>0, NoOpFields DEF StageOK, Dead, ThreadExits, callVars, serviceVars, worldVars
<1>24. CASE \E t \in Keys : OtherSuspends(t)
  BY <1>24, <1>0, NoOpFields DEF StageOK, Dead, OtherSuspends, callVars, serviceVars, worldVars
<1>25. CASE \E t \in Keys : OtherResumes(t)
  BY <1>25, <1>0, NoOpFields DEF StageOK, Dead, OtherResumes, callVars, serviceVars, worldVars
<1>26. CASE Crash
  BY <1>26, <1>0, NoOpFields DEF StageOK, Dead, Crash, callVars, serviceVars, worldVars,
     Abandon, Latch
<1>27. CASE Replay
  BY <1>27, <1>0, NoOpFields, ReplayEffect DEF StageOK, Dead, callVars, serviceVars, worldVars
<1>28. CASE OtherLatches
  BY <1>28, <1>0, NoOpFields DEF StageOK, Dead, OtherLatches, callVars, serviceVars, worldVars,
     Latch
<1>29. CASE ServiceStep
  BY <1>29, <1>0, NoOpFields DEF StageOK, Dead, ServiceStep, callVars, serviceVars, worldVars,
     ServiceActs, Land, LateLand, LateLoss, Called
<1>30. CASE UNCHANGED threadVars
  BY <1>30, <1>0, NoOpFields DEF StageOK, Dead, threadVars, serviceVars, callVars, worldVars
<1> QED  BY <1>1, <1>2, <1>3, <1>4, <1>5, <1>6, <1>7, <1>8, <1>9, <1>10, <1>11, <1>12, <1>13, <1>14,
   <1>15, <1>16, <1>17, <1>18, <1>19, <1>20, <1>21, <1>22, <1>23, <1>24, <1>25, <1>26, <1>27,
   <1>28, <1>29, <1>30, EachStep

LEMMA LifeFrame ==
    ASSUME life' = life,
           \A t \in Keys : life[t] # "alive" => mine'[t] = 0 /\ others'[t] = 0,
           \A t \in Keys : managed'[t] # NoManaged => life[t] # "unborn",
           pc' = "prune" \/ (pc' = "forget" /\ at'.then = "prune") =>
              \A t \in op'.changed : life[t] # "unborn",
           pc' = "capture" => \A t \in op'.todo : life[t] # "unborn",
           pc' = "forget" /\ at'.then \in {"prune", "resumeSuspending"} => life[at'.thread] = "exited",
           pc' = "resumeSuspending" => life[at'.thread] = "exited"
    PROVE  LifeOK'
BY DEF LifeOK, Threads

\* Only living threads are suspended, and those not born are unknown.
LEMMA LifeStep ==
    IInv /\ [Next]_threadVars => LifeOK'
<1> SUFFICES ASSUME IInv, [Next]_threadVars PROVE LifeOK'
  OBVIOUS
<1>0. /\ ServiceTypeOK /\ ControlTypes /\ ManagedTypes /\ WorldTypes /\ BoundTypes
      /\ ServiceInv /\ StepOK /\ StageOK /\ LifeOK /\ OwnedOK /\ TodoOK /\ ThreadOK
      /\ ReleaseOK /\ CallOK /\ LedgerOK /\ RecordOK
  BY Parts
<1>1. CASE ForgetThread
  <2>1. life' = life /\ \A t \in Keys : life[t] # "alive" => mine'[t] = 0 /\ others'[t] = 0
    BY <1>1, <1>0, ForgetThreadEffect DEF LifeOK, worldVars, WorldTypes, Ask
  <2>2. \A t \in Keys : managed'[t] # NoManaged => life[t] # "unborn"
    BY <1>1, <1>0, ForgetThreadEffect, AtFields DEF LifeOK, Threads, ThreadNow, ThreadGone,
       ControlTypes, ThreadOK, TodoOK, ThreadLabels, SuspendLabels, Ask
  <2>3. /\ pc' = "prune" \/ (pc' = "forget" /\ at'.then = "prune") =>
              \A t \in op'.changed : life[t] # "unborn"
        /\ pc' = "capture" => \A t \in op'.todo : life[t] # "unborn"
    BY <1>1, <1>0, ForgetThreadEffect, NoOpFields DEF LifeOK, StepOK, OpNow, Ends, AtNow, Ask,
       callVars, BusyLabels, ThreadLabels, SuspendLabels
  <2>4. /\ pc' = "forget" /\ at'.then \in {"prune", "resumeSuspending"} => life[at'.thread] = "exited"
        /\ pc' = "resumeSuspending" => life[at'.thread] = "exited"
    BY <1>1, <1>0, ForgetThreadEffect DEF LifeOK, StepOK, Ends, AtNow, Ask, callVars,
       BusyLabels, ThreadLabels, SuspendLabels
  <2> QED  BY <2>1, <2>2, <2>3, <2>4, LifeFrame
<1>2. CASE Prune
  <2>1. life' = life /\ \A t \in Keys : life[t] # "alive" => mine'[t] = 0 /\ others'[t] = 0
    BY <1>2, <1>0, PruneEffect DEF LifeOK, worldVars, WorldTypes, Ask
  <2>2. \A t \in Keys : managed'[t] # NoManaged => life[t] # "unborn"
    BY <1>2, <1>0, PruneEffect, AtFields DEF LifeOK, Threads, ThreadNow, ThreadGone,
       ControlTypes, ThreadOK, TodoOK, ThreadLabels, SuspendLabels, Ask
  <2>3. /\ pc' = "prune" \/ (pc' = "forget" /\ at'.then = "prune") =>
              \A t \in op'.changed : life[t] # "unborn"
        /\ pc' = "capture" => \A t \in op'.todo : life[t] # "unborn"
    BY <1>2, <1>0, PruneEffect, NoOpFields DEF LifeOK, StepOK, OpNow, Ends, AtNow, Ask,
       callVars, BusyLabels, ThreadLabels, SuspendLabels
  <2>4. /\ pc' = "forget" /\ at'.then \in {"prune", "resumeSuspending"} => life[at'.thread] = "exited"
        /\ pc' = "resumeSuspending" => life[at'.thread] = "exited"
    BY <1>2, <1>0, PruneEffect DEF LifeOK, StepOK, Ends, AtNow, Ask, callVars, BusyLabels,
       ThreadLabels, SuspendLabels
  <2> QED  BY <2>1, <2>2, <2>3, <2>4, LifeFrame
<1>3. CASE Capture
  BY <1>3, <1>0, NoOpFields, AtFields, CaptureEffect DEF LifeOK, Threads, WorldTypes,
     ControlTypes, OpNow, AtNow, Ends, Ask, callVars, serviceVars, worldVars, ThreadNow, ThreadGone
<1>4. CASE NextThread
  BY <1>4, <1>0, NoOpFields, AtFields, NextThreadEffect DEF LifeOK, Threads, WorldTypes,
     ControlTypes, OpNow, AtNow, Ends, Ask, callVars, serviceVars, worldVars, ThreadNow, ThreadGone
<1>5. CASE BeginSuspension
  BY <1>5, <1>0, NoOpFields, AtFields, BeginSuspensionEffect DEF LifeOK, Threads, WorldTypes,
     ControlTypes, OpNow, AtNow, Ends, Ask, callVars, serviceVars, worldVars, ThreadNow,
     ThreadGone, Submit, Granted, Denied, Acknowledge, Abandon
<1>6. CASE SuspendOnce
  <2>1. life' = life /\ \A t \in Keys : life[t] # "alive" => mine'[t] = 0 /\ others'[t] = 0
    BY <1>6, <1>0, SuspendOnceEffect DEF LifeOK, worldVars, WorldTypes, Ask
  <2>2. \A t \in Keys : managed'[t] # NoManaged => life[t] # "unborn"
    BY <1>6, <1>0, SuspendOnceEffect, AtFields DEF LifeOK, Threads, ThreadNow, ThreadGone,
       ControlTypes, ThreadOK, TodoOK, ThreadLabels, SuspendLabels, Ask
  <2>3. /\ pc' = "prune" \/ (pc' = "forget" /\ at'.then = "prune") =>
              \A t \in op'.changed : life[t] # "unborn"
        /\ pc' = "capture" => \A t \in op'.todo : life[t] # "unborn"
    BY <1>6, <1>0, SuspendOnceEffect, NoOpFields DEF LifeOK, StepOK, OpNow, Ends, AtNow, Ask,
       callVars, BusyLabels, ThreadLabels, SuspendLabels
  <2>4. /\ pc' = "forget" /\ at'.then \in {"prune", "resumeSuspending"} => life[at'.thread] = "exited"
        /\ pc' = "resumeSuspending" => life[at'.thread] = "exited"
    BY <1>6, <1>0, SuspendOnceEffect DEF LifeOK, StepOK, Ends, AtNow, Ask, callVars, BusyLabels,
       ThreadLabels, SuspendLabels
  <2> QED  BY <2>1, <2>2, <2>3, <2>4, LifeFrame
<1>7. CASE CancelSuspension
  BY <1>7, <1>0, NoOpFields, AtFields, CancelSuspensionEffect DEF LifeOK, Threads, WorldTypes,
     ControlTypes, OpNow, AtNow, Ends, Ask, callVars, serviceVars, worldVars, ThreadNow, ThreadGone
<1>8. CASE CommitSuspension
  <2>1. life' = life /\ \A t \in Keys : life[t] # "alive" => mine'[t] = 0 /\ others'[t] = 0
    BY <1>8, <1>0, CommitSuspensionEffect DEF LifeOK, worldVars, WorldTypes, Ask
  <2>2. \A t \in Keys : managed'[t] # NoManaged => life[t] # "unborn"
    BY <1>8, <1>0, CommitSuspensionEffect, AtFields DEF LifeOK, Threads, ThreadNow, ThreadGone,
       ControlTypes, ThreadOK, TodoOK, ThreadLabels, SuspendLabels, Ask
  <2>3. /\ pc' = "prune" \/ (pc' = "forget" /\ at'.then = "prune") =>
              \A t \in op'.changed : life[t] # "unborn"
        /\ pc' = "capture" => \A t \in op'.todo : life[t] # "unborn"
    BY <1>8, <1>0, CommitSuspensionEffect, NoOpFields DEF LifeOK, StepOK, OpNow, Ends, AtNow,
       Ask, callVars, BusyLabels, ThreadLabels, SuspendLabels
  <2>4. /\ pc' = "forget" /\ at'.then \in {"prune", "resumeSuspending"} => life[at'.thread] = "exited"
        /\ pc' = "resumeSuspending" => life[at'.thread] = "exited"
    BY <1>8, <1>0, CommitSuspensionEffect DEF LifeOK, StepOK, Ends, AtNow, Ask, callVars,
       BusyLabels, ThreadLabels, SuspendLabels
  <2> QED  BY <2>1, <2>2, <2>3, <2>4, LifeFrame
<1>9. CASE Check
  BY <1>9, <1>0, NoOpFields, AtFields, CheckEffect DEF LifeOK, Threads, WorldTypes,
     ControlTypes, OpNow, AtNow, Ends, Ask, callVars, serviceVars, worldVars, ThreadNow, ThreadGone
<1>10. CASE Compensate
  <2>1. life' = life /\ \A t \in Keys : life[t] # "alive" => mine'[t] = 0 /\ others'[t] = 0
    BY <1>10, <1>0, CompensateEffect DEF LifeOK, worldVars, WorldTypes, Ask
  <2>2. \A t \in Keys : managed'[t] # NoManaged => life[t] # "unborn"
    BY <1>10, <1>0, CompensateEffect, AtFields DEF LifeOK, Threads, ThreadNow, ThreadGone,
       ControlTypes, ThreadOK, TodoOK, ThreadLabels, SuspendLabels, Ask
  <2>3. /\ pc' = "prune" \/ (pc' = "forget" /\ at'.then = "prune") =>
              \A t \in op'.changed : life[t] # "unborn"
        /\ pc' = "capture" => \A t \in op'.todo : life[t] # "unborn"
    BY <1>10, <1>0, CompensateEffect, NoOpFields DEF LifeOK, StepOK, OpNow, Ends, AtNow, Ask,
       callVars, BusyLabels, ThreadLabels, SuspendLabels
  <2>4. /\ pc' = "forget" /\ at'.then \in {"prune", "resumeSuspending"} => life[at'.thread] = "exited"
        /\ pc' = "resumeSuspending" => life[at'.thread] = "exited"
    BY <1>10, <1>0, CompensateEffect DEF LifeOK, StepOK, Ends, AtNow, Ask, callVars, BusyLabels,
       ThreadLabels, SuspendLabels
  <2> QED  BY <2>1, <2>2, <2>3, <2>4, LifeFrame
<1>11. CASE SuspendFailed
  BY <1>11, <1>0, NoOpFields, AtFields, SuspendFailedEffect DEF LifeOK, Threads, WorldTypes,
     ControlTypes, OpNow, AtNow, Ends, Ask, callVars, serviceVars, worldVars, ThreadNow, ThreadGone
<1>12. CASE ResumeSuspending
  BY <1>12, <1>0, NoOpFields, AtFields, ResumeSuspendingEffect DEF LifeOK, Threads, WorldTypes,
     ControlTypes, OpNow, AtNow, Ends, Ask, callVars, serviceVars, worldVars, ThreadNow, ThreadGone
<1>13. CASE RollbackThreads
  BY <1>13, <1>0, NoOpFields, AtFields, RollbackEffect DEF LifeOK, Threads, WorldTypes,
     ControlTypes, OpNow, AtNow, Ends, Ask, callVars, serviceVars, worldVars, ThreadNow, ThreadGone
<1>14. CASE ResumeOwned
  <2>1. life' = life /\ \A t \in Keys : life[t] # "alive" => mine'[t] = 0 /\ others'[t] = 0
    BY <1>14, <1>0, ResumeOwnedEffect DEF LifeOK, worldVars, WorldTypes, Ask
  <2>2. \A t \in Keys : managed'[t] # NoManaged => life[t] # "unborn"
    BY <1>14, <1>0, ResumeOwnedEffect, AtFields DEF LifeOK, Threads, ThreadNow, ThreadGone,
       ControlTypes, ThreadOK, TodoOK, ThreadLabels, SuspendLabels, Ask
  <2>3. /\ pc' = "prune" \/ (pc' = "forget" /\ at'.then = "prune") =>
              \A t \in op'.changed : life[t] # "unborn"
        /\ pc' = "capture" => \A t \in op'.todo : life[t] # "unborn"
    BY <1>14, <1>0, ResumeOwnedEffect, NoOpFields DEF LifeOK, StepOK, OpNow, Ends, AtNow, Ask,
       callVars, BusyLabels, ThreadLabels, SuspendLabels
  <2>4. /\ pc' = "forget" /\ at'.then \in {"prune", "resumeSuspending"} => life[at'.thread] = "exited"
        /\ pc' = "resumeSuspending" => life[at'.thread] = "exited"
    BY <1>14, <1>0, ResumeOwnedEffect DEF LifeOK, StepOK, Ends, AtNow, Ask, callVars,
       BusyLabels, ThreadLabels, SuspendLabels
  <2> QED  BY <2>1, <2>2, <2>3, <2>4, LifeFrame
<1>15. CASE ThawThreads
  BY <1>15, <1>0, NoOpFields, AtFields, ThawEffect DEF LifeOK, Threads, WorldTypes,
     ControlTypes, OpNow, AtNow, Ends, Ask, callVars, serviceVars, worldVars, ThreadNow, ThreadGone
<1>16. CASE ForgetAll
  BY <1>16, <1>0, NoOpFields, AtFields, ForgetAllEffect DEF LifeOK, Threads, WorldTypes,
     ControlTypes, OpNow, AtNow, Ends, Ask, callVars, serviceVars, worldVars, ThreadNow, ThreadGone
<1>17. CASE Prepare
  BY <1>17, <1>0, NoOpFields, AtFields, PrepareEffect DEF LifeOK, Threads, WorldTypes,
     ControlTypes, OpNow, AtNow, Ends, Ask, callVars, serviceVars, worldVars, ThreadNow, ThreadGone
<1>18. CASE FreezeKnown
  BY <1>18, <1>0, NoOpFields, AtFields, EntryEffect DEF LifeOK, Threads, WorldTypes,
     ControlTypes, Starts, OpNow, AtNow, Ends, Ask, callVars, serviceVars, worldVars, ThreadNow,
     ThreadGone
<1>19. CASE AdoptNew
  BY <1>19, <1>0, NoOpFields, AtFields, EntryEffect DEF LifeOK, Threads, WorldTypes,
     ControlTypes, Starts, OpNow, AtNow, Ends, Ask, callVars, serviceVars, worldVars, ThreadNow,
     ThreadGone
<1>20. CASE ThawTarget
  BY <1>20, <1>0, NoOpFields, AtFields, EntryEffect DEF LifeOK, Threads, WorldTypes,
     ControlTypes, Starts, OpNow, AtNow, Ends, Ask, callVars, serviceVars, worldVars, ThreadNow,
     ThreadGone
<1>21. CASE ReleaseTarget
  BY <1>21, <1>0, NoOpFields, AtFields, EntryEffect DEF LifeOK, Threads, WorldTypes,
     ControlTypes, Starts, OpNow, AtNow, Ends, Ask, callVars, serviceVars, worldVars, ThreadNow,
     ThreadGone
<1>22. CASE \E t \in Keys : ThreadStarts(t)
  BY <1>22, <1>0, NoOpFields, AtFields DEF LifeOK, Threads, WorldTypes, ControlTypes,
     ThreadStarts, callVars, serviceVars, worldVars
<1>23. CASE \E t \in Keys : ThreadExits(t)
  BY <1>23, <1>0, NoOpFields, AtFields DEF LifeOK, Threads, WorldTypes, ControlTypes,
     ThreadExits, callVars, serviceVars, worldVars
<1>24. CASE \E t \in Keys : OtherSuspends(t)
  BY <1>24, <1>0, NoOpFields, AtFields DEF LifeOK, Threads, WorldTypes, ControlTypes,
     OtherSuspends, callVars, serviceVars, worldVars
<1>25. CASE \E t \in Keys : OtherResumes(t)
  BY <1>25, <1>0, NoOpFields, AtFields DEF LifeOK, Threads, WorldTypes, ControlTypes,
     OtherResumes, callVars, serviceVars, worldVars
<1>26. CASE Crash
  BY <1>26, <1>0, NoOpFields, AtFields DEF LifeOK, Threads, WorldTypes, ControlTypes, Crash,
     callVars, serviceVars, worldVars, Abandon, Latch
<1>27. CASE Replay
  BY <1>27, <1>0, NoOpFields, AtFields, ReplayEffect DEF LifeOK, Threads, WorldTypes,
     ControlTypes, callVars, serviceVars, worldVars
<1>28. CASE OtherLatches
  BY <1>28, <1>0, NoOpFields, AtFields DEF LifeOK, Threads, WorldTypes, ControlTypes,
     OtherLatches, callVars, serviceVars, worldVars, Latch
<1>29. CASE ServiceStep
  BY <1>29, <1>0, NoOpFields, AtFields DEF LifeOK, Threads, WorldTypes, ControlTypes,
     ServiceStep, callVars, serviceVars, worldVars, ServiceActs, Land, LateLand, LateLoss, Called
<1>30. CASE UNCHANGED threadVars
  BY <1>30, <1>0, NoOpFields, AtFields DEF LifeOK, Threads, WorldTypes, ControlTypes,
     threadVars, serviceVars, callVars, worldVars
<1> QED  BY <1>1, <1>2, <1>3, <1>4, <1>5, <1>6, <1>7, <1>8, <1>9, <1>10, <1>11, <1>12, <1>13, <1>14,
   <1>15, <1>16, <1>17, <1>18, <1>19, <1>20, <1>21, <1>22, <1>23, <1>24, <1>25, <1>26, <1>27,
   <1>28, <1>29, <1>30, EachStep

LEMMA OwnedSame ==
    ASSUME OwnedOK, ~Dead, UNCHANGED <<mine, life>>,
           \A t \in Keys : life[t] = "alive" => (IsOwned(t)' <=> IsOwned(t))
    PROVE  OwnedOK'
BY DEF OwnedOK

\* Winderust suspends or resumes the thread at hand, and notes it.
LEMMA OwnedFrame ==
    ASSUME OwnedOK, ~Dead, UNCHANGED life, NEW k \in Keys,
           \A t \in Keys \ {k} : mine'[t] = mine[t] /\ managed'[t] = managed[t],
           life[k] = "alive" => (mine'[k] = 1 <=> IsOwned(k)')
    PROVE  OwnedOK'
<1>1. \A t \in Keys \ {k} : IsOwned(t)' <=> IsOwned(t)
  BY DEF IsOwned
<1> QED  BY <1>1 DEF OwnedOK

\* Winderust holds the increments that it believes it owns.
LEMMA OwnedStep ==
    IInv /\ [Next]_threadVars => OwnedOK'
<1> SUFFICES ASSUME IInv, [Next]_threadVars PROVE OwnedOK'
  OBVIOUS
<1>0. /\ ServiceTypeOK /\ ControlTypes /\ ManagedTypes /\ WorldTypes /\ BoundTypes
      /\ ServiceInv /\ StepOK /\ StageOK /\ LifeOK /\ OwnedOK /\ TodoOK /\ ThreadOK
      /\ ReleaseOK /\ CallOK /\ LedgerOK /\ RecordOK
  BY Parts
<1>1. CASE ForgetThread
  <2>1. ~Dead /\ UNCHANGED life /\ at.thread \in Keys
    BY <1>1, <1>0, ForgetThreadEffect, AtFields DEF Dead, worldVars, ControlTypes, Ask
  <2>2. PICK k \in Keys : k = at.thread
    BY <2>1
  <2>3. \A t \in Keys \ {k} : mine'[t] = mine[t] /\ managed'[t] = managed[t]
    BY <1>1, <1>0, ForgetThreadEffect, <2>1, <2>2 DEF ThreadNow, ThreadGone, WorldTypes,
       worldVars, Ask
  <2>4. life[k] = "alive" => (mine'[k] = 1 <=> IsOwned(k)')
    BY <1>1, <1>0, ForgetThreadEffect, <2>1, <2>2 DEF ThreadNow, ThreadGone, WorldTypes,
       worldVars, Ask, OwnedOK, IsOwned, LifeOK, ThreadOK, ThreadLabels, SuspendLabels, Threads
  <2> QED  BY <1>0, <2>1, <2>3, <2>4, OwnedFrame
<1>2. CASE Prune
  <2>1. ~Dead /\ UNCHANGED <<mine, life>>
    BY <1>2, <1>0, PruneEffect DEF Dead, worldVars
  <2>2. \A t \in Keys : life[t] = "alive" => (IsOwned(t)' <=> IsOwned(t))
    BY <1>2, <1>0, PruneEffect DEF IsOwned, ThreadNow
  <2> QED  BY <1>0, <2>1, <2>2, OwnedSame
<1>3. CASE Capture
  <2>1. ~Dead /\ UNCHANGED <<mine, life>>
    BY <1>3, <1>0, CaptureEffect DEF Dead, worldVars
  <2>2. \A t \in Keys : life[t] = "alive" => (IsOwned(t)' <=> IsOwned(t))
    BY <1>3, <1>0, CaptureEffect DEF IsOwned, Unknown, Threads
  <2> QED  BY <1>0, <2>1, <2>2, OwnedSame
<1>4. CASE NextThread
  <2>1. ~Dead /\ UNCHANGED <<mine, life>>
    BY <1>4, <1>0, NextThreadEffect DEF Dead, worldVars
  <2>2. \A t \in Keys : life[t] = "alive" => (IsOwned(t)' <=> IsOwned(t))
    BY <1>4, <1>0, NextThreadEffect DEF IsOwned
  <2> QED  BY <1>0, <2>1, <2>2, OwnedSame
<1>5. CASE BeginSuspension
  <2>1. ~Dead /\ UNCHANGED <<mine, life>>
    BY <1>5, <1>0, BeginSuspensionEffect DEF Dead, worldVars
  <2>2. \A t \in Keys : life[t] = "alive" => (IsOwned(t)' <=> IsOwned(t))
    BY <1>5, <1>0, BeginSuspensionEffect DEF IsOwned
  <2> QED  BY <1>0, <2>1, <2>2, OwnedSame
<1>6. CASE SuspendOnce
  <2>1. ~Dead /\ UNCHANGED life /\ at.thread \in Keys
    BY <1>6, <1>0, SuspendOnceEffect, AtFields DEF Dead, worldVars, ControlTypes, Ask
  <2>2. PICK k \in Keys : k = at.thread
    BY <2>1
  <2>3. \A t \in Keys \ {k} : mine'[t] = mine[t] /\ managed'[t] = managed[t]
    BY <1>6, <1>0, SuspendOnceEffect, <2>1, <2>2 DEF ThreadNow, ThreadGone, WorldTypes,
       worldVars, Ask
  <2>4. life[k] = "alive" => (mine'[k] = 1 <=> IsOwned(k)')
    BY <1>6, <1>0, SuspendOnceEffect, <2>1, <2>2 DEF ThreadNow, ThreadGone, WorldTypes,
       worldVars, Ask, OwnedOK, IsOwned, LifeOK, ThreadOK, ThreadLabels, SuspendLabels, Threads
  <2> QED  BY <1>0, <2>1, <2>3, <2>4, OwnedFrame
<1>7. CASE CancelSuspension
  <2>1. ~Dead /\ UNCHANGED <<mine, life, managed>>
    BY <1>7, <1>0, CancelSuspensionEffect DEF Dead, worldVars, Ask
  <2> QED  BY <1>0, <2>1, OwnedSame DEF IsOwned
<1>8. CASE CommitSuspension
  <2>1. ~Dead /\ UNCHANGED life /\ at.thread \in Keys
    BY <1>8, <1>0, CommitSuspensionEffect, AtFields DEF Dead, worldVars, ControlTypes, Ask
  <2>2. PICK k \in Keys : k = at.thread
    BY <2>1
  <2>3. \A t \in Keys \ {k} : mine'[t] = mine[t] /\ managed'[t] = managed[t]
    BY <1>8, <1>0, CommitSuspensionEffect, <2>1, <2>2 DEF ThreadNow, ThreadGone, WorldTypes,
       worldVars, Ask
  <2>4. life[k] = "alive" => (mine'[k] = 1 <=> IsOwned(k)')
    BY <1>8, <1>0, CommitSuspensionEffect, <2>1, <2>2 DEF ThreadNow, ThreadGone, WorldTypes,
       worldVars, Ask, OwnedOK, IsOwned, LifeOK, ThreadOK, ThreadLabels, SuspendLabels, Threads
  <2> QED  BY <1>0, <2>1, <2>3, <2>4, OwnedFrame
<1>9. CASE Check
  <2>1. ~Dead /\ UNCHANGED <<mine, life>>
    BY <1>9, <1>0, CheckEffect DEF Dead, worldVars
  <2>2. \A t \in Keys : life[t] = "alive" => (IsOwned(t)' <=> IsOwned(t))
    BY <1>9, <1>0, CheckEffect DEF IsOwned
  <2> QED  BY <1>0, <2>1, <2>2, OwnedSame
<1>10. CASE Compensate
  <2>1. ~Dead /\ UNCHANGED life /\ at.thread \in Keys
    BY <1>10, <1>0, CompensateEffect, AtFields DEF Dead, worldVars, ControlTypes, Ask
  <2>2. PICK k \in Keys : k = at.thread
    BY <2>1
  <2>3. \A t \in Keys \ {k} : mine'[t] = mine[t] /\ managed'[t] = managed[t]
    BY <1>10, <1>0, CompensateEffect, <2>1, <2>2 DEF ThreadNow, ThreadGone, WorldTypes,
       worldVars, Ask
  <2>4. life[k] = "alive" => (mine'[k] = 1 <=> IsOwned(k)')
    <3>1. ~Dead /\ (life[k] = "alive" => (mine[k] = 1 <=> IsOwned(k)))
      BY <1>0, <2>1 DEF OwnedOK
    <3>2. mine \in [Keys -> 0..1]
      BY <1>0 DEF WorldTypes
    <3>3. \/ UNCHANGED <<mine, managed>>
          \/ (life[k] = "alive" => mine'[k] = 0) /\ ~managed'[k].owned
      BY <1>10, <1>0, CompensateEffect, <2>2, <3>2 DEF ThreadNow
    <3> QED  BY <3>1, <3>3 DEF IsOwned
  <2> QED  BY <1>0, <2>1, <2>3, <2>4, OwnedFrame
<1>11. CASE SuspendFailed
  <2>1. ~Dead /\ UNCHANGED life /\ at.thread \in Keys
    BY <1>11, <1>0, SuspendFailedEffect, AtFields DEF Dead, worldVars, ControlTypes, Ask
  <2>2. PICK k \in Keys : k = at.thread
    BY <2>1
  <2>3. \A t \in Keys \ {k} : mine'[t] = mine[t] /\ managed'[t] = managed[t]
    BY <1>11, <1>0, SuspendFailedEffect, <2>1, <2>2 DEF ThreadNow, ThreadGone, WorldTypes,
       worldVars, Ask
  <2>4. life[k] = "alive" => (mine'[k] = 1 <=> IsOwned(k)')
    BY <1>11, <1>0, SuspendFailedEffect, <2>1, <2>2 DEF ThreadNow, ThreadGone, WorldTypes,
       worldVars, Ask, OwnedOK, IsOwned, LifeOK, ThreadOK, ThreadLabels, SuspendLabels, Threads
  <2> QED  BY <1>0, <2>1, <2>3, <2>4, OwnedFrame
<1>12. CASE ResumeSuspending
  <2>1. ~Dead /\ UNCHANGED <<mine, life>>
    BY <1>12, <1>0, ResumeSuspendingEffect DEF Dead, worldVars
  <2>2. \A t \in Keys : life[t] = "alive" => (IsOwned(t)' <=> IsOwned(t))
    BY <1>12, <1>0, ResumeSuspendingEffect DEF IsOwned
  <2> QED  BY <1>0, <2>1, <2>2, OwnedSame
<1>13. CASE RollbackThreads
  <2>1. ~Dead /\ UNCHANGED <<mine, life>>
    BY <1>13, <1>0, RollbackEffect DEF Dead, worldVars
  <2>2. \A t \in Keys : life[t] = "alive" => (IsOwned(t)' <=> IsOwned(t))
    BY <1>13, <1>0, RollbackEffect DEF IsOwned
  <2> QED  BY <1>0, <2>1, <2>2, OwnedSame
<1>14. CASE ResumeOwned
  <2>1. ~Dead /\ UNCHANGED life /\ at.thread \in Keys
    BY <1>14, <1>0, ResumeOwnedEffect, AtFields DEF Dead, worldVars, ControlTypes, Ask
  <2>2. PICK k \in Keys : k = at.thread
    BY <2>1
  <2>3. \A t \in Keys \ {k} : mine'[t] = mine[t] /\ managed'[t] = managed[t]
    BY <1>14, <1>0, ResumeOwnedEffect, <2>1, <2>2 DEF ThreadNow, ThreadGone, WorldTypes,
       worldVars, Ask
  <2>4. life[k] = "alive" => (mine'[k] = 1 <=> IsOwned(k)')
    <3>1. ~Dead /\ (life[k] = "alive" => (mine[k] = 1 <=> IsOwned(k)))
      BY <1>0, <2>1 DEF OwnedOK
    <3>2. mine \in [Keys -> 0..1]
      BY <1>0 DEF WorldTypes
    <3>3. \/ UNCHANGED <<mine, managed>>
          \/ (life[k] = "alive" => mine'[k] = 0) /\ ~managed'[k].owned
      BY <1>14, <1>0, ResumeOwnedEffect, <2>2, <3>2 DEF ThreadNow
    <3> QED  BY <3>1, <3>3 DEF IsOwned
  <2> QED  BY <1>0, <2>1, <2>3, <2>4, OwnedFrame
<1>15. CASE ThawThreads
  <2>1. ~Dead /\ UNCHANGED <<mine, life>>
    BY <1>15, <1>0, ThawEffect DEF Dead, worldVars
  <2>2. \A t \in Keys : life[t] = "alive" => (IsOwned(t)' <=> IsOwned(t))
    BY <1>15, <1>0, ThawEffect DEF IsOwned
  <2> QED  BY <1>0, <2>1, <2>2, OwnedSame
<1>16. CASE ForgetAll
  <2>1. ~Dead /\ UNCHANGED <<mine, life>>
    BY <1>16, <1>0, ForgetAllEffect DEF Dead, worldVars
  <2>2. \A t \in Keys : managed'[t] = managed[t] \/ (managed'[t] = NoManaged /\ ~IsOwned(t))
    BY <1>16, <1>0, ForgetAllEffect
  <2> QED  BY <1>0, <2>1, <2>2, OwnedSame DEF IsOwned
<1>17. CASE Prepare
  <2>1. ~Dead /\ UNCHANGED <<mine, life>> /\ \A t \in Keys : managed[t] = NoManaged /\ ~IsOwned(t)'
    BY <1>17, <1>0, PrepareEffect DEF Dead, worldVars
  <2> QED  BY <1>0, <2>1, OwnedSame DEF IsOwned
<1>18. CASE FreezeKnown
  <2>1. ~Dead /\ UNCHANGED <<mine, life>>
    BY <1>18, <1>0, EntryEffect DEF Starts, Dead, worldVars
  <2>2. \A t \in Keys : life[t] = "alive" => (IsOwned(t)' <=> IsOwned(t))
    BY <1>18, <1>0, EntryEffect DEF Starts, IsOwned
  <2> QED  BY <1>0, <2>1, <2>2, OwnedSame
<1>19. CASE AdoptNew
  <2>1. ~Dead /\ UNCHANGED <<mine, life>>
    BY <1>19, <1>0, EntryEffect DEF Starts, Dead, worldVars
  <2>2. \A t \in Keys : life[t] = "alive" => (IsOwned(t)' <=> IsOwned(t))
    BY <1>19, <1>0, EntryEffect DEF Starts, IsOwned
  <2> QED  BY <1>0, <2>1, <2>2, OwnedSame
<1>20. CASE ThawTarget
  <2>1. ~Dead /\ UNCHANGED <<mine, life>>
    BY <1>20, <1>0, EntryEffect DEF Starts, Dead, worldVars
  <2>2. \A t \in Keys : life[t] = "alive" => (IsOwned(t)' <=> IsOwned(t))
    BY <1>20, <1>0, EntryEffect DEF Starts, IsOwned
  <2> QED  BY <1>0, <2>1, <2>2, OwnedSame
<1>21. CASE ReleaseTarget
  <2>1. ~Dead /\ UNCHANGED <<mine, life>>
    BY <1>21, <1>0, EntryEffect DEF Starts, Dead, worldVars
  <2>2. \A t \in Keys : life[t] = "alive" => (IsOwned(t)' <=> IsOwned(t))
    BY <1>21, <1>0, EntryEffect DEF Starts, IsOwned
  <2> QED  BY <1>0, <2>1, <2>2, OwnedSame
<1>22. CASE \E t \in Keys : ThreadStarts(t)
  BY <1>22, <1>0 DEF OwnedOK, IsOwned, Dead, ThreadStarts, callVars, worldVars, serviceVars,
     LifeOK, Threads, WorldTypes
<1>23. CASE \E t \in Keys : ThreadExits(t)
  BY <1>23, <1>0 DEF OwnedOK, IsOwned, Dead, ThreadExits, callVars, worldVars, serviceVars,
     LifeOK, Threads, WorldTypes
<1>24. CASE \E t \in Keys : OtherSuspends(t)
  BY <1>24, <1>0 DEF OwnedOK, IsOwned, Dead, OtherSuspends, callVars, worldVars, serviceVars,
     LifeOK, Threads, WorldTypes
<1>25. CASE \E t \in Keys : OtherResumes(t)
  BY <1>25, <1>0 DEF OwnedOK, IsOwned, Dead, OtherResumes, callVars, worldVars, serviceVars,
     LifeOK, Threads, WorldTypes
<1>26. CASE Crash
  BY <1>26, <1>0 DEF OwnedOK, IsOwned, Dead, Crash, callVars, worldVars, serviceVars, LifeOK,
     Threads, WorldTypes
<1>27. CASE Replay
  BY <1>27, <1>0, ReplayEffect DEF OwnedOK, IsOwned, Dead, callVars, worldVars, serviceVars,
     LifeOK, Threads, WorldTypes
<1>28. CASE OtherLatches
  BY <1>28, <1>0 DEF OwnedOK, IsOwned, Dead, OtherLatches, callVars, worldVars, serviceVars,
     LifeOK, Threads, WorldTypes
<1>29. CASE ServiceStep
  BY <1>29, <1>0 DEF OwnedOK, IsOwned, Dead, ServiceStep, callVars, worldVars, serviceVars,
     LifeOK, Threads, WorldTypes
<1>30. CASE UNCHANGED threadVars
  BY <1>30, <1>0 DEF OwnedOK, IsOwned, Dead, threadVars, serviceVars, callVars, worldVars
<1> QED  BY <1>1, <1>2, <1>3, <1>4, <1>5, <1>6, <1>7, <1>8, <1>9, <1>10, <1>11, <1>12, <1>13, <1>14,
   <1>15, <1>16, <1>17, <1>18, <1>19, <1>20, <1>21, <1>22, <1>23, <1>24, <1>25, <1>26, <1>27,
   <1>28, <1>29, <1>30, EachStep

\* The parts of TodoOK, by what the call is doing.
PruneTodo ==
    pc = "prune" \/ (pc = "forget" /\ at.then = "prune") =>
        /\ op.todo \subseteq Threads
        /\ pc = "forget" => at.thread \notin op.todo
        /\ op.kind = "freeze" => op.changed = {}

SuspendTodo ==
    Suspending =>
        /\ \A t \in op.todo : t \in Threads /\ ~IsOwned(t)
        /\ \A t \in op.changed : IsOwned(t) /\ t \notin op.todo
        /\ pc # "suspend" => at.thread \notin op.todo \cup op.changed

RollbackTodo ==
    RollingBack => /\ \A t \in op.changed : IsOwned(t)
                   /\ pc # "rollback" => at.thread \notin op.changed

ThawTodo ==
    Thawing => /\ \A t \in op.todo : IsOwned(t)
               /\ pc # "thaw" => at.thread \notin op.todo

ForgetTodo ==
    pc = "forgetAll" \/ (pc = "forget" /\ at.then = "forgetAll") =>
        op.todo \subseteq Threads /\ (pc = "forget" => at.thread \notin op.todo)

LEMMA TodoParts ==
    TodoOK <=> /\ PruneTodo /\ SuspendTodo /\ RollbackTodo /\ ThawTodo /\ ForgetTodo
               /\ pc = "capture" => op.changed = {}
BY DEF TodoOK, PruneTodo, SuspendTodo, RollbackTodo, ThawTodo, ForgetTodo

\* A step on the thread at hand leaves those still to visit, and those visited, alone.
AtHand ==
    /\ at.thread \in Keys /\ op.todo \subseteq Keys /\ op.changed \subseteq Keys
    /\ \/ pc' = "idle"
       \/ /\ at'.thread = at.thread /\ op'.todo = op.todo /\ op'.changed = op.changed
          /\ \A j \in Keys \ {at.thread} : managed'[j] = managed[j]

LEMMA OneAtHand ==
    ASSUME AtHand
    PROVE  /\ SuspendTodo /\ (Suspending' => Suspending /\ pc # "suspend") => SuspendTodo'
           /\ RollbackTodo /\ (RollingBack' => RollingBack /\ pc # "rollback") => RollbackTodo'
           /\ SuspendTodo /\ (RollingBack' => Suspending /\ pc # "suspend") => RollbackTodo'
           /\ ThawTodo /\ (Thawing' => Thawing /\ pc # "thaw") => ThawTodo'
<1>1. CASE pc' = "idle"
  BY <1>1 DEF SuspendTodo, RollbackTodo, ThawTodo, Suspending, RollingBack, Thawing, SuspendLabels
<1>2. CASE /\ at'.thread = at.thread /\ op'.todo = op.todo /\ op'.changed = op.changed
           /\ \A j \in Keys \ {at.thread} : managed'[j] = managed[j]
  <2>1. \A j \in Keys \ {at.thread} : /\ j \in Threads' <=> j \in Threads
                                      /\ IsOwned(j)' <=> IsOwned(j)
    BY <1>2 DEF Threads, IsOwned
  <2>2. op.todo \subseteq Keys /\ op.changed \subseteq Keys
    BY DEF AtHand
  <2>3. ASSUME SuspendTodo, Suspending, pc # "suspend"
        PROVE  SuspendTodo' /\ RollbackTodo'
    BY <1>2, <2>1, <2>2, <2>3 DEF SuspendTodo, RollbackTodo
  <2>4. ASSUME RollbackTodo, RollingBack, pc # "rollback" PROVE RollbackTodo'
    BY <1>2, <2>1, <2>2, <2>4 DEF RollbackTodo
  <2>5. ASSUME ThawTodo, Thawing, pc # "thaw" PROVE ThawTodo'
    BY <1>2, <2>1, <2>2, <2>5 DEF ThawTodo
  <2>6. /\ ~Suspending' => SuspendTodo'
        /\ ~RollingBack' => RollbackTodo'
        /\ ~Thawing' => ThawTodo'
    BY DEF SuspendTodo, RollbackTodo, ThawTodo
  <2> QED  BY <2>3, <2>4, <2>5, <2>6
<1> QED  BY <1>1, <1>2 DEF AtHand

LEMMA AtHandStep ==
    ASSUME IInv,
           \/ ForgetThread \/ SuspendOnce \/ CommitSuspension \/ Compensate \/ SuspendFailed
           \/ ResumeOwned
    PROVE  AtHand
<1>0. /\ ServiceTypeOK /\ ControlTypes /\ ManagedTypes /\ WorldTypes /\ BoundTypes
      /\ ServiceInv /\ StepOK /\ StageOK /\ LifeOK /\ OwnedOK /\ TodoOK /\ ThreadOK
      /\ ReleaseOK /\ CallOK /\ LedgerOK /\ RecordOK
  BY Parts
<1>a. at.thread \in Keys /\ op.todo \subseteq Keys /\ op.changed \subseteq Keys
  BY <1>0, AtFields, OpFields DEF ControlTypes
<1>1. CASE ForgetThread
  BY <1>1, <1>0, <1>a, ForgetThreadEffect DEF AtHand, ThreadNow, ThreadGone, OpNow, AtNow, Ask,
     callVars, Ends
<1>2. CASE SuspendOnce
  BY <1>2, <1>0, <1>a, SuspendOnceEffect DEF AtHand, ThreadNow, ThreadGone, OpNow, AtNow, Ask,
     callVars, Ends
<1>3. CASE CommitSuspension
  BY <1>3, <1>0, <1>a, CommitSuspensionEffect DEF AtHand, ThreadNow, ThreadGone, OpNow, AtNow,
     Ask, callVars, Ends
<1>4. CASE Compensate
  BY <1>4, <1>0, <1>a, CompensateEffect DEF AtHand, ThreadNow, ThreadGone, OpNow, AtNow, Ask,
     callVars, Ends
<1>5. CASE SuspendFailed
  BY <1>5, <1>0, <1>a, SuspendFailedEffect DEF AtHand, ThreadNow, ThreadGone, OpNow, AtNow, Ask,
     callVars, Ends
<1>6. CASE ResumeOwned
  BY <1>6, <1>0, <1>a, ResumeOwnedEffect DEF AtHand, ThreadNow, ThreadGone, OpNow, AtNow, Ask,
     callVars, Ends
<1> QED  BY <1>1, <1>2, <1>3, <1>4, <1>5, <1>6

\* While threads are pruned.
LEMMA PruneTodoStep ==
    IInv /\ [Next]_threadVars => PruneTodo'
<1> SUFFICES ASSUME IInv, [Next]_threadVars PROVE PruneTodo'
  OBVIOUS
<1>0. /\ ServiceTypeOK /\ ControlTypes /\ ManagedTypes /\ WorldTypes /\ BoundTypes
      /\ ServiceInv /\ StepOK /\ StageOK /\ LifeOK /\ OwnedOK /\ TodoOK /\ ThreadOK
      /\ ReleaseOK /\ CallOK /\ LedgerOK /\ RecordOK
  BY Parts
<1>1. CASE ForgetThread
  BY <1>1, <1>0, NoOpFields, TodoParts, ForgetThreadEffect DEF PruneTodo, BusyLabels,
     ThreadLabels, SuspendLabels, OpNow, AtNow, Ends, Ask, callVars, serviceVars, IsOwned, Threads,
     ThreadNow, ThreadGone, StepOK
<1>2. CASE Prune
  <2>1. pc = "prune" /\ op.todo \subseteq Threads /\ op.todo \subseteq Keys
        /\ (op.kind = "freeze" => op.changed = {})
    BY <1>2, <1>0, TodoParts, PruneEffect DEF PruneTodo, Threads
  <2>2. CASE \E t \in op.todo :
              /\ OpNow(op.kind, op.todo \ {t}, op.changed, op.ok)
              /\ UNCHANGED <<pc, at, managed>>
    BY <2>1, <2>2 DEF PruneTodo, OpNow, Threads
  <2>3. ASSUME NEW t \in op.todo, OpNow(op.kind, op.todo \ {t}, op.changed, op.ok),
               ThreadNow(t, managed[t].armed, FALSE), AtNow(t, 0, FALSE, "prune"), pc' = "forget"
        PROVE  PruneTodo'
    <3>1. \A j \in op.todo : j \in Threads'
      BY <2>1, <2>3 DEF ThreadNow, Threads
    <3>2. op'.todo = op.todo \ {t} /\ at'.thread = t /\ op'.kind = op.kind /\ op'.changed = op.changed
      BY <2>3 DEF OpNow, AtNow
    <3> QED  BY <2>1, <3>1, <3>2 DEF PruneTodo
  <2>4. CASE pc' \notin {"prune", "forget"}
    BY <2>4 DEF PruneTodo
  <2> QED  BY <1>2, <1>0, <2>2, <2>3, <2>4, PruneEffect DEF Ends
<1>3. CASE Capture
  BY <1>3, <1>0, NoOpFields, TodoParts, CaptureEffect DEF PruneTodo, BusyLabels, ThreadLabels,
     SuspendLabels, OpNow, AtNow, Ends, Ask, callVars, serviceVars, IsOwned, Threads, ThreadNow,
     ThreadGone, StepOK
<1>4. CASE NextThread
  BY <1>4, <1>0, NoOpFields, TodoParts, NextThreadEffect DEF PruneTodo, BusyLabels,
     ThreadLabels, SuspendLabels, OpNow, AtNow, Ends, Ask, callVars, serviceVars, IsOwned, Threads,
     ThreadNow, ThreadGone, StepOK
<1>5. CASE BeginSuspension
  BY <1>5, <1>0, NoOpFields, TodoParts, BeginSuspensionEffect DEF PruneTodo, BusyLabels,
     ThreadLabels, SuspendLabels, OpNow, AtNow, Ends, Ask, callVars, serviceVars, IsOwned, Threads,
     ThreadNow, ThreadGone, StepOK, Submit, Granted, Denied, Acknowledge, Abandon
<1>6. CASE SuspendOnce
  BY <1>6, <1>0, NoOpFields, TodoParts, SuspendOnceEffect DEF PruneTodo, BusyLabels,
     ThreadLabels, SuspendLabels, OpNow, AtNow, Ends, Ask, callVars, serviceVars, IsOwned, Threads,
     ThreadNow, ThreadGone, StepOK
<1>7. CASE CancelSuspension
  BY <1>7, <1>0, NoOpFields, TodoParts, CancelSuspensionEffect DEF PruneTodo, BusyLabels,
     ThreadLabels, SuspendLabels, OpNow, AtNow, Ends, Ask, callVars, serviceVars, IsOwned, Threads,
     ThreadNow, ThreadGone, StepOK
<1>8. CASE CommitSuspension
  BY <1>8, <1>0, NoOpFields, TodoParts, CommitSuspensionEffect DEF PruneTodo, BusyLabels,
     ThreadLabels, SuspendLabels, OpNow, AtNow, Ends, Ask, callVars, serviceVars, IsOwned, Threads,
     ThreadNow, ThreadGone, StepOK
<1>9. CASE Check
  BY <1>9, <1>0, NoOpFields, TodoParts, CheckEffect DEF PruneTodo, BusyLabels, ThreadLabels,
     SuspendLabels, OpNow, AtNow, Ends, Ask, callVars, serviceVars, IsOwned, Threads, ThreadNow,
     ThreadGone, StepOK
<1>10. CASE Compensate
  BY <1>10, <1>0, NoOpFields, TodoParts, CompensateEffect DEF PruneTodo, BusyLabels,
     ThreadLabels, SuspendLabels, OpNow, AtNow, Ends, Ask, callVars, serviceVars, IsOwned, Threads,
     ThreadNow, ThreadGone, StepOK
<1>11. CASE SuspendFailed
  BY <1>11, <1>0, NoOpFields, TodoParts, SuspendFailedEffect DEF PruneTodo, BusyLabels,
     ThreadLabels, SuspendLabels, OpNow, AtNow, Ends, Ask, callVars, serviceVars, IsOwned, Threads,
     ThreadNow, ThreadGone, StepOK
<1>12. CASE ResumeSuspending
  BY <1>12, <1>0, NoOpFields, TodoParts, ResumeSuspendingEffect DEF PruneTodo, BusyLabels,
     ThreadLabels, SuspendLabels, OpNow, AtNow, Ends, Ask, callVars, serviceVars, IsOwned, Threads,
     ThreadNow, ThreadGone, StepOK
<1>13. CASE RollbackThreads
  BY <1>13, <1>0, NoOpFields, TodoParts, RollbackEffect DEF PruneTodo, BusyLabels, ThreadLabels,
     SuspendLabels, OpNow, AtNow, Ends, Ask, callVars, serviceVars, IsOwned, Threads, ThreadNow,
     ThreadGone, StepOK
<1>14. CASE ResumeOwned
  BY <1>14, <1>0, NoOpFields, TodoParts, ResumeOwnedEffect DEF PruneTodo, BusyLabels,
     ThreadLabels, SuspendLabels, OpNow, AtNow, Ends, Ask, callVars, serviceVars, IsOwned, Threads,
     ThreadNow, ThreadGone, StepOK
<1>15. CASE ThawThreads
  BY <1>15, <1>0, NoOpFields, TodoParts, ThawEffect DEF PruneTodo, BusyLabels, ThreadLabels,
     SuspendLabels, OpNow, AtNow, Ends, Ask, callVars, serviceVars, IsOwned, Threads, ThreadNow,
     ThreadGone, StepOK
<1>16. CASE ForgetAll
  BY <1>16, <1>0, NoOpFields, TodoParts, ForgetAllEffect DEF PruneTodo, BusyLabels,
     ThreadLabels, SuspendLabels, OpNow, AtNow, Ends, Ask, callVars, serviceVars, IsOwned, Threads,
     ThreadNow, ThreadGone, StepOK
<1>17. CASE Prepare
  BY <1>17, <1>0, NoOpFields, TodoParts, PrepareEffect DEF PruneTodo, BusyLabels, ThreadLabels,
     SuspendLabels, OpNow, AtNow, Ends, Ask, callVars, serviceVars, IsOwned, Threads, ThreadNow,
     ThreadGone, StepOK
<1>18. CASE FreezeKnown
  BY <1>18, <1>0, NoOpFields, TodoParts, EntryEffect DEF PruneTodo, BusyLabels, ThreadLabels,
     SuspendLabels, Starts, OpNow, AtNow, Ends, Ask, callVars, serviceVars, IsOwned, Threads,
     ThreadNow, ThreadGone, StepOK
<1>19. CASE AdoptNew
  BY <1>19, <1>0, NoOpFields, TodoParts, EntryEffect DEF PruneTodo, BusyLabels, ThreadLabels,
     SuspendLabels, Starts, OpNow, AtNow, Ends, Ask, callVars, serviceVars, IsOwned, Threads,
     ThreadNow, ThreadGone, StepOK
<1>20. CASE ThawTarget
  BY <1>20, <1>0, NoOpFields, TodoParts, EntryEffect DEF PruneTodo, BusyLabels, ThreadLabels,
     SuspendLabels, Starts, OpNow, AtNow, Ends, Ask, callVars, serviceVars, IsOwned, Threads,
     ThreadNow, ThreadGone, StepOK
<1>21. CASE ReleaseTarget
  BY <1>21, <1>0, NoOpFields, TodoParts, EntryEffect DEF PruneTodo, BusyLabels, ThreadLabels,
     SuspendLabels, Starts, OpNow, AtNow, Ends, Ask, callVars, serviceVars, IsOwned, Threads,
     ThreadNow, ThreadGone, StepOK
<1>22. CASE \E t \in Keys : ThreadStarts(t)
  BY <1>22, <1>0, NoOpFields, TodoParts DEF PruneTodo, BusyLabels, ThreadLabels, SuspendLabels,
     ThreadStarts, callVars, serviceVars, Dead, IsOwned, Threads
<1>23. CASE \E t \in Keys : ThreadExits(t)
  BY <1>23, <1>0, NoOpFields, TodoParts DEF PruneTodo, BusyLabels, ThreadLabels, SuspendLabels,
     ThreadExits, callVars, serviceVars, Dead, IsOwned, Threads
<1>24. CASE \E t \in Keys : OtherSuspends(t)
  BY <1>24, <1>0, NoOpFields, TodoParts DEF PruneTodo, BusyLabels, ThreadLabels, SuspendLabels,
     OtherSuspends, callVars, serviceVars, Dead, IsOwned, Threads
<1>25. CASE \E t \in Keys : OtherResumes(t)
  BY <1>25, <1>0, NoOpFields, TodoParts DEF PruneTodo, BusyLabels, ThreadLabels, SuspendLabels,
     OtherResumes, callVars, serviceVars, Dead, IsOwned, Threads
<1>26. CASE Crash
  BY <1>26, <1>0, NoOpFields, TodoParts DEF PruneTodo, BusyLabels, ThreadLabels, SuspendLabels,
     Crash, callVars, serviceVars, Dead, IsOwned, Threads, Abandon, Latch
<1>27. CASE Replay
  BY <1>27, <1>0, NoOpFields, TodoParts, ReplayEffect DEF PruneTodo, BusyLabels, ThreadLabels,
     SuspendLabels, callVars, serviceVars, Dead, IsOwned, Threads
<1>28. CASE OtherLatches
  BY <1>28, <1>0, NoOpFields, TodoParts DEF PruneTodo, BusyLabels, ThreadLabels, SuspendLabels,
     OtherLatches, callVars, serviceVars, Dead, IsOwned, Threads, Latch
<1>29. CASE ServiceStep
  BY <1>29, <1>0, NoOpFields, TodoParts DEF PruneTodo, BusyLabels, ThreadLabels, SuspendLabels,
     ServiceStep, callVars, serviceVars, Dead, IsOwned, Threads, ServiceActs, Land, LateLand,
     LateLoss, Called
<1>30. CASE UNCHANGED threadVars
  BY <1>30, <1>0, NoOpFields, TodoParts DEF PruneTodo, BusyLabels, ThreadLabels, SuspendLabels,
     threadVars, serviceVars, callVars, worldVars, IsOwned, Threads
<1> QED  BY <1>1, <1>2, <1>3, <1>4, <1>5, <1>6, <1>7, <1>8, <1>9, <1>10, <1>11, <1>12, <1>13, <1>14,
   <1>15, <1>16, <1>17, <1>18, <1>19, <1>20, <1>21, <1>22, <1>23, <1>24, <1>25, <1>26, <1>27,
   <1>28, <1>29, <1>30, EachStep

\* While threads are suspended.
LEMMA SuspendTodoStep ==
    IInv /\ [Next]_threadVars => SuspendTodo'
<1> SUFFICES ASSUME IInv, [Next]_threadVars PROVE SuspendTodo'
  OBVIOUS
<1>0. /\ ServiceTypeOK /\ ControlTypes /\ ManagedTypes /\ WorldTypes /\ BoundTypes
      /\ ServiceInv /\ StepOK /\ StageOK /\ LifeOK /\ OwnedOK /\ TodoOK /\ ThreadOK
      /\ ReleaseOK /\ CallOK /\ LedgerOK /\ RecordOK
  BY Parts
<1>1. CASE ForgetThread
  <2>1. Suspending' => Suspending /\ pc # "suspend"
    BY <1>1, <1>0, ForgetThreadEffect DEF Suspending, StepOK, Ends, OpNow, AtNow, Ask, callVars,
       BusyLabels, ThreadLabels, SuspendLabels
  <2> QED  BY <1>1, <1>0, <2>1, TodoParts, AtHandStep, OneAtHand
<1>2. CASE Prune
  <2>1. pc = "prune" /\ (op.kind = "freeze" => op.changed = {})
    BY <1>2, <1>0, TodoParts, PruneEffect DEF PruneTodo
  <2>2. CASE pc' = "suspend" /\ op.kind = "freeze" /\ UNCHANGED managed
             /\ OpNow(op.kind, Threads \ Owned, op.changed, op.ok)
    BY <2>1, <2>2 DEF SuspendTodo, OpNow, Threads, Owned, IsOwned
  <2>3. CASE ~Suspending'
    BY <2>3 DEF SuspendTodo
  <2> QED  BY <1>2, <1>0, <2>1, <2>2, <2>3, PruneEffect DEF Suspending, SuspendLabels, Ends, AtNow
<1>3. CASE Capture
  <2>1. pc = "capture" /\ op.changed = {}
    BY <1>3, <1>0, TodoParts, CaptureEffect
  <2>2. CASE /\ \A t \in Unknown : managed'[t] # NoManaged /\ ~managed'[t].owned
             /\ OpNow(op.kind, Unknown, op.changed, op.ok) /\ pc' = "suspend"
    <3>1. op'.todo = Unknown /\ op'.changed = {} /\ Unknown \subseteq Keys
      BY <1>0, <2>1, <2>2, OpFields DEF OpNow, Unknown, ControlTypes
    <3> QED  BY <2>2, <3>1 DEF SuspendTodo, Threads, IsOwned
  <2>3. CASE Ends("retiring")
    BY <2>3 DEF Ends, SuspendTodo, Suspending, SuspendLabels
  <2> QED  BY <1>3, <1>0, <2>2, <2>3, CaptureEffect
<1>4. CASE NextThread
  BY <1>4, <1>0, NoOpFields, TodoParts, NextThreadEffect DEF SuspendTodo, BusyLabels,
     ThreadLabels, SuspendLabels, Suspending, OpNow, AtNow, Ends, Ask, callVars, serviceVars,
     IsOwned, Threads, ThreadNow, ThreadGone, StepOK
<1>5. CASE BeginSuspension
  BY <1>5, <1>0, NoOpFields, TodoParts, BeginSuspensionEffect DEF SuspendTodo, BusyLabels,
     ThreadLabels, SuspendLabels, Suspending, OpNow, AtNow, Ends, Ask, callVars, serviceVars,
     IsOwned, Threads, ThreadNow, ThreadGone, StepOK, Submit, Granted, Denied, Acknowledge, Abandon
<1>6. CASE SuspendOnce
  <2>1. Suspending' => Suspending /\ pc # "suspend"
    BY <1>6, <1>0, SuspendOnceEffect DEF Suspending, StepOK, Ends, OpNow, AtNow, Ask, callVars,
       BusyLabels, ThreadLabels, SuspendLabels
  <2> QED  BY <1>6, <1>0, <2>1, TodoParts, AtHandStep, OneAtHand
<1>7. CASE CancelSuspension
  BY <1>7, <1>0, NoOpFields, TodoParts, CancelSuspensionEffect DEF SuspendTodo, BusyLabels,
     ThreadLabels, SuspendLabels, Suspending, OpNow, AtNow, Ends, Ask, callVars, serviceVars,
     IsOwned, Threads, ThreadNow, ThreadGone, StepOK
<1>8. CASE CommitSuspension
  <2>1. Suspending' => Suspending /\ pc # "suspend"
    BY <1>8, <1>0, CommitSuspensionEffect DEF Suspending, StepOK, Ends, OpNow, AtNow, Ask,
       callVars, BusyLabels, ThreadLabels, SuspendLabels
  <2> QED  BY <1>8, <1>0, <2>1, TodoParts, AtHandStep, OneAtHand
<1>9. CASE Check
  <2> DEFINE k == at.thread
  <2>1. /\ pc = "check" /\ k \in Keys /\ IsOwned(k) /\ UNCHANGED <<at, managed>> /\ Suspending
        /\ k \notin op.todo /\ \A t \in Keys : (IsOwned(t)' <=> IsOwned(t)) /\ Threads' = Threads
    BY <1>9, <1>0, TodoParts, CheckEffect
       DEF ThreadOK, Suspending, SuspendTodo, SuspendLabels, IsOwned, Threads
  <2>2. op.todo \subseteq Keys /\ op.changed \subseteq Keys
    BY <1>0, OpFields DEF ControlTypes
  <2>3. CASE OpNow(op.kind, op.todo, op.changed \cup {k}, op.ok) /\ pc' = "suspend"
    <3>1. op'.todo = op.todo /\ op'.changed = op.changed \cup {k}
      BY <2>3 DEF OpNow
    <3> QED  BY <1>0, <2>1, <2>2, <2>3, <3>1, TodoParts DEF SuspendTodo
  <2>4. CASE pc' = "compensate" /\ UNCHANGED op
    BY <1>0, <2>1, <2>2, <2>4, TodoParts DEF SuspendTodo
  <2> QED  BY <1>9, <1>0, <2>3, <2>4, CheckEffect
<1>10. CASE Compensate
  <2>1. Suspending' => Suspending /\ pc # "suspend"
    BY <1>10, <1>0, CompensateEffect DEF Suspending, StepOK, Ends, OpNow, AtNow, Ask, callVars,
       BusyLabels, ThreadLabels, SuspendLabels
  <2> QED  BY <1>10, <1>0, <2>1, TodoParts, AtHandStep, OneAtHand
<1>11. CASE SuspendFailed
  <2>1. Suspending' => Suspending /\ pc # "suspend"
    BY <1>11, <1>0, SuspendFailedEffect DEF Suspending, StepOK, Ends, OpNow, AtNow, Ask,
       callVars, BusyLabels, ThreadLabels, SuspendLabels
  <2> QED  BY <1>11, <1>0, <2>1, TodoParts, AtHandStep, OneAtHand
<1>12. CASE ResumeSuspending
  BY <1>12, <1>0, NoOpFields, TodoParts, ResumeSuspendingEffect DEF SuspendTodo, BusyLabels,
     ThreadLabels, SuspendLabels, Suspending, OpNow, AtNow, Ends, Ask, callVars, serviceVars,
     IsOwned, Threads, ThreadNow, ThreadGone, StepOK
<1>13. CASE RollbackThreads
  BY <1>13, <1>0, NoOpFields, TodoParts, RollbackEffect DEF SuspendTodo, BusyLabels,
     ThreadLabels, SuspendLabels, Suspending, OpNow, AtNow, Ends, Ask, callVars, serviceVars,
     IsOwned, Threads, ThreadNow, ThreadGone, StepOK
<1>14. CASE ResumeOwned
  <2>1. Suspending' => Suspending /\ pc # "suspend"
    BY <1>14, <1>0, ResumeOwnedEffect DEF Suspending, StepOK, Ends, OpNow, AtNow, Ask, callVars,
       BusyLabels, ThreadLabels, SuspendLabels
  <2> QED  BY <1>14, <1>0, <2>1, TodoParts, AtHandStep, OneAtHand
<1>15. CASE ThawThreads
  BY <1>15, <1>0, NoOpFields, TodoParts, ThawEffect DEF SuspendTodo, BusyLabels, ThreadLabels,
     SuspendLabels, Suspending, OpNow, AtNow, Ends, Ask, callVars, serviceVars, IsOwned, Threads,
     ThreadNow, ThreadGone, StepOK
<1>16. CASE ForgetAll
  BY <1>16, <1>0, NoOpFields, TodoParts, ForgetAllEffect DEF SuspendTodo, BusyLabels,
     ThreadLabels, SuspendLabels, Suspending, OpNow, AtNow, Ends, Ask, callVars, serviceVars,
     IsOwned, Threads, ThreadNow, ThreadGone, StepOK
<1>17. CASE Prepare
  BY <1>17, <1>0, NoOpFields, TodoParts, PrepareEffect DEF SuspendTodo, BusyLabels,
     ThreadLabels, SuspendLabels, Suspending, OpNow, AtNow, Ends, Ask, callVars, serviceVars,
     IsOwned, Threads, ThreadNow, ThreadGone, StepOK
<1>18. CASE FreezeKnown
  BY <1>18, <1>0, NoOpFields, TodoParts, EntryEffect DEF SuspendTodo, BusyLabels, ThreadLabels,
     SuspendLabels, Suspending, Starts, OpNow, AtNow, Ends, Ask, callVars, serviceVars, IsOwned,
     Threads, ThreadNow, ThreadGone, StepOK
<1>19. CASE AdoptNew
  BY <1>19, <1>0, NoOpFields, TodoParts, EntryEffect DEF SuspendTodo, BusyLabels, ThreadLabels,
     SuspendLabels, Suspending, Starts, OpNow, AtNow, Ends, Ask, callVars, serviceVars, IsOwned,
     Threads, ThreadNow, ThreadGone, StepOK
<1>20. CASE ThawTarget
  BY <1>20, <1>0, NoOpFields, TodoParts, EntryEffect DEF SuspendTodo, BusyLabels, ThreadLabels,
     SuspendLabels, Suspending, Starts, OpNow, AtNow, Ends, Ask, callVars, serviceVars, IsOwned,
     Threads, ThreadNow, ThreadGone, StepOK
<1>21. CASE ReleaseTarget
  BY <1>21, <1>0, NoOpFields, TodoParts, EntryEffect DEF SuspendTodo, BusyLabels, ThreadLabels,
     SuspendLabels, Suspending, Starts, OpNow, AtNow, Ends, Ask, callVars, serviceVars, IsOwned,
     Threads, ThreadNow, ThreadGone, StepOK
<1>22. CASE \E t \in Keys : ThreadStarts(t)
  BY <1>22, <1>0, NoOpFields, TodoParts DEF SuspendTodo, BusyLabels, ThreadLabels,
     SuspendLabels, Suspending, ThreadStarts, callVars, serviceVars, Dead, IsOwned, Threads
<1>23. CASE \E t \in Keys : ThreadExits(t)
  BY <1>23, <1>0, NoOpFields, TodoParts DEF SuspendTodo, BusyLabels, ThreadLabels,
     SuspendLabels, Suspending, ThreadExits, callVars, serviceVars, Dead, IsOwned, Threads
<1>24. CASE \E t \in Keys : OtherSuspends(t)
  BY <1>24, <1>0, NoOpFields, TodoParts DEF SuspendTodo, BusyLabels, ThreadLabels,
     SuspendLabels, Suspending, OtherSuspends, callVars, serviceVars, Dead, IsOwned, Threads
<1>25. CASE \E t \in Keys : OtherResumes(t)
  BY <1>25, <1>0, NoOpFields, TodoParts DEF SuspendTodo, BusyLabels, ThreadLabels,
     SuspendLabels, Suspending, OtherResumes, callVars, serviceVars, Dead, IsOwned, Threads
<1>26. CASE Crash
  BY <1>26, <1>0, NoOpFields, TodoParts DEF SuspendTodo, BusyLabels, ThreadLabels,
     SuspendLabels, Suspending, Crash, callVars, serviceVars, Dead, IsOwned, Threads, Abandon,
     Latch
<1>27. CASE Replay
  BY <1>27, <1>0, NoOpFields, TodoParts, ReplayEffect DEF SuspendTodo, BusyLabels, ThreadLabels,
     SuspendLabels, Suspending, callVars, serviceVars, Dead, IsOwned, Threads
<1>28. CASE OtherLatches
  BY <1>28, <1>0, NoOpFields, TodoParts DEF SuspendTodo, BusyLabels, ThreadLabels,
     SuspendLabels, Suspending, OtherLatches, callVars, serviceVars, Dead, IsOwned, Threads, Latch
<1>29. CASE ServiceStep
  BY <1>29, <1>0, NoOpFields, TodoParts DEF SuspendTodo, BusyLabels, ThreadLabels,
     SuspendLabels, Suspending, ServiceStep, callVars, serviceVars, Dead, IsOwned, Threads,
     ServiceActs, Land, LateLand, LateLoss, Called
<1>30. CASE UNCHANGED threadVars
  BY <1>30, <1>0, NoOpFields, TodoParts DEF SuspendTodo, BusyLabels, ThreadLabels,
     SuspendLabels, Suspending, threadVars, serviceVars, callVars, worldVars, IsOwned, Threads
<1> QED  BY <1>1, <1>2, <1>3, <1>4, <1>5, <1>6, <1>7, <1>8, <1>9, <1>10, <1>11, <1>12, <1>13, <1>14,
   <1>15, <1>16, <1>17, <1>18, <1>19, <1>20, <1>21, <1>22, <1>23, <1>24, <1>25, <1>26, <1>27,
   <1>28, <1>29, <1>30, EachStep

\* While threads are rolled back.
LEMMA RollbackTodoStep ==
    IInv /\ [Next]_threadVars => RollbackTodo'
<1> SUFFICES ASSUME IInv, [Next]_threadVars PROVE RollbackTodo'
  OBVIOUS
<1>0. /\ ServiceTypeOK /\ ControlTypes /\ ManagedTypes /\ WorldTypes /\ BoundTypes
      /\ ServiceInv /\ StepOK /\ StageOK /\ LifeOK /\ OwnedOK /\ TodoOK /\ ThreadOK
      /\ ReleaseOK /\ CallOK /\ LedgerOK /\ RecordOK
  BY Parts
<1>1. CASE ForgetThread
  <2>1. \/ RollingBack' => RollingBack /\ pc # "rollback"
        \/ RollingBack' => Suspending /\ pc # "suspend"
    BY <1>1, <1>0, ForgetThreadEffect DEF RollingBack, Suspending, StepOK, Ends, OpNow, AtNow,
       Ask, callVars, BusyLabels, ThreadLabels, SuspendLabels
  <2> QED  BY <1>1, <1>0, <2>1, TodoParts, AtHandStep, OneAtHand
<1>2. CASE Prune
  BY <1>2, <1>0, NoOpFields, TodoParts, PruneEffect DEF RollbackTodo, BusyLabels, ThreadLabels,
     SuspendLabels, RollingBack, OpNow, AtNow, Ends, Ask, callVars, serviceVars, IsOwned, Threads,
     ThreadNow, ThreadGone, StepOK
<1>3. CASE Capture
  BY <1>3, <1>0, NoOpFields, TodoParts, CaptureEffect DEF RollbackTodo, BusyLabels,
     ThreadLabels, SuspendLabels, RollingBack, OpNow, AtNow, Ends, Ask, callVars, serviceVars,
     IsOwned, Threads, ThreadNow, ThreadGone, StepOK
<1>4. CASE NextThread
  BY <1>4, <1>0, NoOpFields, TodoParts, NextThreadEffect DEF RollbackTodo, BusyLabels,
     ThreadLabels, SuspendLabels, RollingBack, OpNow, AtNow, Ends, Ask, callVars, serviceVars,
     IsOwned, Threads, ThreadNow, ThreadGone, StepOK
<1>5. CASE BeginSuspension
  BY <1>5, <1>0, NoOpFields, TodoParts, BeginSuspensionEffect DEF RollbackTodo, BusyLabels,
     ThreadLabels, SuspendLabels, RollingBack, OpNow, AtNow, Ends, Ask, callVars, serviceVars,
     IsOwned, Threads, ThreadNow, ThreadGone, StepOK, Submit, Granted, Denied, Acknowledge, Abandon
<1>6. CASE SuspendOnce
  BY <1>6, <1>0, NoOpFields, TodoParts, SuspendOnceEffect DEF RollbackTodo, BusyLabels,
     ThreadLabels, SuspendLabels, RollingBack, OpNow, AtNow, Ends, Ask, callVars, serviceVars,
     IsOwned, Threads, ThreadNow, ThreadGone, StepOK
<1>7. CASE CancelSuspension
  BY <1>7, <1>0, NoOpFields, TodoParts, CancelSuspensionEffect DEF RollbackTodo, BusyLabels,
     ThreadLabels, SuspendLabels, RollingBack, OpNow, AtNow, Ends, Ask, callVars, serviceVars,
     IsOwned, Threads, ThreadNow, ThreadGone, StepOK
<1>8. CASE CommitSuspension
  BY <1>8, <1>0, NoOpFields, TodoParts, CommitSuspensionEffect DEF RollbackTodo, BusyLabels,
     ThreadLabels, SuspendLabels, RollingBack, OpNow, AtNow, Ends, Ask, callVars, serviceVars,
     IsOwned, Threads, ThreadNow, ThreadGone, StepOK
<1>9. CASE Check
  BY <1>9, <1>0, NoOpFields, TodoParts, CheckEffect DEF RollbackTodo, BusyLabels, ThreadLabels,
     SuspendLabels, RollingBack, OpNow, AtNow, Ends, Ask, callVars, serviceVars, IsOwned, Threads,
     ThreadNow, ThreadGone, StepOK
<1>10. CASE Compensate
  BY <1>10, <1>0, NoOpFields, TodoParts, CompensateEffect DEF RollbackTodo, BusyLabels,
     ThreadLabels, SuspendLabels, RollingBack, OpNow, AtNow, Ends, Ask, callVars, serviceVars,
     IsOwned, Threads, ThreadNow, ThreadGone, StepOK
<1>11. CASE SuspendFailed
  <2>1. RollingBack' => Suspending /\ pc # "suspend"
    BY <1>11, <1>0, SuspendFailedEffect DEF RollingBack, Suspending, StepOK, Ends, OpNow, AtNow,
       Ask, callVars, BusyLabels, ThreadLabels, SuspendLabels
  <2> QED  BY <1>11, <1>0, <2>1, TodoParts, AtHandStep, OneAtHand
<1>12. CASE ResumeSuspending
  BY <1>12, <1>0, NoOpFields, TodoParts, ResumeSuspendingEffect DEF RollbackTodo, BusyLabels,
     ThreadLabels, SuspendLabels, RollingBack, OpNow, AtNow, Ends, Ask, callVars, serviceVars,
     IsOwned, Threads, ThreadNow, ThreadGone, StepOK
<1>13. CASE RollbackThreads
  BY <1>13, <1>0, NoOpFields, TodoParts, RollbackEffect DEF RollbackTodo, BusyLabels,
     ThreadLabels, SuspendLabels, RollingBack, OpNow, AtNow, Ends, Ask, callVars, serviceVars,
     IsOwned, Threads, ThreadNow, ThreadGone, StepOK
<1>14. CASE ResumeOwned
  <2>1. RollingBack' => RollingBack /\ pc # "rollback"
    BY <1>14, <1>0, ResumeOwnedEffect DEF RollingBack, StepOK, Ends, OpNow, AtNow, Ask,
       callVars, BusyLabels, ThreadLabels, SuspendLabels
  <2> QED  BY <1>14, <1>0, <2>1, TodoParts, AtHandStep, OneAtHand
<1>15. CASE ThawThreads
  BY <1>15, <1>0, NoOpFields, TodoParts, ThawEffect DEF RollbackTodo, BusyLabels, ThreadLabels,
     SuspendLabels, RollingBack, OpNow, AtNow, Ends, Ask, callVars, serviceVars, IsOwned, Threads,
     ThreadNow, ThreadGone, StepOK
<1>16. CASE ForgetAll
  BY <1>16, <1>0, NoOpFields, TodoParts, ForgetAllEffect DEF RollbackTodo, BusyLabels,
     ThreadLabels, SuspendLabels, RollingBack, OpNow, AtNow, Ends, Ask, callVars, serviceVars,
     IsOwned, Threads, ThreadNow, ThreadGone, StepOK
<1>17. CASE Prepare
  BY <1>17, <1>0, NoOpFields, TodoParts, PrepareEffect DEF RollbackTodo, BusyLabels,
     ThreadLabels, SuspendLabels, RollingBack, OpNow, AtNow, Ends, Ask, callVars, serviceVars,
     IsOwned, Threads, ThreadNow, ThreadGone, StepOK
<1>18. CASE FreezeKnown
  BY <1>18, <1>0, NoOpFields, TodoParts, EntryEffect DEF RollbackTodo, BusyLabels, ThreadLabels,
     SuspendLabels, RollingBack, Starts, OpNow, AtNow, Ends, Ask, callVars, serviceVars, IsOwned,
     Threads, ThreadNow, ThreadGone, StepOK
<1>19. CASE AdoptNew
  BY <1>19, <1>0, NoOpFields, TodoParts, EntryEffect DEF RollbackTodo, BusyLabels, ThreadLabels,
     SuspendLabels, RollingBack, Starts, OpNow, AtNow, Ends, Ask, callVars, serviceVars, IsOwned,
     Threads, ThreadNow, ThreadGone, StepOK
<1>20. CASE ThawTarget
  BY <1>20, <1>0, NoOpFields, TodoParts, EntryEffect DEF RollbackTodo, BusyLabels, ThreadLabels,
     SuspendLabels, RollingBack, Starts, OpNow, AtNow, Ends, Ask, callVars, serviceVars, IsOwned,
     Threads, ThreadNow, ThreadGone, StepOK
<1>21. CASE ReleaseTarget
  BY <1>21, <1>0, NoOpFields, TodoParts, EntryEffect DEF RollbackTodo, BusyLabels, ThreadLabels,
     SuspendLabels, RollingBack, Starts, OpNow, AtNow, Ends, Ask, callVars, serviceVars, IsOwned,
     Threads, ThreadNow, ThreadGone, StepOK
<1>22. CASE \E t \in Keys : ThreadStarts(t)
  BY <1>22, <1>0, NoOpFields, TodoParts DEF RollbackTodo, BusyLabels, ThreadLabels,
     SuspendLabels, RollingBack, ThreadStarts, callVars, serviceVars, Dead, IsOwned, Threads
<1>23. CASE \E t \in Keys : ThreadExits(t)
  BY <1>23, <1>0, NoOpFields, TodoParts DEF RollbackTodo, BusyLabels, ThreadLabels,
     SuspendLabels, RollingBack, ThreadExits, callVars, serviceVars, Dead, IsOwned, Threads
<1>24. CASE \E t \in Keys : OtherSuspends(t)
  BY <1>24, <1>0, NoOpFields, TodoParts DEF RollbackTodo, BusyLabels, ThreadLabels,
     SuspendLabels, RollingBack, OtherSuspends, callVars, serviceVars, Dead, IsOwned, Threads
<1>25. CASE \E t \in Keys : OtherResumes(t)
  BY <1>25, <1>0, NoOpFields, TodoParts DEF RollbackTodo, BusyLabels, ThreadLabels,
     SuspendLabels, RollingBack, OtherResumes, callVars, serviceVars, Dead, IsOwned, Threads
<1>26. CASE Crash
  BY <1>26, <1>0, NoOpFields, TodoParts DEF RollbackTodo, BusyLabels, ThreadLabels,
     SuspendLabels, RollingBack, Crash, callVars, serviceVars, Dead, IsOwned, Threads, Abandon,
     Latch
<1>27. CASE Replay
  BY <1>27, <1>0, NoOpFields, TodoParts, ReplayEffect DEF RollbackTodo, BusyLabels,
     ThreadLabels, SuspendLabels, RollingBack, callVars, serviceVars, Dead, IsOwned, Threads
<1>28. CASE OtherLatches
  BY <1>28, <1>0, NoOpFields, TodoParts DEF RollbackTodo, BusyLabels, ThreadLabels,
     SuspendLabels, RollingBack, OtherLatches, callVars, serviceVars, Dead, IsOwned, Threads, Latch
<1>29. CASE ServiceStep
  BY <1>29, <1>0, NoOpFields, TodoParts DEF RollbackTodo, BusyLabels, ThreadLabels,
     SuspendLabels, RollingBack, ServiceStep, callVars, serviceVars, Dead, IsOwned, Threads,
     ServiceActs, Land, LateLand, LateLoss, Called
<1>30. CASE UNCHANGED threadVars
  BY <1>30, <1>0, NoOpFields, TodoParts DEF RollbackTodo, BusyLabels, ThreadLabels,
     SuspendLabels, RollingBack, threadVars, serviceVars, callVars, worldVars, IsOwned, Threads
<1> QED  BY <1>1, <1>2, <1>3, <1>4, <1>5, <1>6, <1>7, <1>8, <1>9, <1>10, <1>11, <1>12, <1>13, <1>14,
   <1>15, <1>16, <1>17, <1>18, <1>19, <1>20, <1>21, <1>22, <1>23, <1>24, <1>25, <1>26, <1>27,
   <1>28, <1>29, <1>30, EachStep

\* While threads are thawed.
LEMMA ThawTodoStep ==
    IInv /\ [Next]_threadVars => ThawTodo'
<1> SUFFICES ASSUME IInv, [Next]_threadVars PROVE ThawTodo'
  OBVIOUS
<1>0. /\ ServiceTypeOK /\ ControlTypes /\ ManagedTypes /\ WorldTypes /\ BoundTypes
      /\ ServiceInv /\ StepOK /\ StageOK /\ LifeOK /\ OwnedOK /\ TodoOK /\ ThreadOK
      /\ ReleaseOK /\ CallOK /\ LedgerOK /\ RecordOK
  BY Parts
<1>1. CASE ForgetThread
  <2>1. Thawing' => Thawing /\ pc # "thaw"
    BY <1>1, <1>0, ForgetThreadEffect DEF Thawing, StepOK, Ends, OpNow, AtNow, Ask, callVars,
       BusyLabels, ThreadLabels, SuspendLabels
  <2> QED  BY <1>1, <1>0, <2>1, TodoParts, AtHandStep, OneAtHand
<1>2. CASE Prune
  BY <1>2, <1>0, NoOpFields, TodoParts, PruneEffect DEF ThawTodo, BusyLabels, ThreadLabels,
     SuspendLabels, Thawing, OpNow, AtNow, Ends, Ask, callVars, serviceVars, IsOwned, Threads,
     ThreadNow, ThreadGone, StepOK
<1>3. CASE Capture
  BY <1>3, <1>0, NoOpFields, TodoParts, CaptureEffect DEF ThawTodo, BusyLabels, ThreadLabels,
     SuspendLabels, Thawing, OpNow, AtNow, Ends, Ask, callVars, serviceVars, IsOwned, Threads,
     ThreadNow, ThreadGone, StepOK
<1>4. CASE NextThread
  BY <1>4, <1>0, NoOpFields, TodoParts, NextThreadEffect DEF ThawTodo, BusyLabels, ThreadLabels,
     SuspendLabels, Thawing, OpNow, AtNow, Ends, Ask, callVars, serviceVars, IsOwned, Threads,
     ThreadNow, ThreadGone, StepOK
<1>5. CASE BeginSuspension
  BY <1>5, <1>0, NoOpFields, TodoParts, BeginSuspensionEffect DEF ThawTodo, BusyLabels,
     ThreadLabels, SuspendLabels, Thawing, OpNow, AtNow, Ends, Ask, callVars, serviceVars, IsOwned,
     Threads, ThreadNow, ThreadGone, StepOK, Submit, Granted, Denied, Acknowledge, Abandon
<1>6. CASE SuspendOnce
  BY <1>6, <1>0, NoOpFields, TodoParts, SuspendOnceEffect DEF ThawTodo, BusyLabels,
     ThreadLabels, SuspendLabels, Thawing, OpNow, AtNow, Ends, Ask, callVars, serviceVars, IsOwned,
     Threads, ThreadNow, ThreadGone, StepOK
<1>7. CASE CancelSuspension
  BY <1>7, <1>0, NoOpFields, TodoParts, CancelSuspensionEffect DEF ThawTodo, BusyLabels,
     ThreadLabels, SuspendLabels, Thawing, OpNow, AtNow, Ends, Ask, callVars, serviceVars, IsOwned,
     Threads, ThreadNow, ThreadGone, StepOK
<1>8. CASE CommitSuspension
  BY <1>8, <1>0, NoOpFields, TodoParts, CommitSuspensionEffect DEF ThawTodo, BusyLabels,
     ThreadLabels, SuspendLabels, Thawing, OpNow, AtNow, Ends, Ask, callVars, serviceVars, IsOwned,
     Threads, ThreadNow, ThreadGone, StepOK
<1>9. CASE Check
  BY <1>9, <1>0, NoOpFields, TodoParts, CheckEffect DEF ThawTodo, BusyLabels, ThreadLabels,
     SuspendLabels, Thawing, OpNow, AtNow, Ends, Ask, callVars, serviceVars, IsOwned, Threads,
     ThreadNow, ThreadGone, StepOK
<1>10. CASE Compensate
  BY <1>10, <1>0, NoOpFields, TodoParts, CompensateEffect DEF ThawTodo, BusyLabels,
     ThreadLabels, SuspendLabels, Thawing, OpNow, AtNow, Ends, Ask, callVars, serviceVars, IsOwned,
     Threads, ThreadNow, ThreadGone, StepOK
<1>11. CASE SuspendFailed
  BY <1>11, <1>0, NoOpFields, TodoParts, SuspendFailedEffect DEF ThawTodo, BusyLabels,
     ThreadLabels, SuspendLabels, Thawing, OpNow, AtNow, Ends, Ask, callVars, serviceVars, IsOwned,
     Threads, ThreadNow, ThreadGone, StepOK
<1>12. CASE ResumeSuspending
  BY <1>12, <1>0, NoOpFields, TodoParts, ResumeSuspendingEffect DEF ThawTodo, BusyLabels,
     ThreadLabels, SuspendLabels, Thawing, OpNow, AtNow, Ends, Ask, callVars, serviceVars, IsOwned,
     Threads, ThreadNow, ThreadGone, StepOK
<1>13. CASE RollbackThreads
  BY <1>13, <1>0, NoOpFields, TodoParts, RollbackEffect DEF ThawTodo, BusyLabels, ThreadLabels,
     SuspendLabels, Thawing, OpNow, AtNow, Ends, Ask, callVars, serviceVars, IsOwned, Threads,
     ThreadNow, ThreadGone, StepOK
<1>14. CASE ResumeOwned
  <2>1. Thawing' => Thawing /\ pc # "thaw"
    BY <1>14, <1>0, ResumeOwnedEffect DEF Thawing, StepOK, Ends, OpNow, AtNow, Ask, callVars,
       BusyLabels, ThreadLabels, SuspendLabels
  <2> QED  BY <1>14, <1>0, <2>1, TodoParts, AtHandStep, OneAtHand
<1>15. CASE ThawThreads
  BY <1>15, <1>0, NoOpFields, TodoParts, ThawEffect DEF ThawTodo, BusyLabels, ThreadLabels,
     SuspendLabels, Thawing, OpNow, AtNow, Ends, Ask, callVars, serviceVars, IsOwned, Threads,
     ThreadNow, ThreadGone, StepOK
<1>16. CASE ForgetAll
  BY <1>16, <1>0, NoOpFields, TodoParts, ForgetAllEffect DEF ThawTodo, BusyLabels, ThreadLabels,
     SuspendLabels, Thawing, OpNow, AtNow, Ends, Ask, callVars, serviceVars, IsOwned, Threads,
     ThreadNow, ThreadGone, StepOK
<1>17. CASE Prepare
  BY <1>17, <1>0, NoOpFields, TodoParts, PrepareEffect DEF ThawTodo, BusyLabels, ThreadLabels,
     SuspendLabels, Thawing, OpNow, AtNow, Ends, Ask, callVars, serviceVars, IsOwned, Threads,
     ThreadNow, ThreadGone, StepOK
<1>18. CASE FreezeKnown
  BY <1>18, <1>0, NoOpFields, TodoParts, EntryEffect DEF ThawTodo, BusyLabels, ThreadLabels,
     SuspendLabels, Thawing, Starts, OpNow, AtNow, Ends, Ask, callVars, serviceVars, IsOwned,
     Threads, ThreadNow, ThreadGone, StepOK
<1>19. CASE AdoptNew
  BY <1>19, <1>0, NoOpFields, TodoParts, EntryEffect DEF ThawTodo, BusyLabels, ThreadLabels,
     SuspendLabels, Thawing, Starts, OpNow, AtNow, Ends, Ask, callVars, serviceVars, IsOwned,
     Threads, ThreadNow, ThreadGone, StepOK
<1>20. CASE ThawTarget
  BY <1>20, <1>0, NoOpFields, TodoParts, EntryEffect DEF ThawTodo, BusyLabels, ThreadLabels,
     SuspendLabels, Thawing, Starts, OpNow, AtNow, Ends, Ask, callVars, serviceVars, IsOwned,
     Threads, ThreadNow, ThreadGone, StepOK, Owned
<1>21. CASE ReleaseTarget
  BY <1>21, <1>0, NoOpFields, TodoParts, EntryEffect DEF ThawTodo, BusyLabels, ThreadLabels,
     SuspendLabels, Thawing, Starts, OpNow, AtNow, Ends, Ask, callVars, serviceVars, IsOwned,
     Threads, ThreadNow, ThreadGone, StepOK, Owned
<1>22. CASE \E t \in Keys : ThreadStarts(t)
  BY <1>22, <1>0, NoOpFields, TodoParts DEF ThawTodo, BusyLabels, ThreadLabels, SuspendLabels,
     Thawing, ThreadStarts, callVars, serviceVars, Dead, IsOwned, Threads
<1>23. CASE \E t \in Keys : ThreadExits(t)
  BY <1>23, <1>0, NoOpFields, TodoParts DEF ThawTodo, BusyLabels, ThreadLabels, SuspendLabels,
     Thawing, ThreadExits, callVars, serviceVars, Dead, IsOwned, Threads
<1>24. CASE \E t \in Keys : OtherSuspends(t)
  BY <1>24, <1>0, NoOpFields, TodoParts DEF ThawTodo, BusyLabels, ThreadLabels, SuspendLabels,
     Thawing, OtherSuspends, callVars, serviceVars, Dead, IsOwned, Threads
<1>25. CASE \E t \in Keys : OtherResumes(t)
  BY <1>25, <1>0, NoOpFields, TodoParts DEF ThawTodo, BusyLabels, ThreadLabels, SuspendLabels,
     Thawing, OtherResumes, callVars, serviceVars, Dead, IsOwned, Threads
<1>26. CASE Crash
  BY <1>26, <1>0, NoOpFields, TodoParts DEF ThawTodo, BusyLabels, ThreadLabels, SuspendLabels,
     Thawing, Crash, callVars, serviceVars, Dead, IsOwned, Threads, Abandon, Latch
<1>27. CASE Replay
  BY <1>27, <1>0, NoOpFields, TodoParts, ReplayEffect DEF ThawTodo, BusyLabels, ThreadLabels,
     SuspendLabels, Thawing, callVars, serviceVars, Dead, IsOwned, Threads
<1>28. CASE OtherLatches
  BY <1>28, <1>0, NoOpFields, TodoParts DEF ThawTodo, BusyLabels, ThreadLabels, SuspendLabels,
     Thawing, OtherLatches, callVars, serviceVars, Dead, IsOwned, Threads, Latch
<1>29. CASE ServiceStep
  BY <1>29, <1>0, NoOpFields, TodoParts DEF ThawTodo, BusyLabels, ThreadLabels, SuspendLabels,
     Thawing, ServiceStep, callVars, serviceVars, Dead, IsOwned, Threads, ServiceActs, Land,
     LateLand, LateLoss, Called
<1>30. CASE UNCHANGED threadVars
  BY <1>30, <1>0, NoOpFields, TodoParts DEF ThawTodo, BusyLabels, ThreadLabels, SuspendLabels,
     Thawing, threadVars, serviceVars, callVars, worldVars, IsOwned, Threads
<1> QED  BY <1>1, <1>2, <1>3, <1>4, <1>5, <1>6, <1>7, <1>8, <1>9, <1>10, <1>11, <1>12, <1>13, <1>14,
   <1>15, <1>16, <1>17, <1>18, <1>19, <1>20, <1>21, <1>22, <1>23, <1>24, <1>25, <1>26, <1>27,
   <1>28, <1>29, <1>30, EachStep

\* While records are given up.
LEMMA ForgetTodoStep ==
    IInv /\ [Next]_threadVars => ForgetTodo'
<1> SUFFICES ASSUME IInv, [Next]_threadVars PROVE ForgetTodo'
  OBVIOUS
<1>0. /\ ServiceTypeOK /\ ControlTypes /\ ManagedTypes /\ WorldTypes /\ BoundTypes
      /\ ServiceInv /\ StepOK /\ StageOK /\ LifeOK /\ OwnedOK /\ TodoOK /\ ThreadOK
      /\ ReleaseOK /\ CallOK /\ LedgerOK /\ RecordOK
  BY Parts
<1>1. CASE ForgetThread
  BY <1>1, <1>0, NoOpFields, TodoParts, ForgetThreadEffect DEF ForgetTodo, BusyLabels,
     ThreadLabels, SuspendLabels, OpNow, AtNow, Ends, Ask, callVars, serviceVars, IsOwned, Threads,
     ThreadNow, ThreadGone, StepOK
<1>2. CASE Prune
  BY <1>2, <1>0, NoOpFields, TodoParts, PruneEffect DEF ForgetTodo, BusyLabels, ThreadLabels,
     SuspendLabels, OpNow, AtNow, Ends, Ask, callVars, serviceVars, IsOwned, Threads, ThreadNow,
     ThreadGone, StepOK
<1>3. CASE Capture
  BY <1>3, <1>0, NoOpFields, TodoParts, CaptureEffect DEF ForgetTodo, BusyLabels, ThreadLabels,
     SuspendLabels, OpNow, AtNow, Ends, Ask, callVars, serviceVars, IsOwned, Threads, ThreadNow,
     ThreadGone, StepOK
<1>4. CASE NextThread
  BY <1>4, <1>0, NoOpFields, TodoParts, NextThreadEffect DEF ForgetTodo, BusyLabels,
     ThreadLabels, SuspendLabels, OpNow, AtNow, Ends, Ask, callVars, serviceVars, IsOwned, Threads,
     ThreadNow, ThreadGone, StepOK
<1>5. CASE BeginSuspension
  BY <1>5, <1>0, NoOpFields, TodoParts, BeginSuspensionEffect DEF ForgetTodo, BusyLabels,
     ThreadLabels, SuspendLabels, OpNow, AtNow, Ends, Ask, callVars, serviceVars, IsOwned, Threads,
     ThreadNow, ThreadGone, StepOK, Submit, Granted, Denied, Acknowledge, Abandon
<1>6. CASE SuspendOnce
  BY <1>6, <1>0, NoOpFields, TodoParts, SuspendOnceEffect DEF ForgetTodo, BusyLabels,
     ThreadLabels, SuspendLabels, OpNow, AtNow, Ends, Ask, callVars, serviceVars, IsOwned, Threads,
     ThreadNow, ThreadGone, StepOK
<1>7. CASE CancelSuspension
  BY <1>7, <1>0, NoOpFields, TodoParts, CancelSuspensionEffect DEF ForgetTodo, BusyLabels,
     ThreadLabels, SuspendLabels, OpNow, AtNow, Ends, Ask, callVars, serviceVars, IsOwned, Threads,
     ThreadNow, ThreadGone, StepOK
<1>8. CASE CommitSuspension
  BY <1>8, <1>0, NoOpFields, TodoParts, CommitSuspensionEffect DEF ForgetTodo, BusyLabels,
     ThreadLabels, SuspendLabels, OpNow, AtNow, Ends, Ask, callVars, serviceVars, IsOwned, Threads,
     ThreadNow, ThreadGone, StepOK
<1>9. CASE Check
  BY <1>9, <1>0, NoOpFields, TodoParts, CheckEffect DEF ForgetTodo, BusyLabels, ThreadLabels,
     SuspendLabels, OpNow, AtNow, Ends, Ask, callVars, serviceVars, IsOwned, Threads, ThreadNow,
     ThreadGone, StepOK
<1>10. CASE Compensate
  BY <1>10, <1>0, NoOpFields, TodoParts, CompensateEffect DEF ForgetTodo, BusyLabels,
     ThreadLabels, SuspendLabels, OpNow, AtNow, Ends, Ask, callVars, serviceVars, IsOwned, Threads,
     ThreadNow, ThreadGone, StepOK
<1>11. CASE SuspendFailed
  BY <1>11, <1>0, NoOpFields, TodoParts, SuspendFailedEffect DEF ForgetTodo, BusyLabels,
     ThreadLabels, SuspendLabels, OpNow, AtNow, Ends, Ask, callVars, serviceVars, IsOwned, Threads,
     ThreadNow, ThreadGone, StepOK
<1>12. CASE ResumeSuspending
  BY <1>12, <1>0, NoOpFields, TodoParts, ResumeSuspendingEffect DEF ForgetTodo, BusyLabels,
     ThreadLabels, SuspendLabels, OpNow, AtNow, Ends, Ask, callVars, serviceVars, IsOwned, Threads,
     ThreadNow, ThreadGone, StepOK
<1>13. CASE RollbackThreads
  BY <1>13, <1>0, NoOpFields, TodoParts, RollbackEffect DEF ForgetTodo, BusyLabels,
     ThreadLabels, SuspendLabels, OpNow, AtNow, Ends, Ask, callVars, serviceVars, IsOwned, Threads,
     ThreadNow, ThreadGone, StepOK
<1>14. CASE ResumeOwned
  BY <1>14, <1>0, NoOpFields, TodoParts, ResumeOwnedEffect DEF ForgetTodo, BusyLabels,
     ThreadLabels, SuspendLabels, OpNow, AtNow, Ends, Ask, callVars, serviceVars, IsOwned, Threads,
     ThreadNow, ThreadGone, StepOK
<1>15. CASE ThawThreads
  BY <1>15, <1>0, NoOpFields, TodoParts, ThawEffect DEF ForgetTodo, BusyLabels, ThreadLabels,
     SuspendLabels, OpNow, AtNow, Ends, Ask, callVars, serviceVars, IsOwned, Threads, ThreadNow,
     ThreadGone, StepOK
<1>16. CASE ForgetAll
  BY <1>16, <1>0, NoOpFields, TodoParts, ForgetAllEffect DEF ForgetTodo, BusyLabels,
     ThreadLabels, SuspendLabels, OpNow, AtNow, Ends, Ask, callVars, serviceVars, IsOwned, Threads,
     ThreadNow, ThreadGone, StepOK
<1>17. CASE Prepare
  BY <1>17, <1>0, NoOpFields, TodoParts, PrepareEffect DEF ForgetTodo, BusyLabels, ThreadLabels,
     SuspendLabels, OpNow, AtNow, Ends, Ask, callVars, serviceVars, IsOwned, Threads, ThreadNow,
     ThreadGone, StepOK
<1>18. CASE FreezeKnown
  BY <1>18, <1>0, NoOpFields, TodoParts, EntryEffect DEF ForgetTodo, BusyLabels, ThreadLabels,
     SuspendLabels, Starts, OpNow, AtNow, Ends, Ask, callVars, serviceVars, IsOwned, Threads,
     ThreadNow, ThreadGone, StepOK
<1>19. CASE AdoptNew
  BY <1>19, <1>0, NoOpFields, TodoParts, EntryEffect DEF ForgetTodo, BusyLabels, ThreadLabels,
     SuspendLabels, Starts, OpNow, AtNow, Ends, Ask, callVars, serviceVars, IsOwned, Threads,
     ThreadNow, ThreadGone, StepOK
<1>20. CASE ThawTarget
  BY <1>20, <1>0, NoOpFields, TodoParts, EntryEffect DEF ForgetTodo, BusyLabels, ThreadLabels,
     SuspendLabels, Starts, OpNow, AtNow, Ends, Ask, callVars, serviceVars, IsOwned, Threads,
     ThreadNow, ThreadGone, StepOK
<1>21. CASE ReleaseTarget
  BY <1>21, <1>0, NoOpFields, TodoParts, EntryEffect DEF ForgetTodo, BusyLabels, ThreadLabels,
     SuspendLabels, Starts, OpNow, AtNow, Ends, Ask, callVars, serviceVars, IsOwned, Threads,
     ThreadNow, ThreadGone, StepOK
<1>22. CASE \E t \in Keys : ThreadStarts(t)
  BY <1>22, <1>0, NoOpFields, TodoParts DEF ForgetTodo, BusyLabels, ThreadLabels, SuspendLabels,
     ThreadStarts, callVars, serviceVars, Dead, IsOwned, Threads
<1>23. CASE \E t \in Keys : ThreadExits(t)
  BY <1>23, <1>0, NoOpFields, TodoParts DEF ForgetTodo, BusyLabels, ThreadLabels, SuspendLabels,
     ThreadExits, callVars, serviceVars, Dead, IsOwned, Threads
<1>24. CASE \E t \in Keys : OtherSuspends(t)
  BY <1>24, <1>0, NoOpFields, TodoParts DEF ForgetTodo, BusyLabels, ThreadLabels, SuspendLabels,
     OtherSuspends, callVars, serviceVars, Dead, IsOwned, Threads
<1>25. CASE \E t \in Keys : OtherResumes(t)
  BY <1>25, <1>0, NoOpFields, TodoParts DEF ForgetTodo, BusyLabels, ThreadLabels, SuspendLabels,
     OtherResumes, callVars, serviceVars, Dead, IsOwned, Threads
<1>26. CASE Crash
  BY <1>26, <1>0, NoOpFields, TodoParts DEF ForgetTodo, BusyLabels, ThreadLabels, SuspendLabels,
     Crash, callVars, serviceVars, Dead, IsOwned, Threads, Abandon, Latch
<1>27. CASE Replay
  BY <1>27, <1>0, NoOpFields, TodoParts, ReplayEffect DEF ForgetTodo, BusyLabels, ThreadLabels,
     SuspendLabels, callVars, serviceVars, Dead, IsOwned, Threads
<1>28. CASE OtherLatches
  BY <1>28, <1>0, NoOpFields, TodoParts DEF ForgetTodo, BusyLabels, ThreadLabels, SuspendLabels,
     OtherLatches, callVars, serviceVars, Dead, IsOwned, Threads, Latch
<1>29. CASE ServiceStep
  BY <1>29, <1>0, NoOpFields, TodoParts DEF ForgetTodo, BusyLabels, ThreadLabels, SuspendLabels,
     ServiceStep, callVars, serviceVars, Dead, IsOwned, Threads, ServiceActs, Land, LateLand,
     LateLoss, Called
<1>30. CASE UNCHANGED threadVars
  BY <1>30, <1>0, NoOpFields, TodoParts DEF ForgetTodo, BusyLabels, ThreadLabels, SuspendLabels,
     threadVars, serviceVars, callVars, worldVars, IsOwned, Threads
<1> QED  BY <1>1, <1>2, <1>3, <1>4, <1>5, <1>6, <1>7, <1>8, <1>9, <1>10, <1>11, <1>12, <1>13, <1>14,
   <1>15, <1>16, <1>17, <1>18, <1>19, <1>20, <1>21, <1>22, <1>23, <1>24, <1>25, <1>26, <1>27,
   <1>28, <1>29, <1>30, EachStep

\* While an inventory is captured.
LEMMA CaptureTodoStep ==
    IInv /\ [Next]_threadVars => (pc = "capture" => op.changed = {})'
<1> SUFFICES ASSUME IInv, [Next]_threadVars PROVE (pc = "capture" => op.changed = {})'
  OBVIOUS
<1>0. /\ ServiceTypeOK /\ ControlTypes /\ ManagedTypes /\ WorldTypes /\ BoundTypes
      /\ ServiceInv /\ StepOK /\ StageOK /\ LifeOK /\ OwnedOK /\ TodoOK /\ ThreadOK
      /\ ReleaseOK /\ CallOK /\ LedgerOK /\ RecordOK
  BY Parts
<1>1. CASE ForgetThread
  BY <1>1, <1>0, NoOpFields, TodoParts, ForgetThreadEffect DEF BusyLabels, ThreadLabels,
     SuspendLabels, OpNow, AtNow, Ends, Ask, callVars, serviceVars, StepOK
<1>2. CASE Prune
  BY <1>2, <1>0, NoOpFields, TodoParts, PruneEffect DEF BusyLabels, ThreadLabels, SuspendLabels,
     OpNow, AtNow, Ends, Ask, callVars, serviceVars, StepOK
<1>3. CASE Capture
  BY <1>3, <1>0, NoOpFields, TodoParts, CaptureEffect DEF BusyLabels, ThreadLabels,
     SuspendLabels, OpNow, AtNow, Ends, Ask, callVars, serviceVars, StepOK
<1>4. CASE NextThread
  BY <1>4, <1>0, NoOpFields, TodoParts, NextThreadEffect DEF BusyLabels, ThreadLabels,
     SuspendLabels, OpNow, AtNow, Ends, Ask, callVars, serviceVars, StepOK
<1>5. CASE BeginSuspension
  BY <1>5, <1>0, NoOpFields, TodoParts, BeginSuspensionEffect DEF BusyLabels, ThreadLabels,
     SuspendLabels, OpNow, AtNow, Ends, Ask, callVars, serviceVars, StepOK, Submit, Granted,
     Denied, Acknowledge, Abandon
<1>6. CASE SuspendOnce
  BY <1>6, <1>0, NoOpFields, TodoParts, SuspendOnceEffect DEF BusyLabels, ThreadLabels,
     SuspendLabels, OpNow, AtNow, Ends, Ask, callVars, serviceVars, StepOK
<1>7. CASE CancelSuspension
  BY <1>7, <1>0, NoOpFields, TodoParts, CancelSuspensionEffect DEF BusyLabels, ThreadLabels,
     SuspendLabels, OpNow, AtNow, Ends, Ask, callVars, serviceVars, StepOK
<1>8. CASE CommitSuspension
  BY <1>8, <1>0, NoOpFields, TodoParts, CommitSuspensionEffect DEF BusyLabels, ThreadLabels,
     SuspendLabels, OpNow, AtNow, Ends, Ask, callVars, serviceVars, StepOK
<1>9. CASE Check
  BY <1>9, <1>0, NoOpFields, TodoParts, CheckEffect DEF BusyLabels, ThreadLabels, SuspendLabels,
     OpNow, AtNow, Ends, Ask, callVars, serviceVars, StepOK
<1>10. CASE Compensate
  BY <1>10, <1>0, NoOpFields, TodoParts, CompensateEffect DEF BusyLabels, ThreadLabels,
     SuspendLabels, OpNow, AtNow, Ends, Ask, callVars, serviceVars, StepOK
<1>11. CASE SuspendFailed
  BY <1>11, <1>0, NoOpFields, TodoParts, SuspendFailedEffect DEF BusyLabels, ThreadLabels,
     SuspendLabels, OpNow, AtNow, Ends, Ask, callVars, serviceVars, StepOK
<1>12. CASE ResumeSuspending
  BY <1>12, <1>0, NoOpFields, TodoParts, ResumeSuspendingEffect DEF BusyLabels, ThreadLabels,
     SuspendLabels, OpNow, AtNow, Ends, Ask, callVars, serviceVars, StepOK
<1>13. CASE RollbackThreads
  BY <1>13, <1>0, NoOpFields, TodoParts, RollbackEffect DEF BusyLabels, ThreadLabels,
     SuspendLabels, OpNow, AtNow, Ends, Ask, callVars, serviceVars, StepOK
<1>14. CASE ResumeOwned
  BY <1>14, <1>0, NoOpFields, TodoParts, ResumeOwnedEffect DEF BusyLabels, ThreadLabels,
     SuspendLabels, OpNow, AtNow, Ends, Ask, callVars, serviceVars, StepOK
<1>15. CASE ThawThreads
  BY <1>15, <1>0, NoOpFields, TodoParts, ThawEffect DEF BusyLabels, ThreadLabels, SuspendLabels,
     OpNow, AtNow, Ends, Ask, callVars, serviceVars, StepOK
<1>16. CASE ForgetAll
  BY <1>16, <1>0, NoOpFields, TodoParts, ForgetAllEffect DEF BusyLabels, ThreadLabels,
     SuspendLabels, OpNow, AtNow, Ends, Ask, callVars, serviceVars, StepOK
<1>17. CASE Prepare
  BY <1>17, <1>0, NoOpFields, TodoParts, PrepareEffect DEF BusyLabels, ThreadLabels,
     SuspendLabels, OpNow, AtNow, Ends, Ask, callVars, serviceVars, StepOK
<1>18. CASE FreezeKnown
  BY <1>18, <1>0, NoOpFields, TodoParts, EntryEffect DEF BusyLabels, ThreadLabels,
     SuspendLabels, Starts, OpNow, AtNow, Ends, Ask, callVars, serviceVars, StepOK
<1>19. CASE AdoptNew
  BY <1>19, <1>0, NoOpFields, TodoParts, EntryEffect DEF BusyLabels, ThreadLabels,
     SuspendLabels, Starts, OpNow, AtNow, Ends, Ask, callVars, serviceVars, StepOK
<1>20. CASE ThawTarget
  BY <1>20, <1>0, NoOpFields, TodoParts, EntryEffect DEF BusyLabels, ThreadLabels,
     SuspendLabels, Starts, OpNow, AtNow, Ends, Ask, callVars, serviceVars, StepOK
<1>21. CASE ReleaseTarget
  BY <1>21, <1>0, NoOpFields, TodoParts, EntryEffect DEF BusyLabels, ThreadLabels,
     SuspendLabels, Starts, OpNow, AtNow, Ends, Ask, callVars, serviceVars, StepOK
<1>22. CASE \E t \in Keys : ThreadStarts(t)
  BY <1>22, <1>0, NoOpFields, TodoParts DEF BusyLabels, ThreadLabels, SuspendLabels,
     ThreadStarts, callVars, serviceVars, Dead
<1>23. CASE \E t \in Keys : ThreadExits(t)
  BY <1>23, <1>0, NoOpFields, TodoParts DEF BusyLabels, ThreadLabels, SuspendLabels,
     ThreadExits, callVars, serviceVars, Dead
<1>24. CASE \E t \in Keys : OtherSuspends(t)
  BY <1>24, <1>0, NoOpFields, TodoParts DEF BusyLabels, ThreadLabels, SuspendLabels,
     OtherSuspends, callVars, serviceVars, Dead
<1>25. CASE \E t \in Keys : OtherResumes(t)
  BY <1>25, <1>0, NoOpFields, TodoParts DEF BusyLabels, ThreadLabels, SuspendLabels,
     OtherResumes, callVars, serviceVars, Dead
<1>26. CASE Crash
  BY <1>26, <1>0, NoOpFields, TodoParts DEF BusyLabels, ThreadLabels, SuspendLabels, Crash,
     callVars, serviceVars, Dead, Abandon, Latch
<1>27. CASE Replay
  BY <1>27, <1>0, NoOpFields, TodoParts, ReplayEffect DEF BusyLabels, ThreadLabels,
     SuspendLabels, callVars, serviceVars, Dead
<1>28. CASE OtherLatches
  BY <1>28, <1>0, NoOpFields, TodoParts DEF BusyLabels, ThreadLabels, SuspendLabels,
     OtherLatches, callVars, serviceVars, Dead, Latch
<1>29. CASE ServiceStep
  BY <1>29, <1>0, NoOpFields, TodoParts DEF BusyLabels, ThreadLabels, SuspendLabels,
     ServiceStep, callVars, serviceVars, Dead, ServiceActs, Land, LateLand, LateLoss, Called
<1>30. CASE UNCHANGED threadVars
  BY <1>30, <1>0, NoOpFields, TodoParts DEF BusyLabels, ThreadLabels, SuspendLabels, threadVars,
     serviceVars, callVars, worldVars
<1> QED  BY <1>1, <1>2, <1>3, <1>4, <1>5, <1>6, <1>7, <1>8, <1>9, <1>10, <1>11, <1>12, <1>13, <1>14,
   <1>15, <1>16, <1>17, <1>18, <1>19, <1>20, <1>21, <1>22, <1>23, <1>24, <1>25, <1>26, <1>27,
   <1>28, <1>29, <1>30, EachStep

\* What a call has still to visit.
LEMMA TodoStep == IInv /\ [Next]_threadVars => TodoOK'
<1>1. TodoOK' <=> /\ PruneTodo' /\ SuspendTodo' /\ RollbackTodo' /\ ThawTodo' /\ ForgetTodo'
                  /\ (pc = "capture" => op.changed = {})'
  BY TodoParts, PTL
<1> QED
  BY <1>1, PruneTodoStep, SuspendTodoStep, RollbackTodoStep, ThawTodoStep, ForgetTodoStep,
     CaptureTodoStep

\* A call turns to a thread.
LEMMA ThreadTurn ==
    ASSUME NEW k \in Keys, at'.thread = k, at'.id = 0, managed'[k] # NoManaged,
           pc' \in {"begin", "suspendOnce", "resume", "forget"},
           pc' = "begin" => ~managed'[k].armed /\ ~managed'[k].owned,
           pc' = "suspendOnce" => managed'[k].armed /\ ~managed'[k].owned,
           pc' = "resume" => managed'[k].owned,
           pc' = "forget" => /\ ~managed'[k].owned
                             /\ at'.then = "forgetAll" => managed'[k].armed
    PROVE  ThreadOK'
BY IdsAssumption DEF ThreadOK, Threads, Armed, IsOwned, ThreadLabels, SuspendLabels

LEMMA ThreadVoid == pc' \notin ThreadLabels => ThreadOK'
BY DEF ThreadOK, ThreadLabels, SuspendLabels

\* What is known of the thread at hand.
LEMMA ThreadStep ==
    IInv /\ [Next]_threadVars => ThreadOK'
<1> SUFFICES ASSUME IInv, [Next]_threadVars PROVE ThreadOK'
  OBVIOUS
<1>0. /\ ServiceTypeOK /\ ControlTypes /\ ManagedTypes /\ WorldTypes /\ BoundTypes
      /\ ServiceInv /\ StepOK /\ StageOK /\ LifeOK /\ OwnedOK /\ TodoOK /\ ThreadOK
      /\ ReleaseOK /\ CallOK /\ LedgerOK /\ RecordOK
  BY Parts
<1>1. CASE ForgetThread
  BY <1>1, <1>0, NoOpFields, ForgetThreadEffect DEF ThreadOK, IsOwned, Armed, Threads,
     BusyLabels, ThreadLabels, SuspendLabels, OpNow, AtNow, Ends, Ask, callVars, serviceVars,
     ThreadNow, ThreadGone, StepOK
<1>2. CASE Prune
  <2>1. op.todo \subseteq Keys /\ op.changed \subseteq Keys
    BY <1>0, OpFields DEF ControlTypes
  <2>2. CASE \E t \in op.todo : AtNow(t, 0, FALSE, "prune") /\ ThreadNow(t, managed[t].armed, FALSE) /\ pc' = "forget"
    <3>1. PICK k \in op.todo : AtNow(k, 0, FALSE, "prune") /\ ThreadNow(k, managed[k].armed, FALSE) /\ pc' = "forget"
      BY <2>2
    <3>2. k \in Keys /\ managed'[k] # NoManaged /\ ~managed'[k].owned
      BY <1>2, <1>0, <2>1, <3>1, TodoParts, PruneEffect DEF PruneTodo, Threads, IsOwned,
         ThreadNow
    <3>3. at'.thread = k /\ at'.id = 0 /\ at'.then = "prune"
      BY <3>1 DEF AtNow
    <3> QED  BY <3>1, <3>2, <3>3, ThreadTurn
  <2>3. CASE pc' \notin ThreadLabels
    BY <2>3, ThreadVoid
  <2> QED
    BY <1>2, <1>0, PruneEffect, <2>2, <2>3 DEF Ends, ThreadLabels, SuspendLabels
<1>3. CASE Capture
  BY <1>3, <1>0, NoOpFields, CaptureEffect DEF ThreadOK, IsOwned, Armed, Threads, BusyLabels,
     ThreadLabels, SuspendLabels, OpNow, AtNow, Ends, Ask, callVars, serviceVars, ThreadNow,
     ThreadGone, StepOK
<1>4. CASE NextThread
  <2>1. op.todo \subseteq Keys /\ op.changed \subseteq Keys
    BY <1>0, OpFields DEF ControlTypes
  <2>2. CASE \E t \in op.todo : AtNow(t, 0, FALSE, "failed") /\ pc' = IF managed[t].armed THEN "suspendOnce" ELSE "begin"
    <3>1. PICK k \in op.todo : AtNow(k, 0, FALSE, "failed") /\ pc' = IF managed[k].armed THEN "suspendOnce" ELSE "begin"
      BY <2>2
    <3>2. k \in Keys /\ managed'[k] = managed[k] /\ managed[k] # NoManaged /\ ~managed[k].owned
      BY <1>4, <1>0, <2>1, <3>1, TodoParts, NextThreadEffect DEF SuspendTodo, Suspending,
         Threads, IsOwned, ThreadNow
    <3>3. at'.thread = k /\ at'.id = 0 /\ at'.then = "failed"
      BY <3>1 DEF AtNow
    <3> QED  BY <3>1, <3>2, <3>3, ThreadTurn
  <2>3. CASE pc' \notin ThreadLabels
    BY <2>3, ThreadVoid
  <2> QED
    BY <1>4, <1>0, NextThreadEffect, <2>2, <2>3 DEF Ends, ThreadLabels, SuspendLabels
<1>5. CASE BeginSuspension
  BY <1>5, <1>0, NoOpFields, BeginSuspensionEffect, AtFields DEF ThreadOK, IsOwned, Armed,
     Threads, BusyLabels, ThreadLabels, SuspendLabels, OpNow, AtNow, Ends, Ask, callVars,
     serviceVars, ThreadNow, ThreadGone, StepOK, Submit, Granted, Denied, Acknowledge, Abandon,
     ControlTypes, Called
<1>6. CASE SuspendOnce
  BY <1>6, <1>0, NoOpFields, SuspendOnceEffect DEF ThreadOK, IsOwned, Armed, Threads,
     BusyLabels, ThreadLabels, SuspendLabels, OpNow, AtNow, Ends, Ask, callVars, serviceVars,
     ThreadNow, ThreadGone, StepOK
<1>7. CASE CancelSuspension
  BY <1>7, <1>0, NoOpFields, CancelSuspensionEffect DEF ThreadOK, IsOwned, Armed, Threads,
     BusyLabels, ThreadLabels, SuspendLabels, OpNow, AtNow, Ends, Ask, callVars, serviceVars,
     ThreadNow, ThreadGone, StepOK
<1>8. CASE CommitSuspension
  BY <1>8, <1>0, NoOpFields, CommitSuspensionEffect DEF ThreadOK, IsOwned, Armed, Threads,
     BusyLabels, ThreadLabels, SuspendLabels, OpNow, AtNow, Ends, Ask, callVars, serviceVars,
     ThreadNow, ThreadGone, StepOK
<1>9. CASE Check
  BY <1>9, <1>0, NoOpFields, CheckEffect DEF ThreadOK, IsOwned, Armed, Threads, BusyLabels,
     ThreadLabels, SuspendLabels, OpNow, AtNow, Ends, Ask, callVars, serviceVars, ThreadNow,
     ThreadGone, StepOK
<1>10. CASE Compensate
  BY <1>10, <1>0, NoOpFields, CompensateEffect DEF ThreadOK, IsOwned, Armed, Threads,
     BusyLabels, ThreadLabels, SuspendLabels, OpNow, AtNow, Ends, Ask, callVars, serviceVars,
     ThreadNow, ThreadGone, StepOK
<1>11. CASE SuspendFailed
  BY <1>11, <1>0, NoOpFields, SuspendFailedEffect DEF ThreadOK, IsOwned, Armed, Threads,
     BusyLabels, ThreadLabels, SuspendLabels, OpNow, AtNow, Ends, Ask, callVars, serviceVars,
     ThreadNow, ThreadGone, StepOK
<1>12. CASE ResumeSuspending
  BY <1>12, <1>0, NoOpFields, ResumeSuspendingEffect DEF ThreadOK, IsOwned, Armed, Threads,
     BusyLabels, ThreadLabels, SuspendLabels, OpNow, AtNow, Ends, Ask, callVars, serviceVars,
     ThreadNow, ThreadGone, StepOK
<1>13. CASE RollbackThreads
  <2>1. op.todo \subseteq Keys /\ op.changed \subseteq Keys
    BY <1>0, OpFields DEF ControlTypes
  <2>2. CASE \E t \in op.changed : AtNow(t, 0, TRUE, "rollback") /\ pc' = "resume"
    <3>1. PICK k \in op.changed : AtNow(k, 0, TRUE, "rollback") /\ pc' = "resume"
      BY <2>2
    <3>2. k \in Keys /\ managed'[k] = managed[k] /\ managed[k] # NoManaged /\ managed[k].owned
      BY <1>13, <1>0, <2>1, <3>1, TodoParts, RollbackEffect DEF RollbackTodo, RollingBack,
         Threads, IsOwned, ThreadNow
    <3>3. at'.thread = k /\ at'.id = 0 /\ at'.then = "rollback"
      BY <3>1 DEF AtNow
    <3> QED  BY <3>1, <3>2, <3>3, ThreadTurn
  <2>3. CASE pc' \notin ThreadLabels
    BY <2>3, ThreadVoid
  <2> QED
    BY <1>13, <1>0, RollbackEffect, <2>2, <2>3 DEF Ends, ThreadLabels, SuspendLabels
<1>14. CASE ResumeOwned
  BY <1>14, <1>0, NoOpFields, ResumeOwnedEffect DEF ThreadOK, IsOwned, Armed, Threads,
     BusyLabels, ThreadLabels, SuspendLabels, OpNow, AtNow, Ends, Ask, callVars, serviceVars,
     ThreadNow, ThreadGone, StepOK
<1>15. CASE ThawThreads
  <2>1. op.todo \subseteq Keys /\ op.changed \subseteq Keys
    BY <1>0, OpFields DEF ControlTypes
  <2>2. CASE \E t \in op.todo : AtNow(t, 0, FALSE, "thaw") /\ pc' = "resume"
    <3>1. PICK k \in op.todo : AtNow(k, 0, FALSE, "thaw") /\ pc' = "resume"
      BY <2>2
    <3>2. k \in Keys /\ managed'[k] = managed[k] /\ managed[k] # NoManaged /\ managed[k].owned
      BY <1>15, <1>0, <2>1, <3>1, TodoParts, ThawEffect DEF ThawTodo, Thawing, Threads, IsOwned,
         ThreadNow
    <3>3. at'.thread = k /\ at'.id = 0 /\ at'.then = "thaw"
      BY <3>1 DEF AtNow
    <3> QED  BY <3>1, <3>2, <3>3, ThreadTurn
  <2>3. CASE pc' \notin ThreadLabels
    BY <2>3, ThreadVoid
  <2> QED
    BY <1>15, <1>0, ThawEffect, <2>2, <2>3 DEF Ends, ThreadLabels, SuspendLabels
<1>16. CASE ForgetAll
  <2>1. op.todo \subseteq Keys /\ op.changed \subseteq Keys
    BY <1>0, OpFields DEF ControlTypes
  <2>2. CASE \E t \in op.todo : AtNow(t, 0, FALSE, "forgetAll") /\ pc' = "forget" /\ ToForget(t) /\ UNCHANGED managed
    <3>1. PICK k \in op.todo : AtNow(k, 0, FALSE, "forgetAll") /\ pc' = "forget" /\ ToForget(k) /\ UNCHANGED managed
      BY <2>2
    <3>2. k \in Keys /\ managed'[k] = managed[k] /\ managed[k] # NoManaged /\ managed[k].armed /\ ~managed[k].owned
      BY <1>16, <1>0, <2>1, <3>1, TodoParts, ForgetAllEffect DEF ForgetTodo, ToForget, Threads,
         IsOwned, ThreadNow
    <3>3. at'.thread = k /\ at'.id = 0 /\ at'.then = "forgetAll"
      BY <3>1 DEF AtNow
    <3> QED  BY <3>1, <3>2, <3>3, ThreadTurn
  <2>3. CASE pc' \notin ThreadLabels
    BY <2>3, ThreadVoid
  <2> QED
    BY <1>16, <1>0, ForgetAllEffect, <2>2, <2>3 DEF Ends, ThreadLabels, SuspendLabels
<1>17. CASE Prepare
  BY <1>17, <1>0, NoOpFields, PrepareEffect DEF ThreadOK, IsOwned, Armed, Threads, BusyLabels,
     ThreadLabels, SuspendLabels, OpNow, AtNow, Ends, Ask, callVars, serviceVars, ThreadNow,
     ThreadGone, StepOK
<1>18. CASE FreezeKnown
  BY <1>18, <1>0, NoOpFields, EntryEffect DEF ThreadOK, IsOwned, Armed, Threads, BusyLabels,
     ThreadLabels, SuspendLabels, Starts, OpNow, AtNow, Ends, Ask, callVars, serviceVars,
     ThreadNow, ThreadGone, StepOK
<1>19. CASE AdoptNew
  BY <1>19, <1>0, NoOpFields, EntryEffect DEF ThreadOK, IsOwned, Armed, Threads, BusyLabels,
     ThreadLabels, SuspendLabels, Starts, OpNow, AtNow, Ends, Ask, callVars, serviceVars,
     ThreadNow, ThreadGone, StepOK
<1>20. CASE ThawTarget
  BY <1>20, <1>0, NoOpFields, EntryEffect DEF ThreadOK, IsOwned, Armed, Threads, BusyLabels,
     ThreadLabels, SuspendLabels, Starts, OpNow, AtNow, Ends, Ask, callVars, serviceVars,
     ThreadNow, ThreadGone, StepOK
<1>21. CASE ReleaseTarget
  BY <1>21, <1>0, NoOpFields, EntryEffect DEF ThreadOK, IsOwned, Armed, Threads, BusyLabels,
     ThreadLabels, SuspendLabels, Starts, OpNow, AtNow, Ends, Ask, callVars, serviceVars,
     ThreadNow, ThreadGone, StepOK
<1>22. CASE \E t \in Keys : ThreadStarts(t)
  BY <1>22, <1>0, NoOpFields DEF ThreadOK, IsOwned, Armed, Threads, BusyLabels, ThreadLabels,
     SuspendLabels, ThreadStarts, callVars, serviceVars, Dead
<1>23. CASE \E t \in Keys : ThreadExits(t)
  BY <1>23, <1>0, NoOpFields DEF ThreadOK, IsOwned, Armed, Threads, BusyLabels, ThreadLabels,
     SuspendLabels, ThreadExits, callVars, serviceVars, Dead
<1>24. CASE \E t \in Keys : OtherSuspends(t)
  BY <1>24, <1>0, NoOpFields DEF ThreadOK, IsOwned, Armed, Threads, BusyLabels, ThreadLabels,
     SuspendLabels, OtherSuspends, callVars, serviceVars, Dead
<1>25. CASE \E t \in Keys : OtherResumes(t)
  BY <1>25, <1>0, NoOpFields DEF ThreadOK, IsOwned, Armed, Threads, BusyLabels, ThreadLabels,
     SuspendLabels, OtherResumes, callVars, serviceVars, Dead
<1>26. CASE Crash
  BY <1>26, <1>0, NoOpFields DEF ThreadOK, IsOwned, Armed, Threads, BusyLabels, ThreadLabels,
     SuspendLabels, Crash, callVars, serviceVars, Dead, Abandon, Latch
<1>27. CASE Replay
  BY <1>27, <1>0, NoOpFields, ReplayEffect DEF ThreadOK, IsOwned, Armed, Threads, BusyLabels,
     ThreadLabels, SuspendLabels, callVars, serviceVars, Dead
<1>28. CASE OtherLatches
  BY <1>28, <1>0, NoOpFields DEF ThreadOK, IsOwned, Armed, Threads, BusyLabels, ThreadLabels,
     SuspendLabels, OtherLatches, callVars, serviceVars, Dead, Latch
<1>29. CASE ServiceStep
  BY <1>29, <1>0, NoOpFields DEF ThreadOK, IsOwned, Armed, Threads, BusyLabels, ThreadLabels,
     SuspendLabels, ServiceStep, callVars, serviceVars, Dead, ServiceActs, Land, LateLand,
     LateLoss, Called
<1>30. CASE UNCHANGED threadVars
  BY <1>30, <1>0, NoOpFields DEF ThreadOK, IsOwned, Armed, Threads, BusyLabels, ThreadLabels,
     SuspendLabels, threadVars, serviceVars, callVars, worldVars
<1> QED  BY <1>1, <1>2, <1>3, <1>4, <1>5, <1>6, <1>7, <1>8, <1>9, <1>10, <1>11, <1>12, <1>13, <1>14,
   <1>15, <1>16, <1>17, <1>18, <1>19, <1>20, <1>21, <1>22, <1>23, <1>24, <1>25, <1>26, <1>27,
   <1>28, <1>29, <1>30, EachStep

\* Nothing is said of a release once a part of it has failed, nor of another call.
LEMMA ReleaseVoid == ~(op'.kind = "release" /\ op'.ok) => ReleaseOK'
BY DEF ReleaseOK

\* The same threads are still to be visited, or done with.
LEMMA ReleaseFrame ==
    ASSUME ReleaseOK, op.kind = "release", op.ok,
           \A t \in Keys : (IsOwned(t)' => IsOwned(t)) /\ (Armed(t)' => Armed(t)),
           \A t \in Keys : IsOwned(t)' =>
              Thawing' /\ (t \in op'.todo \/ (pc' = "resume" /\ t = at'.thread)),
           pc' = "forgetAll" \/ (pc' = "forget" /\ at'.then = "forgetAll") =>
              \A t \in Keys : Armed(t)' => t \in op'.todo \/ (pc' = "forget" /\ t = at'.thread)
    PROVE  ReleaseOK'
BY DEF ReleaseOK

\* A release that has not failed so far has not forgotten a thread.
LEMMA ReleaseStep ==
    IInv /\ [Next]_threadVars => ReleaseOK'
<1> SUFFICES ASSUME IInv, [Next]_threadVars PROVE ReleaseOK'
  OBVIOUS
<1>0. /\ ServiceTypeOK /\ ControlTypes /\ ManagedTypes /\ WorldTypes /\ BoundTypes
      /\ ServiceInv /\ StepOK /\ StageOK /\ LifeOK /\ OwnedOK /\ TodoOK /\ ThreadOK
      /\ ReleaseOK /\ CallOK /\ LedgerOK /\ RecordOK
  BY Parts
<1>1. CASE ForgetThread
  <2> SUFFICES ASSUME op'.kind = "release", op'.ok PROVE ReleaseOK'
    BY ReleaseVoid
  <2>1. /\ pc = "forget" /\ op.kind = "release" /\ op.ok /\ at.then \in {"thaw", "forgetAll"}
        /\ UNCHANGED <<op, at>> /\ at.thread \in Keys
        /\ UNCHANGED <<pc, managed>> \/ (ThreadNow(at.thread, FALSE, managed[at.thread].owned) /\ pc' = at.then)
    BY <1>1, <1>0, NoOpFields, AtFields, ForgetThreadEffect
       DEF StepOK, Ends, OpNow, Ask, callVars, ControlTypes, Places
  <2>2. \A t \in Keys : (IsOwned(t)' => IsOwned(t)) /\ (Armed(t)' => Armed(t))
    BY <1>0, <2>1 DEF IsOwned, Armed, ThreadNow, ThreadOK, Threads, ThreadLabels, SuspendLabels
  <2>3. pc' = "forgetAll" => ~Armed(at.thread)'
    BY <2>1 DEF Armed, ThreadNow
  <2>4. \A t \in Keys : IsOwned(t) => Thawing /\ t \in op.todo
    BY <1>0, <2>1 DEF ReleaseOK
  <2>5. at.then = "forgetAll" => \A t \in Keys : Armed(t) => t \in op.todo \/ t = at.thread
    BY <1>0, <2>1 DEF ReleaseOK
  <2>6. \A t \in Keys : IsOwned(t)' => Thawing' /\ t \in op'.todo
    BY <2>1, <2>2, <2>4 DEF Thawing
  <2>7. pc' = "forgetAll" \/ (pc' = "forget" /\ at'.then = "forgetAll") =>
           \A t \in Keys : Armed(t)' => t \in op'.todo \/ (pc' = "forget" /\ t = at'.thread)
    <3> SUFFICES ASSUME at.then = "forgetAll", NEW t \in Keys, Armed(t)', t \notin op.todo
                 PROVE  pc' = "forget" /\ t = at.thread
      BY <2>1
    <3>1. t = at.thread
      BY <2>2, <2>5
    <3>2. Armed(at.thread)'
      BY <3>1, <2>1 DEF Armed
    <3> QED  BY <2>1, <2>3, <3>1, <3>2
  <2> QED  BY <1>0, <2>1, <2>2, <2>6, <2>7, ReleaseFrame
<1>2. CASE Prune
  BY <1>2, <1>0, NoOpFields, TodoParts, PruneEffect DEF ReleaseOK, Thawing, IsOwned, Armed,
     BusyLabels, ThreadLabels, SuspendLabels, OpNow, AtNow, Ends, Ask, callVars, serviceVars,
     ThreadNow, ThreadGone, StepOK
<1>3. CASE Capture
  BY <1>3, <1>0, NoOpFields, TodoParts, CaptureEffect DEF ReleaseOK, Thawing, IsOwned, Armed,
     BusyLabels, ThreadLabels, SuspendLabels, OpNow, AtNow, Ends, Ask, callVars, serviceVars,
     ThreadNow, ThreadGone, StepOK
<1>4. CASE NextThread
  BY <1>4, <1>0, NoOpFields, TodoParts, NextThreadEffect DEF ReleaseOK, Thawing, IsOwned, Armed,
     BusyLabels, ThreadLabels, SuspendLabels, OpNow, AtNow, Ends, Ask, callVars, serviceVars,
     ThreadNow, ThreadGone, StepOK
<1>5. CASE BeginSuspension
  BY <1>5, <1>0, NoOpFields, TodoParts, BeginSuspensionEffect DEF ReleaseOK, Thawing, IsOwned,
     Armed, BusyLabels, ThreadLabels, SuspendLabels, OpNow, AtNow, Ends, Ask, callVars,
     serviceVars, ThreadNow, ThreadGone, StepOK, Submit, Granted, Denied, Acknowledge, Abandon
<1>6. CASE SuspendOnce
  BY <1>6, <1>0, NoOpFields, TodoParts, SuspendOnceEffect DEF ReleaseOK, Thawing, IsOwned,
     Armed, BusyLabels, ThreadLabels, SuspendLabels, OpNow, AtNow, Ends, Ask, callVars,
     serviceVars, ThreadNow, ThreadGone, StepOK
<1>7. CASE CancelSuspension
  BY <1>7, <1>0, NoOpFields, TodoParts, CancelSuspensionEffect DEF ReleaseOK, Thawing, IsOwned,
     Armed, BusyLabels, ThreadLabels, SuspendLabels, OpNow, AtNow, Ends, Ask, callVars,
     serviceVars, ThreadNow, ThreadGone, StepOK
<1>8. CASE CommitSuspension
  BY <1>8, <1>0, NoOpFields, TodoParts, CommitSuspensionEffect DEF ReleaseOK, Thawing, IsOwned,
     Armed, BusyLabels, ThreadLabels, SuspendLabels, OpNow, AtNow, Ends, Ask, callVars,
     serviceVars, ThreadNow, ThreadGone, StepOK
<1>9. CASE Check
  BY <1>9, <1>0, NoOpFields, TodoParts, CheckEffect DEF ReleaseOK, Thawing, IsOwned, Armed,
     BusyLabels, ThreadLabels, SuspendLabels, OpNow, AtNow, Ends, Ask, callVars, serviceVars,
     ThreadNow, ThreadGone, StepOK
<1>10. CASE Compensate
  BY <1>10, <1>0, NoOpFields, TodoParts, CompensateEffect DEF ReleaseOK, Thawing, IsOwned,
     Armed, BusyLabels, ThreadLabels, SuspendLabels, OpNow, AtNow, Ends, Ask, callVars,
     serviceVars, ThreadNow, ThreadGone, StepOK
<1>11. CASE SuspendFailed
  BY <1>11, <1>0, NoOpFields, TodoParts, SuspendFailedEffect DEF ReleaseOK, Thawing, IsOwned,
     Armed, BusyLabels, ThreadLabels, SuspendLabels, OpNow, AtNow, Ends, Ask, callVars,
     serviceVars, ThreadNow, ThreadGone, StepOK
<1>12. CASE ResumeSuspending
  BY <1>12, <1>0, NoOpFields, TodoParts, ResumeSuspendingEffect DEF ReleaseOK, Thawing, IsOwned,
     Armed, BusyLabels, ThreadLabels, SuspendLabels, OpNow, AtNow, Ends, Ask, callVars,
     serviceVars, ThreadNow, ThreadGone, StepOK
<1>13. CASE RollbackThreads
  BY <1>13, <1>0, NoOpFields, TodoParts, RollbackEffect DEF ReleaseOK, Thawing, IsOwned, Armed,
     BusyLabels, ThreadLabels, SuspendLabels, OpNow, AtNow, Ends, Ask, callVars, serviceVars,
     ThreadNow, ThreadGone, StepOK
<1>14. CASE ResumeOwned
  BY <1>14, <1>0, NoOpFields, TodoParts, ResumeOwnedEffect DEF ReleaseOK, Thawing, IsOwned,
     Armed, BusyLabels, ThreadLabels, SuspendLabels, OpNow, AtNow, Ends, Ask, callVars,
     serviceVars, ThreadNow, ThreadGone, StepOK
<1>15. CASE ThawThreads
  <2> SUFFICES ASSUME op'.kind = "release", op'.ok PROVE ReleaseOK'
    BY ReleaseVoid
  <2>1. pc = "thaw" /\ UNCHANGED managed /\ op.todo \subseteq Keys
    BY <1>15, <1>0, ThawEffect, OpFields DEF ControlTypes
  <2>2. \A t \in Keys : (IsOwned(t)' <=> IsOwned(t)) /\ (Armed(t)' <=> Armed(t))
    BY <2>1 DEF IsOwned, Armed
  <2>3. ASSUME op.kind = "release", op.ok PROVE \A t \in Keys : IsOwned(t) => t \in op.todo
    BY <1>0, <2>1, <2>3 DEF ReleaseOK
  <2>4. ASSUME NEW t \in op.todo, OpNow(op.kind, op.todo \ {t}, op.changed, op.ok),
               AtNow(t, 0, FALSE, "thaw"), pc' = "resume"
        PROVE  ReleaseOK'
    <3>1. /\ op.kind = "release" /\ op.ok /\ op'.todo = op.todo \ {t}
          /\ at'.thread = t /\ at'.then = "thaw"
      BY <2>4 DEF OpNow, AtNow
    <3>2. Thawing'
      BY <2>4, <3>1 DEF Thawing
    <3> QED  BY <1>0, <2>2, <2>3, <2>4, <3>1, <3>2, ReleaseFrame
  <2>5. CASE /\ op.todo = {} /\ pc' = "forgetAll" /\ OpNow(op.kind, Threads, op.changed, op.ok)
             /\ UNCHANGED at
    <3>1. op.kind = "release" /\ op.ok /\ op'.todo = Threads
      BY <2>5 DEF OpNow
    <3>2. \A t \in Keys : ~IsOwned(t) /\ (Armed(t) => t \in Threads)
      BY <2>3, <2>5, <3>1 DEF Armed, Threads
    <3> QED  BY <1>0, <2>2, <2>5, <3>1, <3>2, ReleaseFrame
  <2> QED  BY <1>15, <1>0, <2>4, <2>5, ThawEffect, NoOpFields DEF Ends
<1>16. CASE ForgetAll
  <2> SUFFICES ASSUME op'.kind = "release", op'.ok PROVE ReleaseOK'
    BY ReleaseVoid
  <2>1. pc = "forgetAll" /\ op.todo \subseteq Keys
    BY <1>16, <1>0, ForgetAllEffect, OpFields DEF ControlTypes
  <2>2. ASSUME NEW k \in op.todo, OpNow(op.kind, op.todo \ {k}, op.changed, op.ok), UNCHANGED managed,
               \/ ToForget(k) /\ AtNow(k, 0, FALSE, "forgetAll") /\ pc' = "forget"
               \/ ~ToForget(k) /\ UNCHANGED <<pc, at>>
        PROVE  ReleaseOK'
    <3>1. op.kind = "release" /\ op.ok /\ op'.todo = op.todo \ {k}
      BY <2>2 DEF OpNow
    <3>2. \A t \in Keys : ~IsOwned(t) /\ (Armed(t) => t \in op.todo)
      BY <1>0, <2>1, <3>1 DEF ReleaseOK, Thawing
    <3>3. \A t \in Keys : (IsOwned(t)' <=> IsOwned(t)) /\ (Armed(t)' <=> Armed(t))
      BY <2>2 DEF IsOwned, Armed
    <3>4. CASE pc' = "forget" /\ AtNow(k, 0, FALSE, "forgetAll")
      <4>1. at'.thread = k
        BY <3>4 DEF AtNow
      <4> QED  BY <1>0, <3>1, <3>2, <3>3, <3>4, <4>1, ReleaseFrame
    <3>5. CASE ~ToForget(k) /\ UNCHANGED <<pc, at>>
      <4>1. ~Armed(k)
        BY <2>1, <3>2, <3>5 DEF ToForget, IsOwned, Armed
      <4> QED  BY <1>0, <2>1, <3>1, <3>2, <3>3, <3>5, <4>1, ReleaseFrame
    <3> QED  BY <2>2, <3>4, <3>5
  <2> QED  BY <1>16, <1>0, <2>2, ForgetAllEffect, NoOpFields DEF Ends
<1>17. CASE Prepare
  BY <1>17, <1>0, NoOpFields, TodoParts, PrepareEffect DEF ReleaseOK, Thawing, IsOwned, Armed,
     BusyLabels, ThreadLabels, SuspendLabels, OpNow, AtNow, Ends, Ask, callVars, serviceVars,
     ThreadNow, ThreadGone, StepOK
<1>18. CASE FreezeKnown
  BY <1>18, <1>0, NoOpFields, TodoParts, EntryEffect DEF ReleaseOK, Thawing, IsOwned, Armed,
     BusyLabels, ThreadLabels, SuspendLabels, Starts, OpNow, AtNow, Ends, Ask, callVars,
     serviceVars, ThreadNow, ThreadGone, StepOK
<1>19. CASE AdoptNew
  BY <1>19, <1>0, NoOpFields, TodoParts, EntryEffect DEF ReleaseOK, Thawing, IsOwned, Armed,
     BusyLabels, ThreadLabels, SuspendLabels, Starts, OpNow, AtNow, Ends, Ask, callVars,
     serviceVars, ThreadNow, ThreadGone, StepOK
<1>20. CASE ThawTarget
  BY <1>20, <1>0, NoOpFields, TodoParts, EntryEffect DEF ReleaseOK, Thawing, IsOwned, Armed,
     BusyLabels, ThreadLabels, SuspendLabels, Starts, OpNow, AtNow, Ends, Ask, callVars,
     serviceVars, ThreadNow, ThreadGone, StepOK
<1>21. CASE ReleaseTarget
  <2>1. /\ op'.kind = "release" /\ op'.todo = Owned /\ pc' = "thaw" /\ UNCHANGED managed
    BY <1>21, EntryEffect DEF Starts, OpNow
  <2> QED  BY <2>1 DEF ReleaseOK, Thawing, Owned, Threads, IsOwned
<1>22. CASE \E t \in Keys : ThreadStarts(t)
  BY <1>22, <1>0, NoOpFields, TodoParts DEF ReleaseOK, Thawing, IsOwned, Armed, BusyLabels,
     ThreadLabels, SuspendLabels, ThreadStarts, callVars, serviceVars, Dead
<1>23. CASE \E t \in Keys : ThreadExits(t)
  BY <1>23, <1>0, NoOpFields, TodoParts DEF ReleaseOK, Thawing, IsOwned, Armed, BusyLabels,
     ThreadLabels, SuspendLabels, ThreadExits, callVars, serviceVars, Dead
<1>24. CASE \E t \in Keys : OtherSuspends(t)
  BY <1>24, <1>0, NoOpFields, TodoParts DEF ReleaseOK, Thawing, IsOwned, Armed, BusyLabels,
     ThreadLabels, SuspendLabels, OtherSuspends, callVars, serviceVars, Dead
<1>25. CASE \E t \in Keys : OtherResumes(t)
  BY <1>25, <1>0, NoOpFields, TodoParts DEF ReleaseOK, Thawing, IsOwned, Armed, BusyLabels,
     ThreadLabels, SuspendLabels, OtherResumes, callVars, serviceVars, Dead
<1>26. CASE Crash
  BY <1>26, <1>0, NoOpFields, TodoParts DEF ReleaseOK, Thawing, IsOwned, Armed, BusyLabels,
     ThreadLabels, SuspendLabels, Crash, callVars, serviceVars, Dead, Abandon, Latch
<1>27. CASE Replay
  BY <1>27, <1>0, NoOpFields, TodoParts, ReplayEffect DEF ReleaseOK, Thawing, IsOwned, Armed,
     BusyLabels, ThreadLabels, SuspendLabels, callVars, serviceVars, Dead
<1>28. CASE OtherLatches
  BY <1>28, <1>0, NoOpFields, TodoParts DEF ReleaseOK, Thawing, IsOwned, Armed, BusyLabels,
     ThreadLabels, SuspendLabels, OtherLatches, callVars, serviceVars, Dead, Latch
<1>29. CASE ServiceStep
  BY <1>29, <1>0, NoOpFields, TodoParts DEF ReleaseOK, Thawing, IsOwned, Armed, BusyLabels,
     ThreadLabels, SuspendLabels, ServiceStep, callVars, serviceVars, Dead, ServiceActs, Land,
     LateLand, LateLoss, Called
<1>30. CASE UNCHANGED threadVars
  BY <1>30, <1>0, NoOpFields, TodoParts DEF ReleaseOK, Thawing, IsOwned, Armed, BusyLabels,
     ThreadLabels, SuspendLabels, threadVars, serviceVars, callVars, worldVars
<1> QED  BY <1>1, <1>2, <1>3, <1>4, <1>5, <1>6, <1>7, <1>8, <1>9, <1>10, <1>11, <1>12, <1>13, <1>14,
   <1>15, <1>16, <1>17, <1>18, <1>19, <1>20, <1>21, <1>22, <1>23, <1>24, <1>25, <1>26, <1>27,
   <1>28, <1>29, <1>30, EachStep

CallLabels == {"begin", "commit", "cancel", "forget"}

\* A step after which no command is under way.
LEMMA CallNone ==
    ASSUME call' = NoCall, ~latched' \/ ~(pc' \in IntentLabels \/ (pc' = "suspendOnce" /\ at'.id # 0)),
           Dead' => latched'
    PROVE  CallOK'
BY DEF CallOK

\* A step that neither calls nor returns.
LEMMA CallSame ==
    CallOK /\ UNCHANGED <<call, latched, pc, at, managed>> => CallOK'
BY DEF CallOK, ThreadEdge, Armed, Dead, IntentLabels

\* A command is sent.
LEMMA CallSent ==
    ASSUME NEW c \in Commands, Submit(c), UNCHANGED <<pc, managed>>, at'.thread = at.thread,
           pc \in CallLabels,
           pc = "begin" => c = Begin(at'.id, at.thread, ThreadEdge(at.thread)),
           pc = "commit" => c = Commit(at'.id),
           pc = "cancel" => c = Cancel(at'.id),
           pc = "forget" => c = Forget(at.thread) /\ Armed(at.thread)
    PROVE  CallOK'
<1>1. call'.command = c /\ call'.phase = "sent" /\ ~latched'
  BY SubmitCall
<1>2. ThreadEdge(at.thread)' = ThreadEdge(at.thread) /\ (Armed(at.thread)' <=> Armed(at.thread))
  BY DEF ThreadEdge, Armed
<1>3. pc' \in CallLabels /\ ~Dead'
  BY DEF CallLabels, Dead
<1> QED  BY <1>1, <1>2, <1>3 DEF CallOK, CallLabels

\* The command under way is the one of the label.
LEMMA CallStep ==
    IInv /\ [Next]_threadVars => CallOK'
<1> SUFFICES ASSUME IInv, [Next]_threadVars PROVE CallOK'
  OBVIOUS
<1>0. /\ ServiceTypeOK /\ ControlTypes /\ ManagedTypes /\ WorldTypes /\ BoundTypes
      /\ ServiceInv /\ StepOK /\ StageOK /\ LifeOK /\ OwnedOK /\ TodoOK /\ ThreadOK
      /\ ReleaseOK /\ CallOK /\ LedgerOK /\ RecordOK
  BY Parts
<1>1. CASE ForgetThread
  <2>1. pc = "forget" /\ at.thread \in Keys /\ Forget(at.thread) \in Commands
    BY <1>1, <1>0, ForgetThreadEffect, AtFields, CommandTypes DEF ControlTypes
  <2>2. CASE Ask(Forget(at.thread)) /\ Armed(at.thread)
    <3>1. UNCHANGED <<pc, managed, at>>
      BY <2>2 DEF Ask, callVars
    <3> QED  BY <2>1, <2>2, <3>1, CallSent DEF Ask, CallLabels
  <2>3. CASE Granted \/ Denied \/ (~Armed(at.thread) /\ UNCHANGED serviceVars)
    <3>1. call' = NoCall
      BY <1>0, <2>1, <2>3 DEF Granted, Denied, Acknowledge, Abandon, serviceVars, CallOK
    <3>2. Ask(Forget(at.thread)) => call' # NoCall
      BY <2>1, SubmitCall DEF Ask
    <3>3. pc' \in {"idle", "prune", "failed", "resumeSuspending", "rollback", "thaw", "forgetAll"}
      BY <1>1, <1>0, <2>1, <3>1, <3>2, ForgetThreadEffect DEF StepOK, Ends
    <3> QED  BY <3>1, <3>3, CallNone DEF IntentLabels, Dead
  <2> QED  BY <1>1, <1>0, <2>2, <2>3, ForgetThreadEffect
<1>2. CASE Prune
  <2>1. pc \notin CallLabels /\ call = NoCall /\ UNCHANGED serviceVars
    BY <1>2, <1>0, PruneEffect, NotLanded DEF CallLabels
  <2>2. /\ ~latched' \/ ~(pc' \in IntentLabels \/ (pc' = "suspendOnce" /\ at'.id # 0))
        /\ ~Dead'
    BY <1>2, <1>0, PruneEffect, <2>1 DEF IntentLabels, Dead, StepOK, AtNow, Ends, serviceVars,
       BusyLabels, ThreadLabels, SuspendLabels
  <2> QED  BY <2>1, <2>2, CallNone DEF serviceVars
<1>3. CASE Capture
  <2>1. pc \notin CallLabels /\ call = NoCall /\ UNCHANGED serviceVars
    BY <1>3, <1>0, CaptureEffect, NotLanded DEF CallLabels
  <2>2. /\ ~latched' \/ ~(pc' \in IntentLabels \/ (pc' = "suspendOnce" /\ at'.id # 0))
        /\ ~Dead'
    BY <1>3, <1>0, CaptureEffect, <2>1 DEF IntentLabels, Dead, StepOK, AtNow, Ends, serviceVars,
       BusyLabels, ThreadLabels, SuspendLabels
  <2> QED  BY <2>1, <2>2, CallNone DEF serviceVars
<1>4. CASE NextThread
  <2>1. pc \notin CallLabels /\ call = NoCall /\ UNCHANGED serviceVars
    BY <1>4, <1>0, NextThreadEffect, NotLanded DEF CallLabels
  <2>2. /\ ~latched' \/ ~(pc' \in IntentLabels \/ (pc' = "suspendOnce" /\ at'.id # 0))
        /\ ~Dead'
    BY <1>4, <1>0, NextThreadEffect, <2>1 DEF IntentLabels, Dead, StepOK, AtNow, Ends,
       serviceVars, BusyLabels, ThreadLabels, SuspendLabels
  <2> QED  BY <2>1, <2>2, CallNone DEF serviceVars
<1>5. CASE BeginSuspension
  <2>1. pc = "begin" /\ at.thread \in Keys /\ managed[at.thread] # NoManaged /\ UNCHANGED managed
    BY <1>5, <1>0, BeginSuspensionEffect DEF ThreadOK, Threads, ThreadLabels, SuspendLabels
  <2>2. CASE /\ nextId \in Ids /\ Submit(Begin(nextId, at.thread, ThreadEdge(at.thread)))
             /\ AtNow(at.thread, nextId, at.forget, at.then) /\ UNCHANGED pc
    <3>1. Begin(nextId, at.thread, ThreadEdge(at.thread)) \in Commands
      BY <1>0, <2>1, <2>2, EdgeType, CommandTypes
    <3>2. at'.thread = at.thread /\ at'.id = nextId
      BY <2>2 DEF AtNow
    <3> QED  BY <2>1, <2>2, <3>1, <3>2, CallSent DEF CallLabels
  <2>3. CASE Granted /\ pc' = "suspendOnce"
    <3>1. call' = NoCall /\ ~latched'
      BY <1>0, <2>3 DEF Granted, Acknowledge, Called, ServiceInv
    <3> QED  BY <2>3, <3>1, CallNone DEF Dead
  <2>4. CASE /\ pc' = "failed"
             /\ Denied \/ (call = NoCall /\ UNCHANGED serviceVars)
    <3>1. call' = NoCall
      BY <2>4 DEF Denied, Abandon, serviceVars
    <3> QED  BY <2>4, <3>1, CallNone DEF Dead, IntentLabels
  <2> QED  BY <1>5, <1>0, <2>2, <2>3, <2>4, BeginSuspensionEffect
<1>6. CASE SuspendOnce
  <2>1. pc \notin CallLabels /\ call = NoCall /\ UNCHANGED serviceVars
    BY <1>6, <1>0, SuspendOnceEffect, NotLanded DEF CallLabels
  <2>3. Armed(at.thread) \/ ~latched
    BY <1>6, <1>0, SuspendOnceEffect, IdsAssumption DEF ThreadOK, CallOK
  <2>2. /\ ~latched' \/ ~(pc' \in IntentLabels \/ (pc' = "suspendOnce" /\ at'.id # 0))
        /\ ~Dead'
    BY <1>6, <1>0, SuspendOnceEffect, <2>1, <2>3 DEF IntentLabels, Dead, StepOK, AtNow, Ends,
       serviceVars, BusyLabels, ThreadLabels, SuspendLabels, ThreadOK, CallOK
  <2> QED  BY <2>1, <2>2, CallNone DEF serviceVars
<1>7. CASE CancelSuspension
  <2>1. pc = "cancel" /\ Cancel(at.id) \in Commands
    BY <1>7, <1>0, CancelSuspensionEffect, CommandTypes DEF StepOK
  <2>2. CASE Ask(Cancel(at.id))
    <3>1. UNCHANGED <<pc, managed, at>>
      BY <2>2 DEF Ask, callVars
    <3> QED  BY <2>1, <2>2, <3>1, CallSent DEF Ask, CallLabels
  <2>3. CASE Granted \/ Denied
    <3>1. call' = NoCall
      BY <2>3 DEF Granted, Denied, Acknowledge, Abandon, serviceVars
    <3>2. ~Ask(Cancel(at.id))
      BY <2>1, <3>1, SubmitCall DEF Ask
    <3>3. pc' \notin {"commit", "cancel", "suspendOnce", "dead", "replayed"}
      BY <1>7, <1>0, CancelSuspensionEffect, <3>2
    <3> QED  BY <3>1, <3>3, CallNone DEF IntentLabels, Dead
  <2> QED
    BY <1>7, <1>0, CancelSuspensionEffect, <2>2, <2>3
<1>8. CASE CommitSuspension
  <2>1. pc = "commit" /\ Commit(at.id) \in Commands
    BY <1>8, <1>0, CommitSuspensionEffect, CommandTypes DEF StepOK
  <2>2. CASE Ask(Commit(at.id))
    <3>1. UNCHANGED <<pc, managed, at>>
      BY <2>2 DEF Ask, callVars
    <3> QED  BY <2>1, <2>2, <3>1, CallSent DEF Ask, CallLabels
  <2>3. CASE Granted \/ Denied
    <3>1. call' = NoCall
      BY <2>3 DEF Granted, Denied, Acknowledge, Abandon, serviceVars
    <3>2. ~Ask(Commit(at.id))
      BY <2>1, <3>1, SubmitCall DEF Ask
    <3>3. pc' \notin {"commit", "cancel", "suspendOnce", "dead", "replayed"}
      BY <1>8, <1>0, CommitSuspensionEffect, <3>2
    <3> QED  BY <3>1, <3>3, CallNone DEF IntentLabels, Dead
  <2> QED
    BY <1>8, <1>0, CommitSuspensionEffect, <2>2, <2>3
<1>9. CASE Check
  <2>1. pc \notin CallLabels /\ call = NoCall /\ UNCHANGED serviceVars
    BY <1>9, <1>0, CheckEffect, NotLanded DEF CallLabels
  <2>2. /\ ~latched' \/ ~(pc' \in IntentLabels \/ (pc' = "suspendOnce" /\ at'.id # 0))
        /\ ~Dead'
    BY <1>9, <1>0, CheckEffect, <2>1 DEF IntentLabels, Dead, StepOK, AtNow, Ends, serviceVars,
       BusyLabels, ThreadLabels, SuspendLabels
  <2> QED  BY <2>1, <2>2, CallNone DEF serviceVars
<1>10. CASE Compensate
  <2>1. pc \notin CallLabels /\ call = NoCall /\ UNCHANGED serviceVars
    BY <1>10, <1>0, CompensateEffect, NotLanded DEF CallLabels
  <2>2. /\ ~latched' \/ ~(pc' \in IntentLabels \/ (pc' = "suspendOnce" /\ at'.id # 0))
        /\ ~Dead'
    BY <1>10, <1>0, CompensateEffect, <2>1 DEF IntentLabels, Dead, StepOK, AtNow, Ends,
       serviceVars, BusyLabels, ThreadLabels, SuspendLabels
  <2> QED  BY <2>1, <2>2, CallNone DEF serviceVars
<1>11. CASE SuspendFailed
  <2>1. pc \notin CallLabels /\ call = NoCall /\ UNCHANGED serviceVars
    BY <1>11, <1>0, SuspendFailedEffect, NotLanded DEF CallLabels
  <2>2. /\ ~latched' \/ ~(pc' \in IntentLabels \/ (pc' = "suspendOnce" /\ at'.id # 0))
        /\ ~Dead'
    BY <1>11, <1>0, SuspendFailedEffect, <2>1 DEF IntentLabels, Dead, StepOK, AtNow, Ends,
       serviceVars, BusyLabels, ThreadLabels, SuspendLabels
  <2> QED  BY <2>1, <2>2, CallNone DEF serviceVars
<1>12. CASE ResumeSuspending
  <2>1. pc \notin CallLabels /\ call = NoCall /\ UNCHANGED serviceVars
    BY <1>12, <1>0, ResumeSuspendingEffect, NotLanded DEF CallLabels
  <2>2. /\ ~latched' \/ ~(pc' \in IntentLabels \/ (pc' = "suspendOnce" /\ at'.id # 0))
        /\ ~Dead'
    BY <1>12, <1>0, ResumeSuspendingEffect, <2>1 DEF IntentLabels, Dead, StepOK, AtNow, Ends,
       serviceVars, BusyLabels, ThreadLabels, SuspendLabels
  <2> QED  BY <2>1, <2>2, CallNone DEF serviceVars
<1>13. CASE RollbackThreads
  <2>1. pc \notin CallLabels /\ call = NoCall /\ UNCHANGED serviceVars
    BY <1>13, <1>0, RollbackEffect, NotLanded DEF CallLabels
  <2>2. /\ ~latched' \/ ~(pc' \in IntentLabels \/ (pc' = "suspendOnce" /\ at'.id # 0))
        /\ ~Dead'
    BY <1>13, <1>0, RollbackEffect, <2>1 DEF IntentLabels, Dead, StepOK, AtNow, Ends,
       serviceVars, BusyLabels, ThreadLabels, SuspendLabels
  <2> QED  BY <2>1, <2>2, CallNone DEF serviceVars
<1>14. CASE ResumeOwned
  <2>1. pc \notin CallLabels /\ call = NoCall /\ UNCHANGED serviceVars
    BY <1>14, <1>0, ResumeOwnedEffect, NotLanded DEF CallLabels
  <2>2. /\ ~latched' \/ ~(pc' \in IntentLabels \/ (pc' = "suspendOnce" /\ at'.id # 0))
        /\ ~Dead'
    BY <1>14, <1>0, ResumeOwnedEffect, <2>1 DEF IntentLabels, Dead, StepOK, AtNow, Ends,
       serviceVars, BusyLabels, ThreadLabels, SuspendLabels
  <2> QED  BY <2>1, <2>2, CallNone DEF serviceVars
<1>15. CASE ThawThreads
  <2>1. pc \notin CallLabels /\ call = NoCall /\ UNCHANGED serviceVars
    BY <1>15, <1>0, ThawEffect, NotLanded DEF CallLabels
  <2>2. /\ ~latched' \/ ~(pc' \in IntentLabels \/ (pc' = "suspendOnce" /\ at'.id # 0))
        /\ ~Dead'
    BY <1>15, <1>0, ThawEffect, <2>1 DEF IntentLabels, Dead, StepOK, AtNow, Ends, serviceVars,
       BusyLabels, ThreadLabels, SuspendLabels
  <2> QED  BY <2>1, <2>2, CallNone DEF serviceVars
<1>16. CASE ForgetAll
  <2>1. pc \notin CallLabels /\ call = NoCall /\ UNCHANGED serviceVars
    BY <1>16, <1>0, ForgetAllEffect, NotLanded DEF CallLabels
  <2>2. /\ ~latched' \/ ~(pc' \in IntentLabels \/ (pc' = "suspendOnce" /\ at'.id # 0))
        /\ ~Dead'
    BY <1>16, <1>0, ForgetAllEffect, <2>1 DEF IntentLabels, Dead, StepOK, AtNow, Ends,
       serviceVars, BusyLabels, ThreadLabels, SuspendLabels
  <2> QED  BY <2>1, <2>2, CallNone DEF serviceVars
<1>17. CASE Prepare
  <2>1. pc \notin CallLabels /\ call = NoCall /\ UNCHANGED serviceVars
    BY <1>17, <1>0, PrepareEffect, NotLanded DEF CallLabels
  <2>2. /\ ~latched' \/ ~(pc' \in IntentLabels \/ (pc' = "suspendOnce" /\ at'.id # 0))
        /\ ~Dead'
    BY <1>17, <1>0, PrepareEffect, <2>1 DEF IntentLabels, Dead, StepOK, AtNow, Ends,
       serviceVars, BusyLabels, ThreadLabels, SuspendLabels
  <2> QED  BY <2>1, <2>2, CallNone DEF serviceVars
<1>18. CASE FreezeKnown
  <2>1. pc \notin CallLabels /\ call = NoCall /\ UNCHANGED serviceVars
    BY <1>18, <1>0, EntryEffect, NotLanded DEF Starts, CallLabels
  <2>2. /\ ~latched' \/ ~(pc' \in IntentLabels \/ (pc' = "suspendOnce" /\ at'.id # 0))
        /\ ~Dead'
    BY <1>18, <1>0, EntryEffect, <2>1 DEF Starts, IntentLabels, Dead, StepOK, AtNow, Ends,
       serviceVars, BusyLabels, ThreadLabels, SuspendLabels
  <2> QED  BY <2>1, <2>2, CallNone DEF serviceVars
<1>19. CASE AdoptNew
  <2>1. pc \notin CallLabels /\ call = NoCall /\ UNCHANGED serviceVars
    BY <1>19, <1>0, EntryEffect, NotLanded DEF Starts, CallLabels
  <2>2. /\ ~latched' \/ ~(pc' \in IntentLabels \/ (pc' = "suspendOnce" /\ at'.id # 0))
        /\ ~Dead'
    BY <1>19, <1>0, EntryEffect, <2>1 DEF Starts, IntentLabels, Dead, StepOK, AtNow, Ends,
       serviceVars, BusyLabels, ThreadLabels, SuspendLabels
  <2> QED  BY <2>1, <2>2, CallNone DEF serviceVars
<1>20. CASE ThawTarget
  <2>1. pc \notin CallLabels /\ call = NoCall /\ UNCHANGED serviceVars
    BY <1>20, <1>0, EntryEffect, NotLanded DEF Starts, CallLabels
  <2>2. /\ ~latched' \/ ~(pc' \in IntentLabels \/ (pc' = "suspendOnce" /\ at'.id # 0))
        /\ ~Dead'
    BY <1>20, <1>0, EntryEffect, <2>1 DEF Starts, IntentLabels, Dead, StepOK, AtNow, Ends,
       serviceVars, BusyLabels, ThreadLabels, SuspendLabels
  <2> QED  BY <2>1, <2>2, CallNone DEF serviceVars
<1>21. CASE ReleaseTarget
  <2>1. pc \notin CallLabels /\ call = NoCall /\ UNCHANGED serviceVars
    BY <1>21, <1>0, EntryEffect, NotLanded DEF Starts, CallLabels
  <2>2. /\ ~latched' \/ ~(pc' \in IntentLabels \/ (pc' = "suspendOnce" /\ at'.id # 0))
        /\ ~Dead'
    BY <1>21, <1>0, EntryEffect, <2>1 DEF Starts, IntentLabels, Dead, StepOK, AtNow, Ends,
       serviceVars, BusyLabels, ThreadLabels, SuspendLabels
  <2> QED  BY <2>1, <2>2, CallNone DEF serviceVars
<1>22. CASE \E t \in Keys : ThreadStarts(t)
  BY <1>22, <1>0, CallSame DEF ThreadStarts, callVars, serviceVars
<1>23. CASE \E t \in Keys : ThreadExits(t)
  BY <1>23, <1>0, CallSame DEF ThreadExits, callVars, serviceVars
<1>24. CASE \E t \in Keys : OtherSuspends(t)
  BY <1>24, <1>0, CallSame DEF OtherSuspends, callVars, serviceVars
<1>25. CASE \E t \in Keys : OtherResumes(t)
  BY <1>25, <1>0, CallSame DEF OtherResumes, callVars, serviceVars
<1>26. CASE Crash
  <2>1. call' = NoCall /\ latched' /\ pc' = "dead"
    BY <1>26 DEF Crash, Abandon, Latch
  <2> QED  BY <2>1, CallNone DEF IntentLabels
<1>27. CASE Replay
  <2>1. call' = NoCall /\ latched' /\ pc' \in {"dead", "replayed"}
    BY <1>27, <1>0, ReplayEffect DEF CallOK, Dead, serviceVars
  <2> QED  BY <2>1, CallNone DEF IntentLabels
<1>28. CASE OtherLatches
  <2>1. call' = NoCall /\ latched' /\ UNCHANGED callVars /\ (pc \notin {"suspendOnce", "commit", "cancel"} \/ at.id = 0)
    BY <1>28 DEF OtherLatches, Latch
  <2>2. ~(pc \in IntentLabels)
    BY <1>0, <2>1, IdsAssumption DEF StepOK, IntentLabels
  <2> QED  BY <2>1, <2>2, CallNone DEF callVars
<1>29. CASE ServiceStep
  <2>1. UNCHANGED <<pc, at, managed>>
    BY <1>29 DEF ServiceStep, callVars
  <2>2. CASE Land
    <3>1. /\ call # NoCall /\ call' # NoCall /\ call'.command = call.command
          /\ call'.phase = "landed" /\ latched' = latched
      BY <1>0, <2>2, LandCall
    <3> QED  BY <1>0, <2>1, <3>1 DEF CallOK, ThreadEdge, Armed, Dead, IntentLabels
  <2>3. CASE UNCHANGED <<call, latched>>
    BY <1>0, <2>1, <2>3, CallSame
  <2> QED  BY <1>29, <2>2, <2>3 DEF ServiceStep, ServiceActs, LateLand, LateLoss
<1>30. CASE UNCHANGED threadVars
  BY <1>30, <1>0, CallSame DEF threadVars, serviceVars, callVars
<1> QED  BY <1>1, <1>2, <1>3, <1>4, <1>5, <1>6, <1>7, <1>8, <1>9, <1>10, <1>11, <1>12, <1>13, <1>14,
   <1>15, <1>16, <1>17, <1>18, <1>19, <1>20, <1>21, <1>22, <1>23, <1>24, <1>25, <1>26, <1>27,
   <1>28, <1>29, <1>30, EachStep

--------------------------------------------------------------------------------
(***************************************************************************)
(* The journal, as long as the service answers.                            *)
(***************************************************************************)
\* Nothing is said of the journal of a latched service.
LEMMA LedgerVoid == latched' => LedgerOK'
BY DEF LedgerOK

\* The same intent is pending, or none; the same threads are recorded.
LEMMA LedgerFrame ==
    ASSUME LedgerOK, UNCHANGED <<journal, latched>>,
           \A t \in Keys : Kept(t)' <=> Kept(t),
           \/ ~Open /\ ~Open'
           \/ /\ Open /\ Open' /\ at'.id = at.id /\ at'.thread = at.thread
              /\ ThreadEdge(at.thread)' = ThreadEdge(at.thread)
    PROVE  LedgerOK'
BY DEF LedgerOK

\* A step that neither calls nor returns, and arms or disarms nothing.
LEMMA LedgerQuiet ==
    ASSUME LedgerOK, UNCHANGED serviceVars, call = NoCall,
           pc \notin IntentLabels, pc = "suspendOnce" => Armed(at.thread),
           pc' \notin IntentLabels, pc' = "suspendOnce" => Armed(at.thread)',
           \A t \in Keys : Armed(t)' <=> Armed(t)
    PROVE  LedgerOK'
<1>1. ~Landed /\ ~Landed'
  BY DEF Landed, Called, serviceVars
<1>2. ~Open /\ ~Open'
  BY <1>1 DEF Open
<1>3. \A t \in Keys : Kept(t)' <=> Kept(t)
  BY <1>1 DEF Kept
<1> QED  BY <1>2, <1>3, LedgerFrame DEF serviceVars

LEMMA ArmedKept ==
    ASSUME NEW k \in Keys, managed[k] # NoManaged
    PROVE  /\ ThreadNow(k, managed[k].armed, TRUE) => \A t \in Keys : Armed(t)' <=> Armed(t)
           /\ ThreadNow(k, managed[k].armed, FALSE) => \A t \in Keys : Armed(t)' <=> Armed(t)
           /\ ThreadNow(k, managed[k].armed, TRUE) => ThreadEdge(k)' = ThreadEdge(k)
BY DEF ThreadNow, Armed, ThreadEdge

\* The command under way takes effect; an abandoned one only once the service is latched.
LEMMA LedgerLand == IInv /\ Land /\ UNCHANGED <<callVars, managed>> => LedgerOK'
<1> SUFFICES ASSUME IInv, Land, UNCHANGED <<callVars, managed>> PROVE LedgerOK'
  OBVIOUS
<1>0. /\ ServiceTypeOK /\ ControlTypes /\ ManagedTypes /\ ServiceInv /\ StepOK /\ ThreadOK
      /\ CallOK /\ LedgerOK /\ RecordOK
  BY Parts
<1>1. /\ call # NoCall /\ call.phase = "sent" /\ call'.phase = "landed" /\ call' # NoCall
      /\ journal' = Apply(journal, call.command) /\ latched' = latched
  BY <1>0, LandCall
<1>2. ~latched /\ ~Landed /\ Landed'
  BY <1>0, <1>1 DEF ServiceInv, Landed, Called
<1>3. OneRecord(journal)
  BY <1>0 DEF RecordOK, Futures
<1>4. UNCHANGED <<pc, op, at, managed>> /\ pc \in {"begin", "commit", "cancel", "forget"}
  BY <1>0, <1>1 DEF callVars, CallOK
<1>5. PICK k \in Keys : k = at.thread /\ managed[k] # NoManaged
  BY <1>0, <1>4 DEF ThreadOK, Threads, ThreadLabels, SuspendLabels
<1> DEFINE e == ThreadEdge(k)
<1>6. e \in Edge /\ ThreadEdge(k)' = e
  BY <1>0, <1>4, <1>5, EdgeType DEF ThreadEdge
<1> HIDE DEF e
<1>7. /\ journal.pending = IF Open THEN {[id |-> at.id, key |-> k, edge |-> e]} ELSE {}
      /\ \A t \in Keys : journal.committed[t] # << >> <=> Kept(t)
  BY <1>0, <1>2, <1>5 DEF LedgerOK, e
<1>8. \A t \in Keys : Armed(t)' <=> Armed(t)
  BY <1>4 DEF Armed
<1>9. SUFFICES /\ journal'.pending = IF Open' THEN {[id |-> at.id, key |-> k, edge |-> e]} ELSE {}
               /\ \A t \in Keys : journal'.committed[t] # << >> <=> Kept(t)'
  <2>1. at'.thread = k /\ at'.id = at.id /\ ThreadEdge(at.thread)' = e
    BY <1>4, <1>5, <1>6 DEF ThreadEdge
  <2> QED  BY <1>4, <2>1 DEF LedgerOK
<1>10. CASE pc = "begin"
  <2>1. call.command = Begin(at.id, k, e) /\ at.id \in Ids
    BY <1>0, <1>1, <1>5, <1>10 DEF CallOK, StepOK, e
  <2>2. ~Open /\ Open' /\ ~Armed(k)
    BY <1>0, <1>2, <1>4, <1>5, <1>10 DEF Open, ThreadOK, IntentLabels
  <2>3. journal.committed[k] = << >> /\ journal.pending = {}
    BY <1>7, <1>10, <2>2 DEF Kept
  <2>4. journal' = ApplyBegin(journal, at.id, k, e)
    BY <1>1, <2>1, Applies
  <2>5. /\ journal'.committed = journal.committed
        /\ journal'.pending = {[id |-> at.id, key |-> k, edge |-> e]}
    BY <1>3, <1>6, <2>1, <2>3, <2>4, OneBegin
  <2>6. \A t \in Keys : Kept(t)' <=> Kept(t)
    BY <1>4, <1>8, <1>10 DEF Kept
  <2> QED  BY <1>7, <2>2, <2>5, <2>6
<1>11. CASE pc = "commit"
  <2>1. call.command = Commit(at.id) /\ at.id \in Ids
    BY <1>0, <1>1, <1>11 DEF CallOK, StepOK
  <2>2. Open /\ ~Open'
    BY <1>2, <1>4, <1>11 DEF Open, IntentLabels
  <2>3. journal' = ApplyCommit(journal, at.id)
    BY <1>1, <2>1, Applies
  <2>4. /\ journal'.pending = {} /\ journal'.committed[k] = <<e>>
        /\ \A j \in Keys \ {k} : journal'.committed[j] = journal.committed[j]
    BY <1>3, <1>6, <1>7, <2>1, <2>2, <2>3, OneCommit
  <2>5. \A t \in Keys : Kept(t)' <=> Kept(t) \/ t = k
    BY <1>2, <1>4, <1>5, <1>8, <1>11 DEF Kept
  <2>6. <<e>> # << >>
    OBVIOUS
  <2> QED  BY <1>7, <2>2, <2>4, <2>5, <2>6
<1>12. CASE pc = "cancel"
  <2>1. call.command = Cancel(at.id) /\ at.id \in Ids
    BY <1>0, <1>1, <1>12 DEF CallOK, StepOK
  <2>2. Open /\ ~Open'
    BY <1>2, <1>4, <1>12 DEF Open, IntentLabels
  <2>3. journal' = ApplyCancel(journal, at.id)
    BY <1>1, <2>1, Applies
  <2>6. journal.pending = {[id |-> at.id, key |-> k, edge |-> e]}
    BY <1>7, <2>2
  <2>4. journal'.pending = {} /\ journal'.committed = journal.committed
    BY <1>3, <2>1, <1>6, <2>3, <2>6, OneCancel
  <2>5. \A t \in Keys : Kept(t)' <=> Kept(t)
    BY <1>4, <1>8, <1>12 DEF Kept
  <2> QED  BY <1>7, <2>2, <2>4, <2>5
<1>13. CASE pc = "forget"
  <2>1. call.command = Forget(k)
    BY <1>0, <1>1, <1>5, <1>13 DEF CallOK
  <2>2. ~Open /\ ~Open'
    BY <1>4, <1>13 DEF Open, IntentLabels
  <2>3. journal' = ApplyForget(journal, k)
    BY <1>1, <2>1, Applies
  <2>4. /\ journal'.pending = {} /\ journal'.committed[k] = << >>
        /\ \A j \in Keys \ {k} : journal'.committed[j] = journal.committed[j]
    BY <1>3, <1>7, <2>2, <2>3, OneForget
  <2>5. \A t \in Keys : Kept(t)' <=> Kept(t) /\ t # k
    BY <1>2, <1>4, <1>5, <1>8, <1>13 DEF Kept
  <2> QED  BY <1>7, <2>2, <2>4, <2>5
<1> QED  BY <1>4, <1>10, <1>11, <1>12, <1>13

LEMMA LedgerService == IInv /\ ServiceStep => LedgerOK'
<1> SUFFICES ASSUME IInv, ServiceStep PROVE LedgerOK'
  OBVIOUS
<1>0. ServiceInv /\ LedgerOK
  BY Parts
<1>1. CASE Land
  BY <1>1, LedgerLand DEF ServiceStep
<1>2. CASE LateLand
  BY <1>0, <1>2, LedgerVoid DEF LateLand, ServiceInv
<1>3. CASE LateLoss
  BY <1>0, <1>3, LedgerVoid DEF LateLoss, ServiceInv
<1> QED  BY <1>1, <1>2, <1>3 DEF ServiceStep, ServiceActs

\* While the service answers, its journal is what the target believes.
LEMMA LedgerStep ==
    IInv /\ [Next]_threadVars => LedgerOK'
<1> SUFFICES ASSUME IInv, [Next]_threadVars PROVE LedgerOK'
  OBVIOUS
<1>0. /\ ServiceTypeOK /\ ControlTypes /\ ManagedTypes /\ WorldTypes /\ BoundTypes
      /\ ServiceInv /\ StepOK /\ StageOK /\ LifeOK /\ OwnedOK /\ TodoOK /\ ThreadOK
      /\ ReleaseOK /\ CallOK /\ LedgerOK /\ RecordOK
  BY Parts
<1>1. CASE ForgetThread
  <2>1. PICK k \in Keys : k = at.thread /\ managed[k] # NoManaged /\ pc = "forget"
    BY <1>1, <1>0, ForgetThreadEffect, AtFields DEF ControlTypes, ThreadOK, Threads, ThreadLabels, SuspendLabels
  <2>2. CASE Ask(Forget(k))
    <3>1. /\ call = NoCall /\ call'.phase = "sent" /\ UNCHANGED <<journal, latched>>
          /\ UNCHANGED <<pc, at, managed>>
      BY <2>1, <2>2, SubmitCall, CommandTypes DEF Ask, callVars
    <3>2. ~Landed /\ ~Landed'
      BY <3>1 DEF Landed, Called
    <3>3. ~Open /\ ~Open' /\ \A t \in Keys : Kept(t)' <=> Kept(t)
      BY <2>1, <3>1, <3>2 DEF Open, Kept, Armed, IntentLabels
    <3> QED  BY <1>0, <3>1, <3>3, LedgerFrame
  <2>3. CASE /\ (Armed(k) /\ Granted) \/ (~Armed(k) /\ UNCHANGED serviceVars)
             /\ ThreadGone(k) \/ ThreadNow(k, FALSE, managed[k].owned)
             /\ pc' = at.then
    <3>1. pc' \notin IntentLabels /\ pc' \notin {"begin", "forget", "suspendOnce"}
      BY <1>0, <2>1, <2>3 DEF StepOK, IntentLabels
    <3>2. \A t \in Keys : Armed(t)' <=> Armed(t) /\ t # k
      BY <2>3 DEF ThreadGone, ThreadNow, Armed
    <3>3. UNCHANGED <<journal, latched>> /\ (Armed(k) => Landed) /\ ~Landed'
      BY <1>0, <2>1, <2>3 DEF Granted, Acknowledge, serviceVars, Landed, Called, CallOK
    <3>4. \A t \in Keys : Kept(t)' <=> Kept(t)
      BY <2>1, <3>1, <3>2, <3>3 DEF Kept
    <3>5. ~Open /\ ~Open'
      BY <2>1, <3>1 DEF Open, IntentLabels
    <3> QED  BY <1>0, <3>3, <3>4, <3>5, LedgerFrame
  <2>4. CASE Denied
    <3>1. latched'
      BY <2>4 DEF Denied, Abandon, serviceVars
    <3> QED  BY <3>1, LedgerVoid
  <2> QED  BY <2>1, <2>2, <2>3, <2>4, <1>1, <1>0, ForgetThreadEffect
<1>2. CASE Prune
  <2>1. pc \notin {"begin", "commit", "cancel", "forget", "suspendOnce"} /\ call = NoCall /\ UNCHANGED serviceVars
    BY <1>2, <1>0, PruneEffect, NotLanded
  <2>2. pc' \notin IntentLabels /\ pc' # "suspendOnce"
    BY <1>2, <1>0, PruneEffect, <2>1 DEF IntentLabels, Ends, StepOK
  <2>3. \A t \in Keys : Armed(t)' <=> Armed(t)
    <3>1. \A t \in op.todo : t \in Keys /\ managed[t] # NoManaged
      BY <1>2, <1>0, <2>1, PruneEffect, TodoParts DEF PruneTodo, Threads
    <3> QED  BY <1>2, <1>0, <3>1, PruneEffect, ArmedKept DEF Armed
  <2> QED  BY <1>0, <2>1, <2>2, <2>3, LedgerQuiet DEF IntentLabels
<1>3. CASE Capture
  <2>1. pc \notin {"begin", "commit", "cancel", "forget", "suspendOnce"} /\ call = NoCall /\ UNCHANGED serviceVars
    BY <1>3, <1>0, CaptureEffect, NotLanded
  <2>2. pc' \notin IntentLabels /\ pc' # "suspendOnce"
    BY <1>3, <1>0, CaptureEffect, <2>1 DEF IntentLabels, Ends, StepOK
  <2>3. \A t \in Keys : Armed(t)' <=> Armed(t)
    BY <1>3, <1>0, CaptureEffect DEF Armed, Unknown, Threads
  <2> QED  BY <1>0, <2>1, <2>2, <2>3, LedgerQuiet DEF IntentLabels
<1>4. CASE NextThread
  <2>1. pc = "suspend" /\ call = NoCall /\ UNCHANGED <<serviceVars, managed>>
    BY <1>4, <1>0, NotLanded, NextThreadEffect
  <2>2. pc' \notin IntentLabels
    BY <1>4, <1>0, NextThreadEffect DEF IntentLabels, Ends
  <2>3. pc' = "suspendOnce" => Armed(at.thread)'
    <3>1. ThreadOK' /\ (pc' = "suspendOnce" => at'.id = 0)
      BY <1>4, <1>0, ThreadStep, NextThreadEffect DEF Ends, AtNow
    <3> QED  BY <3>1, IdsAssumption DEF ThreadOK
  <2> QED  BY <1>0, <2>1, <2>2, <2>3, LedgerQuiet DEF IntentLabels, Armed
<1>5. CASE BeginSuspension
  <2>1. pc = "begin" /\ at.thread \in Keys /\ managed[at.thread] # NoManaged /\ ~Armed(at.thread)
        /\ UNCHANGED managed
    BY <1>5, <1>0, BeginSuspensionEffect DEF ThreadOK, Threads, ThreadLabels, SuspendLabels
  <2>2. CASE nextId \in Ids /\ Submit(Begin(nextId, at.thread, ThreadEdge(at.thread))) /\ UNCHANGED pc
    <3>0. Begin(nextId, at.thread, ThreadEdge(at.thread)) \in Commands
      BY <1>0, <2>1, <2>2, EdgeType, CommandTypes
    <3>1. call = NoCall /\ call'.phase = "sent" /\ UNCHANGED <<journal, latched>>
      BY <2>2, <3>0, SubmitCall
    <3>2. ~Landed /\ ~Landed'
      BY <3>1 DEF Landed, Called
    <3>3. ~Open /\ ~Open' /\ \A t \in Keys : Kept(t)' <=> Kept(t)
      BY <2>1, <2>2, <3>2 DEF Open, Kept, Armed, IntentLabels
    <3> QED  BY <1>0, <3>1, <3>3, LedgerFrame
  <2>3. CASE Granted /\ pc' = "suspendOnce" /\ UNCHANGED at
    <3>1. Landed /\ ~Landed' /\ UNCHANGED <<journal, latched>>
      BY <2>3 DEF Granted, Acknowledge, Landed, Called
    <3>2. Open /\ Open' /\ \A t \in Keys : Kept(t)' <=> Kept(t)
      BY <2>1, <2>3, <3>1 DEF Open, Kept, Armed, IntentLabels
    <3> QED  BY <1>0, <2>1, <2>3, <3>1, <3>2, LedgerFrame DEF ThreadEdge
  <2>4. CASE Denied
    <3>1. latched'
      BY <2>4 DEF Denied, Abandon, serviceVars
    <3> QED  BY <3>1, LedgerVoid
  <2>5. CASE call = NoCall /\ UNCHANGED serviceVars /\ pc' = "failed"
    BY <1>0, <2>1, <2>5, LedgerQuiet DEF IntentLabels, Armed
  <2> QED  BY <2>2, <2>3, <2>4, <2>5, <1>5, <1>0, BeginSuspensionEffect
<1>6. CASE SuspendOnce
  <2>1. pc = "suspendOnce" /\ call = NoCall /\ UNCHANGED serviceVars /\ ~Landed /\ ~Landed'
    BY <1>6, <1>0, SuspendOnceEffect, NotLanded DEF serviceVars, Landed, Called
  <2>2. PICK k \in Keys : k = at.thread /\ managed[k] # NoManaged
    BY <1>6, <1>0, SuspendOnceEffect DEF ThreadOK, ThreadLabels, SuspendLabels, Threads
  <2>3. UNCHANGED managed \/ ThreadNow(k, managed[k].armed, TRUE)
    BY <1>6, <1>0, <2>2, SuspendOnceEffect
  <2>4. (\A t \in Keys : Armed(t)' <=> Armed(t)) /\ ThreadEdge(k)' = ThreadEdge(k)
    BY <2>2, <2>3, ArmedKept DEF Armed, ThreadEdge
  <2>5. at'.thread = k /\ at'.id = at.id
    BY <1>6, <1>0, <2>2, SuspendOnceEffect DEF AtNow
  <2>6. \A t \in Keys : Kept(t)' <=> Kept(t)
    BY <2>1, <2>4 DEF Kept
  <2>7. CASE Armed(k)
    <3>1. pc' \in {"check", "failed"}
      BY <1>6, <1>0, <2>2, <2>7, SuspendOnceEffect
    <3>2. ~Open /\ ~Open'
      BY <2>1, <2>2, <2>7, <3>1 DEF Open, IntentLabels
    <3> QED  BY <1>0, <2>1, <2>6, <3>2, LedgerFrame DEF serviceVars
  <2>8. CASE ~Armed(k)
    <3>1. pc' \in {"commit", "cancel"}
      BY <1>6, <1>0, <2>2, <2>8, SuspendOnceEffect
    <3>2. Open /\ Open'
      BY <2>1, <2>2, <2>8, <3>1 DEF Open, IntentLabels
    <3>3. ThreadEdge(at.thread)' = ThreadEdge(at.thread)
      BY <2>2, <2>4, <2>5 DEF ThreadEdge
    <3> QED  BY <1>0, <2>1, <2>2, <2>5, <2>6, <3>2, <3>3, LedgerFrame DEF serviceVars
  <2> QED  BY <2>7, <2>8
<1>7. CASE CancelSuspension
  <2>1. pc = "cancel" /\ at.id \in Ids /\ ~Armed(at.thread)
    BY <1>7, <1>0, CancelSuspensionEffect DEF StepOK, ThreadOK
  <2>2. CASE Ask(Cancel(at.id))
    <3>1. /\ call = NoCall /\ call'.phase = "sent" /\ UNCHANGED <<journal, latched>>
          /\ UNCHANGED <<pc, at, managed>>
      BY <2>1, <2>2, SubmitCall, CommandTypes DEF Ask, callVars
    <3>2. ~Landed /\ ~Landed'
      BY <3>1 DEF Landed, Called
    <3>3. Open /\ Open' /\ \A t \in Keys : Kept(t)' <=> Kept(t)
      BY <2>1, <3>1, <3>2 DEF Open, Kept, Armed, IntentLabels
    <3> QED  BY <1>0, <3>1, <3>3, LedgerFrame DEF ThreadEdge
  <2>3. CASE Granted /\ pc' = "failed" /\ UNCHANGED managed
    <3>1. Landed /\ ~Landed' /\ UNCHANGED <<journal, latched>>
      BY <2>3 DEF Granted, Acknowledge, Landed, Called
    <3>2. ~Open /\ ~Open' /\ \A t \in Keys : Kept(t)' <=> Kept(t)
      BY <2>1, <2>3, <3>1 DEF Open, Kept, Armed, IntentLabels
    <3> QED  BY <1>0, <3>1, <3>2, LedgerFrame
  <2>4. CASE Denied
    <3>1. latched'
      BY <2>4 DEF Denied, Abandon, serviceVars
    <3> QED  BY <3>1, LedgerVoid
  <2> QED  BY <2>2, <2>3, <2>4, <1>7, <1>0, CancelSuspensionEffect
<1>8. CASE CommitSuspension
  <2>1. pc = "commit" /\ at.id \in Ids
    BY <1>8, <1>0, CommitSuspensionEffect DEF StepOK
  <2>5. PICK k \in Keys : k = at.thread
    BY <1>8, <1>0, CommitSuspensionEffect
  <2>2. CASE Ask(Commit(at.id))
    <3>1. /\ call = NoCall /\ call'.phase = "sent" /\ UNCHANGED <<journal, latched>>
          /\ UNCHANGED <<pc, at, managed>>
      BY <2>1, <2>2, SubmitCall, CommandTypes DEF Ask, callVars
    <3>2. ~Landed /\ ~Landed'
      BY <3>1 DEF Landed, Called
    <3>3. Open /\ Open' /\ \A t \in Keys : Kept(t)' <=> Kept(t)
      BY <2>1, <3>1, <3>2 DEF Open, Kept, Armed, IntentLabels
    <3> QED  BY <1>0, <3>1, <3>3, LedgerFrame DEF ThreadEdge
  <2>3. CASE Granted /\ ThreadNow(k, TRUE, managed[k].owned) /\ pc' = "check"
    <3>1. Landed /\ ~Landed' /\ UNCHANGED <<journal, latched>>
      BY <2>3 DEF Granted, Acknowledge, Landed, Called
    <3>2. ~Open /\ ~Open'
      BY <2>1, <2>3, <3>1 DEF Open, IntentLabels
    <3>3. \A t \in Keys : Armed(t)' <=> Armed(t) \/ t = k
      BY <2>3 DEF Armed, ThreadNow
    <3>4. \A t \in Keys : Kept(t)' <=> Kept(t)
      BY <2>1, <2>3, <2>5, <3>1, <3>3 DEF Kept
    <3> QED  BY <1>0, <3>1, <3>2, <3>4, LedgerFrame
  <2>4. CASE Denied
    <3>1. latched'
      BY <2>4 DEF Denied, Abandon, serviceVars
    <3> QED  BY <3>1, LedgerVoid
  <2> QED  BY <2>2, <2>3, <2>4, <2>5, <1>8, <1>0, CommitSuspensionEffect
<1>9. CASE Check
  <2>1. pc \notin {"begin", "commit", "cancel", "forget", "suspendOnce"} /\ call = NoCall /\ UNCHANGED serviceVars
    BY <1>9, <1>0, CheckEffect, NotLanded
  <2>2. pc' \notin IntentLabels /\ pc' # "suspendOnce"
    BY <1>9, <1>0, CheckEffect, <2>1 DEF IntentLabels, Ends, StepOK
  <2>3. \A t \in Keys : Armed(t)' <=> Armed(t)
    BY <1>9, <1>0, CheckEffect DEF Armed
  <2> QED  BY <1>0, <2>1, <2>2, <2>3, LedgerQuiet DEF IntentLabels
<1>10. CASE Compensate
  <2>1. pc \notin {"begin", "commit", "cancel", "forget", "suspendOnce"} /\ call = NoCall /\ UNCHANGED serviceVars
    BY <1>10, <1>0, CompensateEffect, NotLanded
  <2>2. pc' \notin IntentLabels /\ pc' # "suspendOnce"
    BY <1>10, <1>0, CompensateEffect, <2>1 DEF IntentLabels, Ends, StepOK
  <2>3. \A t \in Keys : Armed(t)' <=> Armed(t)
    <3>1. PICK k \in Keys : k = at.thread /\ managed[k] # NoManaged
      BY <1>10, <1>0, CompensateEffect DEF ThreadOK, ThreadLabels, SuspendLabels, Threads
    <3>2. UNCHANGED managed \/ ThreadNow(k, managed[k].armed, FALSE)
      BY <1>10, <1>0, <3>1, CompensateEffect
    <3> QED  BY <3>1, <3>2, ArmedKept DEF Armed
  <2> QED  BY <1>0, <2>1, <2>2, <2>3, LedgerQuiet DEF IntentLabels
<1>11. CASE SuspendFailed
  <2>1. pc \notin {"begin", "commit", "cancel", "forget", "suspendOnce"} /\ call = NoCall /\ UNCHANGED serviceVars
    BY <1>11, <1>0, SuspendFailedEffect, NotLanded
  <2>2. pc' \notin IntentLabels /\ pc' # "suspendOnce"
    BY <1>11, <1>0, SuspendFailedEffect, <2>1 DEF IntentLabels, Ends, StepOK
  <2>3. \A t \in Keys : Armed(t)' <=> Armed(t)
    <3>1. PICK k \in Keys : k = at.thread /\ managed[k] # NoManaged
      BY <1>11, <1>0, SuspendFailedEffect DEF ThreadOK, ThreadLabels, SuspendLabels, Threads
    <3>2. UNCHANGED managed \/ ThreadNow(k, managed[k].armed, FALSE)
      BY <1>11, <1>0, <3>1, SuspendFailedEffect
    <3> QED  BY <3>1, <3>2, ArmedKept DEF Armed
  <2> QED  BY <1>0, <2>1, <2>2, <2>3, LedgerQuiet DEF IntentLabels
<1>12. CASE ResumeSuspending
  <2>1. pc \notin {"begin", "commit", "cancel", "forget", "suspendOnce"} /\ call = NoCall /\ UNCHANGED serviceVars
    BY <1>12, <1>0, ResumeSuspendingEffect, NotLanded
  <2>2. pc' \notin IntentLabels /\ pc' # "suspendOnce"
    BY <1>12, <1>0, ResumeSuspendingEffect, <2>1 DEF IntentLabels, Ends, StepOK
  <2>3. \A t \in Keys : Armed(t)' <=> Armed(t)
    BY <1>12, <1>0, ResumeSuspendingEffect DEF Armed
  <2> QED  BY <1>0, <2>1, <2>2, <2>3, LedgerQuiet DEF IntentLabels
<1>13. CASE RollbackThreads
  <2>1. pc \notin {"begin", "commit", "cancel", "forget", "suspendOnce"} /\ call = NoCall /\ UNCHANGED serviceVars
    BY <1>13, <1>0, RollbackEffect, NotLanded
  <2>2. pc' \notin IntentLabels /\ pc' # "suspendOnce"
    BY <1>13, <1>0, RollbackEffect, <2>1 DEF IntentLabels, Ends, StepOK
  <2>3. \A t \in Keys : Armed(t)' <=> Armed(t)
    BY <1>13, <1>0, RollbackEffect DEF Armed
  <2> QED  BY <1>0, <2>1, <2>2, <2>3, LedgerQuiet DEF IntentLabels
<1>14. CASE ResumeOwned
  <2>1. pc \notin {"begin", "commit", "cancel", "forget", "suspendOnce"} /\ call = NoCall /\ UNCHANGED serviceVars
    BY <1>14, <1>0, ResumeOwnedEffect, NotLanded
  <2>2. pc' \notin IntentLabels /\ pc' # "suspendOnce"
    BY <1>14, <1>0, ResumeOwnedEffect, <2>1 DEF IntentLabels, Ends, StepOK
  <2>3. \A t \in Keys : Armed(t)' <=> Armed(t)
    <3>1. PICK k \in Keys : k = at.thread /\ managed[k] # NoManaged
      BY <1>14, <1>0, ResumeOwnedEffect DEF ThreadOK, ThreadLabels, SuspendLabels, Threads
    <3>2. UNCHANGED managed \/ ThreadNow(k, managed[k].armed, FALSE)
      BY <1>14, <1>0, <3>1, ResumeOwnedEffect
    <3> QED  BY <3>1, <3>2, ArmedKept DEF Armed
  <2> QED  BY <1>0, <2>1, <2>2, <2>3, LedgerQuiet DEF IntentLabels
<1>15. CASE ThawThreads
  <2>1. pc \notin {"begin", "commit", "cancel", "forget", "suspendOnce"} /\ call = NoCall /\ UNCHANGED serviceVars
    BY <1>15, <1>0, ThawEffect, NotLanded
  <2>2. pc' \notin IntentLabels /\ pc' # "suspendOnce"
    BY <1>15, <1>0, ThawEffect, <2>1 DEF IntentLabels, Ends, StepOK
  <2>3. \A t \in Keys : Armed(t)' <=> Armed(t)
    BY <1>15, <1>0, ThawEffect DEF Armed
  <2> QED  BY <1>0, <2>1, <2>2, <2>3, LedgerQuiet DEF IntentLabels
<1>16. CASE ForgetAll
  <2>1. pc \notin {"begin", "commit", "cancel", "forget", "suspendOnce"} /\ call = NoCall /\ UNCHANGED serviceVars
    BY <1>16, <1>0, ForgetAllEffect, NotLanded
  <2>2. pc' \notin IntentLabels /\ pc' # "suspendOnce"
    BY <1>16, <1>0, ForgetAllEffect, <2>1 DEF IntentLabels, Ends, StepOK
  <2>3. \A t \in Keys : Armed(t)' <=> Armed(t)
    BY <1>16, <1>0, ForgetAllEffect DEF Armed
  <2> QED  BY <1>0, <2>1, <2>2, <2>3, LedgerQuiet DEF IntentLabels
<1>17. CASE Prepare
  <2>1. pc \notin {"begin", "commit", "cancel", "forget", "suspendOnce"} /\ call = NoCall /\ UNCHANGED serviceVars
    BY <1>17, <1>0, PrepareEffect, NotLanded
  <2>2. pc' \notin IntentLabels /\ pc' # "suspendOnce"
    BY <1>17, <1>0, PrepareEffect, <2>1 DEF IntentLabels, Ends, StepOK
  <2>3. \A t \in Keys : Armed(t)' <=> Armed(t)
    BY <1>17, <1>0, PrepareEffect DEF Armed
  <2> QED  BY <1>0, <2>1, <2>2, <2>3, LedgerQuiet DEF IntentLabels
<1>18. CASE FreezeKnown
  <2>1. pc \notin {"begin", "commit", "cancel", "forget", "suspendOnce"} /\ call = NoCall /\ UNCHANGED serviceVars
    BY <1>18, <1>0, EntryEffect, NotLanded DEF Starts
  <2>2. pc' \notin IntentLabels /\ pc' # "suspendOnce"
    BY <1>18, <1>0, EntryEffect, <2>1 DEF Starts, IntentLabels, Ends, StepOK
  <2>3. \A t \in Keys : Armed(t)' <=> Armed(t)
    BY <1>18, <1>0, EntryEffect DEF Starts, Armed
  <2> QED  BY <1>0, <2>1, <2>2, <2>3, LedgerQuiet DEF IntentLabels
<1>19. CASE AdoptNew
  <2>1. pc \notin {"begin", "commit", "cancel", "forget", "suspendOnce"} /\ call = NoCall /\ UNCHANGED serviceVars
    BY <1>19, <1>0, EntryEffect, NotLanded DEF Starts
  <2>2. pc' \notin IntentLabels /\ pc' # "suspendOnce"
    BY <1>19, <1>0, EntryEffect, <2>1 DEF Starts, IntentLabels, Ends, StepOK
  <2>3. \A t \in Keys : Armed(t)' <=> Armed(t)
    BY <1>19, <1>0, EntryEffect DEF Starts, Armed
  <2> QED  BY <1>0, <2>1, <2>2, <2>3, LedgerQuiet DEF IntentLabels
<1>20. CASE ThawTarget
  <2>1. pc \notin {"begin", "commit", "cancel", "forget", "suspendOnce"} /\ call = NoCall /\ UNCHANGED serviceVars
    BY <1>20, <1>0, EntryEffect, NotLanded DEF Starts
  <2>2. pc' \notin IntentLabels /\ pc' # "suspendOnce"
    BY <1>20, <1>0, EntryEffect, <2>1 DEF Starts, IntentLabels, Ends, StepOK
  <2>3. \A t \in Keys : Armed(t)' <=> Armed(t)
    BY <1>20, <1>0, EntryEffect DEF Starts, Armed
  <2> QED  BY <1>0, <2>1, <2>2, <2>3, LedgerQuiet DEF IntentLabels
<1>21. CASE ReleaseTarget
  <2>1. pc \notin {"begin", "commit", "cancel", "forget", "suspendOnce"} /\ call = NoCall /\ UNCHANGED serviceVars
    BY <1>21, <1>0, EntryEffect, NotLanded DEF Starts
  <2>2. pc' \notin IntentLabels /\ pc' # "suspendOnce"
    BY <1>21, <1>0, EntryEffect, <2>1 DEF Starts, IntentLabels, Ends, StepOK
  <2>3. \A t \in Keys : Armed(t)' <=> Armed(t)
    BY <1>21, <1>0, EntryEffect DEF Starts, Armed
  <2> QED  BY <1>0, <2>1, <2>2, <2>3, LedgerQuiet DEF IntentLabels
<1>22. CASE \E t \in Keys : ThreadStarts(t)
  BY <1>22, <1>0 DEF ThreadStarts, LedgerOK, Open, Kept, Armed, ThreadEdge, Landed, Called, serviceVars, callVars
<1>23. CASE \E t \in Keys : ThreadExits(t)
  BY <1>23, <1>0 DEF ThreadExits, LedgerOK, Open, Kept, Armed, ThreadEdge, Landed, Called, serviceVars, callVars
<1>24. CASE \E t \in Keys : OtherSuspends(t)
  BY <1>24, <1>0 DEF OtherSuspends, LedgerOK, Open, Kept, Armed, ThreadEdge, Landed, Called, serviceVars, callVars
<1>25. CASE \E t \in Keys : OtherResumes(t)
  BY <1>25, <1>0 DEF OtherResumes, LedgerOK, Open, Kept, Armed, ThreadEdge, Landed, Called, serviceVars, callVars
<1>26. CASE Crash
  BY <1>26, LedgerVoid DEF Crash, Abandon, Latch
<1>27. CASE Replay
  BY <1>27, <1>0, ReplayEffect, LedgerVoid DEF CallOK, Dead, serviceVars
<1>28. CASE OtherLatches
  BY <1>28, LedgerVoid DEF OtherLatches, Abandon, Latch
<1>29. CASE ServiceStep
  BY <1>29, LedgerService
<1>30. CASE UNCHANGED threadVars
  BY <1>30, <1>0 DEF threadVars, serviceVars, callVars, worldVars, LedgerOK, Open, Kept, Armed,
     Landed, Called, ThreadEdge
<1> QED  BY <1>1, <1>2, <1>3, <1>4, <1>5, <1>6, <1>7, <1>8, <1>9, <1>10, <1>11, <1>12, <1>13, <1>14,
   <1>15, <1>16, <1>17, <1>18, <1>19, <1>20, <1>21, <1>22, <1>23, <1>24, <1>25, <1>26, <1>27,
   <1>28, <1>29, <1>30, EachStep

--------------------------------------------------------------------------------
(***************************************************************************)
(* The journals that the helper may find.                                  *)
(***************************************************************************)
LEMMA ExposedFrame ==
    ASSUME pc \notin {"forget", "failed"}, \A t \in Keys : mine'[t] = 1 => mine[t] = 1,
           \A t \in Keys : Armed(t)' => Armed(t), Doomed => Doomed'
    PROVE  \A t \in Keys : Exposed(t)' => Exposed(t)
BY DEF Exposed

\* Only a suspension, and the record of one, expose a thread.
LEMMA ExposedStep ==
    IInv /\ [Next]_threadVars /\ ~SuspendOnce /\ ~(CommitSuspension /\ Granted) => \A t \in Keys : Exposed(t)' => Exposed(t)
<1> SUFFICES ASSUME IInv, [Next]_threadVars, ~SuspendOnce /\ ~(CommitSuspension /\ Granted) PROVE \A t \in Keys : Exposed(t)' => Exposed(t)
  OBVIOUS
<1>0. /\ ServiceTypeOK /\ ControlTypes /\ ManagedTypes /\ WorldTypes /\ BoundTypes
      /\ ServiceInv /\ StepOK /\ StageOK /\ LifeOK /\ OwnedOK /\ TodoOK /\ ThreadOK
      /\ ReleaseOK /\ CallOK /\ LedgerOK /\ RecordOK
  BY Parts
<1>1. CASE ForgetThread
  BY <1>1, <1>0, ForgetThreadEffect DEF Exposed, Doomed, RollingBack, Dead, Armed, ThreadNow,
     ThreadGone, OpNow, AtNow, Ends, StepOK, Ask, worldVars, callVars
<1>2. CASE Prune
  BY <1>2, <1>0, PruneEffect DEF Exposed, Doomed, RollingBack, Dead, Armed, ThreadNow,
     ThreadGone, OpNow, AtNow, Ends, StepOK, Ask, worldVars, callVars
<1>3. CASE Capture
  BY <1>3, <1>0, CaptureEffect DEF Exposed, Doomed, RollingBack, Dead, Armed, ThreadNow,
     ThreadGone, OpNow, AtNow, Ends, StepOK, Ask, worldVars, callVars
<1>4. CASE NextThread
  <2>1. pc \notin {"forget", "failed"}
    BY <1>4, <1>0, NextThreadEffect
  <2>2. \A t \in Keys : mine'[t] = 1 => mine[t] = 1
    BY <1>4, <1>0, NextThreadEffect DEF worldVars, WorldTypes
  <2>3. \A t \in Keys : Armed(t)' => Armed(t)
    BY <1>4, <1>0, NextThreadEffect DEF Armed, ThreadNow
  <2>4. Doomed => Doomed'
    BY <1>4, <1>0, NextThreadEffect, NoOpFields DEF Doomed, RollingBack, Dead, StepOK, StageOK,
       OpNow, AtNow, Ends
  <2> QED  BY <2>1, <2>2, <2>3, <2>4, ExposedFrame
<1>5. CASE BeginSuspension
  BY <1>5, <1>0, BeginSuspensionEffect DEF Exposed, Doomed, RollingBack, Dead, Armed, ThreadNow,
     ThreadGone, OpNow, AtNow, Ends, StepOK, Ask, worldVars, callVars
<1>6. CASE SuspendOnce
  BY <1>6
<1>7. CASE CancelSuspension
  BY <1>7, <1>0, CancelSuspensionEffect DEF Exposed, Doomed, RollingBack, Dead, Armed,
     ThreadNow, ThreadGone, OpNow, AtNow, Ends, StepOK, Ask, worldVars, callVars
<1>8. CASE CommitSuspension
  <2>1. pc = "commit" /\ UNCHANGED <<managed, mine, op, stage>> /\ pc' \in {"commit", "resume"}
        /\ at'.then = at.then
    BY <1>8, <1>0, CommitSuspensionEffect DEF Ask, callVars, worldVars, AtNow
  <2>2. Doomed => Doomed'
    BY <1>0, <2>1 DEF Doomed, Dead, RollingBack, StepOK
  <2> QED  BY <2>1, <2>2, ExposedFrame DEF Armed
<1>9. CASE Check
  BY <1>9, <1>0, CheckEffect DEF Exposed, Doomed, RollingBack, Dead, Armed, ThreadNow,
     ThreadGone, OpNow, AtNow, Ends, StepOK, Ask, worldVars, callVars
<1>10. CASE Compensate
  <2>1. pc \notin {"forget", "failed"}
    BY <1>10, <1>0, CompensateEffect
  <2>2. \A t \in Keys : mine'[t] = 1 => mine[t] = 1
    <3>1. PICK k \in Keys : k = at.thread
      BY <1>10, <1>0, CompensateEffect
    <3>2. mine' = mine \/ mine' = [mine EXCEPT ![k] = 0]
      BY <1>10, <1>0, CompensateEffect, <3>1
    <3> QED  BY <1>0, <3>2 DEF WorldTypes
  <2>3. \A t \in Keys : Armed(t)' => Armed(t)
    BY <1>10, <1>0, CompensateEffect DEF Armed, ThreadNow, ThreadOK, Threads, ThreadLabels,
       SuspendLabels
  <2>4. Doomed => Doomed'
    BY <1>10, <1>0, CompensateEffect, NoOpFields DEF Doomed, RollingBack, Dead, StepOK, StageOK,
       OpNow, AtNow, Ends
  <2> QED  BY <2>1, <2>2, <2>3, <2>4, ExposedFrame
<1>11. CASE SuspendFailed
  BY <1>11, <1>0, SuspendFailedEffect DEF Exposed, Doomed, RollingBack, Dead, Armed, ThreadNow,
     ThreadGone, OpNow, AtNow, Ends, StepOK, Ask, worldVars, callVars
<1>12. CASE ResumeSuspending
  <2>1. pc \notin {"forget", "failed"}
    BY <1>12, <1>0, ResumeSuspendingEffect
  <2>2. \A t \in Keys : mine'[t] = 1 => mine[t] = 1
    BY <1>12, <1>0, ResumeSuspendingEffect DEF worldVars, WorldTypes
  <2>3. \A t \in Keys : Armed(t)' => Armed(t)
    BY <1>12, <1>0, ResumeSuspendingEffect DEF Armed, ThreadNow
  <2>4. Doomed => Doomed'
    BY <1>12, <1>0, ResumeSuspendingEffect, NoOpFields DEF Doomed, RollingBack, Dead, StepOK,
       StageOK, OpNow, AtNow, Ends, BusyLabels, ThreadLabels, SuspendLabels
  <2> QED  BY <2>1, <2>2, <2>3, <2>4, ExposedFrame
<1>13. CASE RollbackThreads
  BY <1>13, <1>0, RollbackEffect DEF Exposed, Doomed, RollingBack, Dead, Armed, ThreadNow,
     ThreadGone, OpNow, AtNow, Ends, StepOK, Ask, worldVars, callVars
<1>14. CASE ResumeOwned
  <2>1. pc \notin {"forget", "failed"}
    BY <1>14, <1>0, ResumeOwnedEffect
  <2>2. \A t \in Keys : mine'[t] = 1 => mine[t] = 1
    <3>1. PICK k \in Keys : k = at.thread
      BY <1>14, <1>0, ResumeOwnedEffect
    <3>2. mine' = mine \/ mine' = [mine EXCEPT ![k] = 0]
      BY <1>14, <1>0, ResumeOwnedEffect, <3>1
    <3> QED  BY <1>0, <3>2 DEF WorldTypes
  <2>3. \A t \in Keys : Armed(t)' => Armed(t)
    BY <1>14, <1>0, ResumeOwnedEffect DEF Armed, ThreadNow, ThreadOK, Threads, ThreadLabels,
       SuspendLabels
  <2>4. Doomed => Doomed'
    BY <1>14, <1>0, ResumeOwnedEffect, NoOpFields DEF Doomed, RollingBack, Dead, StepOK,
       StageOK, OpNow, AtNow, Ends
  <2> QED  BY <2>1, <2>2, <2>3, <2>4, ExposedFrame
<1>15. CASE ThawThreads
  <2>1. pc \notin {"forget", "failed"}
    BY <1>15, <1>0, ThawEffect
  <2>2. \A t \in Keys : mine'[t] = 1 => mine[t] = 1
    BY <1>15, <1>0, ThawEffect DEF worldVars, WorldTypes
  <2>3. \A t \in Keys : Armed(t)' => Armed(t)
    BY <1>15, <1>0, ThawEffect DEF Armed, ThreadNow
  <2>4. Doomed => Doomed'
    BY <1>15, <1>0, ThawEffect, NoOpFields DEF Doomed, RollingBack, Dead, StepOK, StageOK,
       OpNow, AtNow, Ends
  <2> QED  BY <2>1, <2>2, <2>3, <2>4, ExposedFrame
<1>16. CASE ForgetAll
  <2>1. pc = "forgetAll" /\ op.kind = "release" /\ mine' = mine
    BY <1>16, <1>0, ForgetAllEffect DEF StepOK, worldVars
  <2>2. Doomed' \/ \A t \in Keys : ~Armed(t)'
    <3>1. op.todo = {} /\ op.ok => \A t \in Keys : ~IsOwned(t) /\ ~Armed(t)
      BY <1>0, <2>1 DEF ReleaseOK, Thawing
    <3>2. CASE \E t \in op.todo : OpNow(op.kind, op.todo \ {t}, op.changed, op.ok)
      BY <2>1, <3>2 DEF OpNow, Doomed
    <3>3. CASE Ends("retiring")
      BY <3>3 DEF Ends, Doomed
    <3>4. CASE op.todo = {} /\ op.ok /\ \A t \in {j \in Keys : ~IsOwned(j) /\ ~Armed(j)} : managed'[t] = NoManaged
      BY <3>1, <3>4 DEF Armed
    <3> QED  BY <1>16, <1>0, <3>2, <3>3, <3>4, ForgetAllEffect
  <2> QED  BY <2>1, <2>2 DEF Exposed
<1>17. CASE Prepare
  BY <1>17, <1>0, PrepareEffect DEF Exposed, Doomed, RollingBack, Dead, Armed, ThreadNow,
     ThreadGone, OpNow, AtNow, Ends, StepOK, Ask, worldVars, callVars
<1>18. CASE FreezeKnown
  <2>1. pc \notin {"forget", "failed"}
    BY <1>18, <1>0, EntryEffect DEF Starts
  <2>2. \A t \in Keys : mine'[t] = 1 => mine[t] = 1
    BY <1>18, <1>0, EntryEffect DEF Starts, worldVars, WorldTypes
  <2>3. \A t \in Keys : Armed(t)' => Armed(t)
    BY <1>18, <1>0, EntryEffect DEF Starts, Armed, ThreadNow
  <2>4. Doomed => Doomed'
    BY <1>18, <1>0, EntryEffect, NoOpFields DEF Starts, Doomed, RollingBack, Dead, StepOK,
       StageOK, OpNow, AtNow, Ends
  <2> QED  BY <2>1, <2>2, <2>3, <2>4, ExposedFrame
<1>19. CASE AdoptNew
  <2>1. pc \notin {"forget", "failed"}
    BY <1>19, <1>0, EntryEffect DEF Starts
  <2>2. \A t \in Keys : mine'[t] = 1 => mine[t] = 1
    BY <1>19, <1>0, EntryEffect DEF Starts, worldVars, WorldTypes
  <2>3. \A t \in Keys : Armed(t)' => Armed(t)
    BY <1>19, <1>0, EntryEffect DEF Starts, Armed, ThreadNow
  <2>4. Doomed => Doomed'
    BY <1>19, <1>0, EntryEffect, NoOpFields DEF Starts, Doomed, RollingBack, Dead, StepOK,
       StageOK, OpNow, AtNow, Ends
  <2> QED  BY <2>1, <2>2, <2>3, <2>4, ExposedFrame
<1>20. CASE ThawTarget
  <2>1. pc \notin {"forget", "failed"}
    BY <1>20, <1>0, EntryEffect DEF Starts
  <2>2. \A t \in Keys : mine'[t] = 1 => mine[t] = 1
    BY <1>20, <1>0, EntryEffect DEF Starts, worldVars, WorldTypes
  <2>3. \A t \in Keys : Armed(t)' => Armed(t)
    BY <1>20, <1>0, EntryEffect DEF Starts, Armed, ThreadNow
  <2>4. Doomed => Doomed'
    BY <1>20, <1>0, EntryEffect, NoOpFields DEF Starts, Doomed, RollingBack, Dead, StepOK,
       StageOK, OpNow, AtNow, Ends
  <2> QED  BY <2>1, <2>2, <2>3, <2>4, ExposedFrame
<1>21. CASE ReleaseTarget
  BY <1>21, <1>0, EntryEffect DEF Exposed, Doomed, RollingBack, Dead, Armed, ThreadNow,
     ThreadGone, OpNow, AtNow, Ends, StepOK, Ask, worldVars, callVars, Starts
<1>22. CASE \E t \in Keys : ThreadStarts(t)
  BY <1>22, <1>0 DEF Exposed, Doomed, RollingBack, Dead, Armed, ThreadNow, ThreadGone, OpNow,
     AtNow, Ends, StepOK, Ask, worldVars, callVars, ThreadStarts
<1>23. CASE \E t \in Keys : ThreadExits(t)
  BY <1>23, <1>0 DEF Exposed, Doomed, RollingBack, Dead, Armed, ThreadNow, ThreadGone, OpNow,
     AtNow, Ends, StepOK, Ask, worldVars, callVars, ThreadExits
<1>24. CASE \E t \in Keys : OtherSuspends(t)
  BY <1>24, <1>0 DEF Exposed, Doomed, RollingBack, Dead, Armed, ThreadNow, ThreadGone, OpNow,
     AtNow, Ends, StepOK, Ask, worldVars, callVars, OtherSuspends
<1>25. CASE \E t \in Keys : OtherResumes(t)
  BY <1>25, <1>0 DEF Exposed, Doomed, RollingBack, Dead, Armed, ThreadNow, ThreadGone, OpNow,
     AtNow, Ends, StepOK, Ask, worldVars, callVars, OtherResumes
<1>26. CASE Crash
  BY <1>26, <1>0 DEF Exposed, Doomed, RollingBack, Dead, Armed, ThreadNow, ThreadGone, OpNow,
     AtNow, Ends, StepOK, Ask, worldVars, callVars, Crash
<1>27. CASE Replay
  BY <1>27, <1>0, ReplayEffect DEF Exposed, Doomed, RollingBack, Dead, Armed, ThreadNow,
     ThreadGone, OpNow, AtNow, Ends, StepOK, Ask, worldVars, callVars
<1>28. CASE OtherLatches
  BY <1>28, <1>0 DEF Exposed, Doomed, RollingBack, Dead, Armed, ThreadNow, ThreadGone, OpNow,
     AtNow, Ends, StepOK, Ask, worldVars, callVars, OtherLatches
<1>29. CASE ServiceStep
  BY <1>29, <1>0 DEF Exposed, Doomed, RollingBack, Dead, Armed, ThreadNow, ThreadGone, OpNow,
     AtNow, Ends, StepOK, Ask, worldVars, callVars, ServiceStep
<1>30. CASE UNCHANGED threadVars
  BY <1>30 DEF threadVars, serviceVars, Exposed, Doomed, RollingBack, Dead, Armed, ThreadNow,
     ThreadGone, OpNow, AtNow, Ends, StepOK, Ask, worldVars, callVars
<1> QED  BY <1>1, <1>2, <1>3, <1>4, <1>5, <1>6, <1>7, <1>8, <1>9, <1>10, <1>11, <1>12, <1>13, <1>14,
   <1>15, <1>16, <1>17, <1>18, <1>19, <1>20, <1>21, <1>22, <1>23, <1>24, <1>25, <1>26, <1>27,
   <1>28, <1>29, <1>30, EachStep

\* The four places that send a command.
Sends ==
    \/ pc = "forget" /\ Submit(Forget(at.thread))
    \/ pc = "begin" /\ nextId \in Ids /\ Submit(Begin(nextId, at.thread, ThreadEdge(at.thread)))
    \/ pc = "commit" /\ Submit(Commit(at.id))
    \/ pc = "cancel" /\ Submit(Cancel(at.id))

LEMMA CallEnds == Granted \/ Denied => call' = NoCall
BY DEF Granted, Acknowledge, Denied, Abandon, serviceVars

LEMMA SendStep ==
    ASSUME IInv, [Next]_threadVars PROVE Sends \/ call # NoCall \/ call' = NoCall
<1>0. ControlTypes /\ ManagedTypes /\ WorldTypes /\ ThreadOK /\ OwnedOK /\ TodoOK /\ CallOK
  BY Parts
<1>1. CASE ForgetThread
  BY <1>1, <1>0, CallEnds, ForgetThreadEffect DEF Sends, Ask, serviceVars
<1>2. CASE BeginSuspension
  BY <1>2, <1>0, CallEnds, BeginSuspensionEffect DEF Sends, serviceVars
<1>3. CASE CancelSuspension
  BY <1>3, <1>0, CallEnds, CancelSuspensionEffect DEF Sends, Ask
<1>4. CASE CommitSuspension
  BY <1>4, <1>0, CallEnds, CommitSuspensionEffect DEF Sends, Ask
<1>5. CASE Crash \/ OtherLatches
  BY <1>5 DEF Crash, OtherLatches, Abandon, Latch
<1>6. CASE ServiceStep
  BY <1>6 DEF ServiceStep, ServiceActs, Land, LateLand, LateLoss, Called
<1>7. CASE \/ Prune \/ Capture \/ NextThread \/ SuspendOnce \/ Check \/ Compensate \/ SuspendFailed
           \/ ResumeSuspending \/ RollbackThreads \/ ResumeOwned \/ ThawThreads \/ ForgetAll
  BY <1>7 DEF Prune, Capture, NextThread, SuspendOnce, Check, Compensate, SuspendFailed,
     ResumeSuspending, RollbackThreads, ResumeOwned, ThawThreads, ForgetAll, serviceVars
<1>8. CASE \/ Worker \/ Replay \/ UNCHANGED threadVars
           \/ (\E t \in Keys : ThreadStarts(t) \/ ThreadExits(t) \/ OtherSuspends(t) \/ OtherResumes(t))
  BY <1>8 DEF Worker, Prepare, FreezeKnown, AdoptNew, ThawTarget, ReleaseTarget, Start, Replay,
     ThreadStarts, ThreadExits, OtherSuspends, OtherResumes, threadVars, serviceVars
<1> QED
  BY <1>1, <1>2, <1>3, <1>4, <1>5, <1>6, <1>7, <1>8 DEF Next, Proceed, Environment, Finished

\* A thread that is not believed to be owned is not held.
LEMMA NotHeld ==
    ASSUME WorldTypes, LifeOK, OwnedOK, ~Dead, NEW t \in Keys, ~IsOwned(t)
    PROVE  mine[t] = 0
BY DEF WorldTypes, LifeOK, OwnedOK

\* What a command makes of the journal records what is exposed.
LEMMA SendKeeps ==
    ASSUME IInv, Sends
    PROVE  \A J \in Futures' : OneRecord(J) /\ \A t \in Keys : Exposed(t) => Rec(J, t)
<1>0. /\ ControlTypes /\ ManagedTypes /\ WorldTypes /\ LifeOK /\ OwnedOK /\ ThreadOK
      /\ ServiceInv /\ StepOK /\ LedgerOK /\ RecordOK
  BY Parts
<1>1. pc \in {"forget", "begin", "commit", "cancel"} /\ ~Dead
  BY DEF Sends, Dead
<1>2. PICK k \in Keys : k = at.thread /\ managed[k] # NoManaged
  BY <1>0, <1>1 DEF ThreadOK, Threads, ThreadLabels, SuspendLabels
<1> DEFINE e == ThreadEdge(k)
<1>3. e \in Edge
  BY <1>0, <1>2, EdgeType
<1>4. ThreadEdge(at.thread) = e
  BY <1>2
<1> HIDE DEF e
<1>5. /\ Begin(nextId, k, e) \in Commands \/ nextId \notin Ids
      /\ (Commit(at.id) \in Commands /\ Cancel(at.id) \in Commands) \/ pc \notin {"commit", "cancel"}
      /\ Forget(k) \in Commands
  BY <1>0, <1>3, CommandTypes DEF StepOK
<1>6. call = NoCall /\ ~latched
  BY <1>2, <1>4, <1>5, SubmitCall DEF Sends
<1>7. OneRecord(journal) /\ \A t \in Keys : Exposed(t) => Rec(journal, t)
  BY <1>0 DEF RecordOK, Futures
<1>8. /\ journal.pending = IF Open THEN {[id |-> at.id, key |-> k, edge |-> e]} ELSE {}
      /\ \A t \in Keys : journal.committed[t] # << >> <=> Kept(t)
  BY <1>0, <1>2, <1>4, <1>6 DEF LedgerOK
<1>9. ~Landed
  BY <1>6 DEF Landed, Called
<1>10. \A c \in Commands : Submit(c) => Futures' = {journal, Apply(journal, c)}
  BY <1>0, FuturesOfSubmit
<1>11. CASE pc = "forget" /\ Submit(Forget(k))
  <2>1. Futures' = {journal, ApplyForget(journal, k)}
    BY <1>5, <1>10, <1>11, Applies
  <2>2. ~Open /\ ~Exposed(k)
    <3>1. mine[k] = 0
      BY <1>0, <1>1, <1>2, <1>11, NotHeld DEF ThreadOK
    <3> QED  BY <1>2, <1>11, <3>1 DEF Open, IntentLabels, Exposed
  <2>3. /\ OneRecord(ApplyForget(journal, k)) /\ journal.pending = {}
        /\ \A j \in Keys \ {k} : ApplyForget(journal, k).committed[j] = journal.committed[j]
    BY <1>7, <1>8, <2>2, OneForget
  <2>4. \A t \in Keys : Exposed(t) => Rec(ApplyForget(journal, k), t)
    BY <1>7, <2>2, <2>3 DEF Rec
  <2> QED  BY <1>7, <2>1, <2>3, <2>4
<1>12. CASE pc = "begin" /\ nextId \in Ids /\ Submit(Begin(nextId, k, e))
  <2>1. Futures' = {journal, ApplyBegin(journal, nextId, k, e)}
    BY <1>5, <1>10, <1>12, Applies
  <2>2. ~Open /\ ~Kept(k)
    BY <1>0, <1>2, <1>9, <1>12 DEF Open, IntentLabels, Kept, ThreadOK
  <2>3. /\ OneRecord(ApplyBegin(journal, nextId, k, e)) /\ journal.pending = {}
        /\ ApplyBegin(journal, nextId, k, e).committed = journal.committed
    BY <1>3, <1>7, <1>8, <1>12, <2>2, OneBegin
  <2>4. \A t \in Keys : Exposed(t) => Rec(ApplyBegin(journal, nextId, k, e), t)
    BY <1>7, <2>3 DEF Rec
  <2> QED  BY <1>7, <2>1, <2>3, <2>4
<1>13. CASE pc = "commit" /\ Submit(Commit(at.id))
  <2>1. Futures' = {journal, ApplyCommit(journal, at.id)} /\ at.id \in Ids
    BY <1>0, <1>5, <1>10, <1>13, Applies DEF StepOK
  <2>2. journal.pending = {[id |-> at.id, key |-> k, edge |-> e]}
    BY <1>8, <1>9, <1>13 DEF Open, IntentLabels
  <2>3. /\ OneRecord(ApplyCommit(journal, at.id)) /\ ApplyCommit(journal, at.id).committed[k] = <<e>>
        /\ \A j \in Keys \ {k} : ApplyCommit(journal, at.id).committed[j] = journal.committed[j]
    BY <1>3, <1>7, <2>1, <2>2, OneCommit
  <2>4. ASSUME NEW t \in Keys, Exposed(t) PROVE Rec(ApplyCommit(journal, at.id), t)
    <3>1. CASE t = k
      <4>1. <<e>> # << >>
        OBVIOUS
      <4> QED  BY <2>3, <3>1, <4>1 DEF Rec
    <3>2. CASE t # k
      <4>1. journal.committed[t] # << >>
        BY <1>7, <2>2, <2>4, <3>2 DEF Rec
      <4> QED  BY <2>3, <3>2, <4>1 DEF Rec
    <3> QED  BY <3>1, <3>2
  <2> QED  BY <1>7, <2>1, <2>3, <2>4
<1>14. CASE pc = "cancel" /\ Submit(Cancel(at.id))
  <2>1. Futures' = {journal, ApplyCancel(journal, at.id)} /\ at.id \in Ids
    BY <1>0, <1>5, <1>10, <1>14, Applies DEF StepOK
  <2>2. journal.pending = {[id |-> at.id, key |-> k, edge |-> e]}
    BY <1>8, <1>9, <1>14 DEF Open, IntentLabels
  <2>3. ~Exposed(k)
    <3>1. mine[k] = 0 /\ ~Armed(k)
      BY <1>0, <1>1, <1>2, <1>14, NotHeld DEF ThreadOK
    <3> QED  BY <3>1 DEF Exposed
  <2>4. OneRecord(ApplyCancel(journal, at.id)) /\ ApplyCancel(journal, at.id).committed = journal.committed
    BY <1>3, <1>7, <2>1, <2>2, OneCancel
  <2>5. \A t \in Keys : Exposed(t) => Rec(ApplyCancel(journal, at.id), t)
    BY <1>7, <2>2, <2>3, <2>4 DEF Rec
  <2> QED  BY <1>7, <2>1, <2>4, <2>5
<1> QED  BY <1>2, <1>4, <1>11, <1>12, <1>13, <1>14 DEF Sends

LEMMA NoSend ==
    ASSUME call # NoCall \/ call' = NoCall PROVE \A c \in Commands : ~Submit(c)
BY SubmitCall

LEMMA RecordFrame ==
    ASSUME RecordOK, Futures' \subseteq Futures, \A t \in Keys : Exposed(t)' => Exposed(t)
    PROVE  RecordOK'
BY DEF RecordOK

\* The thread at hand is exposed by a step of the target, and has a record.
LEMMA RecordMore ==
    ASSUME RecordOK, Futures = {journal}, Futures' = {journal}, NEW k \in Keys, Rec(journal, k),
           \A t \in Keys \ {k} : Exposed(t)' => Exposed(t)
    PROVE  RecordOK'
<1>1. OneRecord(journal) /\ \A t \in Keys : Exposed(t) => Rec(journal, t)
  BY DEF RecordOK
<1>2. \A t \in Keys : Exposed(t)' => Rec(journal, t)
  BY <1>1
<1> QED  BY <1>1, <1>2 DEF RecordOK

\* Whatever the helper finds records each thread that is suspended, or may be.
LEMMA RecordStep == IInv /\ [Next]_threadVars => RecordOK'
<1> SUFFICES ASSUME IInv, [Next]_threadVars PROVE RecordOK'
  OBVIOUS
<1>0. /\ ControlTypes /\ ManagedTypes /\ WorldTypes /\ ServiceInv /\ StepOK /\ StageOK /\ OwnedOK
      /\ ThreadOK /\ CallOK /\ LedgerOK /\ RecordOK
  BY Parts
<1>1. CASE SuspendOnce
  <2>1. /\ pc = "suspendOnce" /\ call = NoCall /\ ~Landed
        /\ UNCHANGED <<serviceVars, op, stage>>
    BY <1>1, <1>0, SuspendOnceEffect, NotLanded
  <2>2. PICK k \in Keys : k = at.thread /\ managed[k] # NoManaged
    BY <1>1, <1>0, SuspendOnceEffect DEF ThreadOK, ThreadLabels, SuspendLabels, Threads
  <2>3. \A t \in Keys \ {k} : mine'[t] = mine[t] /\ managed'[t] = managed[t]
    BY <1>1, <1>0, <2>2, SuspendOnceEffect DEF WorldTypes, ThreadNow
  <2>4. ~Doomed
    BY <1>0, <2>1 DEF Doomed, Dead, RollingBack, StageOK, StepOK, SuspendLabels
  <2>5. \A t \in Keys \ {k} : Exposed(t)' => Exposed(t)
    BY <2>1, <2>3, <2>4 DEF Exposed, Armed
  <2>6. Futures' = Futures
    BY <2>1 DEF Futures, Called, serviceVars
  <2>7. CASE Armed(k)
    <3>1. Exposed(k)
      BY <2>1, <2>4, <2>7 DEF Exposed
    <3> QED  BY <1>0, <2>5, <2>6, <3>1, RecordFrame
  <2>8. CASE ~Armed(k)
    <3>1. ~latched /\ Open
      BY <1>0, <2>1, <2>2, <2>8, IdsAssumption DEF CallOK, ThreadOK, Open
    <3>2. Futures = {journal}
      BY <1>0, <2>1, <3>1 DEF ServiceInv, Futures, Called
    <3>3. journal.pending = {[id |-> at.id, key |-> k, edge |-> ThreadEdge(k)]}
      BY <1>0, <2>2, <3>1 DEF LedgerOK
    <3>4. Rec(journal, k)
      BY <3>3 DEF Rec
    <3> QED  BY <1>0, <2>5, <2>6, <3>2, <3>4, RecordMore
  <2> QED  BY <2>7, <2>8
<1>2. CASE CommitSuspension /\ Granted
  <2>1. pc = "commit" /\ Landed /\ call # NoCall /\ call' = NoCall /\ UNCHANGED <<journal, latched, limbo>>
    BY <1>2, <1>0, CommitSuspensionEffect DEF Granted, Acknowledge, Landed, Called
  <2>2. PICK k \in Keys : k = at.thread
    BY <1>2, <1>0, CommitSuspensionEffect
  <2>3. ~Ask(Commit(at.id)) /\ UNCHANGED worldVars
    <3>1. Commit(at.id) \in Commands
      BY <1>0, <2>1, CommandTypes DEF StepOK
    <3>2. ~Ask(Commit(at.id))
      BY <2>1, <3>1, SubmitCall DEF Ask
    <3> QED  BY <1>2, <1>0, <3>2, CommitSuspensionEffect
  <2>4. \A t \in Keys \ {k} : mine'[t] = mine[t] /\ managed'[t] = managed[t]
    BY <1>2, <1>0, <2>2, <2>3, CommitSuspensionEffect DEF ThreadNow, worldVars
  <2>5. ~Doomed
    BY <1>0, <2>1 DEF Doomed, Dead, RollingBack, StageOK, StepOK, SuspendLabels
  <2>6. \A t \in Keys \ {k} : Exposed(t)' => Exposed(t)
    BY <2>1, <2>4, <2>5 DEF Exposed, Armed
  <2>7. ~latched /\ Futures = {journal} /\ Futures' = {journal}
    BY <1>0, <2>1 DEF ServiceInv, Futures, Called, Landed
  <2>8. Rec(journal, k)
    BY <1>0, <2>1, <2>2, <2>7 DEF LedgerOK, Kept, Rec
  <2> QED  BY <1>0, <2>6, <2>7, <2>8, RecordMore
<1>3. CASE ~SuspendOnce /\ ~(CommitSuspension /\ Granted)
  <2>1. \A t \in Keys : Exposed(t)' => Exposed(t)
    BY <1>3, ExposedStep
  <2>2. CASE Sends
    <3>1. \A J \in Futures' : OneRecord(J) /\ \A t \in Keys : Exposed(t) => Rec(J, t)
      BY <2>2, SendKeeps
    <3>2. \A J \in Futures' : OneRecord(J) /\ \A t \in Keys : Exposed(t)' => Rec(J, t)
      BY <2>1, <3>1
    <3> QED  BY <3>2 DEF RecordOK
  <2>3. CASE ~Sends
    <3>1. Futures' \subseteq Futures
      BY <1>0, <2>3, SendStep, NoSend, ServiceMoves, FuturesShrink
    <3> QED  BY <1>0, <2>1, <3>1, RecordFrame
  <2> QED  BY <2>2, <2>3
<1> QED  BY <1>1, <1>2, <1>3


--------------------------------------------------------------------------------
(***************************************************************************)
(* The invariant holds throughout, and what follows from it.               *)
(***************************************************************************)
\* A worker without a target manages no thread, and its journal is empty.
LEMMA InitInv == Init => IInv
<1> SUFFICES ASSUME Init PROVE IInv
  OBVIOUS
<1>1. ServiceInv /\ Futures = {EmptyJournal}
  BY ServiceInit_Inv DEF Init
<1>2. /\ pc = "idle" /\ op = NoOp /\ stage = "none" /\ nextId = 1 /\ faults = MaxFaults
      /\ call = NoCall /\ ~latched /\ journal = EmptyJournal
      /\ \A t \in Keys : managed[t] = NoManaged /\ mine[t] = 0
      /\ \A t \in Keys : life[t] = "unborn" => others[t] = 0
      /\ life \in [Keys -> {"unborn", "alive"}]
  BY DEF Init, ServiceInit
<1>3. TypeOK
  <2>1. at \in AtTypes
    <3>1. (CHOOSE t \in Keys : TRUE) \in Keys
      BY KeysAssumption
    <3>2. 0 \in 0..(MaxOthers + 1)
      BY CountAssumption
    <3> QED  BY <3>1, <3>2 DEF Init, At, AtTypes, Places
  <2>2. ControlTypes
    BY <1>2, <2>1, NoOpFields DEF ControlTypes
  <2>3. ManagedTypes
    BY DEF Init, ManagedTypes
  <2>4. WorldTypes
    BY DEF Init, WorldTypes
  <2>5. BoundTypes
    BY <1>2, FaultsAssumption DEF BoundTypes
  <2> QED  BY <1>1, <2>2, <2>3, <2>4, <2>5, TypeParts DEF ServiceInv
<1>4. /\ pc \notin BusyLabels /\ pc \notin ThreadLabels /\ pc \notin SuspendLabels
      /\ pc \notin IntentLabels /\ ~Dead
  BY <1>2 DEF BusyLabels, ThreadLabels, SuspendLabels, IntentLabels, Dead
<1>5. Threads = {} /\ \A t \in Keys : ~IsOwned(t) /\ ~Armed(t)
  BY <1>2 DEF Threads, IsOwned, Armed
<1>6. StepOK
  BY <1>2, <1>4 DEF StepOK
<1>7. StageOK
  BY <1>2, NoOpFields DEF StageOK
<1>8. LifeOK /\ OwnedOK
  BY <1>2, <1>5 DEF LifeOK, OwnedOK
<1>9. TodoOK /\ ThreadOK /\ ReleaseOK
  <2>1. ~Suspending /\ ~RollingBack /\ ~Thawing
    BY <1>2, <1>4 DEF Suspending, RollingBack, Thawing
  <2> QED  BY <1>2, <1>4, <2>1, NoOpFields DEF TodoOK, ThreadOK, ReleaseOK
<1>10. CallOK
  BY <1>2, <1>4 DEF CallOK
<1>11. LedgerOK
  BY <1>2, <1>5 DEF LedgerOK, EmptyJournal, Open, Kept, Landed, Called, IntentLabels
<1>12. RecordOK
  <2>1. OneRecord(EmptyJournal)
    BY DEF OneRecord, EmptyJournal, JournalType
  <2> QED  BY <1>1, <1>2, <1>5, <2>1 DEF RecordOK, Exposed
<1> QED
  BY <1>1, <1>3, <1>6, <1>7, <1>8, <1>9, <1>10, <1>11, <1>12 DEF IInv

LEMMA StepInv == IInv /\ [Next]_threadVars => IInv'
<1> SUFFICES ASSUME IInv, [Next]_threadVars PROVE IInv'
  OBVIOUS
<1>1. ServiceInv' /\ ServiceTypeOK'
  BY ServiceKept
<1>2. TypeOK'
  <2>1. (ServiceTypeOK /\ ControlTypes /\ ManagedTypes /\ WorldTypes /\ BoundTypes => TypeOK)'
    BY TypeParts, PTL
  <2> QED  BY <1>1, <2>1, ControlStep, ManagedStep, WorldStep, BoundStep
<1>3. StepOK' /\ StageOK' /\ LifeOK' /\ OwnedOK'
  BY StepStep, StageStep, LifeStep, OwnedStep
<1>4. TodoOK' /\ ThreadOK' /\ ReleaseOK'
  BY TodoStep, ThreadStep, ReleaseStep
<1>5. CallOK' /\ LedgerOK' /\ RecordOK'
  BY CallStep, LedgerStep, RecordStep
<1> QED  BY <1>1, <1>2, <1>3, <1>4, <1>5 DEF IInv

LEMMA Invariance == Spec => []IInv
BY InitInv, StepInv, PTL DEF Spec

\* Whenever Winderust dies, between any two calls to Windows or to the service, a thread
\* that it keeps suspended is one that the helper's journal lists (suspend_thread records
\* its intent before the first suspension, and each later cycle relies on that record).
THEOREM ResumableAnywhere == Spec => []Recoverable
<1>1. IInv => Recoverable
  <2> SUFFICES ASSUME IInv, NEW t \in Keys, mine[t] = 1 PROVE Recorded(t)
    BY DEF Recoverable
  <2>1. journal \in Futures /\ Exposed(t)
    BY DEF Futures, Exposed
  <2>2. OneRecord(journal) /\ Rec(journal, t)
    BY <2>1 DEF IInv, RecordOK
  <2> QED  BY <2>2, RecordedRec DEF Recorded
<1> QED  BY <1>1, Invariance, PTL

\* Every variable has its type, and Winderust adds one at most to a thread's count; between
\* calls the target owns exactly the increments that are really held, and while the service
\* answers the journal holds exactly the armed threads; a release that reports success
\* leaves neither increment nor record (freeze, adopt, thaw and release of
\* ThreadFallbackTarget, with their failures).
THEOREM BooksInOrder == Spec => []Consistent
<1>1. IInv => OwnedAgrees
  BY DEF IInv, OwnedOK, OwnedAgrees, IsOwned, Owned, Threads, Dead
<1>2. ASSUME IInv, NEW t \in Keys, ~latched, pc = "idle" \/ Dead
      PROVE  Recorded(t) <=> Armed(t)
  <2>0. CallOK /\ LedgerOK /\ RecordOK
    BY <1>2, Parts
  <2>1. ~Landed /\ pc = "idle"
    BY <1>2, <2>0, NotLanded DEF CallOK, Dead
  <2>2. ~Open /\ (Kept(t) <=> Armed(t))
    BY <2>1 DEF Open, Kept, IntentLabels
  <2>3. journal.pending = {} /\ (journal.committed[t] # << >> <=> Armed(t))
    BY <1>2, <2>0, <2>2 DEF LedgerOK
  <2>4. OneRecord(journal) /\ (Rec(journal, t) <=> Armed(t))
    BY <2>0, <2>3 DEF RecordOK, Futures, Rec
  <2> QED  BY <2>4, RecordedRec DEF Recorded
<1>3. IInv => LedgerAgrees
  BY <1>2 DEF LedgerAgrees, Armed, Threads
<1>4. IInv => ReleaseIsComplete
  <2> SUFFICES ASSUME IInv PROVE ReleaseIsComplete
    OBVIOUS
  <2>1. StageOK
    BY Parts
  <2>2. ASSUME stage = "none", NEW t \in Keys PROVE mine[t] = 0 /\ (latched \/ ~Recorded(t))
    <3>1. /\ pc = "idle" \/ Dead
          /\ managed[t] = NoManaged /\ mine[t] = 0
      BY <2>1, <2>2 DEF StageOK
    <3> QED  BY <1>2, <3>1 DEF Armed
  <2> QED  BY <2>1, <2>2 DEF StageOK, ReleaseIsComplete
<1>5. IInv => Consistent
  BY <1>1, <1>3, <1>4 DEF IInv, Consistent
<1> QED  BY <1>5, Invariance, PTL

\* As long as it lives, Winderust takes back no suspension that another program holds:
\* each ResumeThread of compensate_conflicting_suspend, thaw, release and the rollback
\* finds an increment of its own (the count it acts on does not say whose it is).
THEOREM OthersUntouched == Spec => OthersKept
<1> DEFINE Holds == \A t \in Keys :
          others'[t] < others[t] /\ life'[t] = "alive" /\ pc # "dead" => pc' = pc
<1>1. IInv /\ [Next]_threadVars => Holds
  <2> SUFFICES ASSUME IInv, [Next]_threadVars, NEW t \in Keys,
                      others'[t] < others[t], life'[t] = "alive", pc # "dead"
               PROVE  pc' = pc
    OBVIOUS
  <2>0. /\ ControlTypes /\ ManagedTypes /\ WorldTypes /\ ThreadOK /\ OwnedOK /\ StepOK
    BY Parts
  <2>1. ~UNCHANGED others
    BY <2>0 DEF WorldTypes
  <2>2. CASE SuspendOnce
    BY <2>0, <2>1, <2>2, SuspendOnceEffect
  <2>3. CASE Compensate
    BY <2>0, <2>1, <2>3, CompensateEffect
  <2>4. CASE ResumeOwned
    BY <2>0, <2>1, <2>4, ResumeOwnedEffect
  <2>5. CASE \/ ForgetThread \/ Prune \/ Capture \/ NextThread \/ BeginSuspension
             \/ CancelSuspension \/ CommitSuspension \/ Check \/ SuspendFailed
             \/ ResumeSuspending \/ RollbackThreads \/ ThawThreads \/ ForgetAll
    BY <2>1, <2>5 DEF ForgetThread, Prune, Capture, NextThread, BeginSuspension,
       CancelSuspension, CommitSuspension, Check, SuspendFailed, ResumeSuspending,
       RollbackThreads, ThawThreads, ForgetAll, Ask, worldVars
  <2>6. CASE Worker
    BY <2>1, <2>6 DEF Worker, Prepare, FreezeKnown, AdoptNew, ThawTarget, ReleaseTarget, Start,
       worldVars
  <2>7. CASE \E j \in Keys : ThreadStarts(j) \/ OtherSuspends(j) \/ OtherResumes(j)
    BY <2>7 DEF ThreadStarts, OtherSuspends, OtherResumes, callVars
  <2>8. CASE \E j \in Keys : ThreadExits(j)
    <3>1. PICK j \in Keys : ThreadExits(j)
      BY <2>8
    <3>2. j # t
      BY <3>1, <2>0 DEF ThreadExits, WorldTypes
    <3> QED  BY <3>1, <3>2, <2>0 DEF ThreadExits, WorldTypes
  <2>9. CASE Crash \/ OtherLatches \/ ServiceStep
    BY <2>1, <2>9 DEF Crash, OtherLatches, ServiceStep, worldVars
  <2>10. CASE Replay
    BY <2>10 DEF Replay
  <2>11. CASE UNCHANGED threadVars
    BY <2>1, <2>11 DEF threadVars, worldVars
  <2> QED
    BY <2>2, <2>3, <2>4, <2>5, <2>6, <2>7, <2>8, <2>9, <2>10, <2>11
       DEF Next, Proceed, Environment, Finished
<1>2. IInv /\ [Next]_threadVars => [Holds]_threadVars
  BY <1>1
<1> QED  BY <1>2, Invariance, PTL DEF Spec, OthersKept

\* The fallback, its threads and crashes move the recovery service only as the service
\* allows: what is proved of the service holds of it under this client.
THEOREM UsesService == Spec => ServiceSpec
<1>1. Init => ServiceInit
  BY DEF Init
<1> QED  BY <1>1, ServiceMoves, Invariance, PTL DEF Spec, ServiceSpec
================================================================================
