----------------------------- MODULE SelfPowerProofs -----------------------------
(***************************************************************************)
(* Proofs about SelfPower, for any number of failures, requests and        *)
(* changes made by other programs.                                         *)
(***************************************************************************)
EXTENDS SelfPower, TLAPS

--------------------------------------------------------------------------------
(***************************************************************************)
(* The inductive invariant.                                                *)
(***************************************************************************)
\* Steps behind the query, where the state that was found is held.
Moves == {"power", "priority", "verify", "undo", "observe"}

Moving == call.at \in Moves

\* Who has the mutex has a reconciliation in progress, and nobody else.
LockOK ==
    /\ lock = "free" <=> call = NoCall
    /\ lock = "tray" <=> tray = "reconciling"
    /\ lock = "worker" <=> worker \in {"retrying", "restoring"}

HeldType == [kind : {"held"}, baseline : States, expected : States, preserve : BOOLEAN]

\* A call that moves something has what it found, what it wants, and the former in its hold.
CallOK ==
    /\ \/ call \in {NoCall, [at |-> "query"]}
       \/ call \in [at : Moves, seen : States, desired : States, undo : SUBSET Halves]
    /\ Moving =>
          /\ held # NoHeld /\ ~held.preserve
          /\ call.desired = IF hidden THEN Enabled(held.baseline) ELSE held.baseline

\* Between the moves, without a failure left to resolve, what is expected is what the hidden
\* window asked for.
ExpectedOK ==
    held # NoHeld /\ ~held.preserve /\ ~Moving => held.expected = Enabled(held.baseline)

\* Where the state differs from what is expected, each half is somebody else's, unless somebody
\* left it as Winderust had set it.
BaselineOK ==
    ~missed => \A h \in Halves \ ours :
        /\ held = NoHeld => current[h] = theirs[h]
        /\ held # NoHeld /\ (Moving \/ held.preserve) => held.baseline[h] = theirs[h]
        /\ held # NoHeld /\ ~Moving /\ ~held.preserve =>
              IF current = held.expected THEN held.baseline[h] = theirs[h]
              ELSE current[h] = theirs[h]

\* The controller ends with nothing held, and what is reported is how it ended.
EndOK ==
    /\ worker = "restoring" => ~hidden
    /\ ended => held = NoHeld /\ lock = "free" /\ worker \in {"restored", "gone"}
    /\ worker = "restored" => ended
    /\ completion # "none" => worker = "gone"
    /\ completion = "restored" => ended
    /\ result = "restored" => completion = "restored"

\* Safe whatever other programs change.
Control == TypeOK /\ LockOK /\ CallOK /\ ExpectedOK /\ EndOK

IInv == Control /\ BaselineOK

--------------------------------------------------------------------------------

\* One step of the reconciliation under way.
Locked ==
    /\ lock \in {"tray", "worker"}
    /\ UNCHANGED <<stopped, newer, wanted, completion, closerVars, ghostVars>>

\* The steps, one by one.
LEMMA NextCases ==
    [Next]_vars =>
        \/ (Locked /\ Query) \/ (Locked /\ SetPower) \/ (Locked /\ SetPriority)
        \/ (Locked /\ Verify) \/ (Locked /\ UndoHalf) \/ (Locked /\ Observe)
        \/ Request \/ SetHiddenMode \/ Tell \/ Look \/ Retry \/ Wait \/ TimesOut \/ Leave \/ Send
        \/ Stop \/ Receive \/ DeadlinePasses \/ SomebodySets \/ UNCHANGED vars
BY DEF Next, TrayStep, WorkerStep, Reconcile, ReconcileStep, Locked

\* Windows takes over one half.
LEMMA PutType ==
    ASSUME NEW c \in States, NEW s \in States, NEW half \in Halves
    PROVE  [c EXCEPT ![half] = s[half]] \in States
<1>1. CASE half = "power"
  BY <1>1 DEF States
<1>2. CASE half = "priority"
  BY <1>2 DEF States
<1> QED  BY <1>1, <1>2 DEF Halves

LEMMA EnabledType == ASSUME NEW b \in States PROVE Enabled(b) \in States
BY DEF Enabled, States, Powers

\* A state is its two halves.
LEMMA HalvesType ==
    ASSUME NEW s, s = [h \in Halves |-> s[h]], s["power"] \in Powers,
           s["priority"] \in {"normal", "high", "idle"}
    PROVE  s \in States
<1>1. s = [power |-> s["power"], priority |-> s["priority"]]
  BY DEF Halves
<1> QED  BY <1>1 DEF States

\* A reconciliation ends.
Ends(ok) ==
    /\ lock' = "free" /\ call' = NoCall /\ retry' \in {"none", "later"}
    /\ \/ lock = "tray" /\ tray' = "tell" /\ UNCHANGED <<ended, worker, timed>>
       \/ /\ lock = "worker" /\ worker = "retrying" /\ worker' = "settled" /\ timed' \in BOOLEAN
          /\ UNCHANGED <<ended, tray>>
       \/ /\ lock = "worker" /\ worker = "restoring"
          /\ worker' = (IF ok THEN "restored" ELSE "failed") /\ ended' = ok
          /\ UNCHANGED <<timed, tray>>

LEMMA ContinueEnds ==
    ASSUME LockOK, lock \in {"tray", "worker"}
    PROVE  (Succeeds => Ends(TRUE)) /\ (Fails => Ends(FALSE))
<1> SUFFICES ASSUME NEW ok \in BOOLEAN, NEW r \in {"none", "later"}, Continue(ok, r)
             PROVE  Ends(ok)
  BY DEF Succeeds, Fails
<1>1. CASE lock = "tray"
  BY <1>1 DEF Continue, Ends
<1>2. CASE lock = "worker" /\ worker = "retrying"
  BY <1>2 DEF Continue, Ends
<1>3. CASE lock = "worker" /\ worker = "restoring"
  BY <1>3 DEF Continue, Ends
<1> QED  BY <1>1, <1>2, <1>3 DEF LockOK

\* A call that has not begun, and the kinds of step.
LEMMA CallKinds ==
    ASSUME CallOK
    PROVE  /\ call.at \in {"none", "query"} \cup Moves
           /\ call = NoCall <=> call.at = "none"
           /\ call.at = "query" => call = [at |-> "query"]
           /\ Moving <=> call \in [at : Moves, seen : States, desired : States, undo : SUBSET Halves]
BY DEF CallOK, NoCall, Moving, Moves


\* What a step of a reconciliation does to the mutex.
LEMMA ReconcileMoves ==
    ASSUME LockOK, CallOK, Locked
    PROVE  /\ Query => Ends(TRUE) \/ Ends(FALSE) \/ (call'.at = "power" /\ Same)
           /\ Verify => Ends(TRUE) \/ Ends(FALSE) \/ (call'.at = "undo" /\ Same)
           /\ Observe => Ends(FALSE)
           /\ SetPower => call'.at \in {"priority", "observe"} /\ Same
           /\ SetPriority => call'.at \in {"verify", "undo"} /\ Same
           /\ UndoHalf => call'.at \in {"undo", "observe"} /\ Same
<1>1. Query => Succeeds \/ Fails \/ (call'.at = "power" /\ Same)
  <2> SUFFICES ASSUME Query, ~Succeeds, ~Fails PROVE call'.at = "power" /\ Same
    OBVIOUS
  <2>1. Same
    BY DEF Query
  <2>2. \E d : call' = [at |-> "power", seen |-> current, desired |-> d, undo |-> {}]
    BY DEF Query
  <2> QED  BY <2>1, <2>2
<1>2. Verify => Succeeds \/ Fails \/ (call'.at = "undo" /\ Same)
  BY CallKinds DEF Verify, Undo, Moving, Moves
<1>3. Observe => Fails
  BY DEF Observe
<1>4. SetPower => call'.at \in {"priority", "observe"} /\ Same
  BY CallKinds DEF SetPower, Goto, Moving, Moves
<1>5. SetPriority => call'.at \in {"verify", "undo"} /\ Same
  BY CallKinds DEF SetPriority, Goto, Undo, Moving, Moves
<1>6. UndoHalf => call'.at \in {"undo", "observe"} /\ Same
  BY CallKinds DEF UndoHalf, Goto, Moving, Moves
<1>7. (Succeeds => Ends(TRUE)) /\ (Fails => Ends(FALSE))
  BY ContinueEnds DEF Locked
<1> QED  BY <1>1, <1>2, <1>3, <1>4, <1>5, <1>6, <1>7

\* A move is under way with the mutex held; an end frees it.
LEMMA LockMoves ==
    ASSUME LockOK, CallOK, Locked,
           Query \/ SetPower \/ SetPriority \/ Verify \/ UndoHalf \/ Observe
    PROVE  Ends(TRUE) \/ Ends(FALSE) \/ (call' # NoCall /\ Same)
<1>1. call'.at \in {"power", "priority", "verify", "undo", "observe"} => call' # NoCall
  BY DEF NoCall
<1>2. CASE Query
  BY <1>1, <1>2, ReconcileMoves
<1>3. CASE Verify
  BY <1>1, <1>3, ReconcileMoves
<1>4. CASE Observe
  BY <1>1, <1>4, ReconcileMoves
<1>5. CASE SetPower
  BY <1>1, <1>5, ReconcileMoves
<1>6. CASE SetPriority
  BY <1>1, <1>6, ReconcileMoves
<1>7. CASE UndoHalf
  BY <1>1, <1>7, ReconcileMoves
<1> QED  BY <1>2, <1>3, <1>4, <1>5, <1>6, <1>7

\* The mutex is free after the end, and taken until then.
LEMMA EndFrees == ASSUME LockOK, lock \in {"tray", "worker"}, Ends(TRUE) \/ Ends(FALSE)  PROVE LockOK'
<1>1. lock' = "free" /\ call' = NoCall /\ tray' # "reconciling" /\ worker' \notin {"retrying", "restoring"}
  BY DEF LockOK, Ends
<1> QED  BY <1>1 DEF LockOK

LEMMA MoveHolds == ASSUME LockOK, lock # "free", call' # NoCall, Same  PROVE LockOK'
BY DEF LockOK, Same

\* The mutex is held by one reconciliation at a time.
LEMMA LockStep ==
    TypeOK /\ LockOK /\ CallOK /\ [Next]_vars => LockOK'
<1> SUFFICES ASSUME TypeOK /\ LockOK /\ CallOK, [Next]_vars PROVE LockOK'
  OBVIOUS
<1>1. CASE Locked /\ Query
  <2>1. Ends(TRUE) \/ Ends(FALSE) \/ (call' # NoCall /\ Same)
    BY <1>1, LockMoves
  <2>2. lock \in {"tray", "worker"}
    BY <1>1 DEF Locked
  <2> QED  BY <2>1, <2>2, EndFrees, MoveHolds
<1>2. CASE Locked /\ SetPower
  <2>1. Ends(TRUE) \/ Ends(FALSE) \/ (call' # NoCall /\ Same)
    BY <1>2, LockMoves
  <2>2. lock \in {"tray", "worker"}
    BY <1>2 DEF Locked
  <2> QED  BY <2>1, <2>2, EndFrees, MoveHolds
<1>3. CASE Locked /\ SetPriority
  <2>1. Ends(TRUE) \/ Ends(FALSE) \/ (call' # NoCall /\ Same)
    BY <1>3, LockMoves
  <2>2. lock \in {"tray", "worker"}
    BY <1>3 DEF Locked
  <2> QED  BY <2>1, <2>2, EndFrees, MoveHolds
<1>4. CASE Locked /\ Verify
  <2>1. Ends(TRUE) \/ Ends(FALSE) \/ (call' # NoCall /\ Same)
    BY <1>4, LockMoves
  <2>2. lock \in {"tray", "worker"}
    BY <1>4 DEF Locked
  <2> QED  BY <2>1, <2>2, EndFrees, MoveHolds
<1>5. CASE Locked /\ UndoHalf
  <2>1. Ends(TRUE) \/ Ends(FALSE) \/ (call' # NoCall /\ Same)
    BY <1>5, LockMoves
  <2>2. lock \in {"tray", "worker"}
    BY <1>5 DEF Locked
  <2> QED  BY <2>1, <2>2, EndFrees, MoveHolds
<1>6. CASE Locked /\ Observe
  <2>1. Ends(TRUE) \/ Ends(FALSE) \/ (call' # NoCall /\ Same)
    BY <1>6, LockMoves
  <2>2. lock \in {"tray", "worker"}
    BY <1>6 DEF Locked
  <2> QED  BY <2>1, <2>2, EndFrees, MoveHolds
<1>7. CASE Request
  BY <1>7 DEF TypeOK, LockOK, CallOK, NoCall, Moving, Moves, controllerVars, requestVars,
     workerVars, closerVars, ghostVars, Goto, Undo, Same, Enter, Idle, Notify, Request
<1>8. CASE SetHiddenMode
  BY <1>8 DEF TypeOK, LockOK, CallOK, NoCall, Moving, Moves, controllerVars, requestVars,
     workerVars, closerVars, ghostVars, Goto, Undo, Same, Enter, Idle, Notify, SetHiddenMode
<1>9. CASE Tell
  BY <1>9 DEF TypeOK, LockOK, CallOK, NoCall, Moving, Moves, controllerVars, requestVars,
     workerVars, closerVars, ghostVars, Goto, Undo, Same, Enter, Idle, Notify, Tell
<1>10. CASE Look
  BY <1>10 DEF TypeOK, LockOK, CallOK, NoCall, Moving, Moves, controllerVars, requestVars,
     workerVars, closerVars, ghostVars, Goto, Undo, Same, Enter, Idle, Notify, Look
<1>11. CASE Retry
  BY <1>11 DEF TypeOK, LockOK, CallOK, NoCall, Moving, Moves, controllerVars, requestVars,
     workerVars, closerVars, ghostVars, Goto, Undo, Same, Enter, Idle, Notify, Retry
<1>12. CASE Wait
  BY <1>12 DEF TypeOK, LockOK, CallOK, NoCall, Moving, Moves, controllerVars, requestVars,
     workerVars, closerVars, ghostVars, Goto, Undo, Same, Enter, Idle, Notify, Wait
<1>13. CASE TimesOut
  BY <1>13 DEF TypeOK, LockOK, CallOK, NoCall, Moving, Moves, controllerVars, requestVars,
     workerVars, closerVars, ghostVars, Goto, Undo, Same, Enter, Idle, Notify, TimesOut
<1>14. CASE Leave
  BY <1>14 DEF TypeOK, LockOK, CallOK, NoCall, Moving, Moves, controllerVars, requestVars,
     workerVars, closerVars, ghostVars, Goto, Undo, Same, Enter, Idle, Notify, Leave
<1>15. CASE Send
  BY <1>15 DEF TypeOK, LockOK, CallOK, NoCall, Moving, Moves, controllerVars, requestVars,
     workerVars, closerVars, ghostVars, Goto, Undo, Same, Enter, Idle, Notify, Send
<1>16. CASE Stop
  BY <1>16 DEF TypeOK, LockOK, CallOK, NoCall, Moving, Moves, controllerVars, requestVars,
     workerVars, closerVars, ghostVars, Goto, Undo, Same, Enter, Idle, Notify, Stop
<1>17. CASE Receive
  BY <1>17 DEF TypeOK, LockOK, CallOK, NoCall, Moving, Moves, controllerVars, requestVars,
     workerVars, closerVars, ghostVars, Goto, Undo, Same, Enter, Idle, Notify, Receive
<1>18. CASE DeadlinePasses
  BY <1>18 DEF TypeOK, LockOK, CallOK, NoCall, Moving, Moves, controllerVars, requestVars,
     workerVars, closerVars, ghostVars, Goto, Undo, Same, Enter, Idle, Notify, DeadlinePasses
<1>19. CASE SomebodySets
  BY <1>19 DEF TypeOK, LockOK, CallOK, NoCall, Moving, Moves, controllerVars, requestVars,
     workerVars, closerVars, ghostVars, Goto, Undo, Same, Enter, Idle, Notify, SomebodySets
<1>20. CASE UNCHANGED vars
  BY <1>20 DEF TypeOK, LockOK, CallOK, NoCall, Moving, Moves, controllerVars, requestVars,
     workerVars, closerVars, ghostVars, Goto, Undo, Same, Enter, Idle, Notify, vars
<1> QED  BY <1>1, <1>2, <1>3, <1>4, <1>5, <1>6, <1>7, <1>8, <1>9, <1>10, <1>11, <1>12, <1>13, <1>14,
   <1>15, <1>16, <1>17, <1>18, <1>19, <1>20, NextCases

LEMMA HoldOfQuery ==
    ASSUME NEW b, NEW e
    PROVE  /\ Hold(b, e, FALSE) # NoHeld
           /\ Hold(b, e, FALSE).baseline = b /\ Hold(b, e, FALSE).expected = e
           /\ ~Hold(b, e, FALSE).preserve
<1>1. Hold(b, e, FALSE).kind # NoHeld.kind
  BY DEF Hold, NoHeld
<1> QED  BY <1>1 DEF Hold

LEMMA HoldType ==
    ASSUME NEW b \in States, NEW e \in States, NEW p \in BOOLEAN
    PROVE  Hold(b, e, p) \in HeldType
BY DEF Hold, HeldType

\* The state that a call wants is a state.
LEMMA NoticedType ==
    ASSUME TypeOK, held # NoHeld, NEW s \in States  PROVE Noticed(s) \in States
BY DEF TypeOK, Noticed

\* What the query leaves behind, when it ends no call.
LEMMA QueryHolds ==
    ASSUME TypeOK, CallOK, Query, ~Succeeds, ~Fails
    PROVE  \E b \in States :
              /\ b = IF held = NoHeld THEN current ELSE Noticed(current)
              /\ held' = Hold(b, current, FALSE)
              /\ call' = [at |-> "power", seen |-> current,
                          desired |-> IF hidden THEN Enabled(b) ELSE b, undo |-> {}]
              /\ UNCHANGED <<current, hidden, faults>>
<1> DEFINE b == IF held = NoHeld THEN current ELSE Noticed(current)
<1>1. b \in States
  BY NoticedType DEF TypeOK
<1>2. held' = Hold(b, current, FALSE) /\ UNCHANGED <<current, hidden, faults>>
  BY DEF Query
<1>3. call' = [at |-> "power", seen |-> current,
               desired |-> IF hidden THEN Enabled(b) ELSE b, undo |-> {}]
  BY DEF Query
<1> QED  BY <1>1, <1>2, <1>3

\* A call that is over says nothing; one that goes on keeps what it found and wants.
LEMMA CallOver == ASSUME call' = NoCall PROVE CallOK'
BY DEF CallOK, NoCall, Moving, Moves

LEMMA CallGoesOn ==
    ASSUME CallOK, Moving, UNCHANGED <<held, hidden>>,
           NEW step \in Moves, NEW undo \in SUBSET Halves,
           call' = [call EXCEPT !.at = step, !.undo = undo]
    PROVE  CallOK'
<1>1. call' \in [at : Moves, seen : States, desired : States, undo : SUBSET Halves]
  BY CallKinds
<1>2. call'.desired = call.desired
  BY CallKinds
<1> QED  BY <1>1, <1>2 DEF CallOK, Moving

LEMMA CallGoesTo ==
    ASSUME CallOK, Moving, UNCHANGED <<held, hidden>>, NEW step \in Moves, Goto(step)
    PROVE  CallOK'
<1>1. call' = [call EXCEPT !.at = step, !.undo = call.undo] /\ call.undo \in SUBSET Halves
  BY CallKinds DEF Goto
<1> QED  BY <1>1, CallGoesOn

\* A reconciliation knows what it found and what it wants.
LEMMA CallStep ==
    TypeOK /\ LockOK /\ CallOK /\ [Next]_vars => CallOK'
<1> SUFFICES ASSUME TypeOK /\ LockOK /\ CallOK, [Next]_vars PROVE CallOK'
  OBVIOUS
<1>1. CASE Locked /\ Query
  <2>1. CASE Succeeds \/ Fails
    BY <1>1, <2>1, ContinueEnds, CallOver DEF Locked, Ends
  <2>2. CASE ~Succeeds /\ ~Fails
    <3>1. PICK b \in States :
              /\ held' = Hold(b, current, FALSE)
              /\ call' = [at |-> "power", seen |-> current,
                          desired |-> IF hidden THEN Enabled(b) ELSE b, undo |-> {}]
              /\ hidden' = hidden
      BY <1>1, <2>2, QueryHolds
    <3>2. call' \in [at : Moves, seen : States, desired : States, undo : SUBSET Halves]
      BY <3>1, EnabledType DEF TypeOK, Moves
    <3>3. held' # NoHeld /\ held'.baseline = b /\ ~held'.preserve
      BY <3>1, HoldOfQuery
    <3>4. call'.desired = IF hidden THEN Enabled(b) ELSE b
      BY <3>1
    <3> QED  BY <3>1, <3>2, <3>3, <3>4 DEF CallOK
  <2> QED  BY <2>1, <2>2
<1>2. CASE Locked /\ SetPower
  <2>1. Moving /\ UNCHANGED <<held, hidden>> /\ (Goto("priority") \/ Goto("observe"))
    BY <1>2 DEF SetPower, Moving, Moves
  <2> QED  BY <2>1, CallGoesTo DEF Moves
<1>3. CASE Locked /\ SetPriority
  <2>1. /\ Moving /\ UNCHANGED <<held, hidden>>
        /\ Goto("verify") \/ Undo(Written \ {"priority"})
    BY <1>3 DEF SetPriority, Moving, Moves
  <2>2. Written \ {"priority"} \subseteq Halves
    BY DEF Written
  <2>3. CASE Goto("verify")
    BY <2>1, <2>3, CallGoesTo DEF Moves
  <2>4. CASE Undo(Written \ {"priority"})
    BY <2>1, <2>2, <2>4, CallGoesOn DEF Moves, Undo
  <2> QED  BY <2>1, <2>3, <2>4
<1>4. CASE Locked /\ Verify
  <2>1. CASE Succeeds
    BY <1>4, <2>1, ContinueEnds, CallOver DEF Locked, Ends
  <2>2. CASE ~Succeeds
    <3>1. PICK halves \in SUBSET Halves : Undo(halves) /\ UNCHANGED <<held, hidden>>
      <4>1. Written \subseteq Halves /\ {h \in Halves : current[h] # call.seen[h]} \subseteq Halves
        BY DEF Written
      <4> QED  BY <1>4, <2>2, <4>1 DEF Verify
    <3>2. Moving
      BY <1>4 DEF Verify, Moving, Moves
    <3> QED  BY <3>1, <3>2, CallGoesOn DEF Undo, Moves
  <2> QED  BY <2>1, <2>2
<1>5. CASE Locked /\ UndoHalf
  <2>1. Moving /\ call.at = "undo" /\ UNCHANGED <<held, hidden>>
    BY <1>5 DEF UndoHalf, Moving, Moves
  <2>2. CASE call.undo = {}
    BY <1>5, <2>1, <2>2, CallGoesTo DEF UndoHalf, Moves
  <2>3. CASE call.undo # {}
    <3>1. PICK half \in Halves : call' = [call EXCEPT !.undo = @ \ {half}]
      BY <1>5, <2>3 DEF UndoHalf, Halves
    <3>2. /\ call' = [call EXCEPT !.at = "undo", !.undo = call.undo \ {half}]
          /\ call.undo \ {half} \in SUBSET Halves
      BY <2>1, <3>1, CallKinds
    <3> QED  BY <2>1, <3>2, CallGoesOn DEF Moves
  <2> QED  BY <2>2, <2>3
<1>6. CASE Locked /\ Observe
  BY <1>6, ContinueEnds, CallOver DEF Locked, Observe, Ends
<1>7. CASE Request
  BY <1>7 DEF CallOK, Moving, controllerVars, requestVars, workerVars, closerVars, ghostVars,
     Request
<1>8. CASE SetHiddenMode
  <2>1. call = NoCall /\ UNCHANGED held /\ (call' = NoCall \/ call' = [at |-> "query"])
    BY <1>8 DEF SetHiddenMode, Enter, Idle, LockOK, controllerVars
  <2> QED  BY <2>1 DEF CallOK, Moving, Moves, NoCall
<1>9. CASE Tell
  BY <1>9 DEF CallOK, Moving, controllerVars, requestVars, workerVars, closerVars, ghostVars,
     Tell
<1>10. CASE Look
  BY <1>10 DEF CallOK, Moving, controllerVars, requestVars, workerVars, closerVars, ghostVars,
     Look
<1>11. CASE Retry
  <2>1. call = NoCall /\ UNCHANGED <<held, hidden>> /\ (call' = NoCall \/ call' = [at |-> "query"])
    BY <1>11 DEF Retry, Enter, Idle, LockOK, controllerVars
  <2> QED  BY <2>1 DEF CallOK, Moving, Moves, NoCall
<1>12. CASE Wait
  BY <1>12 DEF CallOK, Moving, controllerVars, requestVars, workerVars, closerVars, ghostVars,
     Wait
<1>13. CASE TimesOut
  BY <1>13 DEF CallOK, Moving, controllerVars, requestVars, workerVars, closerVars, ghostVars,
     TimesOut
<1>14. CASE Leave
  <2>1. call' = [at |-> "query"]
    BY <1>14 DEF Leave, Enter
  <2> QED  BY <2>1 DEF CallOK, Moving, Moves, NoCall
<1>15. CASE Send
  BY <1>15 DEF CallOK, Moving, controllerVars, requestVars, workerVars, closerVars, ghostVars,
     Send
<1>16. CASE Stop
  BY <1>16 DEF CallOK, Moving, controllerVars, requestVars, workerVars, closerVars, ghostVars,
     Stop
<1>17. CASE Receive
  BY <1>17 DEF CallOK, Moving, controllerVars, requestVars, workerVars, closerVars, ghostVars,
     Receive
<1>18. CASE DeadlinePasses
  BY <1>18 DEF CallOK, Moving, controllerVars, requestVars, workerVars, closerVars, ghostVars,
     DeadlinePasses
<1>19. CASE SomebodySets
  BY <1>19 DEF CallOK, Moving, controllerVars, requestVars, workerVars, closerVars, ghostVars,
     SomebodySets
<1>20. CASE UNCHANGED vars
  BY <1>20 DEF CallOK, Moving, controllerVars, requestVars, workerVars, closerVars, ghostVars,
     vars
<1> QED  BY <1>1, <1>2, <1>3, <1>4, <1>5, <1>6, <1>7, <1>8, <1>9, <1>10, <1>11, <1>12, <1>13, <1>14,
   <1>15, <1>16, <1>17, <1>18, <1>19, <1>20, NextCases

\* Types, by the part of the state.
WorldTypes ==
    /\ {current, theirs} \subseteq States /\ ours \subseteq Halves
    /\ missed \in BOOLEAN /\ changes \in 0 .. MaxChanges

ControlTypes ==
    /\ {hidden, ended, stopped, newer, wanted, timed} \subseteq BOOLEAN
    /\ retry \in {"none", "later", "now"} /\ lock \in {"free", "tray", "worker"}
    /\ tray \in {"idle", "asked", "reconciling", "tell"}
    /\ worker \in {"look", "retry", "retrying", "settled", "waiting", "leave", "restoring",
                   "restored", "failed", "gone"}
    /\ completion \in {"none", "restored", "failed"}
    /\ closer \in {"idle", "waiting", "ended"}
    /\ result \in {"none", "restored", "failed", "timeout"}

LEMMA TypeParts ==
    CallOK => (TypeOK <=> /\ WorldTypes /\ ControlTypes
                          /\ held \in {NoHeld} \cup HeldType /\ faults \in 0 .. MaxFaults)
<1>1. CallOK => call.at \in {"none", "query", "power", "priority", "verify", "undo", "observe"}
  BY CallKinds DEF Moves
<1> QED  BY <1>1 DEF TypeOK, WorldTypes, ControlTypes, HeldType

LEMMA FaultCounts == ASSUME faults \in 0 .. MaxFaults, Fault \/ UNCHANGED faults  PROVE faults' \in 0 .. MaxFaults
BY SelfPowerAssumption DEF Fault

\* The threads are where they can be.
LEMMA ControlStep ==
    TypeOK /\ ControlTypes /\ LockOK /\ CallOK /\ [Next]_vars => ControlTypes'
<1> SUFFICES ASSUME TypeOK /\ ControlTypes /\ LockOK /\ CallOK, [Next]_vars PROVE ControlTypes'
  OBVIOUS
<1>1. CASE Locked /\ Query
  <2>1. Ends(TRUE) \/ Ends(FALSE) \/ Same
    BY <1>1, LockMoves
  <2>2. UNCHANGED <<hidden, stopped, newer, wanted, completion, closer, result, theirs, missed, changes>>
    BY <1>1 DEF Locked, closerVars, ghostVars, Query
  <2> QED  BY <2>1, <2>2 DEF ControlTypes, Ends, Same
<1>2. CASE Locked /\ SetPower
  <2>1. Ends(TRUE) \/ Ends(FALSE) \/ Same
    BY <1>2, LockMoves
  <2>2. UNCHANGED <<hidden, stopped, newer, wanted, completion, closer, result, theirs, missed, changes>>
    BY <1>2 DEF Locked, closerVars, ghostVars, SetPower
  <2> QED  BY <2>1, <2>2 DEF ControlTypes, Ends, Same
<1>3. CASE Locked /\ SetPriority
  <2>1. Ends(TRUE) \/ Ends(FALSE) \/ Same
    BY <1>3, LockMoves
  <2>2. UNCHANGED <<hidden, stopped, newer, wanted, completion, closer, result, theirs, missed, changes>>
    BY <1>3 DEF Locked, closerVars, ghostVars, SetPriority
  <2> QED  BY <2>1, <2>2 DEF ControlTypes, Ends, Same
<1>4. CASE Locked /\ Verify
  <2>1. Ends(TRUE) \/ Ends(FALSE) \/ Same
    BY <1>4, LockMoves
  <2>2. UNCHANGED <<hidden, stopped, newer, wanted, completion, closer, result, theirs, missed, changes>>
    BY <1>4 DEF Locked, closerVars, ghostVars, Verify
  <2> QED  BY <2>1, <2>2 DEF ControlTypes, Ends, Same
<1>5. CASE Locked /\ UndoHalf
  <2>1. Ends(TRUE) \/ Ends(FALSE) \/ Same
    BY <1>5, LockMoves
  <2>2. UNCHANGED <<hidden, stopped, newer, wanted, completion, closer, result, theirs, missed, changes>>
    BY <1>5 DEF Locked, closerVars, ghostVars, UndoHalf
  <2> QED  BY <2>1, <2>2 DEF ControlTypes, Ends, Same
<1>6. CASE Locked /\ Observe
  <2>1. Ends(TRUE) \/ Ends(FALSE) \/ Same
    BY <1>6, LockMoves
  <2>2. UNCHANGED <<hidden, stopped, newer, wanted, completion, closer, result, theirs, missed, changes>>
    BY <1>6 DEF Locked, closerVars, ghostVars, Observe
  <2> QED  BY <2>1, <2>2 DEF ControlTypes, Ends, Same
<1>7. CASE Request
  BY <1>7 DEF ControlTypes, Notify, Enter, Unconfirmed, controllerVars, requestVars, workerVars,
     closerVars, ghostVars, Request
<1>8. CASE SetHiddenMode
  BY <1>8 DEF ControlTypes, Notify, Enter, Unconfirmed, controllerVars, requestVars, workerVars,
     closerVars, ghostVars, SetHiddenMode
<1>9. CASE Tell
  BY <1>9 DEF ControlTypes, Notify, Enter, Unconfirmed, controllerVars, requestVars, workerVars,
     closerVars, ghostVars, Tell
<1>10. CASE Look
  BY <1>10 DEF ControlTypes, Notify, Enter, Unconfirmed, controllerVars, requestVars,
     workerVars, closerVars, ghostVars, Look
<1>11. CASE Retry
  BY <1>11 DEF ControlTypes, Notify, Enter, Unconfirmed, controllerVars, requestVars,
     workerVars, closerVars, ghostVars, Retry
<1>12. CASE Wait
  BY <1>12 DEF ControlTypes, Notify, Enter, Unconfirmed, controllerVars, requestVars,
     workerVars, closerVars, ghostVars, Wait
<1>13. CASE TimesOut
  BY <1>13 DEF ControlTypes, Notify, Enter, Unconfirmed, controllerVars, requestVars,
     workerVars, closerVars, ghostVars, TimesOut
<1>14. CASE Leave
  BY <1>14 DEF ControlTypes, Notify, Enter, Unconfirmed, controllerVars, requestVars,
     workerVars, closerVars, ghostVars, Leave
<1>15. CASE Send
  BY <1>15 DEF ControlTypes, Notify, Enter, Unconfirmed, controllerVars, requestVars,
     workerVars, closerVars, ghostVars, Send
<1>16. CASE Stop
  BY <1>16 DEF ControlTypes, Notify, Enter, Unconfirmed, controllerVars, requestVars,
     workerVars, closerVars, ghostVars, Stop
<1>17. CASE Receive
  BY <1>17 DEF ControlTypes, Notify, Enter, Unconfirmed, controllerVars, requestVars,
     workerVars, closerVars, ghostVars, Receive
<1>18. CASE DeadlinePasses
  BY <1>18 DEF ControlTypes, Notify, Enter, Unconfirmed, controllerVars, requestVars,
     workerVars, closerVars, ghostVars, DeadlinePasses
<1>19. CASE SomebodySets
  BY <1>19 DEF ControlTypes, Notify, Enter, Unconfirmed, controllerVars, requestVars,
     workerVars, closerVars, ghostVars, SomebodySets
<1>20. CASE UNCHANGED vars
  BY <1>20 DEF ControlTypes, Notify, Enter, Unconfirmed, controllerVars, requestVars,
     workerVars, closerVars, ghostVars, vars
<1> QED  BY <1>1, <1>2, <1>3, <1>4, <1>5, <1>6, <1>7, <1>8, <1>9, <1>10, <1>11, <1>12, <1>13, <1>14,
   <1>15, <1>16, <1>17, <1>18, <1>19, <1>20, NextCases

LEMMA ForeignType == ASSUME current \in States, NEW s \in Foreign  PROVE s \in States
<1>1. Plain \in States /\ Tuned \in States
  BY DEF Plain, Tuned, States, Powers
<1>2. PICK p \in {current, Plain, Tuned}, q \in {current, Plain, Tuned} :
          s = [power |-> p.power, priority |-> q.priority]
  BY DEF Foreign
<1>3. p \in States /\ q \in States
  BY <1>1
<1> QED  BY <1>2, <1>3 DEF States

\* Each half is the new one or the old one.
LEMMA MergeType ==
    ASSUME NEW s \in States, NEW c, NEW t \in States
    PROVE  [h \in Halves |-> IF s[h] # c[h] THEN s[h] ELSE t[h]] \in States
<1> DEFINE m == [h \in Halves |-> IF s[h] # c[h] THEN s[h] ELSE t[h]]
<1>1. m = [h \in Halves |-> m[h]]
  OBVIOUS
<1>2. /\ s["power"] \in Powers /\ t["power"] \in Powers
      /\ {s["priority"], t["priority"]} \subseteq {"normal", "high", "idle"}
  BY DEF States
<1>3. m["power"] \in Powers /\ m["priority"] \in {"normal", "high", "idle"}
  BY <1>2 DEF Halves
<1> QED  BY <1>1, <1>3, HalvesType

\* Windows and other programs leave a state.
LEMMA WorldStep ==
    CallOK /\ WorldTypes /\ [Next]_vars => WorldTypes'
<1> SUFFICES ASSUME CallOK /\ WorldTypes, [Next]_vars PROVE WorldTypes'
  OBVIOUS
<1>1. CASE Locked /\ Query
  BY <1>1 DEF WorldTypes, controllerVars, requestVars, workerVars, closerVars, ghostVars,
     Locked, Query
<1>2. CASE Locked /\ SetPower
  <2>1. CASE UNCHANGED current
    BY <1>2, <2>1 DEF WorldTypes, Locked, ghostVars
  <2>2. CASE current' # current
    <3>1. PICK half \in Halves, s \in States : current' = [current EXCEPT ![half] = s[half]]
      BY <1>2, <2>2, CallKinds DEF SetPower, Put, Halves, Moving, Moves
    <3>2. current' \in States
      BY <3>1, PutType DEF WorldTypes
    <3> QED  BY <1>2, <3>2 DEF WorldTypes, Locked, ghostVars
  <2> QED  BY <2>1, <2>2
<1>3. CASE Locked /\ SetPriority
  <2>1. CASE UNCHANGED current
    BY <1>3, <2>1 DEF WorldTypes, Locked, ghostVars
  <2>2. CASE current' # current
    <3>1. PICK half \in Halves, s \in States : current' = [current EXCEPT ![half] = s[half]]
      BY <1>3, <2>2, CallKinds DEF SetPriority, Put, Halves, Moving, Moves
    <3>2. current' \in States
      BY <3>1, PutType DEF WorldTypes
    <3> QED  BY <1>3, <3>2 DEF WorldTypes, Locked, ghostVars
  <2> QED  BY <2>1, <2>2
<1>4. CASE Locked /\ Verify
  BY <1>4 DEF WorldTypes, controllerVars, requestVars, workerVars, closerVars, ghostVars,
     Locked, Verify
<1>5. CASE Locked /\ UndoHalf
  <2>1. CASE UNCHANGED current
    BY <1>5, <2>1 DEF WorldTypes, Locked, ghostVars
  <2>2. CASE current' # current
    <3>1. PICK half \in Halves, s \in States : current' = [current EXCEPT ![half] = s[half]]
      BY <1>5, <2>2, CallKinds DEF UndoHalf, Put, Halves, Moving, Moves
    <3>2. current' \in States
      BY <3>1, PutType DEF WorldTypes
    <3> QED  BY <1>5, <3>2 DEF WorldTypes, Locked, ghostVars
  <2> QED  BY <2>1, <2>2
<1>6. CASE Locked /\ Observe
  BY <1>6 DEF WorldTypes, controllerVars, requestVars, workerVars, closerVars, ghostVars,
     Locked, Observe
<1>7. CASE Request
  BY <1>7 DEF WorldTypes, controllerVars, requestVars, workerVars, closerVars, ghostVars,
     Request
<1>8. CASE SetHiddenMode
  BY <1>8 DEF WorldTypes, controllerVars, requestVars, workerVars, closerVars, ghostVars,
     SetHiddenMode
<1>9. CASE Tell
  BY <1>9 DEF WorldTypes, controllerVars, requestVars, workerVars, closerVars, ghostVars, Tell
<1>10. CASE Look
  BY <1>10 DEF WorldTypes, controllerVars, requestVars, workerVars, closerVars, ghostVars, Look
<1>11. CASE Retry
  BY <1>11 DEF WorldTypes, controllerVars, requestVars, workerVars, closerVars, ghostVars, Retry
<1>12. CASE Wait
  BY <1>12 DEF WorldTypes, controllerVars, requestVars, workerVars, closerVars, ghostVars, Wait
<1>13. CASE TimesOut
  BY <1>13 DEF WorldTypes, controllerVars, requestVars, workerVars, closerVars, ghostVars,
     TimesOut
<1>14. CASE Leave
  BY <1>14 DEF WorldTypes, controllerVars, requestVars, workerVars, closerVars, ghostVars, Leave
<1>15. CASE Send
  BY <1>15 DEF WorldTypes, controllerVars, requestVars, workerVars, closerVars, ghostVars, Send
<1>16. CASE Stop
  BY <1>16 DEF WorldTypes, controllerVars, requestVars, workerVars, closerVars, ghostVars, Stop
<1>17. CASE Receive
  BY <1>17 DEF WorldTypes, controllerVars, requestVars, workerVars, closerVars, ghostVars,
     Receive
<1>18. CASE DeadlinePasses
  BY <1>18 DEF WorldTypes, controllerVars, requestVars, workerVars, closerVars, ghostVars,
     DeadlinePasses
<1>19. CASE SomebodySets
  <2>1. /\ current' \in Foreign
        /\ theirs' = [h \in Halves |-> IF current'[h] # current[h] THEN current'[h] ELSE theirs[h]]
        /\ ours' = ours \cup {h \in Halves : current'[h] # theirs'[h]}
    BY <1>19 DEF SomebodySets
  <2>2. current' \in States
    BY <2>1, ForeignType DEF WorldTypes
  <2>3. theirs' \in States
    BY <2>1, <2>2, MergeType DEF WorldTypes
  <2>4. missed' \in BOOLEAN
    BY <1>19 DEF SomebodySets, WorldTypes, Unseen
  <2>5. changes' \in 0 .. MaxChanges
    BY <1>19, SelfPowerAssumption DEF SomebodySets, WorldTypes
  <2>6. ours' \subseteq Halves
    BY <2>1 DEF WorldTypes
  <2> QED  BY <2>2, <2>3, <2>4, <2>5, <2>6 DEF WorldTypes
<1>20. CASE UNCHANGED vars
  BY <1>20 DEF WorldTypes, controllerVars, requestVars, workerVars, closerVars, ghostVars, vars
<1> QED  BY <1>1, <1>2, <1>3, <1>4, <1>5, <1>6, <1>7, <1>8, <1>9, <1>10, <1>11, <1>12, <1>13, <1>14,
   <1>15, <1>16, <1>17, <1>18, <1>19, <1>20, NextCases

\* A query that ends a call changes nothing; one that fails has a hold to keep or to take.
LEMMA QueryEnds ==
    ASSUME LockOK, CallOK, Locked, Query, Succeeds \/ Fails
    PROVE  UNCHANGED <<current, held, hidden>>
<1>1. call' = NoCall
  BY ContinueEnds DEF Locked, Ends
<1>2. call'.at # "power"
  BY <1>1 DEF NoCall
<1>3. UNCHANGED <<current, hidden>>
  BY DEF Query
<1>4. SUFFICES ASSUME held' # held PROVE FALSE
  BY <1>3
<1>5. \E d : call' = [at |-> "power", seen |-> current, desired |-> d, undo |-> {}]
  BY <1>4 DEF Query
<1> QED  BY <1>2, <1>5

\* What is held has its type.
LEMMA HeldStep ==
    TypeOK /\ LockOK /\ CallOK /\ held \in {NoHeld} \cup HeldType /\ [Next]_vars => (held \in {NoHeld} \cup HeldType)'
<1> SUFFICES ASSUME TypeOK /\ LockOK /\ CallOK /\ held \in {NoHeld} \cup HeldType, [Next]_vars PROVE (held \in {NoHeld} \cup HeldType)'
  OBVIOUS
<1>1. CASE Locked /\ Query
  <2>1. CASE Succeeds \/ Fails
    <3>1. held' = held
      BY <1>1, <2>1, QueryEnds
    <3> QED  BY <3>1
  <2>2. CASE ~Succeeds /\ ~Fails
    <3>1. PICK b \in States : held' = Hold(b, current, FALSE)
      BY <1>1, <2>2, QueryHolds
    <3> QED  BY <3>1, HoldType DEF TypeOK
  <2> QED  BY <2>1, <2>2
<1>2. CASE Locked /\ SetPower
  BY <1>2 DEF controllerVars, requestVars, workerVars, closerVars, ghostVars, Locked, SetPower
<1>3. CASE Locked /\ SetPriority
  BY <1>3 DEF controllerVars, requestVars, workerVars, closerVars, ghostVars, Locked,
     SetPriority
<1>4. CASE Locked /\ Verify
  <2>1. CASE held' = Hold(held.baseline, call.desired, FALSE)
    <3>1. Moving
      BY <1>4 DEF Verify, Moving, Moves
    <3>2. held.baseline \in States /\ call.desired \in States
      BY <3>1, CallKinds DEF CallOK, HeldType
    <3> QED  BY <2>1, <3>2, HoldType
  <2>2. CASE held' = NoHeld \/ held' = held
    BY <2>2
  <2> QED  BY <1>4, <2>1, <2>2 DEF Verify
<1>5. CASE Locked /\ UndoHalf
  BY <1>5 DEF controllerVars, requestVars, workerVars, closerVars, ghostVars, Locked, UndoHalf
<1>6. CASE Locked /\ Observe
  <2>1. held \in HeldType /\ current \in States
    BY <1>6 DEF Observe, CallOK, Moving, Moves, TypeOK
  <2> QED  BY <1>6, <2>1 DEF Observe, HeldType
<1>7. CASE Request
  BY <1>7 DEF controllerVars, requestVars, workerVars, closerVars, ghostVars, Request
<1>8. CASE SetHiddenMode
  BY <1>8 DEF controllerVars, requestVars, workerVars, closerVars, ghostVars, SetHiddenMode
<1>9. CASE Tell
  BY <1>9 DEF controllerVars, requestVars, workerVars, closerVars, ghostVars, Tell
<1>10. CASE Look
  BY <1>10 DEF controllerVars, requestVars, workerVars, closerVars, ghostVars, Look
<1>11. CASE Retry
  BY <1>11 DEF controllerVars, requestVars, workerVars, closerVars, ghostVars, Retry
<1>12. CASE Wait
  BY <1>12 DEF controllerVars, requestVars, workerVars, closerVars, ghostVars, Wait
<1>13. CASE TimesOut
  BY <1>13 DEF controllerVars, requestVars, workerVars, closerVars, ghostVars, TimesOut
<1>14. CASE Leave
  BY <1>14 DEF controllerVars, requestVars, workerVars, closerVars, ghostVars, Leave
<1>15. CASE Send
  BY <1>15 DEF controllerVars, requestVars, workerVars, closerVars, ghostVars, Send
<1>16. CASE Stop
  BY <1>16 DEF controllerVars, requestVars, workerVars, closerVars, ghostVars, Stop
<1>17. CASE Receive
  BY <1>17 DEF controllerVars, requestVars, workerVars, closerVars, ghostVars, Receive
<1>18. CASE DeadlinePasses
  BY <1>18 DEF controllerVars, requestVars, workerVars, closerVars, ghostVars, DeadlinePasses
<1>19. CASE SomebodySets
  BY <1>19 DEF controllerVars, requestVars, workerVars, closerVars, ghostVars, SomebodySets
<1>20. CASE UNCHANGED vars
  BY <1>20 DEF controllerVars, requestVars, workerVars, closerVars, ghostVars, vars
<1> QED  BY <1>1, <1>2, <1>3, <1>4, <1>5, <1>6, <1>7, <1>8, <1>9, <1>10, <1>11, <1>12, <1>13, <1>14,
   <1>15, <1>16, <1>17, <1>18, <1>19, <1>20, NextCases

\* Failures are counted.
LEMMA FaultsStep ==
    faults \in 0 .. MaxFaults /\ [Next]_vars => (faults \in 0 .. MaxFaults)'
<1> SUFFICES ASSUME faults \in 0 .. MaxFaults, [Next]_vars PROVE (faults \in 0 .. MaxFaults)'
  OBVIOUS
<1>1. CASE Locked /\ Query
  BY <1>1, FaultCounts DEF Locked, Query
<1>2. CASE Locked /\ SetPower
  BY <1>2, FaultCounts DEF Locked, SetPower
<1>3. CASE Locked /\ SetPriority
  BY <1>3, FaultCounts DEF Locked, SetPriority
<1>4. CASE Locked /\ Verify
  BY <1>4, FaultCounts DEF Locked, Verify
<1>5. CASE Locked /\ UndoHalf
  BY <1>5, FaultCounts DEF Locked, UndoHalf
<1>6. CASE Locked /\ Observe
  BY <1>6, FaultCounts DEF Locked, Observe
<1>7. CASE Request
  BY <1>7, FaultCounts DEF Request
<1>8. CASE SetHiddenMode
  BY <1>8, FaultCounts DEF SetHiddenMode
<1>9. CASE Tell
  BY <1>9, FaultCounts DEF Tell
<1>10. CASE Look
  BY <1>10, FaultCounts DEF Look
<1>11. CASE Retry
  BY <1>11, FaultCounts DEF Retry
<1>12. CASE Wait
  BY <1>12, FaultCounts DEF Wait
<1>13. CASE TimesOut
  BY <1>13, FaultCounts DEF TimesOut
<1>14. CASE Leave
  BY <1>14, FaultCounts DEF Leave
<1>15. CASE Send
  BY <1>15, FaultCounts DEF Send
<1>16. CASE Stop
  BY <1>16, FaultCounts DEF Stop
<1>17. CASE Receive
  BY <1>17, FaultCounts DEF Receive
<1>18. CASE DeadlinePasses
  BY <1>18, FaultCounts DEF DeadlinePasses
<1>19. CASE SomebodySets
  BY <1>19, FaultCounts DEF SomebodySets
<1>20. CASE UNCHANGED vars
  BY <1>20, FaultCounts DEF vars, controllerVars, requestVars, workerVars, closerVars, ghostVars
<1> QED  BY <1>1, <1>2, <1>3, <1>4, <1>5, <1>6, <1>7, <1>8, <1>9, <1>10, <1>11, <1>12, <1>13, <1>14,
   <1>15, <1>16, <1>17, <1>18, <1>19, <1>20, NextCases

\* What is expected is what the hidden window asked for.
LEMMA ExpectedStep ==
    TypeOK /\ LockOK /\ CallOK /\ ExpectedOK /\ [Next]_vars => ExpectedOK'
<1> SUFFICES ASSUME TypeOK /\ LockOK /\ CallOK /\ ExpectedOK, [Next]_vars PROVE ExpectedOK'
  OBVIOUS
<1>1. CASE Locked /\ Query
  <2>1. CASE Succeeds \/ Fails
    BY <1>1, <2>1, QueryEnds DEF ExpectedOK, Query, Moving, Moves
  <2>2. CASE ~Succeeds /\ ~Fails
    <3>1. \E d : call' = [at |-> "power", seen |-> current, desired |-> d, undo |-> {}]
      BY <1>1, <2>2, QueryHolds
    <3>2. Moving'
      BY <3>1 DEF Moving, Moves
    <3> QED  BY <3>2 DEF ExpectedOK
  <2> QED  BY <2>1, <2>2
<1>2. CASE Locked /\ SetPower
  <2>1. Moving'
    BY <1>2, ReconcileMoves DEF Moving, Moves
  <2> QED  BY <2>1 DEF ExpectedOK
<1>3. CASE Locked /\ SetPriority
  <2>1. Moving'
    BY <1>3, ReconcileMoves DEF Moving, Moves
  <2> QED  BY <2>1 DEF ExpectedOK
<1>4. CASE Locked /\ Verify
  <2>1. CASE \E halves : Undo(halves)
    <3>1. call'.at = "undo"
      BY <1>4, <2>1, CallKinds DEF Verify, Undo, Moving, Moves
    <3> QED  BY <3>1 DEF ExpectedOK, Moving, Moves
  <2>2. CASE held' = NoHeld
    BY <2>2 DEF ExpectedOK
  <2>3. CASE hidden /\ held' = Hold(held.baseline, call.desired, FALSE)
    <3>1. call.desired = Enabled(held.baseline)
      BY <1>4, <2>3 DEF CallOK, Verify, Moving, Moves
    <3>2. held'.expected = call.desired /\ held'.baseline = held.baseline
      BY <2>3, HoldOfQuery
    <3> QED  BY <3>1, <3>2 DEF ExpectedOK
  <2> QED  BY <1>4, <2>1, <2>2, <2>3 DEF Verify
<1>5. CASE Locked /\ UndoHalf
  <2>1. Moving'
    BY <1>5, ReconcileMoves DEF Moving, Moves
  <2> QED  BY <2>1 DEF ExpectedOK
<1>6. CASE Locked /\ Observe
  <2>1. held'.preserve
    BY <1>6 DEF Observe, CallOK, Moving, Moves, TypeOK, HeldType
  <2> QED  BY <2>1 DEF ExpectedOK
<1>7. CASE Request
  BY <1>7 DEF ExpectedOK, Moving, controllerVars, requestVars, workerVars, closerVars,
     ghostVars, Request
<1>8. CASE SetHiddenMode
  <2>1. held' = held /\ ~Moving
    BY <1>8 DEF SetHiddenMode, Idle, Enter, LockOK, NoCall, Moving, Moves, controllerVars
  <2> QED  BY <2>1 DEF ExpectedOK
<1>9. CASE Tell
  BY <1>9 DEF ExpectedOK, Moving, controllerVars, requestVars, workerVars, closerVars,
     ghostVars, Tell
<1>10. CASE Look
  BY <1>10 DEF ExpectedOK, Moving, controllerVars, requestVars, workerVars, closerVars,
     ghostVars, Look
<1>11. CASE Retry
  <2>1. held' = held /\ ~Moving
    BY <1>11 DEF Retry, Idle, Enter, LockOK, NoCall, Moving, Moves, controllerVars
  <2> QED  BY <2>1 DEF ExpectedOK
<1>12. CASE Wait
  BY <1>12 DEF ExpectedOK, Moving, controllerVars, requestVars, workerVars, closerVars,
     ghostVars, Wait
<1>13. CASE TimesOut
  BY <1>13 DEF ExpectedOK, Moving, controllerVars, requestVars, workerVars, closerVars,
     ghostVars, TimesOut
<1>14. CASE Leave
  <2>1. held' = held /\ ~Moving
    BY <1>14 DEF Leave, Idle, Enter, LockOK, NoCall, Moving, Moves, controllerVars
  <2> QED  BY <2>1 DEF ExpectedOK
<1>15. CASE Send
  BY <1>15 DEF ExpectedOK, Moving, controllerVars, requestVars, workerVars, closerVars,
     ghostVars, Send
<1>16. CASE Stop
  BY <1>16 DEF ExpectedOK, Moving, controllerVars, requestVars, workerVars, closerVars,
     ghostVars, Stop
<1>17. CASE Receive
  BY <1>17 DEF ExpectedOK, Moving, controllerVars, requestVars, workerVars, closerVars,
     ghostVars, Receive
<1>18. CASE DeadlinePasses
  BY <1>18 DEF ExpectedOK, Moving, controllerVars, requestVars, workerVars, closerVars,
     ghostVars, DeadlinePasses
<1>19. CASE SomebodySets
  BY <1>19 DEF ExpectedOK, Moving, controllerVars, requestVars, workerVars, closerVars,
     ghostVars, SomebodySets
<1>20. CASE UNCHANGED vars
  BY <1>20 DEF ExpectedOK, Moving, controllerVars, requestVars, workerVars, closerVars,
     ghostVars, vars
<1> QED  BY <1>1, <1>2, <1>3, <1>4, <1>5, <1>6, <1>7, <1>8, <1>9, <1>10, <1>11, <1>12, <1>13, <1>14,
   <1>15, <1>16, <1>17, <1>18, <1>19, <1>20, NextCases

\* Who restores and succeeds holds nothing any more.
LEMMA SuccessFrees ==
    ASSUME LockOK, CallOK, Locked, Query \/ Verify, Succeeds, ~hidden
    PROVE  held' = NoHeld
<1>1. call' = NoCall /\ retry' = "none"
  BY DEF Succeeds, Continue
<1>2. call'.at # "power" /\ call'.at # "undo"
  BY <1>1 DEF NoCall
<1>3. CASE Query
  <2>1. ~Fails
    BY <1>1 DEF Fails, Continue
  <2>2. \A d : call' # [at |-> "power", seen |-> current, desired |-> d, undo |-> {}]
    BY <1>2
  <2> QED  BY <1>3, <2>1, <2>2 DEF Query
<1>4. CASE Verify
  <2>1. Moving
    BY <1>4 DEF Verify, Moving, Moves
  <2>2. \A halves : ~Undo(halves)
    BY <1>2, <2>1, CallKinds DEF Undo
  <2> QED  BY <1>4, <2>2 DEF Verify
<1> QED  BY <1>3, <1>4

\* What a reconciliation leaves of the end of the controller.
LEMMA EndKeeps ==
    ASSUME EndOK, LockOK, Locked, UNCHANGED <<hidden, completion, result>>,
           Ends(FALSE) \/ Same \/ (Ends(TRUE) /\ held' = NoHeld)
    PROVE  EndOK'
<1>1. ~ended /\ completion # "restored"
  BY DEF EndOK, Locked
<1>2. worker \notin {"restored", "gone"} \/ UNCHANGED worker
  BY DEF Ends, Same
<1>3. worker' = "restored" => ended'
  BY <1>1 DEF Ends, Same, EndOK
<1>4. ended' => held' = NoHeld /\ lock' = "free" /\ worker' \in {"restored", "gone"}
  BY <1>1 DEF Ends, Same
<1>5. worker' = "restoring" => worker = "restoring"
  BY DEF Ends, Same
<1> QED  BY <1>1, <1>2, <1>3, <1>4, <1>5 DEF EndOK

\* The controller ends with nothing held, and its end is reported as it was.
LEMMA EndStep ==
    TypeOK /\ LockOK /\ CallOK /\ EndOK /\ [Next]_vars => EndOK'
<1> SUFFICES ASSUME TypeOK /\ LockOK /\ CallOK /\ EndOK, [Next]_vars PROVE EndOK'
  OBVIOUS
<1>1. CASE Locked /\ Query
  <2>1. UNCHANGED <<hidden, completion, result>>
    BY <1>1 DEF Locked, closerVars, Query
  <2>2. CASE Succeeds
    <3>1. Ends(TRUE)
      BY <1>1, <2>2, ContinueEnds DEF Locked
    <3>2. CASE worker = "restoring"
      <4>1. held' = NoHeld
        BY <1>1, <2>2, <3>2, SuccessFrees DEF EndOK
      <4> QED  BY <1>1, <2>1, <3>1, <4>1, EndKeeps
    <3>3. CASE worker # "restoring"
      <4>1. Ends(FALSE)
        BY <3>1, <3>3 DEF Ends
      <4> QED  BY <1>1, <2>1, <4>1, EndKeeps
    <3> QED  BY <3>2, <3>3
  <2>3. CASE Fails
    <3>1. Ends(FALSE)
      BY <1>1, <2>3, ContinueEnds DEF Locked
    <3> QED  BY <1>1, <2>1, <3>1, EndKeeps
  <2>4. CASE ~Succeeds /\ ~Fails
    <3>1. Same
      BY <1>1, <2>4 DEF Query
    <3> QED  BY <1>1, <2>1, <3>1, EndKeeps
  <2> QED  BY <2>2, <2>3, <2>4
<1>2. CASE Locked /\ SetPower
  <2>1. UNCHANGED <<hidden, completion, result>>
    BY <1>2 DEF Locked, closerVars, SetPower
  <2>2. Ends(FALSE) \/ Same
    BY <1>2, ReconcileMoves
  <2> QED  BY <1>2, <2>1, <2>2, EndKeeps
<1>3. CASE Locked /\ SetPriority
  <2>1. UNCHANGED <<hidden, completion, result>>
    BY <1>3 DEF Locked, closerVars, SetPriority
  <2>2. Ends(FALSE) \/ Same
    BY <1>3, ReconcileMoves
  <2> QED  BY <1>3, <2>1, <2>2, EndKeeps
<1>4. CASE Locked /\ Verify
  <2>1. UNCHANGED <<hidden, completion, result>>
    BY <1>4 DEF Locked, closerVars, Verify
  <2>2. CASE Succeeds
    <3>1. Ends(TRUE)
      BY <1>4, <2>2, ContinueEnds DEF Locked
    <3>2. CASE worker = "restoring"
      <4>1. held' = NoHeld
        BY <1>4, <2>2, <3>2, SuccessFrees DEF EndOK
      <4> QED  BY <1>4, <2>1, <3>1, <4>1, EndKeeps
    <3>3. CASE worker # "restoring"
      <4>1. Ends(FALSE)
        BY <3>1, <3>3 DEF Ends
      <4> QED  BY <1>4, <2>1, <4>1, EndKeeps
    <3> QED  BY <3>2, <3>3
  <2>3. CASE Fails
    <3>1. Ends(FALSE)
      BY <1>4, <2>3, ContinueEnds DEF Locked
    <3> QED  BY <1>4, <2>1, <3>1, EndKeeps
  <2>4. CASE ~Succeeds /\ ~Fails
    <3>1. Same
      BY <1>4, <2>4 DEF Verify
    <3> QED  BY <1>4, <2>1, <3>1, EndKeeps
  <2> QED  BY <2>2, <2>3, <2>4
<1>5. CASE Locked /\ UndoHalf
  <2>1. UNCHANGED <<hidden, completion, result>>
    BY <1>5 DEF Locked, closerVars, UndoHalf
  <2>2. Ends(FALSE) \/ Same
    BY <1>5, ReconcileMoves
  <2> QED  BY <1>5, <2>1, <2>2, EndKeeps
<1>6. CASE Locked /\ Observe
  <2>1. UNCHANGED <<hidden, completion, result>>
    BY <1>6 DEF Locked, closerVars, Observe
  <2>2. Ends(FALSE) \/ Same
    BY <1>6, ReconcileMoves
  <2> QED  BY <1>6, <2>1, <2>2, EndKeeps
<1>7. CASE Request
  BY <1>7 DEF EndOK, LockOK, Notify, Enter, Idle, Unconfirmed, controllerVars, requestVars,
     workerVars, closerVars, ghostVars, Request
<1>8. CASE SetHiddenMode
  BY <1>8 DEF EndOK, LockOK, Notify, Enter, Idle, Unconfirmed, controllerVars, requestVars,
     workerVars, closerVars, ghostVars, SetHiddenMode
<1>9. CASE Tell
  BY <1>9 DEF EndOK, LockOK, Notify, Enter, Idle, Unconfirmed, controllerVars, requestVars,
     workerVars, closerVars, ghostVars, Tell
<1>10. CASE Look
  BY <1>10 DEF EndOK, LockOK, Notify, Enter, Idle, Unconfirmed, controllerVars, requestVars,
     workerVars, closerVars, ghostVars, Look
<1>11. CASE Retry
  BY <1>11 DEF EndOK, LockOK, Notify, Enter, Idle, Unconfirmed, controllerVars, requestVars,
     workerVars, closerVars, ghostVars, Retry
<1>12. CASE Wait
  BY <1>12 DEF EndOK, LockOK, Notify, Enter, Idle, Unconfirmed, controllerVars, requestVars,
     workerVars, closerVars, ghostVars, Wait
<1>13. CASE TimesOut
  BY <1>13 DEF EndOK, LockOK, Notify, Enter, Idle, Unconfirmed, controllerVars, requestVars,
     workerVars, closerVars, ghostVars, TimesOut
<1>14. CASE Leave
  BY <1>14 DEF EndOK, LockOK, Notify, Enter, Idle, Unconfirmed, controllerVars, requestVars,
     workerVars, closerVars, ghostVars, Leave
<1>15. CASE Send
  BY <1>15 DEF EndOK, LockOK, Notify, Enter, Idle, Unconfirmed, controllerVars, requestVars,
     workerVars, closerVars, ghostVars, Send
<1>16. CASE Stop
  BY <1>16 DEF EndOK, LockOK, Notify, Enter, Idle, Unconfirmed, controllerVars, requestVars,
     workerVars, closerVars, ghostVars, Stop
<1>17. CASE Receive
  BY <1>17 DEF EndOK, LockOK, Notify, Enter, Idle, Unconfirmed, controllerVars, requestVars,
     workerVars, closerVars, ghostVars, Receive
<1>18. CASE DeadlinePasses
  BY <1>18 DEF EndOK, LockOK, Notify, Enter, Idle, Unconfirmed, controllerVars, requestVars,
     workerVars, closerVars, ghostVars, DeadlinePasses
<1>19. CASE SomebodySets
  BY <1>19 DEF EndOK, LockOK, Notify, Enter, Idle, Unconfirmed, controllerVars, requestVars,
     workerVars, closerVars, ghostVars, SomebodySets
<1>20. CASE UNCHANGED vars
  BY <1>20 DEF EndOK, LockOK, Notify, Enter, Idle, Unconfirmed, controllerVars, requestVars,
     workerVars, closerVars, ghostVars, vars
<1> QED  BY <1>1, <1>2, <1>3, <1>4, <1>5, <1>6, <1>7, <1>8, <1>9, <1>10, <1>11, <1>12, <1>13, <1>14,
   <1>15, <1>16, <1>17, <1>18, <1>19, <1>20, NextCases

\* Nobody else asks for what the hidden window asks for.
LEMMA NotEnabled ==
    ASSUME current \in States, NEW s \in Foreign, NEW b \in States
    PROVE  s # Enabled(b)
<1> SUFFICES ASSUME s = Enabled(b) PROVE FALSE
  OBVIOUS
<1>1. PICK p \in {current, Plain, Tuned}, q \in {current, Plain, Tuned} :
          s = [power |-> p.power, priority |-> q.priority] /\ s # current
  BY DEF Foreign
<1>2. p.power.speed = "saving" /\ q.priority = "idle"
  BY <1>1 DEF Enabled, States, Powers
<1>3. p = current /\ q = current
  BY <1>2 DEF Plain, Tuned
<1> QED  BY <1>1, <1>3 DEF States

\* Whatever else is set, each half of the baseline is somebody else's, or the difference is.
LEMMA BaselineStep ==
    TypeOK /\ LockOK /\ CallOK /\ ExpectedOK /\ BaselineOK /\ [Next]_vars => BaselineOK'
<1> SUFFICES ASSUME TypeOK /\ LockOK /\ CallOK /\ ExpectedOK /\ BaselineOK, [Next]_vars PROVE BaselineOK'
  OBVIOUS
<1>1. CASE Locked /\ Query
  <2>0. UNCHANGED <<theirs, missed, ours>> /\ ~Moving
    BY <1>1 DEF Locked, ghostVars, Query, Moving, Moves
  <2>1. CASE Succeeds \/ Fails
    <3>1. UNCHANGED <<current, held>>
      BY <1>1, <2>1, QueryEnds
    <3>2. call' = NoCall
      BY <1>1, <2>1, ContinueEnds DEF Locked, Ends
    <3>3. ~Moving'
      BY <3>2 DEF Moving, Moves, NoCall
    <3> QED  BY <2>0, <3>1, <3>3 DEF BaselineOK
  <2>2. CASE ~Succeeds /\ ~Fails
    <3>1. PICK b \in States :
              /\ b = IF held = NoHeld THEN current ELSE Noticed(current)
              /\ held' = Hold(b, current, FALSE)
              /\ \E d : call' = [at |-> "power", seen |-> current, desired |-> d, undo |-> {}]
      BY <1>1, <2>2, QueryHolds
    <3>2. ~missed => \A h \in Halves \ ours : b[h] = theirs[h]
      BY <2>0, <3>1 DEF BaselineOK, Noticed
    <3>3. held' # NoHeld /\ held'.baseline = b
      BY <3>1, HoldOfQuery
    <3>4. Moving'
      BY <3>1 DEF Moving, Moves
    <3> QED  BY <2>0, <3>2, <3>3, <3>4 DEF BaselineOK
  <2> QED  BY <2>1, <2>2
<1>2. CASE Locked /\ SetPower
  <2>1. Moving' /\ Moving
    BY <1>2, ReconcileMoves DEF Moving, Moves, SetPower
  <2>2. UNCHANGED <<held, theirs, missed, ours>> /\ held # NoHeld
    BY <1>2, <2>1 DEF Locked, ghostVars, CallOK, SetPower
  <2> QED  BY <2>1, <2>2 DEF BaselineOK
<1>3. CASE Locked /\ SetPriority
  <2>1. Moving' /\ Moving
    BY <1>3, ReconcileMoves DEF Moving, Moves, SetPriority
  <2>2. UNCHANGED <<held, theirs, missed, ours>> /\ held # NoHeld
    BY <1>3, <2>1 DEF Locked, ghostVars, CallOK, SetPriority
  <2> QED  BY <2>1, <2>2 DEF BaselineOK
<1>4. CASE Locked /\ Verify
  <2>0. UNCHANGED <<current, theirs, missed, ours>> /\ Moving
    BY <1>4 DEF Locked, ghostVars, Verify, Moving, Moves
  <2>1. ~missed => \A h \in Halves \ ours : held.baseline[h] = theirs[h]
    BY <2>0 DEF BaselineOK, CallOK
  <2>2. CASE \E halves : Undo(halves) /\ UNCHANGED held
    <3>1. Moving'
      BY <2>0, <2>2, CallKinds DEF Undo, Moving, Moves
    <3>2. held # NoHeld
      BY <2>0 DEF CallOK
    <3> QED  BY <2>0, <2>1, <2>2, <3>1, <3>2 DEF BaselineOK
  <2>3. CASE /\ current = call.desired
             /\ held' = IF hidden THEN Hold(held.baseline, call.desired, FALSE) ELSE NoHeld
             /\ Succeeds
    <3>0. call' = NoCall
      BY <1>4, <2>3, ContinueEnds DEF Locked, Ends
    <3>1. ~Moving'
      BY <3>0 DEF Moving, Moves, NoCall
    <3>2. CASE hidden
      <4>1. held' = Hold(held.baseline, call.desired, FALSE)
        BY <2>3, <3>2
      <4>2. /\ held'.expected = call.desired /\ held'.baseline = held.baseline
            /\ ~held'.preserve /\ held' # NoHeld
        BY <4>1, HoldOfQuery
      <4> QED  BY <2>0, <2>1, <2>3, <3>1, <4>2 DEF BaselineOK
    <3>3. CASE ~hidden
      <4>1. held' = NoHeld /\ current = held.baseline
        BY <2>0, <2>3, <3>3 DEF CallOK
      <4> QED  BY <2>0, <2>1, <4>1 DEF BaselineOK
    <3> QED  BY <3>2, <3>3
  <2> QED  BY <1>4, <2>2, <2>3 DEF Verify
<1>5. CASE Locked /\ UndoHalf
  <2>1. Moving' /\ Moving
    BY <1>5, ReconcileMoves DEF Moving, Moves, UndoHalf
  <2>2. UNCHANGED <<held, theirs, missed, ours>> /\ held # NoHeld
    BY <1>5, <2>1 DEF Locked, ghostVars, CallOK, UndoHalf
  <2> QED  BY <2>1, <2>2 DEF BaselineOK
<1>6. CASE Locked /\ Observe
  <2>0. Moving /\ UNCHANGED <<theirs, missed, ours>>
    BY <1>6 DEF Locked, ghostVars, Observe, Moving, Moves
  <2>1. held \in HeldType /\ (~missed => \A h \in Halves \ ours : held.baseline[h] = theirs[h])
    BY <2>0 DEF CallOK, BaselineOK, TypeOK, HeldType
  <2>2. held' # NoHeld /\ held'.preserve /\ held'.baseline = held.baseline
    <3>1. held'.kind = "held" /\ held'.preserve /\ held'.baseline = held.baseline
      BY <1>6, <2>1 DEF Observe, HeldType
    <3> QED  BY <3>1 DEF NoHeld
  <2> QED  BY <2>0, <2>1, <2>2 DEF BaselineOK
<1>7. CASE Request
  BY <1>7 DEF BaselineOK, Moving, controllerVars, requestVars, workerVars, closerVars,
     ghostVars, Request
<1>8. CASE SetHiddenMode
  <2>1. UNCHANGED <<current, held, theirs, missed, ours>> /\ ~Moving
    BY <1>8 DEF SetHiddenMode, Idle, Enter, LockOK, NoCall, Moving, Moves, controllerVars, ghostVars
  <2>2. ~Moving'
    BY <1>8, <2>1 DEF SetHiddenMode, Enter, Moving, Moves
  <2> QED  BY <2>1, <2>2 DEF BaselineOK
<1>9. CASE Tell
  BY <1>9 DEF BaselineOK, Moving, controllerVars, requestVars, workerVars, closerVars,
     ghostVars, Tell
<1>10. CASE Look
  BY <1>10 DEF BaselineOK, Moving, controllerVars, requestVars, workerVars, closerVars,
     ghostVars, Look
<1>11. CASE Retry
  <2>1. UNCHANGED <<current, held, theirs, missed, ours>> /\ ~Moving
    BY <1>11 DEF Retry, Idle, Enter, LockOK, NoCall, Moving, Moves, controllerVars, ghostVars
  <2>2. ~Moving'
    BY <1>11, <2>1 DEF Retry, Enter, Moving, Moves
  <2> QED  BY <2>1, <2>2 DEF BaselineOK
<1>12. CASE Wait
  BY <1>12 DEF BaselineOK, Moving, controllerVars, requestVars, workerVars, closerVars,
     ghostVars, Wait
<1>13. CASE TimesOut
  BY <1>13 DEF BaselineOK, Moving, controllerVars, requestVars, workerVars, closerVars,
     ghostVars, TimesOut
<1>14. CASE Leave
  <2>1. UNCHANGED <<current, held, theirs, missed, ours>> /\ ~Moving
    BY <1>14 DEF Leave, Idle, Enter, LockOK, NoCall, Moving, Moves, controllerVars, ghostVars
  <2>2. ~Moving'
    BY <1>14, <2>1 DEF Leave, Enter, Moving, Moves
  <2> QED  BY <2>1, <2>2 DEF BaselineOK
<1>15. CASE Send
  BY <1>15 DEF BaselineOK, Moving, controllerVars, requestVars, workerVars, closerVars,
     ghostVars, Send
<1>16. CASE Stop
  BY <1>16 DEF BaselineOK, Moving, controllerVars, requestVars, workerVars, closerVars,
     ghostVars, Stop
<1>17. CASE Receive
  BY <1>17 DEF BaselineOK, Moving, controllerVars, requestVars, workerVars, closerVars,
     ghostVars, Receive
<1>18. CASE DeadlinePasses
  BY <1>18 DEF BaselineOK, Moving, controllerVars, requestVars, workerVars, closerVars,
     ghostVars, DeadlinePasses
<1>19. CASE SomebodySets
  <2> SUFFICES ASSUME ~missed' PROVE BaselineOK'
    BY DEF BaselineOK
  <2>1. ~missed /\ ~Unseen /\ UNCHANGED <<held, call>>
    BY <1>19 DEF SomebodySets, controllerVars
  <2>2. current' \in Foreign /\ \A h \in Halves \ ours' : current'[h] = theirs'[h]
    BY <1>19 DEF SomebodySets
  <2>3. ~Moving' /\ (held # NoHeld => ~held.preserve)
    BY <2>1 DEF Unseen, Moving, Moves
  <2>4. CASE held = NoHeld
    BY <2>1, <2>2, <2>4 DEF BaselineOK
  <2>5. CASE held # NoHeld
    <3>1. held.expected = Enabled(held.baseline)
      BY <2>1, <2>3, <2>5 DEF ExpectedOK, Moving
    <3>2. current \in States /\ held.baseline \in States
      BY <2>5 DEF TypeOK
    <3>3. current' # held.expected
      BY <2>2, <3>1, <3>2, NotEnabled
    <3> QED  BY <2>1, <2>2, <2>3, <2>5, <3>3 DEF BaselineOK
  <2> QED  BY <2>4, <2>5
<1>20. CASE UNCHANGED vars
  BY <1>20 DEF BaselineOK, Moving, controllerVars, requestVars, workerVars, closerVars,
     ghostVars, vars
<1> QED  BY <1>1, <1>2, <1>3, <1>4, <1>5, <1>6, <1>7, <1>8, <1>9, <1>10, <1>11, <1>12, <1>13, <1>14,
   <1>15, <1>16, <1>17, <1>18, <1>19, <1>20, NextCases

--------------------------------------------------------------------------------
LEMMA InitInv == Init => Control /\ BaselineOK
<1> SUFFICES ASSUME Init PROVE Control /\ BaselineOK
  OBVIOUS
<1>1. call = NoCall /\ ~Moving /\ held = NoHeld
  BY DEF Init, Moving, Moves, NoCall
<1>2. LockOK /\ CallOK /\ ExpectedOK /\ EndOK /\ BaselineOK
  <2>1. LockOK /\ EndOK
    BY <1>1 DEF Init, LockOK, EndOK
  <2>2. CallOK /\ ExpectedOK
    BY <1>1 DEF CallOK, ExpectedOK
  <2>3. BaselineOK
    BY <1>1 DEF Init, BaselineOK
  <2> QED  BY <2>1, <2>2, <2>3
<1>3. WorldTypes
  <2>1. Plain \in States
    BY DEF States, Powers, Plain
  <2>2. 0 \in 0 .. MaxChanges
    BY SelfPowerAssumption
  <2> QED  BY <2>1, <2>2 DEF Init, WorldTypes
<1>4. ControlTypes
  BY DEF Init, ControlTypes
<1>5. faults \in 0 .. MaxFaults
  BY SelfPowerAssumption DEF Init
<1> QED  BY <1>1, <1>2, <1>3, <1>4, <1>5, TypeParts DEF Control

LEMMA ControlInv == Control /\ [Next]_vars => Control'
<1> SUFFICES ASSUME Control, [Next]_vars PROVE Control'
  OBVIOUS
<1>1. TypeOK /\ LockOK /\ CallOK /\ ExpectedOK /\ EndOK
  BY DEF Control
<1>2. WorldTypes /\ ControlTypes /\ held \in {NoHeld} \cup HeldType /\ faults \in 0 .. MaxFaults
  BY <1>1, TypeParts
<1>3. LockOK' /\ CallOK' /\ ExpectedOK' /\ EndOK'
  BY <1>1, LockStep, CallStep, ExpectedStep, EndStep
<1>4. WorldTypes' /\ ControlTypes'
  BY <1>1, <1>2, WorldStep, ControlStep
<1>5. (held \in {NoHeld} \cup HeldType)' /\ (faults \in 0 .. MaxFaults)'
  BY <1>1, <1>2, HeldStep, FaultsStep
<1>6. (CallOK => (TypeOK <=> /\ WorldTypes /\ ControlTypes
                             /\ held \in {NoHeld} \cup HeldType /\ faults \in 0 .. MaxFaults))'
  BY TypeParts, PTL
<1> QED  BY <1>3, <1>4, <1>5, <1>6 DEF Control

LEMMA ControlHolds == Spec => []Control
BY InitInv, ControlInv, PTL DEF Spec

\* A success that shutdown reports is true, whatever other programs change: nothing is held,
\* the controller has ended for good, its thread is gone and its mutex free (shutdown and
\* run_self_power_retries).
THEOREM ReportIsTrue ==
    Spec => [](TypeOK /\ (result = "restored" =>
                  held = NoHeld /\ ended /\ worker = "gone" /\ lock = "free"))
<1>1. Control => TypeOK /\ (result = "restored" =>
                               held = NoHeld /\ ended /\ worker = "gone" /\ lock = "free")
  <2> SUFFICES ASSUME Control, result = "restored"
               PROVE  held = NoHeld /\ ended /\ worker = "gone" /\ lock = "free"
    BY DEF Control
  <2>1. completion = "restored" /\ ended /\ worker = "gone"
    BY DEF Control, EndOK
  <2> QED  BY <2>1 DEF Control, EndOK
<1> QED  BY <1>1, ControlHolds, PTL

\* In each half the baseline is what other programs set last or their change is still to be
\* noticed, whatever failed, and a shutdown that reports success has put it back.  What
\* Winderust cannot see, and a half of its own that another program left standing, are
\* excepted in the statement (reconcile, restore_transition and shutdown).
THEOREM BaselineKept == Spec => []Consistent
<1>1. Control /\ BaselineOK /\ [Next]_vars => BaselineOK'
  BY BaselineStep DEF Control
<1>2. Spec => []BaselineOK
  BY InitInv, ControlHolds, <1>1, PTL DEF Spec
<1>3. Control /\ BaselineOK => Consistent
  <2> SUFFICES ASSUME Control, BaselineOK PROVE Consistent
    OBVIOUS
  <2>1. BaselineIsTheirs
    <3>1. call.at \in {"none", "query"} \/ Moving
      BY CallKinds DEF Control, Moving
    <3> QED  BY <3>1 DEF BaselineOK, BaselineIsTheirs, Unnoticed
  <2>2. result = "restored" => completion = "restored" /\ ended
    BY DEF Control, EndOK
  <2>3. ShutdownIsTrue
    BY <2>2 DEF Control, EndOK, BaselineOK, ShutdownIsTrue
  <2> QED  BY <2>1, <2>3 DEF Control, Consistent
<1> QED  BY <1>2, <1>3, ControlHolds, PTL

================================================================================
