------------------------- MODULE MemoryPriorityProofs -------------------------
(***************************************************************************)
(* Proofs about MemoryPriority, for any processes, priorities, claims and  *)
(* bounds.                                                                 *)
(***************************************************************************)
EXTENDS MemoryPriority, RecoveryServiceProofs

--------------------------------------------------------------------------------
\* The labels of an attempt on one process, by what they are part of.
AttemptLabels == {"open", "stale", "query", "drift", "decide"}
IntentLabels == {"set", "verify", "commit", "restore", "check", "cancel", "retain"}
ReleaseLabels == {"observe", "relinquish", "recheck"}
StepLabels == AttemptLabels \cup {"begin"} \cup IntentLabels \cup ReleaseLabels
                \cup {"return", "drop"}
AllLabels == StepLabels \cup {"idle", "next", "stopped", "dead"}

Loops == {"release", "retry", "shutdown"}

Mine == managed[at.key]

\* The attempt on one process: what is known of op and at by label.
StepOK ==
    /\ pc = "next" => op \in Ops /\ op.kind \in Loops
    /\ pc \in StepLabels =>
          /\ op \in Ops /\ at \in Steps
          /\ at.mode # "release" => at.claim \in Claim
          /\ at.mode = "release" => op.kind \in Loops
          /\ op.kind = "shutdown" => at.mode = "release"
          /\ at.mode # "claim" => Owned
    /\ pc \in AttemptLabels => at.mode = "claim"
    /\ pc \in ReleaseLabels => at.mode # "claim"
    /\ pc = "drop" => op.kind \in Loops /\ Owned
    /\ pc \in IntentLabels => at.id \in Ids
    /\ call # NoCall /\ pc = "begin" => at.id \in Ids

\* What a shutdown has still to release is managed, and listed once.
TodoOK ==
    pc \in StepLabels \cup {"next"} /\ op.kind = "shutdown" =>
        /\ \A t \in op.todo : managed[t.key] # NoManaged
        /\ \A t, u \in op.todo : t.key = u.key => t = u
        /\ pc # "next" => \A t \in op.todo : t.key # at.key

\* Claims stand under their owner, and an attempt acts for the claim in effect.
ClaimsOK ==
    /\ \A o \in PolicyOwners, k \in Keys : claims[o][k] # NoClaim => claims[o][k].owner = o
    /\ pc \in StepLabels /\ op.kind = "apply" =>
          /\ op.owner \in PolicyOwners
          /\ op.previous # NoClaim => op.previous.owner = op.owner
          /\ at.claim.owner = op.owner
          /\ at.claim = Effective(claims, at.key)
    /\ pc \in StepLabels /\ op.kind = "list" => at.claim.owner = "ProcessList"
    /\ pc \in StepLabels /\ op.kind \in Loops /\ at.mode # "release" =>
          at.claim = Effective(claims, at.key)
    /\ pc \in StepLabels \cup {"next"} /\ op.kind = "shutdown" =>
          \A o \in PolicyOwners, k \in Keys : claims[o][k] = NoClaim

\* Labels behind the check for stale bearers of the process id.
CheckedLabels == {"query", "drift", "decide", "begin"} \cup IntentLabels

\* A process id has one owner, and none but the process at hand once checked.
OwnersOK ==
    /\ \A j, k \in ManagedKeys : Pid[j] = Pid[k] => j = k
    /\ pc \in CheckedLabels /\ at.mode = "claim" => Stale(at.key) = {}

\* What is known of the life of managed processes and of the one at hand.
LifeOK ==
    /\ \A j, k \in Keys : life[j] = "alive" /\ life[k] = "alive" /\ Pid[j] = Pid[k] => j = k
    /\ \A k \in ManagedKeys : life[k] # "unborn"
    /\ pc \in CheckedLabels \cup {"stale"} /\ at.mode = "claim" => life[at.key] # "unborn"
    /\ pc = "stale" => \A s \in Stale(at.key) : life[s] = "exited"
    /\ pc = "return" /\ result = "exited" /\ Owned => life[at.key] = "exited"
    /\ pc = "drop" => life[at.key] = "exited"

\* The attempt of the claim has succeeded.
Applied == pc = "return" /\ result = "ok" /\ at.mode = "claim"

\* A change the adaptive engine owns against a claim of the static policy, unmarked.
Outranked(k) ==
    /\ managed[k] # NoManaged /\ managed[k].owner = "AdaptiveEngine"
    /\ claims["MemoryPriority"][k] # NoClaim
    /\ k \notin releases

\* Only while the static policy's first claim on the process is being applied.
RankOK ==
    pc # "dead" => \A k \in Keys : Outranked(k) =>
        /\ pc \in StepLabels /\ k = at.key /\ ~Applied
        /\ op.kind = "apply" /\ op.owner = "MemoryPriority" /\ op.previous = NoClaim

\* An automatic change that its owner does not claim under C, unmarked.
Unclaimed(C, k) ==
    /\ managed[k] # NoManaged /\ Automatic(managed[k].owner)
    /\ EffectiveOwner(C, k) # managed[k].owner
    /\ k \notin releases

Reverted == [claims EXCEPT ![op.owner][at.key] = op.previous]

\* Only what a loop has still to visit, or the claim at hand; and giving that claim
\* up again leaves nothing unclaimed.
OrphanOK ==
    ~latched =>
        /\ pc = "idle" => \A k \in Keys : ~Unclaimed(claims, k)
        /\ pc \in StepLabels \cup {"next"} /\ op.kind # "shutdown" =>
              \A k \in Keys : Unclaimed(claims, k) =>
                  \/ op.kind \in Loops /\ \E t \in op.todo : t.key = k
                  \/ pc \in StepLabels /\ op.kind = "apply" /\ k = at.key /\ ~Applied
        /\ pc \in StepLabels /\ op.kind = "apply" /\ ~Applied => ~Unclaimed(Reverted, at.key)

\* The command under way is the one the label sends, and only some labels send one.
CallOK ==
    /\ call # NoCall =>
          /\ call.phase \in {"sent", "landed"}
          /\ pc \in {"stale", "drift", "begin", "commit", "cancel", "relinquish", "drop"}
          /\ pc = "stale" => /\ Stale(at.key) # {}
                             /\ call.command = Forget(CHOOSE s \in Stale(at.key) : TRUE)
          /\ pc \in {"drift", "relinquish", "drop"} => call.command = Forget(at.key)
          /\ pc = "begin" => call.command = Begin(at.id, at.key,
                                 [original |-> at.seen, expected |-> at.target])
          /\ pc = "commit" => call.command = Commit(at.id)
          /\ pc = "cancel" => call.command = Cancel(at.id)
    /\ pc \in IntentLabels => ~latched

--------------------------------------------------------------------------------
(***************************************************************************)
(* Types, by the part of the state.                                        *)
(***************************************************************************)
ControlTypes ==
    /\ pc \in AllLabels
    /\ op \in Ops \cup {NoOp}
    /\ at \in Steps \cup {NoStep}
    /\ result \in {"ok", "exited", "error"}

StateTypes ==
    /\ claims \in [PolicyOwners -> [Keys -> Claim \cup {NoClaim}]]
    /\ managed \in [Keys -> ManagedType \cup {NoManaged}]
    /\ releases \subseteq Keys
    /\ nextId \in Nat \ {0}

WorldTypes ==
    /\ value \in [Keys -> Values]
    /\ life \in [Keys -> {"unborn", "alive", "exited"}]
    /\ pre \in [Keys -> Values]
    /\ mixed \in [Keys -> BOOLEAN]

BoundTypes == faults \in 0..MaxFaults /\ writes \in 0..MaxWrites

\* The type invariant, by the part of the state.
LEMMA TypeParts ==
    TypeOK <=> ServiceTypeOK /\ ControlTypes /\ StateTypes /\ WorldTypes /\ BoundTypes
BY DEF TypeOK, ControlTypes, StateTypes, WorldTypes, BoundTypes, AllLabels, StepLabels,
       AttemptLabels, IntentLabels, ReleaseLabels

\* Every journal the helper may find is one of a controller with one change under way.
JournalOK == \A J \in Futures : Slim(J)

\* What an attempt is started with (Attempt, ReleaseStep) is well typed.
LEMMA StepTypes ==
    ASSUME StateTypes, NEW k \in Keys
    PROVE  /\ \A claim \in Claim : Attempt(k, claim) \in Steps
           /\ managed[k] # NoManaged => ReleaseStep(k) \in Steps
           /\ Effective(claims, k) \in Claim \cup {NoClaim}
<1>1. \A claim \in Claim : Attempt(k, claim) \in Steps
  BY DEF Attempt, Claim, Steps
<1>2. ASSUME managed[k] # NoManaged PROVE ReleaseStep(k) \in Steps
  <2>1. managed[k] \in ManagedType
    BY <1>2 DEF StateTypes
  <2> QED  BY <2>1 DEF ReleaseStep, Steps, ManagedType
<1>3. Effective(claims, k) \in Claim \cup {NoClaim}
  BY DEF StateTypes, Effective, PolicyOwners
<1> QED  BY <1>1, <1>2, <1>3

\* What a loop is to visit is ranked by the sequence of the managed changes.
LEMMA RankedType ==
    ASSUME StateTypes, NEW S \in SUBSET ManagedKeys
    PROVE  Ranked(S) \in SUBSET [key : Keys, rank : Nat]
<1>1. ASSUME NEW k \in S PROVE k \in Keys /\ managed[k].sequence \in Nat
  BY IdsAssumption DEF StateTypes, ManagedKeys, ManagedType
<1> QED  BY <1>1 DEF Ranked

\* The operations that visit several processes start with a well typed list.
LEMMA LoopTypes ==
    ASSUME StateTypes,
           \/ (\E o \in PolicyOwners, active \in SUBSET Keys : ReleasePolicyExcept(o, active))
           \/ RetryPendingReleases \/ Shutdown
    PROVE  op' \in Ops /\ op'.kind \in Loops /\ pc' = "next"
<1>1. ASSUME NEW o \in PolicyOwners, NEW active \in SUBSET Keys, ReleasePolicyExcept(o, active)
      PROVE  op' \in Ops /\ op'.kind \in Loops /\ pc' = "next"
  <2>1. \A S \in SUBSET Keys : {[key |-> j, rank |-> 0] : j \in S} \in SUBSET [key : Keys, rank : Nat]
    OBVIOUS
  <2> DEFINE stale == {j \in Keys \ active : claims[o][j] # NoClaim}
             S == stale \cup {j \in Keys : /\ managed[j] # NoManaged
                                           /\ managed[j].owner = o
                                           /\ EffectiveOwner(claims', j) # o}
  <2>2. Start("release", o, NoClaim, {[key |-> j, rank |-> 0] : j \in S}) /\ pc' = "next"
    BY <1>1 DEF ReleasePolicyExcept
  <2>3. S \in SUBSET Keys
    OBVIOUS
  <2> HIDE DEF S
  <2> QED  BY <2>1, <2>2, <2>3 DEF Start, Ops, Owners, Loops
<1>2. CASE RetryPendingReleases
  <2>1. Ranked(releases \cap ManagedKeys) \in SUBSET [key : Keys, rank : Nat]
    BY RankedType
  <2> QED  BY <1>2, <2>1 DEF RetryPendingReleases, Start, Ops, Owners, Loops
<1>3. CASE Shutdown
  <2>1. Ranked(ManagedKeys) \in SUBSET [key : Keys, rank : Nat]
    BY RankedType
  <2> QED  BY <1>3, <2>1 DEF Shutdown, Start, Ops, Owners, Loops
<1> QED  BY <1>1, <1>2, <1>3

\* Whatever happens, the recovery service moves as RecoveryService says.
LEMMA ServiceMoves ==
    ASSUME TypeOK, StepOK, CallOK, [Next]_mpVars
    PROVE  [ServiceNext]_serviceVars
<1> USE CommandTypes DEF ServiceNext, serviceVars
<1>1. CASE \/ (\E o \in PolicyOwners, k \in Keys, c \in Claims : ApplyPolicyClaim(o, k, c))
           \/ (\E k \in Keys, v \in Values : ApplyProcessListAction(k, v))
           \/ (\E o \in PolicyOwners, active \in SUBSET Keys : ReleasePolicyExcept(o, active))
           \/ RetryPendingReleases \/ Shutdown \/ Open \/ Query \/ Decide
           \/ SetPriority \/ Verify \/ Restore \/ CheckRestored \/ Observe \/ Recheck
           \/ ReturnPreserved \/ ReturnApply \/ ReturnReconcile \/ NextKey \/ LoopDone
           \/ (\E k \in Keys, v \in Values : OutsiderSets(k, v))
           \/ (\E k \in Keys : ProcessExits(k))
           \/ (\E k \in Keys : ProcessStarts(k))
           \/ (\E k \in Keys : Replay(k))
           \/ UNCHANGED mpVars
  BY <1>1 DEF ApplyPolicyClaim, ApplyProcessListAction, ReleasePolicyExcept,
     RetryPendingReleases, Shutdown, Open, Query, Decide, SetPriority, Verify,
     Restore, CheckRestored, Observe, Recheck, ReturnPreserved, ReturnApply,
     ReturnReconcile, NextKey, LoopDone, OutsiderSets, ProcessExits, ProcessStarts,
     Replay, mpVars
<1>2. CASE RelinquishStale
  <2>1. at.key \in Keys /\ Stale(at.key) \subseteq Keys
    BY <1>2 DEF RelinquishStale, StepOK, StepLabels, AttemptLabels, Steps, Stale
  <2>2. Stale(at.key) # {} => (CHOOSE s \in Stale(at.key) : TRUE) \in Keys
    BY <2>1
  <2> QED  BY <1>2, <2>2 DEF RelinquishStale, Granted, Denied, Ask
<1>3. CASE RelinquishDrifted
  <2>1. at \in Steps /\ at.key \in Keys
    BY <1>3 DEF RelinquishDrifted, StepOK, StepLabels, AttemptLabels, IntentLabels,
       ReleaseLabels, Steps
  <2> QED  BY <1>3, <2>1 DEF RelinquishDrifted, Granted, Denied, Ask
<1>4. CASE BeginChange
  <2>1. at.key \in Keys /\ [original |-> at.seen, expected |-> at.target] \in Edge
    BY <1>4 DEF BeginChange, StepOK, StepLabels, Steps, Edge
  <2> QED  BY <1>4, <2>1 DEF BeginChange, Granted, Denied
<1>5. CASE CommitChange
  <2>1. at.id \in Ids
    BY <1>5 DEF CommitChange, StepOK, IntentLabels
  <2> QED  BY <1>5, <2>1 DEF CommitChange, Granted, Denied, Ask
<1>6. CASE CancelChange
  <2>1. at.id \in Ids
    BY <1>6 DEF CancelChange, StepOK, IntentLabels
  <2> QED  BY <1>6, <2>1 DEF CancelChange, Granted, Denied, Ask
<1>7. CASE \/ RetainChange \/ Crash \/ OtherLatches \/ ServiceStep
  BY <1>7 DEF RetainChange, Crash, OtherLatches, ServiceStep, ServiceActs
<1>8. CASE Relinquish
  <2>1. at \in Steps /\ at.key \in Keys
    BY <1>8 DEF Relinquish, StepOK, StepLabels, AttemptLabels, IntentLabels, ReleaseLabels,
       Steps
  <2> QED  BY <1>8, <2>1 DEF Relinquish, Granted, Denied, Ask
<1>9. CASE DropExited
  <2>1. at \in Steps /\ at.key \in Keys
    BY <1>9 DEF DropExited, StepOK, StepLabels, AttemptLabels, IntentLabels, ReleaseLabels,
       Steps
  <2> QED  BY <1>9, <2>1 DEF DropExited, Granted, Denied, Ask
<1> QED
  BY <1>1, <1>2, <1>3, <1>4, <1>5, <1>6, <1>7, <1>8, <1>9 DEF Next, Entry, Controller,
     Environment
\* Values, lives and the history of what others set keep their types.
LEMMA WorldStep ==
    ASSUME StepOK, JournalOK, WorldTypes, [Next]_mpVars
    PROVE  WorldTypes'
<1>1. CASE \/ (\E o \in PolicyOwners, k \in Keys, c \in Claims : ApplyPolicyClaim(o, k, c))
           \/ (\E k \in Keys, v \in Values : ApplyProcessListAction(k, v))
           \/ (\E o \in PolicyOwners, active \in SUBSET Keys : ReleasePolicyExcept(o, active))
           \/ RetryPendingReleases \/ Shutdown \/ Open \/ RelinquishStale \/ Query
           \/ RelinquishDrifted \/ Decide \/ BeginChange \/ Verify \/ CommitChange
           \/ CheckRestored \/ CancelChange \/ RetainChange \/ Observe \/ Relinquish
           \/ Recheck \/ ReturnPreserved \/ ReturnApply \/ ReturnReconcile
           \/ DropExited \/ NextKey \/ LoopDone \/ Crash \/ OtherLatches
           \/ ServiceStep
           \/ UNCHANGED mpVars
  BY <1>1 DEF ApplyPolicyClaim, ApplyProcessListAction, ReleasePolicyExcept,
     RetryPendingReleases, Shutdown, Open, RelinquishStale, Query,
     RelinquishDrifted, Decide, BeginChange, Verify, CommitChange, CheckRestored,
     CancelChange, RetainChange, Observe, Relinquish, Recheck, ReturnPreserved,
     ReturnApply, ReturnReconcile, DropExited, NextKey, LoopDone, Crash,
     OtherLatches, ServiceStep, worldVars, mpVars, Ask, Denied, WorldTypes
<1>2. CASE SetPriority
  <2>1. at \in Steps
    BY <1>2 DEF SetPriority, StepOK, StepLabels, IntentLabels
  <2> QED  BY <1>2, <2>1 DEF SetPriority, WorldTypes, Steps
<1>3. CASE Restore
  <2>1. at \in Steps
    BY <1>3 DEF Restore, StepOK, StepLabels, IntentLabels
  <2> QED  BY <1>3, <2>1 DEF Restore, WorldTypes, Steps
<1>4. ASSUME NEW k \in Keys, NEW v \in Values, OutsiderSets(k, v)
      PROVE  WorldTypes'
  BY <1>4 DEF OutsiderSets, WorldTypes
<1>5. ASSUME NEW k \in Keys, ProcessExits(k)
      PROVE  WorldTypes'
  BY <1>5 DEF ProcessExits, WorldTypes
<1>6. ASSUME NEW k \in Keys, ProcessStarts(k)
      PROVE  WorldTypes'
  BY <1>6 DEF ProcessStarts, WorldTypes
<1>7. ASSUME NEW k \in Keys, Replay(k)
      PROVE  WorldTypes'
  <2>1. Unwind(journal, k, value[k]) \in Values
    BY UnwindAgain DEF WorldTypes, Futures, JournalOK
  <2> QED  BY <1>7, <2>1 DEF Replay, WorldTypes
<1> QED
  BY <1>1, <1>2, <1>3, <1>4, <1>5, <1>6, <1>7 DEF Next, Entry, Controller, Environment

Writes == writes > 0 /\ writes' = writes - 1

\* A step uses up at most one fault and one write of others.
LEMMA Paces ==
    ASSUME [Next]_mpVars
    PROVE  (Fault \/ UNCHANGED faults) /\ (Writes \/ UNCHANGED writes)
<1>1. CASE \/ (\E o \in PolicyOwners, k \in Keys, c \in Claims : ApplyPolicyClaim(o, k, c))
           \/ (\E k \in Keys, v \in Values : ApplyProcessListAction(k, v))
           \/ (\E o \in PolicyOwners, active \in SUBSET Keys : ReleasePolicyExcept(o, active))
           \/ RetryPendingReleases \/ Shutdown
  BY <1>1 DEF ApplyPolicyClaim, ApplyProcessListAction, ReleasePolicyExcept,
     RetryPendingReleases, Shutdown, worldVars
<1>2. CASE \/ Open \/ RelinquishStale \/ Query \/ RelinquishDrifted \/ Decide
           \/ BeginChange \/ SetPriority \/ Verify \/ CommitChange \/ Restore
           \/ CheckRestored \/ CancelChange \/ RetainChange
  BY <1>2 DEF Open, RelinquishStale, Query, RelinquishDrifted, Decide, BeginChange,
     SetPriority, Verify, CommitChange, Restore, CheckRestored, CancelChange,
     RetainChange, Granted, Denied, Ask, worldVars
<1>3. CASE \/ Observe \/ Relinquish \/ Recheck \/ ReturnPreserved \/ ReturnApply
           \/ ReturnReconcile \/ DropExited \/ NextKey \/ LoopDone
  BY <1>3 DEF Observe, Relinquish, Recheck, ReturnPreserved, ReturnApply,
     ReturnReconcile, DropExited, NextKey, LoopDone, Granted, Denied, Ask, worldVars
<1>4. CASE \/ (\E k \in Keys, v \in Values : OutsiderSets(k, v))
  BY <1>4 DEF OutsiderSets, Writes
<1>5. CASE \/ (\E k \in Keys : ProcessExits(k))
           \/ (\E k \in Keys : ProcessStarts(k))
           \/ (\E k \in Keys : Replay(k))
           \/ Crash \/ OtherLatches \/ ServiceStep
           \/ UNCHANGED mpVars
  BY <1>5 DEF ProcessExits, ProcessStarts, Replay, Crash, OtherLatches, ServiceStep,
     ServiceActs, worldVars, mpVars
<1> QED
  BY <1>1, <1>2, <1>3, <1>4, <1>5 DEF Next, Entry, Controller, Environment

\* No step exceeds the bounds.
LEMMA BoundStep == BoundTypes /\ [Next]_mpVars => BoundTypes'
<1>1. BoundTypes /\ Fault => faults' \in 0..MaxFaults
  BY FaultsAssumption DEF BoundTypes, Fault
<1>2. BoundTypes /\ Writes => writes' \in 0..MaxWrites
  BY WritesAssumption DEF BoundTypes, Writes
<1> QED  BY <1>1, <1>2, Paces DEF BoundTypes
\* The program counter, the operation and the attempt keep their types.
LEMMA ControlStep ==
    ASSUME StepOK, TodoOK, ControlTypes, StateTypes, WorldTypes, [Next]_mpVars
    PROVE  ControlTypes'
<1>1. ASSUME NEW o \in PolicyOwners, NEW k \in Keys, NEW c \in Claims, ApplyPolicyClaim(o, k, c)
      PROVE  ControlTypes'
  <2> DEFINE claim == [owner |-> o, priority |-> c.priority, preservation |-> c.preservation]
  <2>1. claim \in Claim
    BY ClaimsAssumption DEF Claim, Owners
  <2>2. Attempt(k, claim) \in Steps
    BY <2>1, StepTypes
  <2>3. claims[o][k] \in Claim \cup {NoClaim} /\ o \in Owners
    BY DEF StateTypes, Owners
  <2> HIDE DEF claim
  <2>4. UNCHANGED callVars \/ (/\ Start("apply", o, claims[o][k], {}) /\ at' = Attempt(k, claim)
                               /\ pc' = "open" /\ UNCHANGED result)
    BY <1>1 DEF ApplyPolicyClaim, claim
  <2> QED  BY <2>2, <2>3, <2>4 DEF ControlTypes, callVars, Start, Ops, AllLabels, StepLabels,
            AttemptLabels
<1>2. ASSUME NEW k \in Keys, NEW v \in Values, ApplyProcessListAction(k, v)
      PROVE  ControlTypes'
  <2>1. [owner |-> "ProcessList", priority |-> v, preservation |-> "Exact"] \in Claim
    BY DEF Claim, Owners
  <2>2. at' \in Steps
    BY <1>2, <2>1, StepTypes DEF ApplyProcessListAction
  <2> QED  BY <1>2, <2>2 DEF ApplyProcessListAction, ControlTypes, Start, Ops, Owners,
    AllLabels,
            StepLabels, AttemptLabels
<1>3. CASE \/ (\E o \in PolicyOwners, active \in SUBSET Keys : ReleasePolicyExcept(o, active))
           \/ RetryPendingReleases \/ Shutdown
  BY <1>3, LoopTypes DEF ReleasePolicyExcept, RetryPendingReleases, Shutdown,
     ControlTypes, AllLabels
<1>4. CASE \/ Open \/ RelinquishStale \/ RelinquishDrifted \/ SetPriority \/ Verify
           \/ Restore \/ CheckRestored \/ CancelChange \/ RetainChange \/ Relinquish
           \/ Recheck \/ ReturnApply \/ ReturnReconcile \/ DropExited \/ LoopDone
           \/ (\E k \in Keys, v \in Values : OutsiderSets(k, v))
           \/ (\E k \in Keys : ProcessExits(k))
           \/ (\E k \in Keys : ProcessStarts(k))
           \/ (\E k \in Keys : Replay(k))
           \/ Crash \/ OtherLatches \/ ServiceStep
           \/ UNCHANGED mpVars
  BY <1>4 DEF Open, RelinquishStale, RelinquishDrifted, SetPriority, Verify, Restore,
     CheckRestored, CancelChange, RetainChange, Relinquish, Recheck, ReturnApply,
     ReturnReconcile, DropExited, LoopDone, OutsiderSets, ProcessExits,
     ProcessStarts, Replay, Crash, OtherLatches, ServiceStep, ControlTypes,
     AllLabels, StepLabels, AttemptLabels, IntentLabels, ReleaseLabels, Goto,
     Return, Idle, Disown, Ask, callVars, mpVars
<1>5. CASE Query
  <2>1. at \in Steps /\ value[at.key] \in Values /\ managed[at.key] \in ManagedType \cup {NoManaged}
    BY <1>5 DEF Query, StepOK, StepLabels, AttemptLabels, ReleaseLabels, Steps, WorldTypes,
       StateTypes
  <2>2. at' \in Steps
    BY <1>5, <2>1 DEF Query, Steps, Return
  <2> QED  BY <1>5, <2>2 DEF Query, ControlTypes, Goto, Return, AllLabels, StepLabels,
            AttemptLabels, ReleaseLabels
<1>6. CASE Decide
  <2>1. at \in Steps
    BY <1>6 DEF Decide, StepOK, StepLabels, AttemptLabels, IntentLabels
  <2>2. at' \in Steps
    BY <1>6, <2>1 DEF Decide, DecidePreserved, DecideUnchanged, Goto, Return, Steps, StateTypes
  <2> QED  BY <1>6, <2>2 DEF Decide, DecidePreserved, DecideUnchanged, Goto, Return,
    ControlTypes,
            AllLabels, StepLabels, AttemptLabels, IntentLabels, ReleaseLabels
<1>7. CASE BeginChange
  <2>1. at \in Steps
    BY <1>7 DEF BeginChange, StepOK, StepLabels, AttemptLabels, IntentLabels
  <2>2. at' \in Steps
    BY <1>7, <2>1 DEF BeginChange, Goto, Return, Steps, StateTypes
  <2> QED  BY <1>7, <2>2 DEF BeginChange, Goto, Return, ControlTypes,
            AllLabels, StepLabels, AttemptLabels, IntentLabels, ReleaseLabels
<1>8. CASE CommitChange
  <2>1. at \in Steps
    BY <1>8 DEF CommitChange, StepOK, StepLabels, AttemptLabels, IntentLabels
  <2>2. at' \in Steps
    BY <1>8, <2>1 DEF CommitChange, Ask, callVars, Return, Steps, StateTypes
  <2> QED  BY <1>8, <2>2 DEF CommitChange, Ask, callVars, Return, ControlTypes,
            AllLabels, StepLabels, AttemptLabels, IntentLabels, ReleaseLabels
<1>9. CASE Observe
  <2>1. at \in Steps /\ value[at.key] \in Values /\ managed[at.key] \in ManagedType \cup {NoManaged}
    BY <1>9 DEF Observe, StepOK, StepLabels, AttemptLabels, ReleaseLabels, Steps, WorldTypes,
       StateTypes
  <2>2. managed[at.key] # NoManaged
    BY <1>9 DEF Observe, StepOK, StepLabels, ReleaseLabels, Owned
  <2>3. at' \in Steps
    BY <1>9, <2>1, <2>2 DEF Observe, Steps, Return, ManagedType
  <2> QED  BY <1>9, <2>3 DEF Observe, ControlTypes, Goto, Return, AllLabels, StepLabels,
            AttemptLabels, ReleaseLabels
<1>10. CASE ReturnPreserved
  <2>1. at \in Steps
    BY <1>10 DEF ReturnPreserved, StepOK, StepLabels, AttemptLabels, IntentLabels
  <2>2. at' \in Steps
    BY <1>10, <2>1 DEF ReturnPreserved, Steps, StateTypes
  <2> QED  BY <1>10, <2>2 DEF ReturnPreserved, ControlTypes,
            AllLabels, StepLabels, AttemptLabels, IntentLabels, ReleaseLabels
<1>11. CASE NextKey
  <2>1. op \in Ops /\ op.todo \subseteq [key : Keys, rank : Nat]
    BY <1>11 DEF NextKey, StepOK, Ops
  <2>2. PICK t \in op.todo :
           /\ op' = [op EXCEPT !.todo = @ \ {t}]
           /\ \/ /\ op.kind # "shutdown" /\ Effective(claims, t.key) # NoClaim
                 /\ at' = Attempt(t.key, Effective(claims, t.key)) /\ pc' = "open"
              \/ /\ op.kind = "shutdown" \/ managed[t.key] # NoManaged
                 /\ at' = ReleaseStep(t.key) /\ pc' = "observe"
              \/ UNCHANGED <<at, pc>>
    BY <1>11 DEF NextKey, Newest
  <2>3. t.key \in Keys /\ (op.kind = "shutdown" => managed[t.key] # NoManaged)
    BY <1>11, <2>1, <2>2 DEF NextKey, TodoOK
  <2>4. at' \in Steps \/ UNCHANGED at
    BY <2>2, <2>3, StepTypes
  <2>5. op' \in Ops
    BY <2>1, <2>2 DEF Ops
  <2> QED  BY <1>11, <2>2, <2>4, <2>5 DEF NextKey, ControlTypes, AllLabels, StepLabels,
            AttemptLabels, ReleaseLabels
<1> QED
  BY <1>1, <1>2, <1>3, <1>4, <1>5, <1>6, <1>7, <1>8, <1>9, <1>10, <1>11 DEF Next,
     Entry, Controller, Environment
\* The claims, the managed changes and the pending releases keep their types.
LEMMA StateStep ==
    ASSUME StepOK, StateTypes, [Next]_mpVars
    PROVE  StateTypes'
<1>1. ASSUME NEW o \in PolicyOwners, NEW k \in Keys, NEW c \in Claims, ApplyPolicyClaim(o, k, c)
      PROVE  StateTypes'
  <2>1. [owner |-> o, priority |-> c.priority, preservation |-> c.preservation] \in Claim
    BY ClaimsAssumption DEF Claim, Owners
  <2> QED  BY <1>1, <2>1 DEF ApplyPolicyClaim, StateTypes
<1>2. CASE \/ (\E k \in Keys, v \in Values : ApplyProcessListAction(k, v))
           \/ RetryPendingReleases \/ Shutdown \/ Open \/ RelinquishStale \/ Query
           \/ SetPriority \/ Verify \/ Restore \/ CheckRestored \/ CancelChange
           \/ Observe \/ Relinquish \/ LoopDone
           \/ (\E k \in Keys, v \in Values : OutsiderSets(k, v))
           \/ (\E k \in Keys : ProcessExits(k))
           \/ (\E k \in Keys : ProcessStarts(k))
           \/ (\E k \in Keys : Replay(k))
           \/ Crash \/ OtherLatches \/ ServiceStep
           \/ UNCHANGED mpVars
  BY <1>2 DEF ApplyProcessListAction, RetryPendingReleases, Shutdown, Open,
     RelinquishStale, Query, SetPriority, Verify, Restore, CheckRestored,
     CancelChange, Observe, Relinquish, LoopDone, OutsiderSets, ProcessExits,
     ProcessStarts, Replay, Crash, OtherLatches, ServiceStep, StateTypes, Disown,
     Ask, stateVars, mpVars
<1>3. ASSUME NEW o \in PolicyOwners, NEW active \in SUBSET Keys, ReleasePolicyExcept(o, active)
      PROVE  StateTypes'
  BY <1>3, SMTT(30) DEF ReleasePolicyExcept, StateTypes
<1>4. CASE RelinquishDrifted
  <2>1. at.key \in Keys
    BY <1>4 DEF RelinquishDrifted, StepOK, StepLabels, AttemptLabels, Steps
  <2> QED  BY <1>4, <2>1 DEF RelinquishDrifted, Disown, Ask, StateTypes, stateVars
<1>5. CASE Decide
  <2>1. at.key \in Keys /\ at.claim \in Claim
    BY <1>5 DEF Decide, StepOK, StepLabels, AttemptLabels, Steps
  <2>2. Owned => [managed[at.key] EXCEPT !.owner = at.claim.owner] \in ManagedType
    BY <2>1 DEF Owned, StateTypes, ManagedType, Claim
  <2> QED  BY <1>5, <2>1, <2>2 DEF Decide, DecidePreserved, DecideUnchanged, StateTypes,
    stateVars
<1>6. CASE BeginChange
  BY <1>6, IdsAssumption DEF BeginChange, StateTypes, stateVars
<1>7. CASE CommitChange
  <2>1. at \in Steps /\ at.key \in Keys /\ at.id \in Ids
    BY <1>7 DEF CommitChange, StepOK, StepLabels, IntentLabels, Steps
  <2>2. at.mode = "claim" => Baseline \in Values /\ at.claim \in Claim
    BY <1>7, <2>1 DEF CommitChange, StepOK, StepLabels, IntentLabels, Baseline, StateTypes,
       ManagedType, Steps
  <2>3. at.mode = "claim" => [baseline |-> Baseline, expected |-> at.target,
                              owner |-> at.claim.owner, sequence |-> at.id] \in ManagedType
    BY <2>1, <2>2 DEF Claim, ManagedType, Steps
  <2> QED  BY <1>7, <2>1, <2>3 DEF CommitChange, Own, Ask, StateTypes, stateVars
<1>8. CASE RetainChange
  <2>1. at \in Steps /\ at.key \in Keys /\ at.id \in Ids
    BY <1>8 DEF RetainChange, StepOK, StepLabels, IntentLabels, Steps
  <2>2. at.mode = "claim" => Baseline \in Values /\ at.claim \in Claim
    BY <1>8, <2>1 DEF RetainChange, StepOK, StepLabels, IntentLabels, Baseline, StateTypes,
       ManagedType, Steps
  <2>3. at.mode = "claim" => [baseline |-> Baseline, expected |-> at.target,
                              owner |-> at.claim.owner, sequence |-> at.id] \in ManagedType
    BY <2>1, <2>2 DEF Claim, ManagedType, Steps
  <2> QED  BY <1>8, <2>1, <2>3 DEF RetainChange, Own, StateTypes, stateVars
<1>9. CASE Recheck
  <2>1. at \in Steps /\ at.key \in Keys /\ managed[at.key] \in ManagedType
    BY <1>9 DEF Recheck, StepOK, StepLabels, ReleaseLabels, Steps, Owned, StateTypes
  <2>2. [managed[at.key] EXCEPT !.expected = at.target] \in ManagedType
    BY <2>1 DEF ManagedType, Steps
  <2> QED  BY <1>9, <2>1, <2>2 DEF Recheck, StateTypes
<1>10. CASE ReturnPreserved
  <2>1. at.key \in Keys
    BY <1>10 DEF ReturnPreserved, StepOK, StepLabels, AttemptLabels, Steps
  <2> QED  BY <1>10, <2>1 DEF ReturnPreserved, Disown, Ask, StateTypes, stateVars
<1>11. CASE ReturnApply
  <2>1. at.key \in Keys /\ op \in Ops
    BY <1>11 DEF ReturnApply, StepOK, StepLabels, Steps
  <2>2. op.previous \in Claim \cup {NoClaim}
    BY <2>1 DEF Ops
  <2> QED  BY <1>11, <2>1, <2>2 DEF ReturnApply, StateTypes
<1>12. CASE ReturnReconcile
  <2>1. at.key \in Keys
    BY <1>12 DEF ReturnReconcile, StepOK, StepLabels, AttemptLabels, Steps
  <2> QED  BY <1>12, <2>1 DEF ReturnReconcile, Disown, Ask, StateTypes, stateVars
<1>13. CASE DropExited
  <2>1. at.key \in Keys
    BY <1>13 DEF DropExited, StepOK, StepLabels, AttemptLabels, Steps
  <2> QED  BY <1>13, <2>1 DEF DropExited, Disown, Ask, StateTypes, stateVars
<1>14. CASE NextKey
  <2>1. op \in Ops /\ op.todo \subseteq [key : Keys, rank : Nat]
    BY <1>14 DEF NextKey, StepOK, Ops
  <2>2. \E t \in op.todo : releases' = Marked(t.key)
    BY <1>14 DEF NextKey, Newest
  <2>3. releases' \subseteq Keys
    BY <2>1, <2>2 DEF Marked, StateTypes
  <2> QED  BY <1>14, <2>3 DEF NextKey, StateTypes
<1> QED
  BY <1>1, <1>2, <1>3, <1>4, <1>5, <1>6, <1>7, <1>8, <1>9, <1>10, <1>11, <1>12, <1>13,
     <1>14 DEF Next, Entry, Controller, Environment

\* An answered call is over.
LEMMA CallEnds == Granted \/ Denied => call' = NoCall
BY DEF Granted, Denied, Acknowledge, Abandon, serviceVars

\* A command is under way only where its label waits for it.
LEMMA CallStep ==
    ASSUME ServiceInv, CallOK, StepOK, [Next]_mpVars
    PROVE  CallOK'
<1> USE CallAssumption DEF ServiceInv
<1>1. CASE \/ (\E o \in PolicyOwners, k \in Keys, c \in Claims : ApplyPolicyClaim(o, k, c))
           \/ (\E k \in Keys, v \in Values : ApplyProcessListAction(k, v))
           \/ (\E o \in PolicyOwners, active \in SUBSET Keys : ReleasePolicyExcept(o, active))
           \/ RetryPendingReleases \/ Shutdown
  BY <1>1 DEF ApplyPolicyClaim, ApplyProcessListAction, ReleasePolicyExcept,
     RetryPendingReleases, Shutdown, CallOK, callVars, serviceVars, IntentLabels
<1>2. CASE \/ Open \/ Query \/ Decide \/ SetPriority \/ Verify \/ Restore
           \/ CheckRestored \/ Observe \/ Recheck \/ ReturnPreserved \/ ReturnApply
           \/ ReturnReconcile \/ NextKey \/ LoopDone
  BY <1>2 DEF Open, Query, Decide, SetPriority, Verify, Restore, CheckRestored,
     Observe, Recheck, ReturnPreserved, ReturnApply, ReturnReconcile, NextKey,
     LoopDone, CallOK, serviceVars, IntentLabels, Goto, Return, Idle,
     DecidePreserved, DecideUnchanged
<1>3. CASE RelinquishStale
  <2> DEFINE s == CHOOSE s \in Stale(at.key) : TRUE
  <2>1. CASE Ask(Forget(s)) /\ Stale(at.key) # {}
    <3>1. pc = "stale" /\ call' = [command |-> Forget(s), phase |-> "sent"] /\ ~latched'
      BY <1>3, <2>1 DEF RelinquishStale, Ask, Submit
    <3>2. UNCHANGED <<pc, at, managed>>
      BY <2>1 DEF Ask, callVars, stateVars
    <3>3. Stale(at.key)' = Stale(at.key)
      BY <3>2 DEF Stale
    <3> QED  BY <2>1, <3>1, <3>2, <3>3 DEF CallOK, IntentLabels
  <2>2. CASE ~Ask(Forget(s)) /\ Stale(at.key) # {}
    <3>1. call' = NoCall /\ pc' \notin IntentLabels
      BY <1>3, <2>2, CallEnds DEF RelinquishStale, Goto, Return, IntentLabels, callVars
    <3> QED  BY <3>1 DEF CallOK
  <2>3. CASE Stale(at.key) = {}
    <3>1. call = NoCall /\ UNCHANGED serviceVars /\ pc' = "query"
      BY <1>3, <2>3 DEF RelinquishStale, CallOK, Goto
    <3> QED  BY <3>1 DEF CallOK, serviceVars, IntentLabels
  <2> QED  BY <1>3, <2>1, <2>2, <2>3 DEF RelinquishStale
<1>4. CASE RelinquishDrifted
  <2>1. CASE Ask(Forget(at.key))
    <3>1. pc = "drift" /\ call' = [command |-> Forget(at.key), phase |-> "sent"] /\ ~latched'
      BY <1>4, <2>1 DEF RelinquishDrifted, Ask, Submit
    <3>2. UNCHANGED <<pc, at, managed>>
      BY <2>1 DEF Ask, callVars, stateVars
    <3> QED  BY <3>1, <3>2 DEF CallOK, IntentLabels
  <2>2. CASE ~Ask(Forget(at.key))
    <3>1. call' = NoCall /\ pc' \notin IntentLabels
      BY <1>4, <2>2, CallEnds DEF RelinquishDrifted, Goto, Return, IntentLabels, callVars,
         Disown
    <3> QED  BY <3>1 DEF CallOK
  <2> QED  BY <1>4, <2>1, <2>2 DEF RelinquishDrifted
<1>5. CASE BeginChange
  <2>1. CASE Submit(Begin(nextId, at.key, [original |-> at.seen, expected |-> at.target]))
             /\ at' = [at EXCEPT !.id = nextId] /\ UNCHANGED pc
    <3>1. at \in Steps /\ pc = "begin"
      BY <1>5 DEF BeginChange, StepOK, StepLabels
    <3>2. at'.id = nextId /\ at'.key = at.key /\ at'.seen = at.seen /\ at'.target = at.target
      BY <2>1, <3>1 DEF Steps
    <3>3. call'.command = Begin(at'.id, at'.key, [original |-> at'.seen, expected |-> at'.target])
          /\ call'.phase = "sent"
      BY <2>1, <3>2 DEF Submit
    <3> QED  BY <2>1, <3>1, <3>3 DEF CallOK, IntentLabels
  <2>2. CASE Granted /\ pc' = "set"
    <3>1. ~latched /\ call' = NoCall /\ latched' = latched
      BY <2>2 DEF Granted, Acknowledge, Called
    <3> QED  BY <2>2, <3>1 DEF CallOK
  <2>3. CASE (Denied \/ (call = NoCall /\ UNCHANGED serviceVars)) /\ pc' \in {"return", "recheck"}
    <3>1. call' = NoCall
      BY <2>3, CallEnds DEF serviceVars
    <3> QED  BY <2>3, <3>1 DEF CallOK, IntentLabels
  <2> QED  BY <1>5, <2>1, <2>2, <2>3 DEF BeginChange, Goto, Return
<1>6. CASE CommitChange
  <2>1. CASE Ask(Commit(at.id))
    <3>1. pc = "commit" /\ call' = [command |-> Commit(at.id), phase |-> "sent"] /\ ~latched'
      BY <1>6, <2>1 DEF CommitChange, Ask, Submit
    <3>2. UNCHANGED <<pc, at, managed>>
      BY <2>1 DEF Ask, callVars, stateVars
    <3> QED  BY <3>1, <3>2 DEF CallOK, IntentLabels
  <2>2. CASE ~Ask(Commit(at.id))
    <3>1. call' = NoCall /\ pc' \notin IntentLabels
      BY <1>6, <2>2, CallEnds DEF CommitChange, Goto, Return, IntentLabels, callVars, Disown
    <3> QED  BY <3>1 DEF CallOK
  <2> QED  BY <1>6, <2>1, <2>2 DEF CommitChange
<1>7. CASE CancelChange
  <2>1. CASE Ask(Cancel(at.id))
    <3>1. pc = "cancel" /\ call' = [command |-> Cancel(at.id), phase |-> "sent"] /\ ~latched'
      BY <1>7, <2>1 DEF CancelChange, Ask, Submit
    <3>2. UNCHANGED <<pc, at, managed>>
      BY <2>1 DEF Ask, callVars, stateVars
    <3> QED  BY <3>1, <3>2 DEF CallOK, IntentLabels
  <2>2. CASE ~Ask(Cancel(at.id))
    <3>1. call' = NoCall /\ pc' \notin IntentLabels
      BY <1>7, <2>2, CallEnds DEF CancelChange, Goto, Return, IntentLabels, callVars, Disown
    <3> QED  BY <3>1 DEF CallOK
  <2> QED  BY <1>7, <2>1, <2>2 DEF CancelChange
<1>8. CASE RetainChange
  BY <1>8 DEF RetainChange, CallOK, Latch, Goto, Return, IntentLabels
<1>9. CASE Relinquish
  <2>1. CASE Ask(Forget(at.key))
    <3>1. pc = "relinquish" /\ call' = [command |-> Forget(at.key), phase |-> "sent"] /\ ~latched'
      BY <1>9, <2>1 DEF Relinquish, Ask, Submit
    <3>2. UNCHANGED <<pc, at, managed>>
      BY <2>1 DEF Ask, callVars, stateVars
    <3> QED  BY <3>1, <3>2 DEF CallOK, IntentLabels
  <2>2. CASE ~Ask(Forget(at.key))
    <3>1. call' = NoCall /\ pc' \notin IntentLabels
      BY <1>9, <2>2, CallEnds DEF Relinquish, Goto, Return, IntentLabels, callVars, Disown
    <3> QED  BY <3>1 DEF CallOK
  <2> QED  BY <1>9, <2>1, <2>2 DEF Relinquish
<1>10. CASE DropExited
  <2>1. CASE Ask(Forget(at.key))
    <3>1. pc = "drop" /\ call' = [command |-> Forget(at.key), phase |-> "sent"] /\ ~latched'
      BY <1>10, <2>1 DEF DropExited, Ask, Submit
    <3>2. UNCHANGED <<pc, at, managed>>
      BY <2>1 DEF Ask, callVars, stateVars
    <3> QED  BY <3>1, <3>2 DEF CallOK, IntentLabels
  <2>2. CASE ~Ask(Forget(at.key))
    <3>1. call' = NoCall /\ pc' \notin IntentLabels
      BY <1>10, <2>2, CallEnds DEF DropExited, Goto, Return, IntentLabels, callVars, Disown
    <3> QED  BY <3>1 DEF CallOK
  <2> QED  BY <1>10, <2>1, <2>2 DEF DropExited
<1>11. ASSUME NEW k \in Keys, NEW v \in Values, OutsiderSets(k, v)
       PROVE  CallOK'
  <2>1. UNCHANGED <<pc, at, managed, call, latched>>
    BY <1>11 DEF OutsiderSets, serviceVars, callVars, stateVars
  <2>2. Stale(at.key)' = Stale(at.key)
    BY <2>1 DEF Stale
  <2> QED  BY <2>1, <2>2 DEF CallOK
<1>12. ASSUME NEW k \in Keys, ProcessExits(k)
       PROVE  CallOK'
  <2>1. UNCHANGED <<pc, at, managed, call, latched>>
    BY <1>12 DEF ProcessExits, serviceVars, callVars, stateVars
  <2>2. Stale(at.key)' = Stale(at.key)
    BY <2>1 DEF Stale
  <2> QED  BY <2>1, <2>2 DEF CallOK
<1>13. ASSUME NEW k \in Keys, ProcessStarts(k)
       PROVE  CallOK'
  <2>1. UNCHANGED <<pc, at, managed, call, latched>>
    BY <1>13 DEF ProcessStarts, serviceVars, callVars, stateVars
  <2>2. Stale(at.key)' = Stale(at.key)
    BY <2>1 DEF Stale
  <2> QED  BY <2>1, <2>2 DEF CallOK
<1>14. ASSUME NEW k \in Keys, Replay(k)
       PROVE  CallOK'
  <2>1. UNCHANGED <<pc, at, managed, call, latched>>
    BY <1>14 DEF Replay, serviceVars, callVars, stateVars
  <2>2. Stale(at.key)' = Stale(at.key)
    BY <2>1 DEF Stale
  <2> QED  BY <2>1, <2>2 DEF CallOK
<1>15. CASE Crash
  BY <1>15 DEF Crash, CallOK, Idle, Abandon, Latch, IntentLabels
<1>16. CASE OtherLatches
  <2>1. call = NoCall /\ call' = NoCall /\ pc \notin IntentLabels /\ pc' = pc
    BY <1>16 DEF OtherLatches, Latch, IntentLabels, callVars
  <2> QED  BY <2>1 DEF CallOK
<1>17. CASE ServiceStep
  <2>1. UNCHANGED <<pc, at, managed, latched>>
    BY <1>17 DEF ServiceStep, ServiceActs, Land, LateLand, LateLoss, callVars, stateVars
  <2>2. \/ call' = call
        \/ call # NoCall /\ call'.command = call.command /\ call'.phase = "landed"
    <3>1. CASE Land
      <4>1. call # NoCall /\ call \in [command : Commands, phase : Phases]
        BY <3>1 DEF Land, Called, ServiceTypeOK
      <4>2. call' = [call EXCEPT !.phase = "landed"]
        BY <3>1 DEF Land
      <4> QED  BY <4>1, <4>2
    <3> QED  BY <1>17, <3>1 DEF ServiceStep, ServiceActs, LateLand, LateLoss
  <2>3. Stale(at.key)' = Stale(at.key)
    BY <2>1 DEF Stale
  <2> QED  BY <2>1, <2>2, <2>3 DEF CallOK
<1>18. CASE UNCHANGED mpVars
  <2>1. UNCHANGED <<pc, at, managed, call, latched>>
    BY <1>18 DEF mpVars, serviceVars, callVars, stateVars
  <2>2. Stale(at.key)' = Stale(at.key)
    BY <2>1 DEF Stale
  <2> QED  BY <2>1, <2>2 DEF CallOK
<1> QED
  BY <1>1, <1>2, <1>3, <1>4, <1>5, <1>6, <1>7, <1>8, <1>9, <1>10, <1>11, <1>12, <1>13,
     <1>14, <1>15, <1>16, <1>17, <1>18 DEF Next, Entry, Controller, Environment
\* What is known of the operation and the attempt at each label.
LEMMA StepStep ==
    ASSUME StepOK, TodoOK, ControlTypes, StateTypes, WorldTypes, CallOK, [Next]_mpVars
    PROVE  StepOK'
<1>1. ASSUME NEW o \in PolicyOwners, NEW k \in Keys, NEW c \in Claims, ApplyPolicyClaim(o, k, c)
      PROVE  StepOK'
  <2> DEFINE claim == [owner |-> o, priority |-> c.priority, preservation |-> c.preservation]
  <2>1. claim \in Claim
    BY ClaimsAssumption DEF Claim, Owners
  <2>2. Attempt(k, claim) \in Steps /\ Attempt(k, claim).mode = "claim"
        /\ Attempt(k, claim).claim = claim
    BY <2>1, StepTypes DEF Attempt
  <2> HIDE DEF claim
  <2>3. CASE UNCHANGED callVars
    BY <1>1, <2>3 DEF ApplyPolicyClaim, StepOK, callVars, StepLabels, AttemptLabels,
       IntentLabels,
                      ReleaseLabels
  <2>4. CASE /\ Start("apply", o, claims[o][k], {}) /\ at' = Attempt(k, claim)
             /\ pc' = "open" /\ UNCHANGED result
    <3>1. op' \in Ops /\ op'.kind = "apply"
      BY <2>4 DEF Start, Ops, StateTypes, Owners
    <3> QED  BY <2>1, <2>2, <2>4, <3>1 DEF StepOK, StepLabels, AttemptLabels, IntentLabels,
                      ReleaseLabels
  <2> QED  BY <1>1, <2>3, <2>4 DEF ApplyPolicyClaim, claim
<1>2. ASSUME NEW k \in Keys, NEW v \in Values, ApplyProcessListAction(k, v)
      PROVE  StepOK'
  <2> DEFINE claim == [owner |-> "ProcessList", priority |-> v, preservation |-> "Exact"]
  <2>1. claim \in Claim
    BY DEF Claim, Owners
  <2>2. at' = Attempt(k, claim) /\ pc' = "open" /\ op' \in Ops /\ op'.kind = "list"
    BY <1>2 DEF ApplyProcessListAction, Start, Ops, Owners
  <2>3. Attempt(k, claim) \in Steps /\ Attempt(k, claim).mode = "claim"
        /\ Attempt(k, claim).claim = claim
    BY <2>1, StepTypes DEF Attempt
  <2> QED  BY <2>1, <2>2, <2>3 DEF StepOK, StepLabels, AttemptLabels, IntentLabels,
                      ReleaseLabels
<1>3. CASE \/ (\E o \in PolicyOwners, active \in SUBSET Keys : ReleasePolicyExcept(o, active))
           \/ RetryPendingReleases \/ Shutdown
  BY <1>3, LoopTypes DEF ReleasePolicyExcept, RetryPendingReleases, Shutdown, StepOK,
     StepLabels, AttemptLabels, IntentLabels, ReleaseLabels
<1>4. CASE Open
  BY <1>4 DEF Open, StepOK, StepLabels, AttemptLabels, IntentLabels, ReleaseLabels,
     Goto, Return, Owned, Ask, callVars, stateVars, Disown
<1>5. CASE RelinquishStale
  BY <1>5 DEF RelinquishStale, StepOK, StepLabels, AttemptLabels, IntentLabels,
     ReleaseLabels, Goto, Return, Owned, Ask, callVars, stateVars, Disown
<1>6. CASE Query
  <2>1. op \in Ops /\ at \in Steps /\ at.mode = "claim" /\ at.claim \in Claim
        /\ op.kind # "shutdown"
    BY <1>6 DEF Query, StepOK, StepLabels, AttemptLabels
  <2>2. at' = at \/ at' = [at EXCEPT !.seen = value[at.key]]
    BY <1>6 DEF Query, Return
  <2>3. at' \in Steps /\ at'.mode = "claim" /\ at'.claim = at.claim
    BY <2>1, <2>2 DEF Steps, WorldTypes
  <2>4. op' = op /\ pc' \in {"return", "drift", "decide"}
    BY <1>6 DEF Query, Return
  <2> QED  BY <2>1, <2>3, <2>4 DEF StepOK, StepLabels, AttemptLabels, IntentLabels,
    ReleaseLabels
<1>7. CASE RelinquishDrifted
  BY <1>7 DEF RelinquishDrifted, StepOK, StepLabels, AttemptLabels, IntentLabels,
     ReleaseLabels, Goto, Return, Owned, Ask, callVars, stateVars, Disown
<1>8. CASE Decide
  <2>1. op \in Ops /\ at \in Steps /\ at.mode = "claim" /\ at.claim \in Claim
        /\ op.kind # "shutdown"
    BY <1>8 DEF Decide, StepOK, StepLabels, AttemptLabels
  <2>2. \/ at' = at /\ pc' \in {"return", "begin"}
        \/ at' = [at EXCEPT !.mode = "preserved"] /\ pc' = "observe" /\ Owned'
    <3>1. \/ at' = at /\ pc' \in {"return", "begin"}
          \/ Owned /\ at' = [at EXCEPT !.mode = "preserved"] /\ pc' = "observe" /\ managed' = managed
      BY <1>8 DEF Decide, DecidePreserved, DecideUnchanged, Goto, Return, stateVars
    <3>2. [at EXCEPT !.mode = "preserved"].key = at.key
      BY <2>1 DEF Steps
    <3> QED  BY <3>1, <3>2 DEF Owned
  <2>3. at' \in Steps /\ at'.mode # "release" /\ at'.claim = at.claim
        /\ (pc' = "observe" => at'.mode = "preserved") /\ (pc' # "observe" => at'.mode = "claim")
    BY <2>1, <2>2 DEF Steps
  <2>4. op' = op /\ call' = call /\ call = NoCall
    BY <1>8 DEF Decide, DecidePreserved, DecideUnchanged, Goto, Return, CallOK, serviceVars
  <2> QED  BY <2>1, <2>2, <2>3, <2>4 DEF StepOK, StepLabels, AttemptLabels, IntentLabels,
    ReleaseLabels
<1>9. CASE BeginChange
  <2>1. op \in Ops /\ at \in Steps /\ pc = "begin" /\ UNCHANGED <<op, managed>>
    BY <1>9 DEF BeginChange, StepOK, StepLabels, Goto, Return, stateVars
  <2>2. CASE /\ nextId \in Ids /\ at' = [at EXCEPT !.id = nextId] /\ UNCHANGED pc
    <3>1. at' \in Steps /\ at'.id \in Ids /\ at'.mode = at.mode /\ at'.claim = at.claim
          /\ at'.key = at.key
      BY <2>1, <2>2, IdsAssumption DEF Steps
    <3> QED  BY <2>1, <2>2, <3>1 DEF StepOK, Owned, StepLabels, AttemptLabels, IntentLabels,
      ReleaseLabels
  <2>3. CASE Granted /\ pc' = "set" /\ at' = at
    <3>1. call # NoCall
      BY <2>3 DEF Granted, Acknowledge, Called
    <3> QED  BY <2>1, <2>3, <3>1 DEF StepOK, Owned, StepLabels, AttemptLabels, IntentLabels,
      ReleaseLabels
  <2>4. CASE /\ IF at.mode = "claim" THEN pc' = "return" ELSE pc' = "recheck"
             /\ at' = at
    BY <2>1, <2>4 DEF StepOK, Owned, StepLabels, AttemptLabels, IntentLabels, ReleaseLabels
  <2> QED  BY <1>9, <2>2, <2>3, <2>4 DEF BeginChange, Goto, Return
<1>10. CASE SetPriority
  BY <1>10 DEF SetPriority, StepOK, StepLabels, AttemptLabels, IntentLabels,
     ReleaseLabels, Goto, Return, Owned, Ask, callVars, stateVars, Disown
<1>11. CASE Verify
  BY <1>11 DEF Verify, StepOK, StepLabels, AttemptLabels, IntentLabels, ReleaseLabels,
     Goto, Return, Owned, Ask, callVars, stateVars, Disown
<1>12. CASE CommitChange
  <2>1. op \in Ops /\ at \in Steps /\ pc = "commit" /\ op' = op
    BY <1>12 DEF CommitChange, StepOK, StepLabels, IntentLabels, Ask, Return, callVars
  <2>2. \/ pc' = "commit" /\ at' = at /\ managed' = managed
        \/ pc' = "return" /\ at' = at /\ (at.mode # "claim" => managed' = managed)
        \/ at.mode # "claim" /\ pc' = "recheck" /\ at' = [at EXCEPT !.kept = TRUE]
           /\ managed' = managed
    BY <1>12 DEF CommitChange, Ask, Return, callVars, stateVars
  <2>3. at' \in Steps /\ at'.id = at.id /\ at'.mode = at.mode /\ at'.claim = at.claim
        /\ at'.key = at.key
    BY <2>1, <2>2 DEF Steps
  <2> QED  BY <2>1, <2>2, <2>3 DEF StepOK, Owned, StepLabels, AttemptLabels, IntentLabels,
    ReleaseLabels
<1>13. CASE Restore
  BY <1>13 DEF Restore, StepOK, StepLabels, AttemptLabels, IntentLabels,
     ReleaseLabels, Goto, Return, Owned, Ask, callVars, stateVars, Disown
<1>14. CASE CheckRestored
  BY <1>14 DEF CheckRestored, StepOK, StepLabels, AttemptLabels, IntentLabels,
     ReleaseLabels, Goto, Return, Owned, Ask, callVars, stateVars, Disown
<1>15. CASE CancelChange
  BY <1>15 DEF CancelChange, StepOK, StepLabels, AttemptLabels, IntentLabels,
     ReleaseLabels, Goto, Return, Owned, Ask, callVars, stateVars, Disown
<1>16. CASE RetainChange
  BY <1>16 DEF RetainChange, StepOK, StepLabels, AttemptLabels, IntentLabels,
     ReleaseLabels, Goto, Return, Owned, Ask, callVars, stateVars, Disown
<1>17. CASE Observe
  <2>1. op \in Ops /\ at \in Steps /\ pc = "observe" /\ op' = op /\ managed' = managed
        /\ managed[at.key] \in ManagedType /\ value[at.key] \in Values
    BY <1>17 DEF Observe, StepOK, StepLabels, ReleaseLabels, Owned, Return, stateVars,
       StateTypes,
                WorldTypes, Steps
  <2>2. \/ pc' = "return" /\ at' = at
        \/ pc' \in {"relinquish", "begin"}
           /\ at' = [at EXCEPT !.seen = value[at.key], !.target = managed[at.key].baseline]
    BY <1>17 DEF Observe, Return
  <2>3. at' \in Steps /\ at'.mode = at.mode /\ at'.claim = at.claim /\ at'.key = at.key
    BY <2>1, <2>2 DEF Steps, ManagedType
  <2>4. call' = call /\ call = NoCall
    BY <1>17 DEF Observe, serviceVars, CallOK
  <2> QED  BY <2>1, <2>2, <2>3, <2>4 DEF StepOK, Owned, StepLabels, AttemptLabels,
    IntentLabels, ReleaseLabels
<1>18. CASE Relinquish
  BY <1>18 DEF Relinquish, StepOK, StepLabels, AttemptLabels, IntentLabels,
     ReleaseLabels, Goto, Return, Owned, Ask, callVars, stateVars, Disown
<1>19. CASE Recheck
  <2>1. at \in Steps /\ at.key \in Keys /\ managed[at.key] \in ManagedType
        /\ at.mode # "claim" /\ pc' = "return" /\ UNCHANGED <<op, at>>
    BY <1>19 DEF Recheck, StepOK, StepLabels, ReleaseLabels, Steps, Owned, StateTypes, Return
  <2>2. [managed[at.key] EXCEPT !.expected = at.target] \in ManagedType
    BY <2>1 DEF ManagedType, Steps
  <2>3. Owned'
    BY <1>19, <2>1, <2>2, SentinelAssumption DEF Recheck, StateTypes, Owned
  <2> QED  BY <1>19, <2>1, <2>3 DEF Recheck, StepOK, StepLabels, AttemptLabels, IntentLabels,
    ReleaseLabels
<1>20. CASE ReturnPreserved
  <2>1. op \in Ops /\ at \in Steps /\ at.mode = "preserved" /\ at.claim \in Claim
        /\ op.kind # "shutdown" /\ UNCHANGED <<pc, op>> /\ pc = "return"
    BY <1>20 DEF ReturnPreserved, StepOK, StepLabels
  <2>2. at' \in Steps /\ at'.mode = "claim" /\ at'.claim = at.claim
    BY <1>20, <2>1 DEF ReturnPreserved, Steps
  <2> QED  BY <2>1, <2>2 DEF StepOK, StepLabels, AttemptLabels, IntentLabels, ReleaseLabels
<1>21. CASE ReturnApply
  BY <1>21 DEF ReturnApply, StepOK, StepLabels, AttemptLabels, IntentLabels,
     ReleaseLabels, Idle
<1>22. CASE ReturnReconcile
  <2>1. op \in Ops /\ at \in Steps /\ op.kind \in Loops /\ UNCHANGED <<op, at>>
        /\ pc = "return"
    BY <1>22 DEF ReturnReconcile, StepOK, StepLabels, Goto, Loops
  <2>2. pc' = "next" \/ (pc' = "drop" /\ Owned /\ managed' = managed)
    BY <1>22 DEF ReturnReconcile, Goto
  <2> QED  BY <2>1, <2>2 DEF StepOK, Owned, StepLabels, AttemptLabels, IntentLabels,
    ReleaseLabels
<1>23. CASE DropExited
  BY <1>23, CallEnds DEF DropExited, StepOK, StepLabels, AttemptLabels, IntentLabels,
     ReleaseLabels, Goto, Ask, callVars, Submit, Disown, stateVars, Owned
<1>24. CASE NextKey
  <2>1. op \in Ops /\ op.todo \subseteq [key : Keys, rank : Nat] /\ op.kind \in Loops
    BY <1>24 DEF NextKey, StepOK, Ops
  <2>2. PICK t \in op.todo :
           /\ op' = [op EXCEPT !.todo = @ \ {t}]
           /\ \/ /\ op.kind # "shutdown" /\ Effective(claims, t.key) # NoClaim
                 /\ at' = Attempt(t.key, Effective(claims, t.key)) /\ pc' = "open"
              \/ /\ op.kind = "shutdown" \/ managed[t.key] # NoManaged
                 /\ at' = ReleaseStep(t.key) /\ pc' = "observe"
              \/ UNCHANGED <<at, pc>>
    BY <1>24 DEF NextKey, Newest
  <2>3. t.key \in Keys /\ (op.kind = "shutdown" => managed[t.key] # NoManaged)
    BY <1>24, <2>1, <2>2 DEF NextKey, TodoOK
  <2>4. op' \in Ops /\ op'.kind = op.kind
    BY <2>1, <2>2 DEF Ops
  <2>5. managed' = managed
    BY <1>24 DEF NextKey
  <2>6. CASE /\ op.kind # "shutdown" /\ Effective(claims, t.key) # NoClaim
             /\ at' = Attempt(t.key, Effective(claims, t.key)) /\ pc' = "open"
    <3>1. Effective(claims, t.key) \in Claim /\ at' \in Steps
      BY <2>3, <2>6, StepTypes
    <3>2. at'.mode = "claim" /\ at'.claim = Effective(claims, t.key)
      BY <2>6 DEF Attempt
    <3> QED  BY <2>1, <2>4, <2>6, <3>1, <3>2 DEF StepOK, StepLabels, AttemptLabels,
      IntentLabels,
              ReleaseLabels
  <2>7. CASE /\ op.kind = "shutdown" \/ managed[t.key] # NoManaged
             /\ at' = ReleaseStep(t.key) /\ pc' = "observe"
    <3>1. at' \in Steps /\ at'.mode = "release" /\ at'.key = t.key
      BY <2>3, <2>7, StepTypes DEF ReleaseStep
    <3> QED  BY <2>1, <2>3, <2>4, <2>5, <2>7, <3>1 DEF StepOK, StepLabels, AttemptLabels,
              IntentLabels, ReleaseLabels, Owned
  <2>8. CASE UNCHANGED <<at, pc>>
    BY <1>24, <2>1, <2>4, <2>8 DEF NextKey, StepOK, StepLabels, AttemptLabels, IntentLabels,
              ReleaseLabels
  <2> QED  BY <2>2, <2>6, <2>7, <2>8
<1>25. CASE LoopDone
  BY <1>25 DEF LoopDone, StepOK, StepLabels, AttemptLabels, IntentLabels,
     ReleaseLabels, Idle
<1>26. ASSUME NEW k \in Keys, NEW v \in Values, OutsiderSets(k, v)
       PROVE  StepOK'
  <2>1. UNCHANGED <<pc, op, at, managed>> /\ (call' # NoCall => call # NoCall)
    BY <1>26 DEF OutsiderSets, serviceVars, callVars, stateVars
  <2> QED  BY <2>1 DEF StepOK, Owned
<1>27. ASSUME NEW k \in Keys, ProcessExits(k)
       PROVE  StepOK'
  <2>1. UNCHANGED <<pc, op, at, managed>> /\ (call' # NoCall => call # NoCall)
    BY <1>27 DEF ProcessExits, serviceVars, callVars, stateVars
  <2> QED  BY <2>1 DEF StepOK, Owned
<1>28. ASSUME NEW k \in Keys, ProcessStarts(k)
       PROVE  StepOK'
  <2>1. UNCHANGED <<pc, op, at, managed>> /\ (call' # NoCall => call # NoCall)
    BY <1>28 DEF ProcessStarts, serviceVars, callVars, stateVars
  <2> QED  BY <2>1 DEF StepOK, Owned
<1>29. ASSUME NEW k \in Keys, Replay(k)
       PROVE  StepOK'
  <2>1. UNCHANGED <<pc, op, at, managed>> /\ (call' # NoCall => call # NoCall)
    BY <1>29 DEF Replay, serviceVars, callVars, stateVars
  <2> QED  BY <2>1 DEF StepOK, Owned
<1>30. CASE Crash
  BY <1>30 DEF Crash, StepOK, StepLabels, AttemptLabels, IntentLabels, ReleaseLabels,
     Idle
<1>31. CASE OtherLatches
  <2>1. UNCHANGED <<pc, op, at, managed>> /\ (call' # NoCall => call # NoCall)
    BY <1>31 DEF OtherLatches, Latch, serviceVars, callVars, stateVars
  <2> QED  BY <2>1 DEF StepOK, Owned
<1>32. CASE ServiceStep
  <2>1. UNCHANGED <<pc, op, at, managed>> /\ (call' # NoCall => call # NoCall)
    BY <1>32 DEF ServiceStep, ServiceActs, Land, LateLand, LateLoss, Called, serviceVars,
       callVars, stateVars
  <2> QED  BY <2>1 DEF StepOK, Owned
<1>33. CASE UNCHANGED mpVars
  <2>1. UNCHANGED <<pc, op, at, managed>> /\ (call' # NoCall => call # NoCall)
    BY <1>33 DEF mpVars, serviceVars, callVars, stateVars
  <2> QED  BY <2>1 DEF StepOK, Owned
<1> QED
  BY <1>1, <1>2, <1>3, <1>4, <1>5, <1>6, <1>7, <1>8, <1>9, <1>10, <1>11, <1>12, <1>13,
     <1>14, <1>15, <1>16, <1>17, <1>18, <1>19, <1>20, <1>21, <1>22, <1>23, <1>24,
     <1>25, <1>26, <1>27, <1>28, <1>29, <1>30, <1>31, <1>32, <1>33 DEF Next, Entry,
     Controller, Environment

--------------------------------------------------------------------------------
(***************************************************************************)
(* Claims and ownership.                                                   *)
(***************************************************************************)
\* A step of the attempt under way.
AttemptActs ==
    \/ Open \/ RelinquishStale \/ Query \/ RelinquishDrifted \/ Decide
    \/ BeginChange \/ SetPriority \/ Verify \/ CommitChange \/ Restore
    \/ CheckRestored \/ CancelChange \/ RetainChange \/ Observe
    \/ Relinquish \/ Recheck \/ ReturnPreserved \/ ReturnReconcile \/ DropExited

\* The attempt keeps its process and its claim, and the operation its arguments.
LEMMA AttemptFrame ==
    ASSUME StepOK, StateTypes, WorldTypes, AttemptActs
    PROVE  /\ pc \in StepLabels /\ pc' \in StepLabels \cup {"next"}
           /\ UNCHANGED <<op, claims>>
           /\ at \in Steps /\ at'.key = at.key /\ at'.claim = at.claim
           /\ at'.mode = "release" <=> at.mode = "release"
           /\ at'.mode # at.mode => pc \in {"decide", "return"}
<1> DEFINE Labels == /\ pc \in StepLabels /\ pc' \in StepLabels \cup {"next"}
                     /\ UNCHANGED <<op, claims>>
<1>1. ASSUME \/ Open \/ RelinquishStale \/ RelinquishDrifted \/ SetPriority \/ Verify \/ Restore \/ CheckRestored
             \/ CancelChange \/ RetainChange \/ Relinquish \/ Recheck \/ ReturnReconcile \/ DropExited
      PROVE  Labels /\ at' = at
  BY <1>1 DEF Open, RelinquishStale, RelinquishDrifted, SetPriority, Verify, Restore,
     CheckRestored, CancelChange, RetainChange, Relinquish, Recheck, ReturnReconcile,
     DropExited, Goto,
     Return, Ask, Disown, Own, callVars, stateVars, StepLabels, AttemptLabels, IntentLabels,
     ReleaseLabels
<1>2. CASE Query
  <2>1. Labels /\ (at' = at \/ (at' = [at EXCEPT !.seen = value[at.key]]))
    BY <1>2 DEF Query, Goto, Return, Ask, callVars, stateVars, StepOK,
       StepLabels, AttemptLabels, IntentLabels, ReleaseLabels
  <2>2. at \in Steps
    BY <2>1 DEF StepOK
  <2> QED  BY <2>1, <2>2 DEF Steps
<1>3. CASE Decide
  <2>1. Labels /\ (at' = at \/ (at' = [at EXCEPT !.mode = "preserved"] /\ at.mode = "claim" /\ pc = "decide"))
    BY <1>3 DEF Decide, DecidePreserved, DecideUnchanged, Goto, Return, Ask, callVars,
       stateVars, StepOK,
       StepLabels, AttemptLabels, IntentLabels, ReleaseLabels
  <2>2. at \in Steps
    BY <2>1 DEF StepOK
  <2> QED  BY <2>1, <2>2 DEF Steps
<1>4. CASE BeginChange
  <2>1. Labels /\ (at' = at \/ (at' = [at EXCEPT !.id = nextId]))
    BY <1>4 DEF BeginChange, Goto, Return, Ask, callVars, stateVars, StepOK,
       StepLabels, AttemptLabels, IntentLabels, ReleaseLabels
  <2>2. at \in Steps
    BY <2>1 DEF StepOK
  <2> QED  BY <2>1, <2>2 DEF Steps
<1>5. CASE CommitChange
  <2>1. Labels /\ (at' = at \/ (at' = [at EXCEPT !.kept = TRUE]))
    BY <1>5 DEF CommitChange, Goto, Return, Ask, callVars, stateVars, StepOK,
       StepLabels, AttemptLabels, IntentLabels, ReleaseLabels
  <2>2. at \in Steps
    BY <2>1 DEF StepOK
  <2> QED  BY <2>1, <2>2 DEF Steps
<1>6. CASE Observe
  <2>1. Labels /\ (at' = at \/ (at' = [at EXCEPT !.seen = value[at.key], !.target = managed[at.key].baseline]))
    BY <1>6 DEF Observe, Goto, Return, Ask, callVars, stateVars, StepOK,
       StepLabels, AttemptLabels, IntentLabels, ReleaseLabels
  <2>2. at \in Steps
    BY <2>1 DEF StepOK
  <2> QED  BY <2>1, <2>2 DEF Steps
<1>7. CASE ReturnPreserved
  <2>1. Labels /\ (at' = at \/ (at' = [at EXCEPT !.mode = "claim"] /\ at.mode = "preserved" /\ pc = "return"))
    BY <1>7 DEF ReturnPreserved, Goto, Return, Ask, callVars, stateVars, StepOK,
       StepLabels, AttemptLabels, IntentLabels, ReleaseLabels
  <2>2. at \in Steps
    BY <2>1 DEF StepOK
  <2> QED  BY <2>1, <2>2 DEF Steps
<1> QED  BY <1>1, <1>2, <1>3, <1>4, <1>5, <1>6, <1>7 DEF AttemptActs, StepOK

\* Claims stand under their owner, and an attempt acts for the claim in effect.
LEMMA ClaimsStep ==
    ASSUME StepOK, StateTypes, WorldTypes, ClaimsOK, [Next]_mpVars
    PROVE  ClaimsOK'
<1>1. ASSUME NEW o \in PolicyOwners, NEW k \in Keys, NEW c \in Claims, ApplyPolicyClaim(o, k, c)
      PROVE  ClaimsOK'
  <2> DEFINE claim == [owner |-> o, priority |-> c.priority, preservation |-> c.preservation]
             C == [claims EXCEPT ![o][k] = claim]
  <2>1. claim # NoClaim
    BY ClaimsAssumption, SentinelAssumption DEF Claim, Owners
  <2>2. claims' = C /\ pc = "idle"
    BY <1>1 DEF ApplyPolicyClaim
  <2>3. \A p \in PolicyOwners, j \in Keys :
           C[p][j] = IF p = o /\ j = k THEN claim ELSE claims[p][j]
    BY DEF StateTypes
  <2>4. claim.owner = o
    OBVIOUS
  <2> HIDE DEF claim, C
  <2>5. \A p \in PolicyOwners, j \in Keys : C[p][j] # NoClaim => C[p][j].owner = p
    BY <2>3, <2>4 DEF ClaimsOK
  <2>6. CASE UNCHANGED callVars
    BY <2>2, <2>5, <2>6 DEF ClaimsOK, callVars, StepLabels, AttemptLabels, IntentLabels,
       ReleaseLabels
  <2>7. CASE EffectiveOwner(C, k) = o /\ Start("apply", o, claims[o][k], {})
             /\ at' = Attempt(k, claim)
    <3>1. op'.kind = "apply" /\ op'.owner = o /\ op'.previous = claims[o][k]
      BY <2>7 DEF Start
    <3>2. at'.claim = claim /\ at'.key = k
      BY <2>7 DEF Attempt
    <3>3. Effective(C, k) = claim
      <4>1. Effective(C, k) # NoClaim
        BY <2>7 DEF EffectiveOwner, PolicyOwners
      <4>2. Effective(C, k).owner = o
        BY <2>7, <4>1 DEF EffectiveOwner
      <4>3. o \in {"MemoryPriority", "AdaptiveEngine"}
        BY DEF PolicyOwners
      <4> QED  BY <2>3, <2>5, <4>1, <4>2, <4>3 DEF Effective, PolicyOwners
    <3> QED  BY <2>2, <2>4, <2>5, <3>1, <3>2, <3>3 DEF ClaimsOK, Loops
  <2> QED  BY <1>1, <2>6, <2>7 DEF ApplyPolicyClaim, claim, C
<1>2. ASSUME NEW k \in Keys, NEW v \in Values, ApplyProcessListAction(k, v)
      PROVE  ClaimsOK'
  <2>1. op'.kind = "list" /\ claims' = claims /\ at'.claim.owner = "ProcessList"
    BY <1>2 DEF ApplyProcessListAction, Start, Attempt, stateVars
  <2> QED  BY <2>1 DEF ClaimsOK, Loops
<1>3. ASSUME NEW o \in PolicyOwners, NEW active \in SUBSET Keys, ReleasePolicyExcept(o, active)
      PROVE  ClaimsOK'
  <2>1. pc' = "next" /\ op'.kind = "release"
    BY <1>3 DEF ReleasePolicyExcept, Start
  <2>2. \A p \in PolicyOwners, j \in Keys : claims'[p][j] \in {claims[p][j], NoClaim}
    BY <1>3 DEF ReleasePolicyExcept, StateTypes
  <2> QED  BY <2>1, <2>2 DEF ClaimsOK, StepLabels, AttemptLabels, IntentLabels, ReleaseLabels
<1>4. CASE RetryPendingReleases
  <2>1. pc' = "next" /\ op'.kind = "retry" /\ claims' = claims
    BY <1>4 DEF RetryPendingReleases, Start, stateVars
  <2> QED  BY <2>1 DEF ClaimsOK, StepLabels, AttemptLabels, IntentLabels, ReleaseLabels
<1>5. CASE Shutdown
  <2>1. pc' = "next" /\ \A p \in PolicyOwners, j \in Keys : claims'[p][j] = NoClaim
    BY <1>5 DEF Shutdown
  <2> QED  BY <2>1 DEF ClaimsOK, StepLabels, AttemptLabels, IntentLabels, ReleaseLabels
<1>6. CASE AttemptActs
  <2>1. /\ pc \in StepLabels /\ pc' \in StepLabels \cup {"next"}
        /\ UNCHANGED <<op, claims>>
        /\ at'.key = at.key /\ at'.claim = at.claim
        /\ at'.mode = "release" <=> at.mode = "release"
    BY <1>6, AttemptFrame
  <2> QED  BY <2>1 DEF ClaimsOK, Effective
<1>7. CASE ReturnApply
  <2>1. pc = "return" /\ pc' = "idle" /\ op.kind \in {"apply", "list"}
    BY <1>7 DEF ReturnApply, Idle
  <2>2. at.key \in Keys
    BY <2>1 DEF StepOK, StepLabels, Steps
  <2>3. op.kind = "apply" => op.owner \in PolicyOwners
                             /\ (op.previous # NoClaim => op.previous.owner = op.owner)
    BY <2>1 DEF ClaimsOK, StepLabels
  <2>4. \A p \in PolicyOwners, j \in Keys : claims'[p][j] # NoClaim => claims'[p][j].owner = p
    <3>1. CASE claims' = claims
      BY <3>1 DEF ClaimsOK
    <3>2. CASE op.kind = "apply" /\ claims' = [claims EXCEPT ![op.owner][at.key] = op.previous]
      <4>1. \A p \in PolicyOwners, j \in Keys : claims'[p][j] =
               IF p = op.owner /\ j = at.key THEN op.previous ELSE claims[p][j]
        BY <2>2, <2>3, <3>2 DEF StateTypes
      <4> QED  BY <2>3, <3>2, <4>1 DEF ClaimsOK
    <3> QED  BY <1>7, <3>1, <3>2 DEF ReturnApply
  <2> QED  BY <2>1, <2>4 DEF ClaimsOK, StepLabels, AttemptLabels, IntentLabels, ReleaseLabels
<1>8. CASE NextKey
  <2>1. op \in Ops /\ op.kind \in Loops /\ claims' = claims /\ pc = "next"
    BY <1>8 DEF NextKey, StepOK
  <2>2. PICK t \in op.todo :
           /\ op' = [op EXCEPT !.todo = @ \ {t}]
           /\ \/ /\ op.kind # "shutdown"
                 /\ at' = Attempt(t.key, Effective(claims, t.key)) /\ pc' = "open"
              \/ at' = ReleaseStep(t.key) /\ pc' = "observe"
              \/ UNCHANGED <<at, pc>>
    BY <1>8 DEF NextKey, Newest
  <2>3. op'.kind = op.kind
    BY <2>1, <2>2 DEF Ops
  <2>4. \/ at'.key = t.key /\ at'.claim = Effective(claims, t.key)
        \/ at'.mode = "release" \/ pc' = "next"
    BY <2>1, <2>2 DEF Attempt, ReleaseStep
  <2> QED  BY <2>1, <2>2, <2>3, <2>4 DEF ClaimsOK, Loops, Effective, StepLabels, AttemptLabels,
            IntentLabels, ReleaseLabels
<1>9. CASE LoopDone
  <2>1. claims' = claims /\ pc' \in {"idle", "stopped", "dead"}
    BY <1>9 DEF LoopDone, Idle, stateVars
  <2> QED  BY <2>1 DEF ClaimsOK, StepLabels, AttemptLabels, IntentLabels, ReleaseLabels
<1>10. ASSUME NEW k \in Keys, NEW v \in Values, OutsiderSets(k, v)
       PROVE  ClaimsOK'
  <2>1. UNCHANGED <<pc, op, at, claims, managed>>
    BY <1>10 DEF OutsiderSets, callVars, stateVars
  <2> QED  BY <2>1 DEF ClaimsOK, Effective
<1>11. ASSUME NEW k \in Keys, ProcessExits(k)
       PROVE  ClaimsOK'
  <2>1. UNCHANGED <<pc, op, at, claims, managed>>
    BY <1>11 DEF ProcessExits, callVars, stateVars
  <2> QED  BY <2>1 DEF ClaimsOK, Effective
<1>12. ASSUME NEW k \in Keys, ProcessStarts(k)
       PROVE  ClaimsOK'
  <2>1. UNCHANGED <<pc, op, at, claims, managed>>
    BY <1>12 DEF ProcessStarts, callVars, stateVars
  <2> QED  BY <2>1 DEF ClaimsOK, Effective
<1>13. ASSUME NEW k \in Keys, Replay(k)
       PROVE  ClaimsOK'
  <2>1. UNCHANGED <<pc, op, at, claims, managed>>
    BY <1>13 DEF Replay, callVars, stateVars
  <2> QED  BY <2>1 DEF ClaimsOK, Effective
<1>14. CASE Crash
  <2>1. claims' = claims /\ pc' \in {"idle", "stopped", "dead"}
    BY <1>14 DEF Crash, Idle, stateVars
  <2> QED  BY <2>1 DEF ClaimsOK, StepLabels, AttemptLabels, IntentLabels, ReleaseLabels
<1>15. CASE OtherLatches
  <2>1. UNCHANGED <<pc, op, at, claims, managed>>
    BY <1>15 DEF OtherLatches, callVars, stateVars
  <2> QED  BY <2>1 DEF ClaimsOK, Effective
<1>16. CASE ServiceStep
  <2>1. UNCHANGED <<pc, op, at, claims, managed>>
    BY <1>16 DEF ServiceStep, callVars, stateVars
  <2> QED  BY <2>1 DEF ClaimsOK, Effective
<1>17. CASE UNCHANGED mpVars
  <2>1. UNCHANGED <<pc, op, at, claims, managed>>
    BY <1>17 DEF mpVars, callVars, stateVars
  <2> QED  BY <2>1 DEF ClaimsOK, Effective
<1> QED
  BY <1>1, <1>2, <1>3, <1>4, <1>5, <1>6, <1>7, <1>8, <1>9, <1>10, <1>11, <1>12, <1>13,
     <1>14, <1>15, <1>16, <1>17 DEF Next, Entry, Controller, Environment,
     AttemptActs

\* Only the process of the attempt gains or loses a managed change, but for the
\* stale bearers of its process id, which lose theirs.
LEMMA ManagedFrame ==
    ASSUME StepOK, StateTypes, AttemptActs, NEW k \in Keys, k # at.key
    PROVE  managed'[k] = managed[k] \/ (pc = "stale" /\ managed'[k] = NoManaged)
<1>1. CASE RelinquishStale
  <2>1. pc = "stale" /\ (managed' = managed
                         \/ \E s \in Keys : managed' = [managed EXCEPT ![s] = NoManaged])
    <3>1. Stale(at.key) # {} => (CHOOSE s \in Stale(at.key) : TRUE) \in Keys
      BY DEF Stale
    <3> QED  BY <1>1, <3>1 DEF RelinquishStale, Disown, Ask, stateVars
  <2> QED  BY <2>1 DEF StateTypes
<1>2. CASE RelinquishDrifted \/ ReturnPreserved \/ ReturnReconcile \/ DropExited
  BY <1>2 DEF RelinquishDrifted, ReturnPreserved, ReturnReconcile, DropExited, Disown, Ask,
     stateVars, StateTypes
<1>3. CASE Decide \/ CommitChange \/ RetainChange \/ Recheck
  BY <1>3 DEF Decide, DecidePreserved, DecideUnchanged, CommitChange, RetainChange, Own,
     Recheck,
     Ask, stateVars, StateTypes
<1>4. CASE \/ Open \/ Query \/ BeginChange \/ SetPriority \/ Verify \/ Restore
           \/ CheckRestored \/ CancelChange \/ Observe \/ Relinquish
  BY <1>4 DEF Open, Query, BeginChange, SetPriority, Verify, Restore, CheckRestored,
     CancelChange, Observe, Relinquish, Ask, stateVars
<1> QED  BY <1>1, <1>2, <1>3, <1>4 DEF AttemptActs

\* A shutdown keeps managed what it has still to release.
LEMMA TodoStep ==
    ASSUME StepOK, StateTypes, WorldTypes, TodoOK, [Next]_mpVars
    PROVE  TodoOK'
<1>1. ASSUME NEW o \in PolicyOwners, NEW k \in Keys, NEW c \in Claims, ApplyPolicyClaim(o, k, c)
      PROVE  TodoOK'
  <2>1. pc = "idle" /\ managed' = managed
           /\ (UNCHANGED callVars \/ op'.kind \in {"apply", "list"})
    BY <1>1 DEF ApplyPolicyClaim, Start, stateVars
  <2> QED  BY <2>1 DEF TodoOK, callVars, StepLabels, AttemptLabels, IntentLabels, ReleaseLabels
<1>2. ASSUME NEW k \in Keys, NEW v \in Values, ApplyProcessListAction(k, v)
      PROVE  TodoOK'
  <2>1. pc = "idle" /\ managed' = managed
           /\ (UNCHANGED callVars \/ op'.kind \in {"apply", "list"})
    BY <1>2 DEF ApplyProcessListAction, Start, stateVars
  <2> QED  BY <2>1 DEF TodoOK, callVars, StepLabels, AttemptLabels, IntentLabels, ReleaseLabels
<1>3. ASSUME NEW o \in PolicyOwners, NEW active \in SUBSET Keys, ReleasePolicyExcept(o, active)
      PROVE  TodoOK'
  <2>1. op'.kind # "shutdown"
    BY <1>3 DEF ReleasePolicyExcept, Start
  <2> QED  BY <2>1 DEF TodoOK
<1>4. CASE RetryPendingReleases
  <2>1. op'.kind # "shutdown"
    BY <1>4 DEF RetryPendingReleases, Start
  <2> QED  BY <2>1 DEF TodoOK
<1>5. CASE Shutdown
  <2>1. pc' = "next" /\ op'.todo = Ranked(ManagedKeys) /\ managed' = managed
    BY <1>5 DEF Shutdown, Start
  <2> QED  BY <2>1 DEF TodoOK, Ranked, ManagedKeys
<1>6. CASE AttemptActs
  <2> SUFFICES ASSUME op'.kind = "shutdown"
               PROVE  /\ \A t \in op'.todo : managed'[t.key] # NoManaged
                      /\ \A t, u \in op'.todo : t.key = u.key => t = u
                      /\ pc' # "next" => \A t \in op'.todo : t.key # at'.key
    BY DEF TodoOK
  <2>1. /\ pc \in StepLabels /\ pc # "next" /\ op' = op /\ at'.key = at.key
    BY <1>6, AttemptFrame DEF StepLabels, AttemptLabels, IntentLabels, ReleaseLabels
  <2>2. /\ \A t \in op.todo : managed[t.key] # NoManaged /\ t.key # at.key /\ t.key \in Keys
        /\ \A t, u \in op.todo : t.key = u.key => t = u
    BY <2>1 DEF TodoOK, StepOK, Ops
  <2>3. pc # "stale"
    BY <2>1 DEF StepOK, StepLabels, AttemptLabels
  <2>4. \A t \in op.todo : managed'[t.key] = managed[t.key]
    BY <1>6, <2>2, <2>3, ManagedFrame
  <2> QED  BY <2>1, <2>2, <2>4
<1>7. CASE ReturnApply
  <2>1. pc' \in {"idle", "stopped", "dead"}
    BY <1>7 DEF ReturnApply, Idle
  <2> QED  BY <2>1 DEF TodoOK, StepLabels, AttemptLabels, IntentLabels, ReleaseLabels
<1>8. CASE NextKey
  <2>1. op \in Ops /\ pc = "next" /\ managed' = managed
    BY <1>8 DEF NextKey, StepOK
  <2>2. PICK t \in op.todo :
           /\ op' = [op EXCEPT !.todo = @ \ {t}]
           /\ \/ op.kind # "shutdown"
              \/ at' = ReleaseStep(t.key)
    BY <1>8 DEF NextKey, Newest
  <2>3. op'.kind = op.kind /\ op'.todo = op.todo \ {t}
    BY <2>1, <2>2 DEF Ops
  <2>4. op.kind = "shutdown" => at'.key = t.key
    BY <2>2 DEF ReleaseStep
  <2> QED  BY <2>1, <2>2, <2>3, <2>4 DEF TodoOK
<1>9. CASE LoopDone
  <2>1. pc' \in {"idle", "stopped", "dead"}
    BY <1>9 DEF LoopDone, Idle
  <2> QED  BY <2>1 DEF TodoOK, StepLabels, AttemptLabels, IntentLabels, ReleaseLabels
<1>10. ASSUME NEW k \in Keys, NEW v \in Values, OutsiderSets(k, v)
       PROVE  TodoOK'
  <2>1. UNCHANGED <<pc, op, at, managed>>
    BY <1>10 DEF OutsiderSets, callVars, stateVars
  <2> QED  BY <2>1 DEF TodoOK
<1>11. ASSUME NEW k \in Keys, ProcessExits(k)
       PROVE  TodoOK'
  <2>1. UNCHANGED <<pc, op, at, managed>>
    BY <1>11 DEF ProcessExits, callVars, stateVars
  <2> QED  BY <2>1 DEF TodoOK
<1>12. ASSUME NEW k \in Keys, ProcessStarts(k)
       PROVE  TodoOK'
  <2>1. UNCHANGED <<pc, op, at, managed>>
    BY <1>12 DEF ProcessStarts, callVars, stateVars
  <2> QED  BY <2>1 DEF TodoOK
<1>13. ASSUME NEW k \in Keys, Replay(k)
       PROVE  TodoOK'
  <2>1. UNCHANGED <<pc, op, at, managed>>
    BY <1>13 DEF Replay, callVars, stateVars
  <2> QED  BY <2>1 DEF TodoOK
<1>14. CASE Crash
  <2>1. pc' \in {"idle", "stopped", "dead"}
    BY <1>14 DEF Crash, Idle
  <2> QED  BY <2>1 DEF TodoOK, StepLabels, AttemptLabels, IntentLabels, ReleaseLabels
<1>15. CASE OtherLatches
  <2>1. UNCHANGED <<pc, op, at, managed>>
    BY <1>15 DEF OtherLatches, callVars, stateVars
  <2> QED  BY <2>1 DEF TodoOK
<1>16. CASE ServiceStep
  <2>1. UNCHANGED <<pc, op, at, managed>>
    BY <1>16 DEF ServiceStep, callVars, stateVars
  <2> QED  BY <2>1 DEF TodoOK
<1>17. CASE UNCHANGED mpVars
  <2>1. UNCHANGED <<pc, op, at, managed>>
    BY <1>17 DEF mpVars, callVars, stateVars
  <2> QED  BY <2>1 DEF TodoOK
<1> QED
  BY <1>1, <1>2, <1>3, <1>4, <1>5, <1>6, <1>7, <1>8, <1>9, <1>10, <1>11, <1>12, <1>13,
     <1>14, <1>15, <1>16, <1>17 DEF Next, Entry, Controller, Environment,
     AttemptActs

\* A process becomes managed only where a change on it took effect, or may have.
LEMMA ManagedGain ==
    ASSUME StepOK, StateTypes, AttemptActs, managed[at.key] = NoManaged,
           managed'[at.key] # NoManaged
    PROVE  pc \in {"commit", "retain"} /\ at.mode = "claim"
<1>1. ~Recheck
  BY DEF Recheck, StepOK, StepLabels, ReleaseLabels, Owned
<1>2. ~RelinquishStale
  <2> SUFFICES ASSUME RelinquishStale PROVE FALSE
    OBVIOUS
  <2>1. at \in Steps /\ at.key \in Keys /\ Stale(at.key) \subseteq Keys
    BY DEF RelinquishStale, StepOK, StepLabels, AttemptLabels, Steps, Stale
  <2>2. managed' = managed \/ \E s \in Keys : managed' = [managed EXCEPT ![s] = NoManaged]
    BY <2>1 DEF RelinquishStale, Disown, Ask, stateVars
  <2> QED  BY <2>1, <2>2 DEF StateTypes
<1>3. ~(RelinquishDrifted \/ ReturnPreserved \/ ReturnReconcile \/ DropExited)
  <2> SUFFICES ASSUME RelinquishDrifted \/ ReturnPreserved \/ ReturnReconcile \/ DropExited
               PROVE  FALSE
    OBVIOUS
  <2>1. at \in Steps /\ at.key \in Keys
    BY DEF RelinquishDrifted, ReturnPreserved, ReturnReconcile, DropExited, StepOK, StepLabels,
           AttemptLabels, Steps
  <2> QED  BY <2>1 DEF RelinquishDrifted, ReturnPreserved, ReturnReconcile, DropExited, Disown,
               Ask, stateVars, StateTypes
<1>4. ~(\/ Open \/ Query \/ BeginChange \/ SetPriority \/ Verify \/ Restore
        \/ CheckRestored \/ CancelChange \/ Observe \/ Relinquish \/ Decide)
  BY DEF Open, Query, BeginChange, SetPriority, Verify, Restore, CheckRestored, CancelChange,
     Observe, Relinquish, Ask, stateVars, Decide, DecidePreserved, DecideUnchanged, Owned
<1>5. CommitChange \/ RetainChange
  BY <1>1, <1>2, <1>3, <1>4 DEF AttemptActs
<1> QED  BY <1>5 DEF CommitChange, RetainChange, Ask, stateVars

\* The check for stale bearers cannot be passed by.
LEMMA CheckedFirst ==
    ASSUME StepOK, StateTypes, WorldTypes, AttemptActs, pc' \in CheckedLabels, at'.mode = "claim"
    PROVE  \/ pc \in CheckedLabels /\ at.mode = "claim"
           \/ pc = "stale" /\ Stale(at.key) = {}
<1> USE DEF CheckedLabels, IntentLabels
<1>1. at.mode = "claim"
  <2>1. at'.mode # at.mode => pc \in {"decide", "return"}
    BY AttemptFrame
  <2>2. pc # "return"
    BY DEF AttemptActs, Open, RelinquishStale, Query, RelinquishDrifted, Decide, BeginChange,
       SetPriority, Verify, CommitChange, Restore, CheckRestored, CancelChange, RetainChange,
       Observe, Relinquish, Recheck, ReturnPreserved, ReturnReconcile, DropExited, Goto
  <2>3. pc = "decide" => at.mode = "claim"
    BY DEF StepOK, AttemptLabels
  <2> QED  BY <2>1, <2>2, <2>3
<1>2. CASE \/ Open \/ RelinquishStale \/ Observe \/ Relinquish \/ Recheck
           \/ ReturnPreserved \/ ReturnReconcile \/ DropExited
  BY <1>1, <1>2 DEF Open, RelinquishStale, Observe, Relinquish, Recheck, ReturnPreserved,
     ReturnReconcile, DropExited, Goto, Return, Ask, callVars, StepOK, ReleaseLabels
<1>3. CASE \/ Query \/ RelinquishDrifted \/ Decide \/ BeginChange \/ SetPriority \/ Verify
           \/ CommitChange \/ Restore \/ CheckRestored \/ CancelChange \/ RetainChange
  BY <1>1, <1>3 DEF Query, RelinquishDrifted, Decide, BeginChange, SetPriority, Verify,
     CommitChange, Restore, CheckRestored, CancelChange, RetainChange
<1> QED  BY <1>2, <1>3 DEF AttemptActs

\* A process id has one owner (open_process drops stale identities).
LEMMA OwnersStep ==
    ASSUME StepOK, StateTypes, WorldTypes, OwnersOK, [Next]_mpVars
    PROVE  OwnersOK'
<1>1. ASSUME NEW o \in PolicyOwners, NEW k \in Keys, NEW c \in Claims, ApplyPolicyClaim(o, k, c)
      PROVE  OwnersOK'
  <2>1. managed' = managed /\ pc' \notin CheckedLabels
    BY <1>1 DEF ApplyPolicyClaim, Idle, callVars, stateVars, CheckedLabels, IntentLabels
  <2> QED  BY <2>1 DEF OwnersOK, ManagedKeys
<1>2. ASSUME NEW k \in Keys, NEW v \in Values, ApplyProcessListAction(k, v)
      PROVE  OwnersOK'
  <2>1. managed' = managed /\ pc' \notin CheckedLabels
    BY <1>2 DEF ApplyProcessListAction, Idle, callVars, stateVars, CheckedLabels, IntentLabels
  <2> QED  BY <2>1 DEF OwnersOK, ManagedKeys
<1>3. ASSUME NEW o \in PolicyOwners, NEW active \in SUBSET Keys, ReleasePolicyExcept(o, active)
      PROVE  OwnersOK'
  <2>1. managed' = managed /\ pc' \notin CheckedLabels
    BY <1>3 DEF ReleasePolicyExcept, Idle, callVars, stateVars, CheckedLabels, IntentLabels
  <2> QED  BY <2>1 DEF OwnersOK, ManagedKeys
<1>4. CASE RetryPendingReleases
  <2>1. managed' = managed /\ pc' \notin CheckedLabels
    BY <1>4 DEF RetryPendingReleases, Idle, callVars, stateVars, CheckedLabels, IntentLabels
  <2> QED  BY <2>1 DEF OwnersOK, ManagedKeys
<1>5. CASE Shutdown
  <2>1. managed' = managed /\ pc' \notin CheckedLabels
    BY <1>5 DEF Shutdown, Idle, callVars, stateVars, CheckedLabels, IntentLabels
  <2> QED  BY <2>1 DEF OwnersOK, ManagedKeys
<1>6. CASE AttemptActs
  <2>1. at \in Steps /\ at.key \in Keys /\ at'.key = at.key
    BY <1>6, AttemptFrame DEF Steps
  <2>2. \A k \in Keys \ {at.key} : managed'[k] # NoManaged => managed[k] # NoManaged
    BY <1>6, ManagedFrame
  <2>3. Stale(at.key)' \subseteq Stale(at.key)
    BY <2>1, <2>2 DEF Stale
  <2>4. managed'[at.key] # NoManaged /\ managed[at.key] = NoManaged => Stale(at.key) = {}
    BY <1>6, ManagedGain DEF OwnersOK, CheckedLabels, IntentLabels
  <2>5. ASSUME NEW j \in Keys, NEW k \in Keys, managed'[j] # NoManaged, managed'[k] # NoManaged,
               Pid[j] = Pid[k]
        PROVE  j = k
    BY <2>1, <2>2, <2>4, <2>5 DEF OwnersOK, ManagedKeys, Stale
  <2>6. pc' \in CheckedLabels /\ at'.mode = "claim" => Stale(at.key) = {}
    BY <1>6, CheckedFirst DEF OwnersOK
  <2> QED  BY <2>3, <2>5, <2>6 DEF OwnersOK, ManagedKeys
<1>7. CASE ReturnApply
  <2>1. managed' = managed /\ pc' \notin CheckedLabels
    BY <1>7 DEF ReturnApply, Idle, callVars, stateVars, CheckedLabels, IntentLabels
  <2> QED  BY <2>1 DEF OwnersOK, ManagedKeys
<1>8. CASE NextKey
  <2>1. managed' = managed /\ pc' \notin CheckedLabels
    BY <1>8 DEF NextKey, Idle, callVars, stateVars, CheckedLabels, IntentLabels
  <2> QED  BY <2>1 DEF OwnersOK, ManagedKeys
<1>9. CASE LoopDone
  <2>1. managed' = managed /\ pc' \notin CheckedLabels
    BY <1>9 DEF LoopDone, Idle, callVars, stateVars, CheckedLabels, IntentLabels
  <2> QED  BY <2>1 DEF OwnersOK, ManagedKeys
<1>10. ASSUME NEW k \in Keys, NEW v \in Values, OutsiderSets(k, v)
       PROVE  OwnersOK'
  <2>1. UNCHANGED <<pc, at, managed>>
    BY <1>10 DEF OutsiderSets, callVars, stateVars
  <2> QED  BY <2>1 DEF OwnersOK, ManagedKeys, Stale
<1>11. ASSUME NEW k \in Keys, ProcessExits(k)
       PROVE  OwnersOK'
  <2>1. UNCHANGED <<pc, at, managed>>
    BY <1>11 DEF ProcessExits, callVars, stateVars
  <2> QED  BY <2>1 DEF OwnersOK, ManagedKeys, Stale
<1>12. ASSUME NEW k \in Keys, ProcessStarts(k)
       PROVE  OwnersOK'
  <2>1. UNCHANGED <<pc, at, managed>>
    BY <1>12 DEF ProcessStarts, callVars, stateVars
  <2> QED  BY <2>1 DEF OwnersOK, ManagedKeys, Stale
<1>13. ASSUME NEW k \in Keys, Replay(k)
       PROVE  OwnersOK'
  <2>1. UNCHANGED <<pc, at, managed>>
    BY <1>13 DEF Replay, callVars, stateVars
  <2> QED  BY <2>1 DEF OwnersOK, ManagedKeys, Stale
<1>14. CASE Crash
  <2>1. managed' = managed /\ pc' \notin CheckedLabels
    BY <1>14 DEF Crash, Idle, callVars, stateVars, CheckedLabels, IntentLabels
  <2> QED  BY <2>1 DEF OwnersOK, ManagedKeys
<1>15. CASE OtherLatches
  <2>1. UNCHANGED <<pc, at, managed>>
    BY <1>15 DEF OtherLatches, callVars, stateVars
  <2> QED  BY <2>1 DEF OwnersOK, ManagedKeys, Stale
<1>16. CASE ServiceStep
  <2>1. UNCHANGED <<pc, at, managed>>
    BY <1>16 DEF ServiceStep, callVars, stateVars
  <2> QED  BY <2>1 DEF OwnersOK, ManagedKeys, Stale
<1>17. CASE UNCHANGED mpVars
  <2>1. UNCHANGED <<pc, at, managed>>
    BY <1>17 DEF mpVars, callVars, stateVars
  <2> QED  BY <2>1 DEF OwnersOK, ManagedKeys, Stale
<1> QED
  BY <1>1, <1>2, <1>3, <1>4, <1>5, <1>6, <1>7, <1>8, <1>9, <1>10, <1>11, <1>12, <1>13,
     <1>14, <1>15, <1>16, <1>17 DEF Next, Entry, Controller, Environment,
     AttemptActs

\* Managed processes have lived, and a stale or dropped one has exited.
LEMMA LifeStep ==
    ASSUME StepOK, StateTypes, WorldTypes, LifeOK, [Next]_mpVars
    PROVE  LifeOK'
<1>1. ASSUME NEW o \in PolicyOwners, NEW k \in Keys, NEW c \in Claims, ApplyPolicyClaim(o, k, c)
      PROVE  LifeOK'
  <2>1. /\ UNCHANGED <<managed, life>>
        /\ \/ UNCHANGED <<pc, at, result>>
           \/ pc' \notin CheckedLabels \cup {"stale", "return", "drop"}
    BY <1>1 DEF ApplyPolicyClaim, Idle, callVars, stateVars, worldVars, CheckedLabels,
       IntentLabels
  <2> QED  BY <2>1 DEF LifeOK, ManagedKeys, Stale, Owned
<1>2. ASSUME NEW k \in Keys, NEW v \in Values, ApplyProcessListAction(k, v)
      PROVE  LifeOK'
  <2>1. /\ UNCHANGED <<managed, life>>
        /\ \/ UNCHANGED <<pc, at, result>>
           \/ pc' \notin CheckedLabels \cup {"stale", "return", "drop"}
    BY <1>2 DEF ApplyProcessListAction, Idle, callVars, stateVars, worldVars, CheckedLabels,
       IntentLabels
  <2> QED  BY <2>1 DEF LifeOK, ManagedKeys, Stale, Owned
<1>3. ASSUME NEW o \in PolicyOwners, NEW active \in SUBSET Keys, ReleasePolicyExcept(o, active)
      PROVE  LifeOK'
  <2>1. /\ UNCHANGED <<managed, life>>
        /\ \/ UNCHANGED <<pc, at, result>>
           \/ pc' \notin CheckedLabels \cup {"stale", "return", "drop"}
    BY <1>3 DEF ReleasePolicyExcept, Idle, callVars, stateVars, worldVars, CheckedLabels,
       IntentLabels
  <2> QED  BY <2>1 DEF LifeOK, ManagedKeys, Stale, Owned
<1>4. CASE RetryPendingReleases
  <2>1. /\ UNCHANGED <<managed, life>>
        /\ \/ UNCHANGED <<pc, at, result>>
           \/ pc' \notin CheckedLabels \cup {"stale", "return", "drop"}
    BY <1>4 DEF RetryPendingReleases, Idle, callVars, stateVars, worldVars, CheckedLabels,
       IntentLabels
  <2> QED  BY <2>1 DEF LifeOK, ManagedKeys, Stale, Owned
<1>5. CASE Shutdown
  <2>1. /\ UNCHANGED <<managed, life>>
        /\ \/ UNCHANGED <<pc, at, result>>
           \/ pc' \notin CheckedLabels \cup {"stale", "return", "drop"}
    BY <1>5 DEF Shutdown, Idle, callVars, stateVars, worldVars, CheckedLabels, IntentLabels
  <2> QED  BY <2>1 DEF LifeOK, ManagedKeys, Stale, Owned
<1>6. CASE AttemptActs
  <2>1. at \in Steps /\ at.key \in Keys /\ at'.key = at.key
    BY <1>6, AttemptFrame DEF Steps
  <2>2. life' = life
    BY <1>6 DEF AttemptActs, Open, RelinquishStale, Query, RelinquishDrifted, Decide,
       BeginChange,
       SetPriority, Verify, CommitChange, Restore, CheckRestored, CancelChange, RetainChange,
       Observe, Relinquish, Recheck, ReturnPreserved, ReturnReconcile, DropExited, Ask, worldVars
  <2>3. \A k \in Keys \ {at.key} : managed'[k] # NoManaged => managed[k] # NoManaged
    BY <1>6, ManagedFrame
  <2>4. Stale(at.key)' \subseteq Stale(at.key)
    BY <2>1, <2>3 DEF Stale
  <2>5. \A k \in Keys : managed'[k] # NoManaged => life[k] # "unborn"
    <3>1. managed'[at.key] # NoManaged => life[at.key] # "unborn"
      BY <1>6, <2>1, ManagedGain DEF LifeOK, ManagedKeys, CheckedLabels, IntentLabels
    <3> QED  BY <2>3, <3>1 DEF LifeOK, ManagedKeys
  <2>6. pc' \in CheckedLabels /\ at'.mode = "claim" => life[at.key] # "unborn"
    <3>1. pc = "stale" => at.mode = "claim"
      BY DEF StepOK, AttemptLabels
    <3> QED  BY <1>6, <3>1, CheckedFirst DEF LifeOK
  <2>7. pc' = "stale" => /\ life[at.key] # "unborn"
                         /\ \A s \in Stale(at.key) : life[s] = "exited"
    <3>1. CASE Open
      <4>1. pc' = "stale" => life[at.key] = "alive"
        BY <3>1 DEF Open, Goto, Return
      <4>2. \A s \in Stale(at.key) : s \in Keys /\ s # at.key /\ managed[s] # NoManaged
                                     /\ Pid[s] = Pid[at.key]
        BY DEF Stale
      <4>3. life[at.key] = "alive" => \A s \in Stale(at.key) : life[s] = "exited"
        BY <2>1, <4>2 DEF LifeOK, ManagedKeys, WorldTypes
      <4> QED  BY <4>1, <4>3
    <3>2. CASE RelinquishStale
      <4>1. pc = "stale" /\ at.mode = "claim"
        BY <3>2 DEF RelinquishStale, StepOK, AttemptLabels
      <4> QED  BY <4>1 DEF LifeOK
    <3>3. CASE ~(Open \/ RelinquishStale)
      <4>1. pc' # "stale"
        BY <1>6, <3>3 DEF AttemptActs, Query, RelinquishDrifted, Decide, DecidePreserved,
           DecideUnchanged, BeginChange, SetPriority, Verify, CommitChange, Restore,
           CheckRestored, CancelChange, RetainChange, Observe, Relinquish, Recheck,
           ReturnPreserved, ReturnReconcile, DropExited, Goto, Return, Ask, callVars
      <4> QED  BY <4>1
    <3> QED  BY <3>1, <3>2, <3>3
  <2>8. Owned' /\ pc' = "return" /\ result' = "exited" => life[at.key] = "exited"
    <3>1. Owned' => life[at.key] # "unborn"
      BY <2>1, <2>5 DEF Owned
    <3>2. CASE Open \/ Observe \/ Recheck
      <4>1. pc' = "return" /\ result' = "exited" => life[at.key] # "alive"
        BY <3>2 DEF Open, Observe, Recheck, Goto, Return
      <4> QED  BY <2>1, <3>1, <4>1 DEF WorldTypes
    <3>3. CASE ReturnPreserved
      <4>1. UNCHANGED <<pc, result>> /\ (Owned' => Owned)
        <5>1. managed' = managed \/ managed' = [managed EXCEPT ![at.key] = NoManaged]
          BY <3>3 DEF ReturnPreserved, Disown
        <5> QED  BY <2>1, <3>3, <5>1 DEF ReturnPreserved, Owned, StateTypes
      <4> QED  BY <4>1 DEF LifeOK
    <3>4. CASE ~(Open \/ Observe \/ Recheck \/ ReturnPreserved)
      <4>1. ~(pc' = "return" /\ result' = "exited")
        BY <1>6, <3>4 DEF AttemptActs, RelinquishStale, Query, RelinquishDrifted, Decide,
           DecidePreserved, DecideUnchanged, BeginChange, SetPriority, Verify, CommitChange,
           Restore, CheckRestored, CancelChange, RetainChange, Relinquish, ReturnReconcile,
           DropExited, Goto, Return, Ask, callVars
      <4> QED  BY <4>1
    <3> QED  BY <3>2, <3>3, <3>4
  <2>9. pc' = "drop" => life[at.key] = "exited"
    <3>1. CASE ReturnReconcile \/ DropExited
      BY <3>1 DEF ReturnReconcile, DropExited, Goto, Ask, callVars, LifeOK
    <3>2. CASE ~(ReturnReconcile \/ DropExited)
      <4>1. pc' # "drop"
        BY <1>6, <3>2 DEF AttemptActs, Open, RelinquishStale, Query, RelinquishDrifted, Decide,
           DecidePreserved, DecideUnchanged, BeginChange, SetPriority, Verify, CommitChange,
           Restore, CheckRestored, CancelChange, RetainChange, Observe, Relinquish, Recheck,
           ReturnPreserved, Goto, Return, Ask, callVars
      <4> QED  BY <4>1
    <3> QED  BY <3>1, <3>2
  <2> QED  BY <2>1, <2>2, <2>4, <2>5, <2>6, <2>7, <2>8, <2>9 DEF LifeOK, ManagedKeys
<1>7. CASE ReturnApply
  <2>1. /\ UNCHANGED <<managed, life>>
        /\ \/ UNCHANGED <<pc, at, result>>
           \/ pc' \notin CheckedLabels \cup {"stale", "return", "drop"}
    BY <1>7 DEF ReturnApply, Idle, callVars, stateVars, worldVars, CheckedLabels, IntentLabels
  <2> QED  BY <2>1 DEF LifeOK, ManagedKeys, Stale, Owned
<1>8. CASE NextKey
  <2>1. /\ UNCHANGED <<managed, life>>
        /\ \/ UNCHANGED <<pc, at, result>>
           \/ pc' \notin CheckedLabels \cup {"stale", "return", "drop"}
    BY <1>8 DEF NextKey, Idle, callVars, stateVars, worldVars, CheckedLabels, IntentLabels
  <2> QED  BY <2>1 DEF LifeOK, ManagedKeys, Stale, Owned
<1>9. CASE LoopDone
  <2>1. /\ UNCHANGED <<managed, life>>
        /\ \/ UNCHANGED <<pc, at, result>>
           \/ pc' \notin CheckedLabels \cup {"stale", "return", "drop"}
    BY <1>9 DEF LoopDone, Idle, callVars, stateVars, worldVars, CheckedLabels, IntentLabels
  <2> QED  BY <2>1 DEF LifeOK, ManagedKeys, Stale, Owned
<1>10. ASSUME NEW k \in Keys, NEW v \in Values, OutsiderSets(k, v)
       PROVE  LifeOK'
  <2>1. UNCHANGED <<pc, at, result, managed, life>>
    BY <1>10 DEF OutsiderSets, callVars, stateVars, worldVars
  <2> QED  BY <2>1 DEF LifeOK, ManagedKeys, Stale, Owned
<1>11. ASSUME NEW k \in Keys, ProcessExits(k)
       PROVE  LifeOK'
  <2>1. /\ UNCHANGED <<pc, at, result, managed>>
        /\ life[k] = "alive" /\ life' = [life EXCEPT ![k] = "exited"]
    BY <1>11 DEF ProcessExits, callVars, stateVars
  <2>2. \A j \in Keys : life'[j] = IF j = k THEN "exited" ELSE life[j]
    BY <2>1 DEF WorldTypes
  <2>3. pc \in CheckedLabels \cup {"stale", "return", "drop"} => at.key \in Keys
    BY DEF StepOK, CheckedLabels, StepLabels, AttemptLabels, IntentLabels, Steps
  <2>4. Stale(at.key)' = Stale(at.key) /\ Stale(at.key) \subseteq Keys /\ Owned' = Owned
    BY <2>1 DEF Stale, Owned
  <2> QED  BY <1>11, <2>1, <2>2, <2>3, <2>4 DEF LifeOK, ManagedKeys, ProcessExits
<1>12. ASSUME NEW k \in Keys, ProcessStarts(k)
       PROVE  LifeOK'
  <2>1. /\ UNCHANGED <<pc, at, result, managed>>
        /\ life[k] = "unborn" /\ life' = [life EXCEPT ![k] = "alive"]
    BY <1>12 DEF ProcessStarts, callVars, stateVars
  <2>2. \A j \in Keys : life'[j] = IF j = k THEN "alive" ELSE life[j]
    BY <2>1 DEF WorldTypes
  <2>3. pc \in CheckedLabels \cup {"stale", "return", "drop"} => at.key \in Keys
    BY DEF StepOK, CheckedLabels, StepLabels, AttemptLabels, IntentLabels, Steps
  <2>4. Stale(at.key)' = Stale(at.key) /\ Stale(at.key) \subseteq Keys /\ Owned' = Owned
    BY <2>1 DEF Stale, Owned
  <2> QED  BY <1>12, <2>1, <2>2, <2>3, <2>4 DEF LifeOK, ManagedKeys, ProcessStarts
<1>13. ASSUME NEW k \in Keys, Replay(k)
       PROVE  LifeOK'
  <2>1. UNCHANGED <<pc, at, result, managed, life>>
    BY <1>13 DEF Replay, callVars, stateVars, worldVars
  <2> QED  BY <2>1 DEF LifeOK, ManagedKeys, Stale, Owned
<1>14. CASE Crash
  <2>1. /\ UNCHANGED <<managed, life>>
        /\ \/ UNCHANGED <<pc, at, result>>
           \/ pc' \notin CheckedLabels \cup {"stale", "return", "drop"}
    BY <1>14 DEF Crash, Idle, callVars, stateVars, worldVars, CheckedLabels, IntentLabels
  <2> QED  BY <2>1 DEF LifeOK, ManagedKeys, Stale, Owned
<1>15. CASE OtherLatches
  <2>1. UNCHANGED <<pc, at, result, managed, life>>
    BY <1>15 DEF OtherLatches, callVars, stateVars, worldVars
  <2> QED  BY <2>1 DEF LifeOK, ManagedKeys, Stale, Owned
<1>16. CASE ServiceStep
  <2>1. UNCHANGED <<pc, at, result, managed, life>>
    BY <1>16 DEF ServiceStep, callVars, stateVars, worldVars
  <2> QED  BY <2>1 DEF LifeOK, ManagedKeys, Stale, Owned
<1>17. CASE UNCHANGED mpVars
  <2>1. UNCHANGED <<pc, at, result, managed, life>>
    BY <1>17 DEF mpVars, callVars, stateVars, worldVars
  <2> QED  BY <2>1 DEF LifeOK, ManagedKeys, Stale, Owned
<1> QED
  BY <1>1, <1>2, <1>3, <1>4, <1>5, <1>6, <1>7, <1>8, <1>9, <1>10, <1>11, <1>12, <1>13,
     <1>14, <1>15, <1>16, <1>17 DEF Next, Entry, Controller, Environment,
     AttemptActs

\* A pending release of a process that stays managed stays pending, but for the
\* process of the attempt.
LEMMA ReleasesFrame ==
    ASSUME StepOK, StateTypes, AttemptActs, NEW k \in releases, k # at.key, managed'[k] # NoManaged
    PROVE  k \in releases'
<1>0. k \in Keys
  BY DEF StateTypes
<1>1. CASE RelinquishStale
  <2>1. \/ UNCHANGED <<managed, releases>>
        \/ \E s \in Keys : managed' = [managed EXCEPT ![s] = NoManaged] /\ releases' = releases \ {s}
    <3>1. Stale(at.key) # {} => (CHOOSE s \in Stale(at.key) : TRUE) \in Keys
      BY DEF Stale
    <3> QED  BY <1>1, <3>1 DEF RelinquishStale, Disown, Ask, stateVars
  <2> QED  BY <1>0, <2>1 DEF StateTypes
<1>2. CASE ~RelinquishStale
  <2>1. releases' = releases \/ releases' = releases \ {at.key} \/ releases' = releases \cup {at.key}
    BY <1>2 DEF AttemptActs, Open, Query, RelinquishDrifted, Decide, DecidePreserved,
       DecideUnchanged, BeginChange, SetPriority, Verify, CommitChange, Restore, CheckRestored,
       CancelChange, RetainChange, Observe, Relinquish, Recheck, ReturnPreserved,
       ReturnReconcile, DropExited, Disown, Ask, stateVars
  <2> QED  BY <2>1
<1> QED  BY <1>1, <1>2

\* A managed change keeps its owner and its mark until the claim at hand takes it over,
\* which succeeds or latches the service.
LEMMA OwnerFrame ==
    ASSUME StepOK, StateTypes, WorldTypes, AttemptActs, managed'[at.key] # NoManaged
    PROVE  \/ /\ managed[at.key] # NoManaged /\ managed'[at.key].owner = managed[at.key].owner
              /\ at.key \in releases => at.key \in releases'
              /\ Applied' => ~Automatic(at.claim.owner)
           \/ /\ managed'[at.key].owner = at.claim.owner /\ at.mode = "claim"
              /\ Applied' \/ latched'
<1> DEFINE Same == /\ managed[at.key] # NoManaged /\ managed'[at.key].owner = managed[at.key].owner
                   /\ at.key \in releases => at.key \in releases'
                   /\ Applied' => ~Automatic(at.claim.owner)
           Taken == /\ managed'[at.key].owner = at.claim.owner /\ at.mode = "claim"
                    /\ Applied' \/ latched'
<1>1. at \in Steps /\ at.key \in Keys
  BY AttemptFrame DEF Steps
<1>2. CASE \/ Open \/ Query \/ BeginChange \/ SetPriority \/ Verify \/ Restore
           \/ CheckRestored \/ CancelChange \/ Observe \/ Relinquish
  <2>1. UNCHANGED <<managed, releases>>
    BY <1>2 DEF Open, Query, BeginChange, SetPriority, Verify, Restore, CheckRestored,
       CancelChange, Observe, Relinquish, Ask, stateVars
  <2>2. ~Applied'
    <3>1. CASE Relinquish
      BY <3>1 DEF Relinquish, StepOK, ReleaseLabels, Ask, Return, callVars, Applied
    <3>2. CASE ~Relinquish
      BY <1>2, <3>2 DEF Open, Query, BeginChange, SetPriority, Verify, Restore, CheckRestored,
         CancelChange, Observe, Ask, Goto, Return, callVars, Applied
    <3> QED  BY <3>1, <3>2
  <2> QED  BY <2>1, <2>2
<1>3. CASE RelinquishStale
  <2>1. UNCHANGED <<managed, releases>>
        \/ \E s \in Keys \ {at.key} : managed' = [managed EXCEPT ![s] = NoManaged]
                                      /\ releases' = releases \ {s}
    <3>1. Stale(at.key) # {} => (CHOOSE s \in Stale(at.key) : TRUE) \in Keys \ {at.key}
      BY DEF Stale
    <3> QED  BY <1>3, <3>1 DEF RelinquishStale, Disown, Ask, stateVars
  <2>2. ~Applied'
    BY <1>3 DEF RelinquishStale, Ask, Goto, Return, callVars, Applied
  <2> QED  BY <1>1, <2>1, <2>2 DEF StateTypes
<1>4. CASE RelinquishDrifted \/ DropExited
  <2>1. UNCHANGED <<managed, releases>> \/ managed' = [managed EXCEPT ![at.key] = NoManaged]
    BY <1>4 DEF RelinquishDrifted, DropExited, Disown, Ask, stateVars
  <2>2. ~Applied'
    BY <1>4 DEF RelinquishDrifted, DropExited, Ask, Goto, Return, callVars, Applied
  <2> QED  BY <1>1, <2>1, <2>2 DEF StateTypes
<1>5. CASE ReturnPreserved
  <2>1. result # "ok" /\ UNCHANGED <<managed, releases, result>>
    BY <1>1, <1>5 DEF ReturnPreserved, Disown, StateTypes
  <2> QED  BY <2>1 DEF Applied
<1>6. CASE ReturnReconcile
  <2>1. pc' # "return" /\ managed' = managed /\ releases \subseteq releases'
    BY <1>1, <1>6 DEF ReturnReconcile, Disown, StateTypes, Goto
  <2> QED  BY <2>1 DEF Applied
<1>7. CASE Recheck
  <2>1. at.mode # "claim" /\ at' = at /\ releases' = releases /\ managed[at.key] \in ManagedType
    BY <1>1, <1>7 DEF Recheck, StepOK, StepLabels, ReleaseLabels, Return, Owned, StateTypes
  <2>2. managed' = managed \/ managed' = [managed EXCEPT ![at.key].expected = at.target]
    BY <1>7 DEF Recheck
  <2>3. managed'[at.key].owner = managed[at.key].owner
    BY <1>1, <2>1, <2>2 DEF StateTypes, ManagedType
  <2>4. managed[at.key] # NoManaged
    BY <1>7 DEF Recheck, StepOK, StepLabels, ReleaseLabels, Owned
  <2> QED  BY <2>1, <2>3, <2>4 DEF Applied
<1>8. CASE Decide
  <2>1. at.mode = "claim" /\ pc = "decide"
    BY <1>8 DEF Decide, StepOK, AttemptLabels
  <2>2. CASE ~Applied'
    <3>1. UNCHANGED <<managed, releases>>
      BY <1>8, <2>1, <2>2 DEF Decide, DecidePreserved, DecideUnchanged, Return, stateVars,
         Applied
    <3> QED  BY <2>2, <3>1
  <2>3. CASE Applied' /\ ~DecideUnchanged
    <3>1. FALSE
      BY <1>8, <2>3 DEF Decide, DecidePreserved, Owned, Applied, Goto, stateVars
    <3> QED  BY <3>1
  <2>4. CASE DecideUnchanged
    <3>1. CASE Owned /\ (Automatic(at.claim.owner) \/ managed[at.key].owner = "ProcessList")
      <4>1. managed' = [managed EXCEPT ![at.key].owner = at.claim.owner]
        BY <2>4, <3>1 DEF DecideUnchanged
      <4>2. managed[at.key] \in ManagedType
        BY <1>1, <3>1 DEF Owned, StateTypes
      <4>3. managed'[at.key].owner = at.claim.owner
        BY <1>1, <4>1, <4>2 DEF StateTypes, ManagedType
      <4>4. Applied'
        BY <2>1, <2>4 DEF DecideUnchanged, Return, Applied
      <4> QED  BY <2>1, <4>3, <4>4
    <3>2. CASE ~(Owned /\ (Automatic(at.claim.owner) \/ managed[at.key].owner = "ProcessList"))
      <4>1. UNCHANGED <<managed, releases>>
        BY <2>4, <3>2 DEF DecideUnchanged
      <4> QED  BY <3>2, <4>1 DEF Owned
    <3> QED  BY <3>1, <3>2
  <2> QED  BY <2>2, <2>3, <2>4
<1>9. CASE CommitChange \/ RetainChange
  <2>1. CASE at.mode = "claim" /\ managed' # managed
    <3>1. Own
      BY <1>9, <2>1 DEF CommitChange, RetainChange, Ask, stateVars
    <3>2. managed'[at.key].owner = at.claim.owner
      BY <1>1, <3>1 DEF Own, StateTypes
    <3>3. Applied' \/ latched'
      BY <1>9, <2>1 DEF CommitChange, RetainChange, Ask, stateVars, Return, Applied, Denied,
         Abandon, Latch, serviceVars
    <3> QED  BY <2>1, <3>2, <3>3
  <2>2. CASE at.mode # "claim"
    <3>1. UNCHANGED <<managed, releases>> /\ at'.mode = at.mode
      BY <1>1, <1>9, <2>2 DEF CommitChange, RetainChange, Ask, stateVars, callVars, Return,
         Goto, Steps
    <3> QED  BY <2>2, <3>1 DEF Applied
  <2>3. CASE at.mode = "claim" /\ managed' = managed
    <3>1. Own \/ (UNCHANGED <<releases, pc>> /\ pc = "commit")
      BY <1>9, <2>3 DEF CommitChange, RetainChange, Ask, stateVars, callVars
    <3>2. CASE Own
      <4>1. managed'[at.key].owner = at.claim.owner
        BY <1>1, <3>2 DEF Own, StateTypes
      <4>2. Ask(Commit(at.id)) \/ Applied' \/ latched'
        BY <1>9, <2>3 DEF CommitChange, RetainChange, Return, Applied, Denied,
           Abandon, Latch, serviceVars
      <4>3. Ask(Commit(at.id)) => UNCHANGED <<pc, releases>> \/ latched'
        BY DEF Ask, callVars, stateVars
      <4>4. pc \in {"commit", "retain"}
        BY <1>9 DEF CommitChange, RetainChange
      <4> QED  BY <2>3, <4>1, <4>2, <4>3, <4>4 DEF Applied
    <3>3. CASE UNCHANGED <<releases, pc>> /\ pc = "commit"
      BY <2>3, <3>3 DEF Applied
    <3> QED  BY <3>1, <3>2, <3>3
  <2> QED  BY <2>1, <2>2, <2>3
<1> QED  BY <1>2, <1>3, <1>4, <1>5, <1>6, <1>7, <1>8, <1>9 DEF AttemptActs

\* The attempt ends in a loop only under a loop, and one that succeeded goes no further.
LEMMA AttemptEnds ==
    ASSUME StepOK, AttemptActs
    PROVE  /\ pc' = "next" => op.kind \in Loops
           /\ Applied => op.kind \in Loops
<1>1. CASE ReturnReconcile \/ DropExited
  BY <1>1 DEF ReturnReconcile, DropExited, StepOK, Loops, Applied
<1>2. CASE ReturnPreserved
  BY <1>2 DEF ReturnPreserved, Applied
<1>3. CASE \/ Open \/ RelinquishStale \/ Query \/ RelinquishDrifted \/ Decide
           \/ BeginChange \/ SetPriority \/ Verify \/ CommitChange \/ Restore
           \/ CheckRestored \/ CancelChange \/ RetainChange \/ Observe \/ Relinquish \/ Recheck
  BY <1>3 DEF Open, RelinquishStale, Query, RelinquishDrifted, Decide, DecidePreserved,
     DecideUnchanged, BeginChange, SetPriority, Verify, CommitChange, Restore, CheckRestored,
     CancelChange, RetainChange, Observe, Relinquish, Recheck, Goto, Return, Ask, callVars,
     Applied
<1> QED  BY <1>1, <1>2, <1>3 DEF AttemptActs

\* An attempt for a claim acts for the owner of the claim in effect, or for nobody automatic.
LEMMA ActsForEffective ==
    ASSUME StepOK, ClaimsOK, pc \in StepLabels, at.mode # "release"
    PROVE  /\ Automatic(at.claim.owner) => EffectiveOwner(claims, at.key) = at.claim.owner
           /\ claims["MemoryPriority"][at.key] # NoClaim => at.claim.owner # "AdaptiveEngine"
<1>1. op.kind \in {"apply", "list"} \cup Loops /\ at.claim \in Claim /\ at.key \in Keys
  BY DEF StepOK, Ops, Loops, Steps
<1>2. at.claim # NoClaim
  BY <1>1, SentinelAssumption
<1>3. CASE op.kind = "list"
  BY <1>3 DEF ClaimsOK, Automatic
<1>4. CASE op.kind # "list"
  <2>1. at.claim = Effective(claims, at.key)
    BY <1>1, <1>4 DEF ClaimsOK
  <2>2. claims["MemoryPriority"][at.key] # NoClaim => Effective(claims, at.key).owner = "MemoryPriority"
    BY <1>1 DEF Effective, ClaimsOK, PolicyOwners
  <2> QED  BY <1>2, <2>1, <2>2 DEF EffectiveOwner
<1> QED  BY <1>3, <1>4

\* The adaptive engine owns nothing the static policy claims, but for what is marked or
\* being claimed (apply_policy_claim, reconcile_policy_key).
LEMMA RankStep ==
    ASSUME StepOK, StateTypes, WorldTypes, ClaimsOK, RankOK, [Next]_mpVars
    PROVE  RankOK'
<1>1. ASSUME NEW o \in PolicyOwners, NEW k \in Keys, NEW c \in Claims, ApplyPolicyClaim(o, k, c)
      PROVE  RankOK'
  <2> DEFINE claim == [owner |-> o, priority |-> c.priority, preservation |-> c.preservation]
             C == [claims EXCEPT ![o][k] = claim]
  <2>1. claim # NoClaim
    BY ClaimsAssumption, SentinelAssumption DEF Claim, Owners
  <2>2. claims' = C /\ pc = "idle" /\ UNCHANGED <<managed, releases>>
    BY <1>1 DEF ApplyPolicyClaim
  <2>3. \A p \in PolicyOwners, j \in Keys :
           C[p][j] = IF p = o /\ j = k THEN claim ELSE claims[p][j]
    BY DEF StateTypes
  <2>4. claim.owner = o
    OBVIOUS
  <2>5. EffectiveOwner(C, k) = o => /\ Start("apply", o, claims[o][k], {})
                                    /\ at' = Attempt(k, claim) /\ pc' = "open"
    BY <1>1 DEF ApplyPolicyClaim
  <2> HIDE DEF claim, C
  <2>6. ASSUME NEW j \in Keys, Outranked(j)'
        PROVE  o = "MemoryPriority" /\ j = k /\ claims[o][k] = NoClaim
    <3>1. ~Outranked(j)
      BY <2>2 DEF RankOK, StepLabels, AttemptLabels, IntentLabels, ReleaseLabels
    <3>2. claims["MemoryPriority"][j] = NoClaim /\ C["MemoryPriority"][j] # NoClaim
      BY <2>2, <2>6, <3>1 DEF Outranked
    <3> QED  BY <2>3, <3>2 DEF PolicyOwners
  <2>7. o = "MemoryPriority" => EffectiveOwner(C, k) = o
    BY <2>1, <2>3, <2>4 DEF EffectiveOwner, Effective, PolicyOwners
  <2>8. ASSUME NEW j \in Keys, Outranked(j)'
        PROVE  /\ pc' \in StepLabels /\ j = at'.key /\ ~Applied'
               /\ op'.kind = "apply" /\ op'.owner = "MemoryPriority" /\ op'.previous = NoClaim
    BY <2>5, <2>6, <2>7, <2>8 DEF Start, Attempt, Applied, StepLabels, AttemptLabels
  <2> QED  BY <2>8 DEF RankOK
<1>2. ASSUME NEW k \in Keys, NEW v \in Values, ApplyProcessListAction(k, v)
      PROVE  RankOK'
  <2>1. pc = "idle" /\ UNCHANGED <<claims, managed, releases>>
    BY <1>2 DEF ApplyProcessListAction, stateVars
  <2> QED  BY <2>1 DEF RankOK, Outranked, StepLabels, AttemptLabels, IntentLabels, ReleaseLabels
<1>3. ASSUME NEW o \in PolicyOwners, NEW active \in SUBSET Keys, ReleasePolicyExcept(o, active)
      PROVE  RankOK'
  <2>1. pc = "idle" /\ UNCHANGED <<managed, releases>>
    BY <1>3 DEF ReleasePolicyExcept
  <2>2. \A j \in Keys : claims'["MemoryPriority"][j] \in {claims["MemoryPriority"][j], NoClaim}
    BY <1>3 DEF ReleasePolicyExcept, StateTypes, PolicyOwners
  <2> QED  BY <2>1, <2>2 DEF RankOK, Outranked, StepLabels, AttemptLabels, IntentLabels,
    ReleaseLabels
<1>4. CASE RetryPendingReleases
  <2>1. pc = "idle" /\ UNCHANGED <<claims, managed, releases>>
    BY <1>4 DEF RetryPendingReleases, stateVars
  <2> QED  BY <2>1 DEF RankOK, Outranked, StepLabels, AttemptLabels, IntentLabels, ReleaseLabels
<1>5. CASE Shutdown
  <2>1. pc = "idle" /\ UNCHANGED <<managed, releases>>
    BY <1>5 DEF Shutdown
  <2>2. \A j \in Keys : claims'["MemoryPriority"][j] \in {claims["MemoryPriority"][j], NoClaim}
    BY <1>5 DEF Shutdown, StateTypes, PolicyOwners
  <2> QED  BY <2>1, <2>2 DEF RankOK, Outranked, StepLabels, AttemptLabels, IntentLabels,
    ReleaseLabels
<1>6. CASE AttemptActs
  <2>1. /\ at.key \in Keys /\ pc \in StepLabels /\ pc' \in StepLabels \cup {"next"}
        /\ UNCHANGED <<op, claims>> /\ at'.key = at.key /\ at'.claim = at.claim
    BY <1>6, AttemptFrame DEF Steps
  <2>2. pc # "dead"
    BY <2>1 DEF StepLabels, AttemptLabels, IntentLabels, ReleaseLabels
  <2>3. ASSUME NEW k \in Keys, Outranked(k)', k # at.key
        PROVE  FALSE
    <3>1. managed'[k] = managed[k] /\ k \notin releases
      BY <1>6, <2>3, ManagedFrame, ReleasesFrame DEF Outranked
    <3>2. Outranked(k)
      BY <2>1, <2>3, <3>1 DEF Outranked
    <3> QED  BY <2>2, <2>3, <3>2 DEF RankOK
  <2>4. ASSUME Outranked(at.key)'
        PROVE  /\ pc' \in StepLabels /\ ~Applied'
               /\ op.kind = "apply" /\ op.owner = "MemoryPriority" /\ op.previous = NoClaim
    <3>1. /\ managed'[at.key] # NoManaged /\ managed'[at.key].owner = "AdaptiveEngine"
          /\ claims["MemoryPriority"][at.key] # NoClaim /\ at.key \notin releases'
      BY <2>1, <2>4 DEF Outranked
    <3>2. CASE /\ managed[at.key] # NoManaged /\ managed'[at.key].owner = managed[at.key].owner
               /\ at.key \in releases => at.key \in releases'
               /\ Applied' => ~Automatic(at.claim.owner)
      <4>1. Outranked(at.key)
        BY <3>1, <3>2 DEF Outranked
      <4>2. op.kind = "apply" /\ op.owner = "MemoryPriority" /\ op.previous = NoClaim
        BY <2>1, <2>2, <4>1 DEF RankOK
      <4>3. pc' # "next"
        BY <1>6, <4>2, AttemptEnds DEF Loops
      <4>4. at.claim.owner = "MemoryPriority"
        BY <2>1, <4>2 DEF ClaimsOK
      <4> QED  BY <2>1, <3>2, <4>2, <4>3, <4>4 DEF Automatic
    <3>3. CASE managed'[at.key].owner = at.claim.owner /\ at.mode = "claim"
      BY <2>1, <3>1, <3>3, ActsForEffective
    <3> QED  BY <1>6, <3>1, <3>2, <3>3, OwnerFrame
  <2> QED  BY <2>1, <2>3, <2>4 DEF RankOK
<1>7. CASE ReturnApply
  <2>1. /\ pc = "return" /\ at.mode = "claim" /\ op.kind \in {"apply", "list"}
        /\ UNCHANGED <<managed, releases>>
    BY <1>7 DEF ReturnApply
  <2>2. at.key \in Keys
    BY <2>1 DEF StepOK, StepLabels, Steps
  <2>3. ASSUME NEW k \in Keys, Outranked(k)'
        PROVE  FALSE
    <3>1. CASE op.kind = "apply" /\ result # "ok"
      <4>1. op.owner \in PolicyOwners /\ at.claim.owner = op.owner
        BY <2>1, <3>1 DEF ClaimsOK, StepLabels
      <4>2. \A j \in Keys : claims'["MemoryPriority"][j]
               = IF j = at.key /\ op.owner = "MemoryPriority" THEN op.previous
                 ELSE claims["MemoryPriority"][j]
        BY <1>7, <2>2, <3>1, <4>1 DEF ReturnApply, StateTypes, PolicyOwners
      <4>3. k = at.key
        BY <2>1, <2>3, <4>2 DEF Outranked, RankOK
      <4>4. CASE Outranked(k)
        <5>1. op.owner = "MemoryPriority" /\ op.previous = NoClaim
          BY <2>1, <4>4 DEF RankOK
        <5> QED  BY <2>3, <4>2, <4>3, <5>1 DEF Outranked
      <4>5. CASE ~Outranked(k)
        <5>1. claims["MemoryPriority"][k] = NoClaim /\ op.owner = "MemoryPriority"
          BY <2>1, <2>3, <4>2, <4>3, <4>5 DEF Outranked
        <5>2. at.claim = claims["AdaptiveEngine"][k] /\ at.claim \in Claim
          BY <2>1, <3>1, <4>3, <5>1 DEF ClaimsOK, StepLabels, Effective, StepOK
        <5>3. at.claim # NoClaim /\ at.claim.owner = "AdaptiveEngine"
          BY <5>2, SentinelAssumption DEF ClaimsOK, PolicyOwners
        <5> QED  BY <4>1, <5>1, <5>3
      <4> QED  BY <4>4, <4>5
    <3>2. CASE ~(op.kind = "apply" /\ result # "ok")
      <4>1. claims' = claims
        BY <1>7, <3>2 DEF ReturnApply
      <4>2. Outranked(k)
        BY <2>1, <2>3, <4>1 DEF Outranked
      <4> QED  BY <2>1, <3>2, <4>2 DEF RankOK, Applied
    <3> QED  BY <3>1, <3>2
  <2> QED  BY <2>3 DEF RankOK
<1>8. CASE NextKey
  <2>1. pc = "next" /\ UNCHANGED <<claims, managed>> /\ releases \subseteq releases'
    BY <1>8 DEF NextKey, Marked
  <2> QED  BY <2>1 DEF RankOK, Outranked, StepLabels, AttemptLabels, IntentLabels, ReleaseLabels
<1>9. CASE LoopDone
  <2>1. pc = "next" /\ UNCHANGED <<claims, managed>> /\ releases \cap ManagedKeys \subseteq releases'
    BY <1>9 DEF LoopDone
  <2> QED  BY <2>1 DEF RankOK, Outranked, StepLabels, AttemptLabels, IntentLabels,
    ReleaseLabels, ManagedKeys
<1>10. ASSUME NEW k \in Keys, NEW v \in Values, OutsiderSets(k, v)
       PROVE  RankOK'
  <2>1. UNCHANGED <<pc, op, at, result, claims, managed, releases>>
    BY <1>10 DEF OutsiderSets, callVars, stateVars
  <2> QED  BY <2>1 DEF RankOK, Outranked, Applied
<1>11. ASSUME NEW k \in Keys, ProcessExits(k)
       PROVE  RankOK'
  <2>1. UNCHANGED <<pc, op, at, result, claims, managed, releases>>
    BY <1>11 DEF ProcessExits, callVars, stateVars
  <2> QED  BY <2>1 DEF RankOK, Outranked, Applied
<1>12. ASSUME NEW k \in Keys, ProcessStarts(k)
       PROVE  RankOK'
  <2>1. UNCHANGED <<pc, op, at, result, claims, managed, releases>>
    BY <1>12 DEF ProcessStarts, callVars, stateVars
  <2> QED  BY <2>1 DEF RankOK, Outranked, Applied
<1>13. ASSUME NEW k \in Keys, Replay(k)
       PROVE  RankOK'
  <2>1. UNCHANGED <<pc, op, at, result, claims, managed, releases>>
    BY <1>13 DEF Replay, callVars, stateVars
  <2> QED  BY <2>1 DEF RankOK, Outranked, Applied
<1>14. CASE Crash
  <2>1. pc' = "dead"
    BY <1>14 DEF Crash, Idle
  <2> QED  BY <2>1 DEF RankOK
<1>15. CASE OtherLatches
  <2>1. UNCHANGED <<pc, op, at, result, claims, managed, releases>>
    BY <1>15 DEF OtherLatches, callVars, stateVars
  <2> QED  BY <2>1 DEF RankOK, Outranked, Applied
<1>16. CASE ServiceStep
  <2>1. UNCHANGED <<pc, op, at, result, claims, managed, releases>>
    BY <1>16 DEF ServiceStep, callVars, stateVars
  <2> QED  BY <2>1 DEF RankOK, Outranked, Applied
<1>17. CASE UNCHANGED mpVars
  <2>1. UNCHANGED <<pc, op, at, result, claims, managed, releases>>
    BY <1>17 DEF mpVars, callVars, stateVars
  <2> QED  BY <2>1 DEF RankOK, Outranked, Applied
<1> QED
  BY <1>1, <1>2, <1>3, <1>4, <1>5, <1>6, <1>7, <1>8, <1>9, <1>10, <1>11, <1>12, <1>13,
     <1>14, <1>15, <1>16, <1>17 DEF Next, Entry, Controller, Environment,
     AttemptActs

\* A latched service stays latched.
LEMMA LatchStays ==
    ASSUME TypeOK, StepOK, CallOK, [Next]_mpVars
    PROVE  latched => latched'
<1>1. [ServiceNext]_serviceVars
  BY ServiceMoves
<1> QED
  BY <1>1 DEF ServiceNext, Submit, Land, Refuse, Acknowledge, Reject, Abandon, LateLand,
     LateLoss,
     Latch, serviceVars

\* No automatic change is left that nobody claims and nobody will release.
LEMMA OrphanStep ==
    ASSUME TypeOK, StepOK, CallOK, StateTypes, WorldTypes, ClaimsOK, OrphanOK, [Next]_mpVars
    PROVE  OrphanOK'
<1>0. latched => latched'
  BY LatchStays
<1>1. ASSUME NEW o \in PolicyOwners, NEW k \in Keys, NEW c \in Claims, ApplyPolicyClaim(o, k, c)
      PROVE  OrphanOK'
  <2> DEFINE claim == [owner |-> o, priority |-> c.priority, preservation |-> c.preservation]
             C == [claims EXCEPT ![o][k] = claim]
  <2>1. claim # NoClaim
    BY ClaimsAssumption, SentinelAssumption DEF Claim, Owners
  <2>2. claims' = C /\ pc = "idle" /\ UNCHANGED <<managed, releases>>
    BY <1>1 DEF ApplyPolicyClaim
  <2>3. \A p \in PolicyOwners, j \in Keys :
           C[p][j] = IF p = o /\ j = k THEN claim ELSE claims[p][j]
    BY DEF StateTypes
  <2>4. claim.owner = o
    OBVIOUS
  <2>5. EffectiveOwner(C, k) = o =>
           /\ Start("apply", o, claims[o][k], {})
           /\ at' = Attempt(k, claim) /\ pc' = "open"
    BY <1>1 DEF ApplyPolicyClaim
  <2>6. EffectiveOwner(C, k) # o => UNCHANGED <<pc, op>>
    BY <1>1 DEF ApplyPolicyClaim, callVars
  <2>7. EffectiveOwner(C, k) = o => [C EXCEPT ![o][k] = claims[o][k]] = claims
    BY DEF StateTypes
  <2> HIDE DEF claim, C
  <2>8. ASSUME NEW j \in Keys, ~latched, Unclaimed(C, j)
        PROVE  j = k /\ EffectiveOwner(C, k) = o
    <3>1. ~Unclaimed(claims, j)
      BY <2>2, <2>8 DEF OrphanOK
    <3>2. EffectiveOwner(C, j) # EffectiveOwner(claims, j)
      BY <2>8, <3>1 DEF Unclaimed
    <3>3. j = k
      BY <2>3, <3>2 DEF EffectiveOwner, Effective, PolicyOwners
    <3>4. o = "MemoryPriority" => EffectiveOwner(C, k) = o
      BY <2>1, <2>3, <2>4 DEF EffectiveOwner, Effective, PolicyOwners
    <3>5. o = "AdaptiveEngine" => EffectiveOwner(C, k) \in {o, EffectiveOwner(claims, k)}
      BY <2>1, <2>3, <2>4 DEF EffectiveOwner, Effective, PolicyOwners
    <3> QED  BY <3>2, <3>3, <3>4, <3>5 DEF PolicyOwners
  <2>9. \A j \in Keys : Unclaimed(claims, j)' <=> Unclaimed(C, j)
    BY <2>2 DEF Unclaimed, EffectiveOwner, Effective
  <2>10. CASE EffectiveOwner(C, k) # o
    BY <1>0, <2>2, <2>6, <2>8, <2>9, <2>10 DEF OrphanOK, StepLabels, AttemptLabels,
       IntentLabels, ReleaseLabels
  <2>11. CASE EffectiveOwner(C, k) = o
    <3>1. /\ op'.kind = "apply" /\ op'.owner = o /\ op'.previous = claims[o][k]
          /\ at'.key = k /\ pc' = "open"
      BY <2>5, <2>11 DEF Start, Attempt
    <3>2. Reverted' = claims
      BY <2>2, <2>7, <2>11, <3>1 DEF Reverted
    <3>3. ~latched => ~Unclaimed(claims, k)
      BY <2>2 DEF OrphanOK
    <3>4. ~latched => ~Unclaimed(Reverted, at.key)'
      BY <2>2, <3>1, <3>2, <3>3 DEF Unclaimed, EffectiveOwner, Effective
    <3> QED  BY <1>0, <2>8, <2>9, <3>1, <3>4 DEF OrphanOK, Applied, StepLabels, AttemptLabels
  <2> QED  BY <2>10, <2>11
<1>2. ASSUME NEW k \in Keys, NEW v \in Values, ApplyProcessListAction(k, v)
      PROVE  OrphanOK'
  <2>1. /\ pc = "idle" /\ UNCHANGED <<claims, managed, releases>>
        /\ pc' = "open" /\ op'.kind = "list"
    BY <1>2 DEF ApplyProcessListAction, Start, stateVars
  <2> QED  BY <1>0, <2>1 DEF OrphanOK, Unclaimed, EffectiveOwner, Effective
<1>3. ASSUME NEW o \in PolicyOwners, NEW active \in SUBSET Keys, ReleasePolicyExcept(o, active)
      PROVE  OrphanOK'
  <2> DEFINE stale == {k \in Keys \ active : claims[o][k] # NoClaim}
  <2>1. pc = "idle" /\ pc' = "next" /\ UNCHANGED <<managed, releases>>
    BY <1>3 DEF ReleasePolicyExcept
  <2>2. op'.kind = "release" /\ \A k \in stale : [key |-> k, rank |-> 0] \in op'.todo
    BY <1>3 DEF ReleasePolicyExcept, Start
  <2>3. \A p \in PolicyOwners, j \in Keys \ stale : claims'[p][j] = claims[p][j]
    BY <1>3 DEF ReleasePolicyExcept, StateTypes
  <2> HIDE DEF stale
  <2>4. ASSUME NEW k \in Keys, ~latched, Unclaimed(claims, k)'
        PROVE  \E t \in op'.todo : t.key = k
    <3>1. CASE k \in stale
      BY <2>2, <3>1
    <3>2. CASE k \notin stale
      <4>1. Effective(claims, k)' = Effective(claims, k)
        BY <2>3, <3>2 DEF Effective, PolicyOwners
      <4>2. Unclaimed(claims, k)
        BY <2>1, <2>4, <4>1 DEF Unclaimed, EffectiveOwner
      <4> QED  BY <2>1, <2>4, <4>2 DEF OrphanOK
    <3> QED  BY <3>1, <3>2
  <2> QED  BY <1>0, <2>1, <2>2, <2>4 DEF OrphanOK, Loops, StepLabels, AttemptLabels,
    IntentLabels, ReleaseLabels
<1>4. CASE RetryPendingReleases
  <2>1. /\ pc = "idle" /\ UNCHANGED <<claims, managed, releases>>
        /\ pc' = "next" /\ op'.kind = "retry"
    BY <1>4 DEF RetryPendingReleases, Start, stateVars
  <2> QED  BY <1>0, <2>1 DEF OrphanOK, Unclaimed, EffectiveOwner, Effective, StepLabels,
    AttemptLabels, IntentLabels, ReleaseLabels
<1>5. CASE Shutdown
  <2>1. pc' = "next" /\ op'.kind = "shutdown"
    BY <1>5 DEF Shutdown, Start
  <2> QED  BY <2>1 DEF OrphanOK, StepLabels, AttemptLabels, IntentLabels, ReleaseLabels
<1>6. CASE AttemptActs
  <2>1. /\ at.key \in Keys /\ pc \in StepLabels /\ pc' \in StepLabels \cup {"next"}
        /\ UNCHANGED <<op, claims>> /\ at'.key = at.key /\ at'.claim = at.claim
    BY <1>6, AttemptFrame DEF Steps
  <2>2. pc' # "idle"
    BY <2>1 DEF StepLabels, AttemptLabels, IntentLabels, ReleaseLabels
  <2>3. Reverted' = Reverted
    BY <2>1 DEF Reverted
  <2> SUFFICES ASSUME ~latched'
               PROVE  /\ op.kind # "shutdown" => \A k \in Keys : Unclaimed(claims, k)' =>
                            \/ op.kind \in Loops /\ \E t \in op.todo : t.key = k
                            \/ pc' \in StepLabels /\ op.kind = "apply" /\ k = at.key /\ ~Applied'
                      /\ op.kind = "apply" /\ ~Applied' => ~Unclaimed(Reverted, at.key)'
    BY <2>1, <2>2 DEF OrphanOK
  <2>4. ~latched
    BY <1>0
  <2>5. ASSUME NEW k \in Keys, Unclaimed(claims, k)', k # at.key, op.kind # "shutdown"
        PROVE  op.kind \in Loops /\ \E t \in op.todo : t.key = k
    <3>1. managed'[k] = managed[k] /\ k \notin releases
      BY <1>6, <2>5, ManagedFrame, ReleasesFrame DEF Unclaimed
    <3>2. Unclaimed(claims, k)
      BY <2>1, <2>5, <3>1 DEF Unclaimed, EffectiveOwner, Effective
    <3> QED  BY <2>1, <2>4, <2>5, <3>2 DEF OrphanOK
  <2> DEFINE Same == /\ managed[at.key] # NoManaged /\ managed'[at.key].owner = managed[at.key].owner
                     /\ at.key \in releases => at.key \in releases'
                     /\ Applied' => ~Automatic(at.claim.owner)
             Taken == /\ managed'[at.key].owner = at.claim.owner /\ at.mode = "claim"
                      /\ Applied'
  <2>6. managed'[at.key] # NoManaged => Same \/ Taken
    BY <1>6, OwnerFrame
  <2>7. ASSUME Unclaimed(claims, at.key)', op.kind # "shutdown"
        PROVE  \/ op.kind \in Loops /\ \E t \in op.todo : t.key = at.key
               \/ pc' \in StepLabels /\ op.kind = "apply" /\ ~Applied'
    <3>1. /\ managed'[at.key] # NoManaged /\ Automatic(managed'[at.key].owner)
          /\ EffectiveOwner(claims, at.key) # managed'[at.key].owner /\ at.key \notin releases'
      BY <2>1, <2>7 DEF Unclaimed, EffectiveOwner, Effective
    <3>2. CASE Same
      <4>1. Unclaimed(claims, at.key)
        BY <3>1, <3>2 DEF Unclaimed
      <4>2. CASE op.kind \in Loops /\ \E t \in op.todo : t.key = at.key
        BY <4>2
      <4>3. CASE op.kind = "apply"
        <5>1. pc' # "next"
          BY <1>6, <4>3, AttemptEnds DEF Loops
        <5>2. at.claim.owner = op.owner /\ op.owner \in PolicyOwners
          BY <2>1, <4>3 DEF ClaimsOK
        <5>3. ~Applied'
          BY <3>2, <5>2 DEF Automatic, PolicyOwners
        <5> QED  BY <2>1, <4>3, <5>1, <5>3
      <4> QED  BY <2>1, <2>4, <2>7, <4>1, <4>2, <4>3 DEF OrphanOK
    <3>3. CASE Taken
      BY <2>1, <3>1, <3>3, ActsForEffective
    <3> QED  BY <2>6, <3>1, <3>2, <3>3
  <2>8. ASSUME op.kind = "apply", ~Applied', Unclaimed(Reverted, at.key)'
        PROVE  FALSE
    <3>1. /\ managed'[at.key] # NoManaged /\ Automatic(managed'[at.key].owner)
          /\ EffectiveOwner(Reverted, at.key) # managed'[at.key].owner /\ at.key \notin releases'
      BY <2>1, <2>3, <2>8 DEF Unclaimed, EffectiveOwner, Effective
    <3>2. Same
      BY <2>6, <2>8, <3>1
    <3>3. Unclaimed(Reverted, at.key)
      BY <3>1, <3>2 DEF Unclaimed
    <3>4. ~Applied
      BY <1>6, <2>8, AttemptEnds DEF Loops
    <3> QED  BY <2>1, <2>4, <2>8, <3>3, <3>4 DEF OrphanOK
  <2> QED  BY <2>1, <2>5, <2>7, <2>8 DEF Unclaimed, EffectiveOwner, Effective
<1>7. CASE ReturnApply
  <2>1. /\ pc = "return" /\ at.mode = "claim" /\ op.kind \in {"apply", "list"}
        /\ UNCHANGED <<managed, releases>> /\ pc' = "idle"
    BY <1>7 DEF ReturnApply, Idle
  <2>2. at.key \in Keys
    BY <2>1 DEF StepOK, StepLabels, Steps
  <2> SUFFICES ASSUME ~latched', NEW k \in Keys, Unclaimed(claims, k)' PROVE FALSE
    BY <2>1 DEF OrphanOK, StepLabels, AttemptLabels, IntentLabels, ReleaseLabels
  <2>3. \A j \in Keys : Unclaimed(claims, j) => op.kind = "apply" /\ result # "ok" /\ j = at.key
    BY <1>0, <2>1 DEF OrphanOK, StepLabels, Applied, Loops
  <2>4. CASE op.kind = "apply" /\ result # "ok"
    <3>1. claims' = Reverted
      BY <1>7, <2>4 DEF ReturnApply, Reverted
    <3>2. k # at.key
      <4>1. ~Unclaimed(Reverted, at.key)
        BY <1>0, <2>1, <2>4 DEF OrphanOK, StepLabels, Applied
      <4> QED  BY <2>1, <3>1, <4>1 DEF Unclaimed, EffectiveOwner, Effective
    <3>3. \A p \in PolicyOwners : claims'[p][k] = claims[p][k]
      BY <2>2, <3>1, <3>2 DEF Reverted, StateTypes
    <3>4. Unclaimed(claims, k)
      BY <2>1, <3>3 DEF Unclaimed, EffectiveOwner, Effective, PolicyOwners
    <3> QED  BY <2>3, <3>2, <3>4
  <2>5. CASE ~(op.kind = "apply" /\ result # "ok")
    <3>1. claims' = claims
      BY <1>7, <2>5 DEF ReturnApply
    <3> QED  BY <2>1, <2>3, <2>5, <3>1 DEF Unclaimed, EffectiveOwner, Effective
  <2> QED  BY <2>4, <2>5
<1>8. CASE NextKey
  <2>1. op \in Ops /\ op.kind \in Loops /\ pc = "next" /\ UNCHANGED <<claims, managed>>
    BY <1>8 DEF NextKey, StepOK
  <2>2. PICK t \in op.todo : op' = [op EXCEPT !.todo = @ \ {t}] /\ releases' = Marked(t.key)
    BY <1>8 DEF NextKey, Newest
  <2>3. op'.kind = op.kind /\ op'.todo = op.todo \ {t}
    BY <2>1, <2>2 DEF Ops
  <2>4. pc' \in StepLabels \cup {"next"} /\ pc' # "idle"
    BY <1>8, <2>1 DEF NextKey, StepLabels, AttemptLabels, ReleaseLabels
  <2>5. ASSUME ~latched', op.kind # "shutdown", NEW k \in Keys, Unclaimed(claims, k)'
        PROVE  \E u \in op'.todo : u.key = k
    <3>1. Unclaimed(claims, k) /\ k \notin Marked(t.key)
      BY <2>1, <2>2, <2>5 DEF Unclaimed, EffectiveOwner, Effective, Marked
    <3>2. PICK u \in op.todo : u.key = k
      BY <1>0, <2>1, <2>5, <3>1 DEF OrphanOK, StepLabels, AttemptLabels, IntentLabels,
         ReleaseLabels
    <3>3. u # t
      BY <2>5, <3>1, <3>2 DEF Marked, Unclaimed
    <3> QED  BY <2>3, <3>2, <3>3
  <2> QED  BY <2>1, <2>3, <2>4, <2>5 DEF OrphanOK, Loops
<1>9. CASE LoopDone
  <2>1. /\ pc = "next" /\ op.todo = {} /\ UNCHANGED <<claims, managed>>
        /\ releases \cap ManagedKeys \subseteq releases'
        /\ pc' = IF op.kind = "shutdown" THEN "stopped" ELSE "idle"
    BY <1>9 DEF LoopDone, Idle
  <2>2. ASSUME ~latched', op.kind # "shutdown", NEW k \in Keys, Unclaimed(claims, k)'
        PROVE  FALSE
    <3>1. Unclaimed(claims, k)
      BY <2>1, <2>2 DEF Unclaimed, EffectiveOwner, Effective, ManagedKeys
    <3> QED  BY <1>0, <2>1, <2>2, <3>1 DEF OrphanOK, StepLabels, AttemptLabels, IntentLabels,
      ReleaseLabels
  <2> QED  BY <2>1, <2>2 DEF OrphanOK, StepLabels, AttemptLabels, IntentLabels, ReleaseLabels
<1>10. ASSUME NEW k \in Keys, NEW v \in Values, OutsiderSets(k, v)
       PROVE  OrphanOK'
  <2>1. UNCHANGED <<pc, op, at, result, claims, managed, releases>>
    BY <1>10 DEF OutsiderSets, callVars, stateVars
  <2> QED  BY <1>0, <2>1 DEF OrphanOK, Unclaimed, EffectiveOwner, Effective, Applied, Reverted
<1>11. ASSUME NEW k \in Keys, ProcessExits(k)
       PROVE  OrphanOK'
  <2>1. UNCHANGED <<pc, op, at, result, claims, managed, releases>>
    BY <1>11 DEF ProcessExits, callVars, stateVars
  <2> QED  BY <1>0, <2>1 DEF OrphanOK, Unclaimed, EffectiveOwner, Effective, Applied, Reverted
<1>12. ASSUME NEW k \in Keys, ProcessStarts(k)
       PROVE  OrphanOK'
  <2>1. UNCHANGED <<pc, op, at, result, claims, managed, releases>>
    BY <1>12 DEF ProcessStarts, callVars, stateVars
  <2> QED  BY <1>0, <2>1 DEF OrphanOK, Unclaimed, EffectiveOwner, Effective, Applied, Reverted
<1>13. ASSUME NEW k \in Keys, Replay(k)
       PROVE  OrphanOK'
  <2>1. UNCHANGED <<pc, op, at, result, claims, managed, releases>>
    BY <1>13 DEF Replay, callVars, stateVars
  <2> QED  BY <1>0, <2>1 DEF OrphanOK, Unclaimed, EffectiveOwner, Effective, Applied, Reverted
<1>14. CASE Crash
  <2>1. pc' = "dead"
    BY <1>14 DEF Crash, Idle
  <2> QED  BY <2>1 DEF OrphanOK, StepLabels, AttemptLabels, IntentLabels, ReleaseLabels
<1>15. CASE OtherLatches
  <2>1. latched'
    BY <1>15 DEF OtherLatches, Latch
  <2> QED  BY <2>1 DEF OrphanOK
<1>16. CASE ServiceStep
  <2>1. UNCHANGED <<pc, op, at, result, claims, managed, releases>>
    BY <1>16 DEF ServiceStep, callVars, stateVars
  <2> QED  BY <1>0, <2>1 DEF OrphanOK, Unclaimed, EffectiveOwner, Effective, Applied, Reverted
<1>17. CASE UNCHANGED mpVars
  <2>1. UNCHANGED <<pc, op, at, result, claims, managed, releases>>
    BY <1>17 DEF mpVars, callVars, stateVars
  <2> QED  BY <1>0, <2>1 DEF OrphanOK, Unclaimed, EffectiveOwner, Effective, Applied, Reverted
<1> QED
  BY <1>1, <1>2, <1>3, <1>4, <1>5, <1>6, <1>7, <1>8, <1>9, <1>10, <1>11, <1>12, <1>13,
     <1>14, <1>15, <1>16, <1>17 DEF Next, Entry, Controller, Environment,
     AttemptActs

--------------------------------------------------------------------------------
(***************************************************************************)
(* The transition under way and the journal.                               *)
(***************************************************************************)
\* What the labels of a transition say of the managed change, of what was seen and of
\* where it goes; a release whose commit failed has latched the service.
PhaseOK ==
    /\ pc \in AttemptLabels => at.target = at.claim.priority
    /\ pc = "drift" => Owned /\ Mine.expected # at.seen
    /\ pc \in {"decide", "begin"} \cup IntentLabels => (Owned => Mine.expected = at.seen)
    /\ pc \in {"begin"} \cup IntentLabels =>
          at.seen # at.target /\ (at.mode # "claim" => Mine.baseline = at.target)
    /\ pc = "relinquish" => Mine.expected # at.seen \/ Mine.baseline = at.seen
    /\ pc \in StepLabels /\ at.kept => latched

\* The transition under way stays between what was seen and where it goes.
LEMMA PhaseStep ==
    ASSUME TypeOK, StepOK, CallOK, StateTypes, PhaseOK, [Next]_mpVars
    PROVE  PhaseOK'
<1>0. latched => latched'
  BY LatchStays
<1>1. ASSUME NEW o \in PolicyOwners, NEW k \in Keys, NEW c \in Claims, ApplyPolicyClaim(o, k, c)
      PROVE  PhaseOK'
  <2>1. \/ pc' = "idle"
        \/ pc' = "open" /\ at'.target = at'.claim.priority /\ at'.kept = FALSE
    BY <1>1 DEF ApplyPolicyClaim, Attempt, callVars
  <2> QED  BY <2>1 DEF PhaseOK, StepLabels, AttemptLabels, IntentLabels, ReleaseLabels
<1>2. ASSUME NEW k \in Keys, NEW v \in Values, ApplyProcessListAction(k, v)
      PROVE  PhaseOK'
  <2>1. \/ pc' = "idle"
        \/ pc' = "open" /\ at'.target = at'.claim.priority /\ at'.kept = FALSE
    BY <1>2 DEF ApplyProcessListAction, Attempt, callVars
  <2> QED  BY <2>1 DEF PhaseOK, StepLabels, AttemptLabels, IntentLabels, ReleaseLabels
<1>3. ASSUME NEW o \in PolicyOwners, NEW active \in SUBSET Keys, ReleasePolicyExcept(o, active)
      PROVE  PhaseOK'
  <2>1. pc' \in {"idle", "next", "stopped", "dead"}
    BY <1>3 DEF ReleasePolicyExcept, Idle
  <2> QED  BY <2>1 DEF PhaseOK, StepLabels, AttemptLabels, IntentLabels, ReleaseLabels
<1>4. CASE RetryPendingReleases
  <2>1. pc' \in {"idle", "next", "stopped", "dead"}
    BY <1>4 DEF RetryPendingReleases, Idle
  <2> QED  BY <2>1 DEF PhaseOK, StepLabels, AttemptLabels, IntentLabels, ReleaseLabels
<1>5. CASE Shutdown
  <2>1. pc' \in {"idle", "next", "stopped", "dead"}
    BY <1>5 DEF Shutdown, Idle
  <2> QED  BY <2>1 DEF PhaseOK, StepLabels, AttemptLabels, IntentLabels, ReleaseLabels
<1>6. CASE Open
  <2>1. /\ pc \in StepLabels /\ at' = at
        /\ pc' \in {"return", "stale"}
    BY <1>6 DEF Open, Goto, Return, StepLabels, AttemptLabels, IntentLabels, ReleaseLabels
  <2>2. pc' \in AttemptLabels => pc \in AttemptLabels
    BY <1>6, <2>1 DEF Open, Goto, Return, AttemptLabels
  <2> QED  BY <1>0, <2>1, <2>2 DEF PhaseOK, StepLabels, AttemptLabels, IntentLabels,
    ReleaseLabels
<1>7. CASE RelinquishStale
  <2>1. /\ pc \in StepLabels /\ at' = at
        /\ pc' \in {"return", "stale", "query"}
    BY <1>7 DEF RelinquishStale, Ask, callVars, Goto, Return, StepLabels, AttemptLabels,
       IntentLabels, ReleaseLabels
  <2>2. pc' \in AttemptLabels => pc \in AttemptLabels
    BY <1>7, <2>1 DEF RelinquishStale, Ask, callVars, Goto, Return, AttemptLabels
  <2> QED  BY <1>0, <2>1, <2>2 DEF PhaseOK, StepLabels, AttemptLabels, IntentLabels,
    ReleaseLabels
<1>8. CASE Query
  <2>1. at \in Steps /\ pc = "query" /\ managed' = managed
    BY <1>8 DEF Query, StepOK, StepLabels, AttemptLabels, stateVars
  <2>2. \/ pc' = "return" /\ at' = at
        \/ /\ at' = [at EXCEPT !.seen = value[at.key]]
           /\ pc' = IF Drifted(at.key, value[at.key]) THEN "drift" ELSE "decide"
    BY <1>8 DEF Query, Return
  <2>3. /\ at'.key = at.key /\ at'.target = at.target /\ at'.claim = at.claim
        /\ at'.kept = at.kept /\ (pc' = "return" \/ at'.seen = value[at.key])
    BY <2>1, <2>2 DEF Steps
  <2> QED  BY <1>0, <2>1, <2>2, <2>3 DEF PhaseOK, Mine, Owned, Drifted, StepLabels,
    AttemptLabels, IntentLabels, ReleaseLabels
<1>9. CASE RelinquishDrifted
  <2>1. at \in Steps /\ pc = "drift" /\ at' = at
    BY <1>9 DEF RelinquishDrifted, StepOK, StepLabels, AttemptLabels, Ask, callVars, Goto,
       Return
  <2>2. \/ pc' = "drift" /\ managed' = managed
        \/ pc' = "decide" /\ managed' = [managed EXCEPT ![at.key] = NoManaged]
        \/ pc' = "return"
    BY <1>9 DEF RelinquishDrifted, Ask, callVars, stateVars, Goto, Return, Disown
  <2>3. pc' = "decide" => ~Owned'
    BY <2>1, <2>2 DEF Owned, StateTypes, Steps
  <2> QED  BY <1>0, <2>1, <2>2, <2>3 DEF PhaseOK, Mine, Owned, StepLabels, AttemptLabels,
    IntentLabels, ReleaseLabels
<1>10. CASE Decide
  <2>1. at \in Steps /\ pc = "decide" /\ at.mode = "claim"
    BY <1>10 DEF Decide, StepOK, StepLabels, AttemptLabels
  <2>2. \/ pc' \in {"observe", "return"} /\ (at' = at \/ at' = [at EXCEPT !.mode = "preserved"])
        \/ /\ pc' = "begin" /\ UNCHANGED <<at, managed>> /\ at.seen # at.claim.priority
    BY <1>10 DEF Decide, DecidePreserved, DecideUnchanged, Goto, Return, stateVars
  <2>3. at'.kept = at.kept
    BY <2>1, <2>2 DEF Steps
  <2> QED  BY <1>0, <2>1, <2>2, <2>3 DEF PhaseOK, Mine, Owned, StepLabels, AttemptLabels,
    IntentLabels, ReleaseLabels
<1>11. CASE BeginChange
  <2>1. at \in Steps /\ pc = "begin" /\ managed' = managed
    BY <1>11 DEF BeginChange, StepOK, StepLabels, stateVars
  <2>2. /\ pc' \in {"begin", "set", "return", "recheck"}
        /\ at' = at \/ at' = [at EXCEPT !.id = nextId]
    BY <1>11, <2>1 DEF BeginChange, Goto, Return
  <2>3. /\ at'.key = at.key /\ at'.target = at.target /\ at'.seen = at.seen
        /\ at'.mode = at.mode /\ at'.kept = at.kept
    BY <2>1, <2>2 DEF Steps
  <2> QED  BY <1>0, <2>1, <2>2, <2>3 DEF PhaseOK, Mine, Owned, StepLabels, AttemptLabels,
    IntentLabels, ReleaseLabels
<1>12. CASE SetPriority
  <2>1. pc = "set" /\ pc' \in {"verify", "restore"} /\ UNCHANGED <<at, managed>>
    BY <1>12 DEF SetPriority, Goto, stateVars
  <2> QED  BY <1>0, <2>1 DEF PhaseOK, Mine, Owned, StepLabels, AttemptLabels, IntentLabels,
    ReleaseLabels
<1>13. CASE Verify
  <2>1. pc = "verify" /\ pc' \in {"commit", "restore"} /\ UNCHANGED <<at, managed>>
    BY <1>13 DEF Verify, Goto, stateVars
  <2> QED  BY <1>0, <2>1 DEF PhaseOK, Mine, Owned, StepLabels, AttemptLabels, IntentLabels,
    ReleaseLabels
<1>14. CASE CommitChange
  <2>1. at \in Steps /\ pc = "commit"
    BY <1>14 DEF CommitChange, StepOK, StepLabels, IntentLabels
  <2>2. \/ pc' = "commit" /\ UNCHANGED <<at, managed>>
        \/ pc' = "return" /\ at' = at
        \/ pc' = "recheck" /\ at' = [at EXCEPT !.kept = TRUE] /\ latched'
    BY <1>14 DEF CommitChange, Ask, callVars, stateVars, Return, Denied, Abandon, serviceVars
  <2> QED  BY <1>0, <2>1, <2>2 DEF PhaseOK, Mine, Owned, StepLabels, AttemptLabels,
    IntentLabels, ReleaseLabels
<1>15. CASE Restore
  <2>1. pc = "restore" /\ pc' \in {"check", "retain"} /\ UNCHANGED <<at, managed>>
    BY <1>15 DEF Restore, Goto, stateVars
  <2> QED  BY <1>0, <2>1 DEF PhaseOK, Mine, Owned, StepLabels, AttemptLabels, IntentLabels,
    ReleaseLabels
<1>16. CASE CheckRestored
  <2>1. pc = "check" /\ pc' \in {"cancel", "retain"} /\ UNCHANGED <<at, managed>>
    BY <1>16 DEF CheckRestored, Goto, stateVars
  <2> QED  BY <1>0, <2>1 DEF PhaseOK, Mine, Owned, StepLabels, AttemptLabels, IntentLabels,
    ReleaseLabels
<1>17. CASE CancelChange
  <2>1. pc = "cancel" /\ at' = at /\ pc' \in {"cancel", "return", "recheck"} /\ managed' = managed
    BY <1>17 DEF CancelChange, Ask, callVars, stateVars, Return, Goto
  <2> QED  BY <1>0, <2>1 DEF PhaseOK, Mine, Owned, StepLabels, AttemptLabels, IntentLabels,
    ReleaseLabels
<1>18. CASE RetainChange
  <2>1. pc = "retain" /\ at' = at /\ pc' \in {"return", "recheck"}
    BY <1>18 DEF RetainChange, Return, Goto
  <2> QED  BY <1>0, <2>1 DEF PhaseOK, StepLabels, AttemptLabels, IntentLabels, ReleaseLabels
<1>19. CASE Observe
  <2>1. at \in Steps /\ pc = "observe" /\ managed' = managed /\ at.mode # "claim" /\ Owned
    BY <1>19 DEF Observe, StepOK, StepLabels, ReleaseLabels, stateVars
  <2>2. \/ pc' = "return" /\ at' = at
        \/ /\ at' = [at EXCEPT !.seen = value[at.key], !.target = Mine.baseline]
           /\ pc' = IF value[at.key] # Mine.expected \/ value[at.key] = Mine.baseline
                    THEN "relinquish" ELSE "begin"
    BY <1>19 DEF Observe, Return, Mine
  <2>3. /\ at'.key = at.key /\ at'.kept = at.kept
        /\ pc' # "return" => at'.seen = value[at.key] /\ at'.target = Mine.baseline
    BY <2>1, <2>2 DEF Steps
  <2> QED  BY <1>0, <2>1, <2>2, <2>3 DEF PhaseOK, Mine, Owned, StepLabels, AttemptLabels,
    IntentLabels, ReleaseLabels
<1>20. CASE Relinquish
  <2>1. pc = "relinquish" /\ at' = at /\ pc' \in {"return", "relinquish"} /\ managed' = managed
    BY <1>20 DEF Relinquish, Ask, callVars, stateVars, Return
  <2> QED  BY <1>0, <2>1 DEF PhaseOK, Mine, StepLabels, AttemptLabels, IntentLabels,
    ReleaseLabels
<1>21. CASE Recheck
  <2>1. /\ pc \in StepLabels /\ at' = at
        /\ pc' \in {"return"}
    BY <1>21 DEF Recheck, Ask, callVars, Goto, Return, StepLabels, AttemptLabels,
       IntentLabels, ReleaseLabels
  <2>2. pc' \in AttemptLabels => pc \in AttemptLabels
    BY <1>21, <2>1 DEF Recheck, Ask, callVars, Goto, Return, AttemptLabels
  <2> QED  BY <1>0, <2>1, <2>2 DEF PhaseOK, StepLabels, AttemptLabels, IntentLabels,
    ReleaseLabels
<1>22. CASE ReturnPreserved
  <2>1. at \in Steps /\ pc = "return" /\ pc' = "return" /\ at' = [at EXCEPT !.mode = "claim"]
    BY <1>22 DEF ReturnPreserved, StepOK, StepLabels
  <2>2. at'.kept = at.kept
    BY <2>1 DEF Steps
  <2> QED  BY <1>0, <2>1, <2>2 DEF PhaseOK, StepLabels, AttemptLabels, IntentLabels,
    ReleaseLabels
<1>23. CASE ReturnApply
  <2>1. pc' \in {"idle", "next", "stopped", "dead"}
    BY <1>23 DEF ReturnApply, Idle
  <2> QED  BY <2>1 DEF PhaseOK, StepLabels, AttemptLabels, IntentLabels, ReleaseLabels
<1>24. CASE ReturnReconcile
  <2>1. /\ pc \in StepLabels /\ at' = at
        /\ pc' \in {"drop", "next"}
    BY <1>24 DEF ReturnReconcile, Ask, callVars, Goto, Return, StepLabels, AttemptLabels,
       IntentLabels, ReleaseLabels
  <2>2. pc' \in AttemptLabels => pc \in AttemptLabels
    BY <1>24, <2>1 DEF ReturnReconcile, Ask, callVars, Goto, Return, AttemptLabels
  <2> QED  BY <1>0, <2>1, <2>2 DEF PhaseOK, StepLabels, AttemptLabels, IntentLabels,
    ReleaseLabels
<1>25. CASE DropExited
  <2>1. /\ pc \in StepLabels /\ at' = at
        /\ pc' \in {"drop", "next"}
    BY <1>25 DEF DropExited, Ask, callVars, Goto, Return, StepLabels, AttemptLabels,
       IntentLabels, ReleaseLabels
  <2>2. pc' \in AttemptLabels => pc \in AttemptLabels
    BY <1>25, <2>1 DEF DropExited, Ask, callVars, Goto, Return, AttemptLabels
  <2> QED  BY <1>0, <2>1, <2>2 DEF PhaseOK, StepLabels, AttemptLabels, IntentLabels,
    ReleaseLabels
<1>26. CASE NextKey
  <2>1. \/ pc' = "next"
        \/ pc' \in {"open", "observe"} /\ at'.kept = FALSE
           /\ (pc' = "open" => at'.target = at'.claim.priority)
    BY <1>26 DEF NextKey, Attempt, ReleaseStep
  <2> QED  BY <2>1 DEF PhaseOK, StepLabels, AttemptLabels, IntentLabels, ReleaseLabels
<1>27. CASE LoopDone
  <2>1. pc' \in {"idle", "next", "stopped", "dead"}
    BY <1>27 DEF LoopDone, Idle
  <2> QED  BY <2>1 DEF PhaseOK, StepLabels, AttemptLabels, IntentLabels, ReleaseLabels
<1>28. ASSUME NEW k \in Keys, NEW v \in Values, OutsiderSets(k, v)
       PROVE  PhaseOK'
  <2>1. UNCHANGED <<pc, at, managed>>
    BY <1>28 DEF OutsiderSets, callVars, stateVars
  <2> QED  BY <1>0, <2>1 DEF PhaseOK, Mine, Owned
<1>29. ASSUME NEW k \in Keys, ProcessExits(k)
       PROVE  PhaseOK'
  <2>1. UNCHANGED <<pc, at, managed>>
    BY <1>29 DEF ProcessExits, callVars, stateVars
  <2> QED  BY <1>0, <2>1 DEF PhaseOK, Mine, Owned
<1>30. ASSUME NEW k \in Keys, ProcessStarts(k)
       PROVE  PhaseOK'
  <2>1. UNCHANGED <<pc, at, managed>>
    BY <1>30 DEF ProcessStarts, callVars, stateVars
  <2> QED  BY <1>0, <2>1 DEF PhaseOK, Mine, Owned
<1>31. ASSUME NEW k \in Keys, Replay(k)
       PROVE  PhaseOK'
  <2>1. UNCHANGED <<pc, at, managed>>
    BY <1>31 DEF Replay, callVars, stateVars
  <2> QED  BY <1>0, <2>1 DEF PhaseOK, Mine, Owned
<1>32. CASE Crash
  <2>1. pc' \in {"idle", "next", "stopped", "dead"}
    BY <1>32 DEF Crash, Idle
  <2> QED  BY <2>1 DEF PhaseOK, StepLabels, AttemptLabels, IntentLabels, ReleaseLabels
<1>33. CASE OtherLatches
  <2>1. UNCHANGED <<pc, at, managed>>
    BY <1>33 DEF OtherLatches, callVars, stateVars
  <2> QED  BY <1>0, <2>1 DEF PhaseOK, Mine, Owned
<1>34. CASE ServiceStep
  <2>1. UNCHANGED <<pc, at, managed>>
    BY <1>34 DEF ServiceStep, callVars, stateVars
  <2> QED  BY <1>0, <2>1 DEF PhaseOK, Mine, Owned
<1>35. CASE UNCHANGED mpVars
  <2>1. UNCHANGED <<pc, at, managed>>
    BY <1>35 DEF mpVars, callVars, stateVars
  <2> QED  BY <1>0, <2>1 DEF PhaseOK, Mine, Owned
<1> QED
  BY <1>1, <1>2, <1>3, <1>4, <1>5, <1>6, <1>7, <1>8, <1>9, <1>10, <1>11, <1>12, <1>13,
     <1>14, <1>15, <1>16, <1>17, <1>18, <1>19, <1>20, <1>21, <1>22, <1>23, <1>24,
     <1>25, <1>26, <1>27, <1>28, <1>29, <1>30, <1>31, <1>32, <1>33, <1>34, <1>35 DEF
     Next, Entry, Controller, Environment

\* The command under way took effect.
Landed == call # NoCall /\ call.phase = "landed"

ThisEdge == [original |-> at.seen, expected |-> at.target]

ThisIntent == [id |-> at.id, key |-> at.key, edge |-> ThisEdge]

InForce == (pc = "begin" /\ Landed) \/ (pc \in IntentLabels /\ ~Landed)

\* The release has succeeded, and the entry not been dropped yet.
Undone == pc = "return" /\ result = "ok" /\ at.mode # "claim"

ExpectedEdges(k) ==
    IF Landed /\ call.command.op = "forget" /\ k = call.command.key THEN << >>
    ELSE IF Landed /\ pc = "commit" /\ k = at.key THEN CompactOrPush(OwnedEdges(k), ThisEdge)
    ELSE IF Undone /\ k = at.key THEN << >>
    ELSE OwnedEdges(k)

\* The journal, at every step, follows from what the controller owns and is doing.
LedgerOK ==
    ~latched /\ pc # "dead" =>
        /\ \A k \in Keys : journal.committed[k] = ExpectedEdges(k)
        /\ journal.pending = IF InForce THEN {ThisIntent} ELSE {}

\* Steps that the journal does not see, outside a transition.
LEMMA LedgerQuiet ==
    ASSUME LedgerOK, journal' = journal, latched => latched', pc # "dead",
           call = NoCall, call' = NoCall, pc \notin IntentLabels, pc' \notin IntentLabels,
           ~Undone, ~Undone', \A k \in Keys : OwnedEdges(k)' = OwnedEdges(k)
    PROVE  LedgerOK'
<1>1. ~Landed /\ ~Landed' /\ ~InForce /\ ~InForce'
  BY DEF Landed, InForce
<1>2. \A k \in Keys : ExpectedEdges(k)' = ExpectedEdges(k)
  BY <1>1 DEF ExpectedEdges
<1> QED  BY <1>1, <1>2 DEF LedgerOK

\* Steps in a transition that keep the intent in force.
LEMMA LedgerHeld ==
    ASSUME LedgerOK, UNCHANGED <<journal, at, managed>>, latched => latched',
           call = NoCall, ~Landed', pc \in IntentLabels, pc' \in IntentLabels
    PROVE  LedgerOK'
<1>1. ~Landed /\ InForce /\ InForce' /\ ThisIntent' = ThisIntent /\ ~Undone /\ ~Undone' /\ pc # "dead"
  BY DEF Landed, InForce, ThisIntent, ThisEdge, Undone, IntentLabels
<1>2. \A k \in Keys : ExpectedEdges(k)' = ExpectedEdges(k)
  BY <1>1 DEF ExpectedEdges, OwnedEdges
<1> QED  BY <1>1, <1>2 DEF LedgerOK

\* The entry of a forgotten chain is dropped with the acknowledgement.
LEMMA LedgerDrop ==
    ASSUME StateTypes, LedgerOK, NEW s \in Keys, call.command = Forget(s), Granted,
           managed' = [managed EXCEPT ![s] = NoManaged],
           pc \in {"stale", "drift", "drop"}, pc' \in {"stale", "decide", "next"}
    PROVE  LedgerOK'
<1>1. Landed /\ call' = NoCall /\ ~Landed' /\ UNCHANGED <<journal, latched>>
  BY DEF Granted, Acknowledge, Called, Landed
<1>2. ~InForce /\ ~InForce' /\ ~Undone /\ ~Undone' /\ pc # "commit" /\ pc # "dead"
  BY <1>1 DEF InForce, Undone, IntentLabels
<1>3. \A k \in Keys : OwnedEdges(k)' = IF k = s THEN << >> ELSE OwnedEdges(k)
  BY DEF OwnedEdges, StateTypes
<1>4. \A k \in Keys : ExpectedEdges(k) = IF k = s THEN << >> ELSE OwnedEdges(k)
  BY <1>1, <1>2 DEF ExpectedEdges, Forget
<1>5. \A k \in Keys : ExpectedEdges(k)' = OwnedEdges(k)'
  BY <1>1, <1>2 DEF ExpectedEdges
<1> QED  BY <1>1, <1>2, <1>3, <1>4, <1>5 DEF LedgerOK

\* A command is asked for; the journal has not seen it yet.
LEMMA LedgerAsk ==
    ASSUME LedgerOK, NEW c, Submit(c), c \in Commands,
           UNCHANGED <<pc, result, managed>>, UNCHANGED at \/ pc = "begin"
    PROVE  LedgerOK'
<1>1. call = NoCall /\ ~Landed /\ ~Landed' /\ UNCHANGED <<journal, latched>>
  BY DEF Submit, Landed
<1>2. ~(pc = "begin") => UNCHANGED <<InForce, Undone, ThisIntent>>
  BY <1>1 DEF InForce, Undone, ThisIntent, ThisEdge
<1>3. pc = "begin" => ~InForce /\ ~InForce' /\ ~Undone /\ ~Undone'
  BY <1>1 DEF InForce, Undone, IntentLabels
<1>4. \A k \in Keys : ExpectedEdges(k)' = ExpectedEdges(k)
  BY <1>1, <1>2, <1>3 DEF ExpectedEdges, OwnedEdges
<1> QED  BY <1>1, <1>2, <1>3, <1>4 DEF LedgerOK

\* What a change that took effect leaves of the edges of its process.
LEMMA CompactOwned ==
    ASSUME StepOK, StateTypes, PhaseOK, pc = "commit"
    PROVE  /\ at.key \in Keys
           /\ at.mode = "claim" =>
                 CompactOrPush(OwnedEdges(at.key), ThisEdge) =
                    IF Baseline = at.target THEN << >>
                    ELSE <<[original |-> Baseline, expected |-> at.target]>>
           /\ at.mode # "claim" => CompactOrPush(OwnedEdges(at.key), ThisEdge) = << >>
<1>1. at \in Steps /\ at.key \in Keys /\ ThisEdge \in Edge /\ at.seen # at.target
  BY DEF StepOK, StepLabels, IntentLabels, Steps, ThisEdge, Edge, PhaseOK
<1>2. /\ Owned => managed[at.key].expected = at.seen
      /\ at.mode # "claim" => Owned /\ managed[at.key].baseline = at.target
  BY DEF PhaseOK, StepOK, StepLabels, IntentLabels, Mine
<1>3. Owned => managed[at.key].baseline \in Values /\ managed[at.key].expected \in Values
  BY <1>1 DEF Owned, StateTypes, ManagedType
<1>4. ThisEdge.original = at.seen /\ ThisEdge.expected = at.target
  BY DEF ThisEdge
<1>5. CASE OwnedEdges(at.key) = << >>
  <2>1. CompactOrPush(OwnedEdges(at.key), ThisEdge) = <<ThisEdge>>
    BY <1>1, <1>4, <1>5, SlimCompact DEF SlimEdges
  <2>2. Baseline = at.seen
    BY <1>2, <1>5 DEF OwnedEdges, Baseline, Owned
  <2>3. at.mode = "claim"
    BY <1>1, <1>2, <1>5 DEF OwnedEdges, Owned
  <2> QED  BY <1>1, <2>1, <2>2, <2>3 DEF ThisEdge
<1>6. CASE OwnedEdges(at.key) # << >>
  <2> DEFINE b == managed[at.key].baseline
             e == [original |-> b, expected |-> at.seen]
  <2>1. Owned /\ OwnedEdges(at.key) = <<e>> /\ b # at.seen /\ Baseline = b
    BY <1>2, <1>6 DEF OwnedEdges, Owned, Baseline
  <2>2. e \in Edge /\ e.original = b /\ e.expected = at.seen
    BY <1>2, <1>3, <2>1 DEF Edge
  <2>3. SlimEdges(OwnedEdges(at.key)) /\ OwnedEdges(at.key)[1] = e
    BY <2>1, <2>2 DEF SlimEdges
  <2>4. CompactOrPush(OwnedEdges(at.key), ThisEdge) =
           IF b = at.target THEN << >> ELSE <<[original |-> b, expected |-> at.target]>>
    BY <1>1, <1>4, <1>6, <2>2, <2>3, SlimCompact
  <2> QED  BY <1>1, <1>2, <2>1, <2>4
<1> QED  BY <1>5, <1>6

\* The helper carries the command out.
LEMMA LedgerLand ==
    ASSUME ServiceInv, CallOK, StepOK, StateTypes, JournalOK, LedgerOK, Land,
           UNCHANGED <<pc, at, result, managed>>
    PROVE  LedgerOK'
<1>1. /\ call # NoCall /\ call.phase = "sent" /\ ~latched /\ ~latched'
      /\ call \in [command : Commands, phase : Phases] /\ journal' = Apply(journal, call.command)
  BY DEF Land, Called, ServiceInv, ServiceTypeOK
<1>2. /\ call' \in [command : Commands, phase : Phases]
      /\ call'.phase = "landed" /\ call'.command = call.command
  BY <1>1 DEF Land, Phases
<1>3. ~Landed /\ Landed'
  BY <1>1, <1>2, CallAssumption DEF Landed
<1>4. Slim(journal) /\ journal \in JournalType
  BY DEF JournalOK, Futures, Slim
<1>5. journal = [committed |-> journal.committed, pending |-> journal.pending]
  BY <1>4 DEF JournalType
<1>6. /\ pc \in {"stale", "drift", "begin", "commit", "cancel", "relinquish", "drop"}
      /\ ~Undone /\ ~Undone' /\ pc # "dead"
  BY <1>1 DEF CallOK, Undone
<1>7. \A k \in Keys : ~(pc = "commit" /\ k = at.key)
                      => ExpectedEdges(k) = OwnedEdges(k) /\ OwnedEdges(k)' = OwnedEdges(k)
  BY <1>3, <1>6 DEF ExpectedEdges, OwnedEdges
<1>8. OwnedEdges(at.key)' = OwnedEdges(at.key) /\ (\A k \in Keys : ExpectedEdges(k) = OwnedEdges(k))
  BY <1>3, <1>6 DEF ExpectedEdges, OwnedEdges
<1>9. ASSUME NEW s \in Keys, call.command = Forget(s), pc \notin {"begin", "commit", "cancel"}
      PROVE  LedgerOK'
  <2>1. /\ journal'.committed = [journal.committed EXCEPT ![s] = << >>]
        /\ journal'.pending = {p \in journal.pending : p.key # s}
    BY <1>1, <1>4, <1>9, SlimForget DEF Apply, Forget
  <2>2. ~InForce /\ ~InForce'
    BY <1>3, <1>6, <1>9 DEF InForce, IntentLabels
  <2>3. journal.pending = {} /\ \A k \in Keys : journal.committed[k] = OwnedEdges(k)
    BY <1>1, <1>6, <1>8, <2>2 DEF LedgerOK
  <2>4. \A k \in Keys : journal'.committed[k] = IF k = s THEN << >> ELSE OwnedEdges(k)
    BY <1>4, <2>1, <2>3 DEF JournalType
  <2>5. \A k \in Keys : ExpectedEdges(k)' = IF k = s THEN << >> ELSE OwnedEdges(k)
    BY <1>2, <1>3, <1>6, <1>7, <1>9 DEF ExpectedEdges, Forget
  <2> QED  BY <2>1, <2>2, <2>3, <2>4, <2>5 DEF LedgerOK
<1>10. CASE pc \in {"stale", "drift", "relinquish", "drop"}
  <2>1. at.key \in Keys /\ Stale(at.key) \subseteq Keys
    BY <1>10 DEF StepOK, StepLabels, AttemptLabels, ReleaseLabels, Steps, Stale
  <2>2. \E s \in Keys : call.command = Forget(s)
    BY <1>1, <1>10, <2>1 DEF CallOK
  <2> QED  BY <1>9, <1>10, <2>2
<1>11. CASE pc = "begin"
  <2>1. call.command = Begin(at.id, at.key, ThisEdge)
    BY <1>1, <1>11 DEF CallOK, ThisEdge
  <2>2. ~InForce /\ InForce' /\ ThisIntent' = ThisIntent
    BY <1>3, <1>11 DEF InForce, IntentLabels, ThisIntent, ThisEdge
  <2>3. journal.pending = {} /\ \A k \in Keys : journal.committed[k] = OwnedEdges(k)
    BY <1>1, <1>6, <1>8, <2>2 DEF LedgerOK
  <2>4. journal' = [journal EXCEPT !.pending = @ \cup {ThisIntent}]
    BY <1>1, <2>1 DEF Apply, Begin, ApplyBegin, ThisIntent
  <2>5. journal'.committed = journal.committed /\ journal'.pending = {ThisIntent}
    BY <1>5, <2>3, <2>4
  <2>6. \A k \in Keys : ExpectedEdges(k)' = OwnedEdges(k)
    BY <1>2, <1>3, <1>6, <1>7, <1>11, <2>1 DEF ExpectedEdges, Begin
  <2> QED  BY <2>2, <2>3, <2>5, <2>6 DEF LedgerOK
<1>12. CASE pc \in {"commit", "cancel"}
  <2>1. at \in Steps /\ at.id \in Ids
    BY <1>12 DEF StepOK, StepLabels, IntentLabels
  <2>2. InForce /\ ~InForce' /\ ThisEdge \in Edge /\ ThisIntent \in Intent
    BY <1>3, <1>12, <2>1 DEF InForce, IntentLabels, ThisIntent, ThisEdge, Steps, Edge, Intent
  <2>3. journal.pending = {ThisIntent} /\ \A k \in Keys : journal.committed[k] = OwnedEdges(k)
    BY <1>1, <1>6, <1>8, <2>2 DEF LedgerOK
  <2>4. ThisIntent.id = at.id /\ ThisIntent.key = at.key /\ ThisIntent.edge = ThisEdge
    BY DEF ThisIntent
  <2>5. CASE pc = "commit"
    <3>1. call.command = Commit(at.id)
      BY <1>1, <2>5 DEF CallOK
    <3>2. journal' = ApplyCommit(journal, ThisIntent.id)
      BY <1>1, <2>4, <3>1 DEF Apply, Commit
    <3>3. /\ journal'.pending = {}
          /\ journal'.committed = [journal.committed EXCEPT ![at.key] = CompactOrPush(@, ThisEdge)]
      BY <1>4, <2>2, <2>3, <2>4, <3>2, SlimCommit
    <3>4. \A k \in Keys : journal'.committed[k] =
              IF k = at.key THEN CompactOrPush(OwnedEdges(k), ThisEdge) ELSE OwnedEdges(k)
      BY <1>4, <2>3, <3>3 DEF JournalType
    <3>5. \A k \in Keys : ExpectedEdges(k)' =
              IF k = at.key THEN CompactOrPush(OwnedEdges(k), ThisEdge) ELSE OwnedEdges(k)
      <4>1. call'.command.op = "commit"
        BY <1>2, <3>1 DEF Commit
      <4>2. OwnedEdges(at.key)' = OwnedEdges(at.key) /\ ThisEdge' = ThisEdge /\ at' = at /\ pc' = "commit"
        BY <2>5 DEF OwnedEdges, ThisEdge
      <4>3. ASSUME NEW k \in Keys
            PROVE  /\ OwnedEdges(k)' = OwnedEdges(k)
                   /\ CompactOrPush(OwnedEdges(k), ThisEdge)' = CompactOrPush(OwnedEdges(k), ThisEdge)
        BY <4>2 DEF OwnedEdges, ThisEdge
      <4>4. ASSUME NEW k \in Keys
            PROVE  ExpectedEdges(k)' = IF k = at.key THEN CompactOrPush(OwnedEdges(k), ThisEdge)'
                                       ELSE OwnedEdges(k)'
        BY <1>3, <1>6, <4>1, <4>2 DEF ExpectedEdges
      <4> QED  BY <4>3, <4>4
    <3> QED  BY <2>2, <3>3, <3>4, <3>5 DEF LedgerOK
  <2>6. CASE pc = "cancel"
    <3>1. call.command = Cancel(at.id)
      BY <1>1, <2>6 DEF CallOK
    <3>2. journal' = ApplyCancel(journal, ThisIntent.id)
      BY <1>1, <2>4, <3>1 DEF Apply, Cancel
    <3>3. journal' = [committed |-> journal.committed, pending |-> {}]
      BY <1>4, <2>2, <2>3, <3>2, SlimCancel
    <3>4. \A k \in Keys : ExpectedEdges(k)' = OwnedEdges(k)
      BY <1>2, <1>3, <1>6, <1>7, <2>6, <3>1 DEF ExpectedEdges, Cancel
    <3> QED  BY <2>2, <2>3, <3>3, <3>4 DEF LedgerOK
  <2> QED  BY <1>12, <2>5, <2>6
<1> QED  BY <1>6, <1>10, <1>11, <1>12

\* A refusal leaves the service latched.
LEMMA DeniedLatches == Denied => latched'
BY DEF Denied, Abandon, serviceVars

\* The journal follows from what the controller owns and is doing.
LEMMA LedgerStep ==
    ASSUME TypeOK, ServiceInv, CallOK, StepOK, StateTypes, PhaseOK, JournalOK, LedgerOK, [Next]_mpVars
    PROVE  LedgerOK'
<1>0. latched => latched'
  BY LatchStays
<1>1. ASSUME NEW o \in PolicyOwners, NEW k \in Keys, NEW c \in Claims, ApplyPolicyClaim(o, k, c)
      PROVE  LedgerOK'
  <2>1. pc = "idle" /\ pc' \in {"idle", "open"} /\ managed' = managed /\ journal' = journal /\ call' = call
    BY <1>1 DEF ApplyPolicyClaim, callVars, serviceVars
  <2>2. /\ call = NoCall /\ pc # "dead" /\ pc \notin IntentLabels /\ pc' \notin IntentLabels
        /\ ~Undone /\ ~Undone'
    BY <2>1 DEF CallOK, Undone, IntentLabels
  <2>3. \A j \in Keys : OwnedEdges(j)' = OwnedEdges(j)
    BY <2>1 DEF OwnedEdges
  <2> QED  BY <1>0, <2>1, <2>2, <2>3, LedgerQuiet
<1>2. ASSUME NEW k \in Keys, NEW v \in Values, ApplyProcessListAction(k, v)
      PROVE  LedgerOK'
  <2>1. pc = "idle" /\ pc' = "open" /\ managed' = managed /\ journal' = journal /\ call' = call
    BY <1>2 DEF ApplyProcessListAction, stateVars, serviceVars
  <2>2. /\ call = NoCall /\ pc # "dead" /\ pc \notin IntentLabels /\ pc' \notin IntentLabels
        /\ ~Undone /\ ~Undone'
    BY <2>1 DEF CallOK, Undone, IntentLabels
  <2>3. \A j \in Keys : OwnedEdges(j)' = OwnedEdges(j)
    BY <2>1 DEF OwnedEdges
  <2> QED  BY <1>0, <2>1, <2>2, <2>3, LedgerQuiet
<1>3. ASSUME NEW o \in PolicyOwners, NEW active \in SUBSET Keys, ReleasePolicyExcept(o, active)
      PROVE  LedgerOK'
  <2>1. pc = "idle" /\ pc' = "next" /\ managed' = managed /\ journal' = journal /\ call' = call
    BY <1>3 DEF ReleasePolicyExcept, stateVars, serviceVars
  <2>2. /\ call = NoCall /\ pc # "dead" /\ pc \notin IntentLabels /\ pc' \notin IntentLabels
        /\ ~Undone /\ ~Undone'
    BY <2>1 DEF CallOK, Undone, IntentLabels
  <2>3. \A j \in Keys : OwnedEdges(j)' = OwnedEdges(j)
    BY <2>1 DEF OwnedEdges
  <2> QED  BY <1>0, <2>1, <2>2, <2>3, LedgerQuiet
<1>4. CASE RetryPendingReleases
  <2>1. pc = "idle" /\ pc' = "next" /\ managed' = managed /\ journal' = journal /\ call' = call
    BY <1>4 DEF RetryPendingReleases, stateVars, serviceVars
  <2>2. /\ call = NoCall /\ pc # "dead" /\ pc \notin IntentLabels /\ pc' \notin IntentLabels
        /\ ~Undone /\ ~Undone'
    BY <2>1 DEF CallOK, Undone, IntentLabels
  <2>3. \A j \in Keys : OwnedEdges(j)' = OwnedEdges(j)
    BY <2>1 DEF OwnedEdges
  <2> QED  BY <1>0, <2>1, <2>2, <2>3, LedgerQuiet
<1>5. CASE Shutdown
  <2>1. pc = "idle" /\ pc' = "next" /\ managed' = managed /\ journal' = journal /\ call' = call
    BY <1>5 DEF Shutdown, stateVars, serviceVars
  <2>2. /\ call = NoCall /\ pc # "dead" /\ pc \notin IntentLabels /\ pc' \notin IntentLabels
        /\ ~Undone /\ ~Undone'
    BY <2>1 DEF CallOK, Undone, IntentLabels
  <2>3. \A j \in Keys : OwnedEdges(j)' = OwnedEdges(j)
    BY <2>1 DEF OwnedEdges
  <2> QED  BY <1>0, <2>1, <2>2, <2>3, LedgerQuiet
<1>6. CASE Open
  <2>1. pc = "open" /\ UNCHANGED <<journal, call, managed>>
    BY <1>6 DEF Open, serviceVars, stateVars
  <2>2. pc' = "stale" \/ (pc' = "return" /\ result' # "ok")
    BY <1>6 DEF Open, Goto, Return
  <2>3. /\ call = NoCall /\ pc # "dead" /\ pc \notin IntentLabels /\ pc' \notin IntentLabels
        /\ ~Undone /\ ~Undone'
    BY <2>1, <2>2 DEF CallOK, Undone, IntentLabels
  <2>4. \A j \in Keys : OwnedEdges(j)' = OwnedEdges(j)
    BY <2>1 DEF OwnedEdges
  <2> QED  BY <1>0, <2>1, <2>3, <2>4, LedgerQuiet
<1>7. CASE RelinquishStale
  <2> DEFINE s == CHOOSE s \in Stale(at.key) : TRUE
  <2>1. pc = "stale" /\ at.key \in Keys
    BY <1>7 DEF RelinquishStale, StepOK, StepLabels, AttemptLabels, Steps
  <2>2. CASE Stale(at.key) = {}
    <3>1. pc' = "query" /\ UNCHANGED <<journal, call, managed>>
      BY <1>7, <2>2 DEF RelinquishStale, Goto, serviceVars, stateVars
    <3>2. call = NoCall
      BY <2>1, <2>2 DEF CallOK
    <3>3. \A j \in Keys : OwnedEdges(j)' = OwnedEdges(j)
      BY <3>1 DEF OwnedEdges
    <3> QED  BY <1>0, <2>1, <3>1, <3>2, <3>3, LedgerQuiet DEF Undone, IntentLabels
  <2>3. CASE Stale(at.key) # {}
    <3>1. s \in Keys /\ Forget(s) \in Commands
      BY <2>3, CommandTypes DEF Stale
    <3>2. CASE Ask(Forget(s))
      <4>1. Submit(Forget(s)) /\ UNCHANGED <<pc, at, result, managed>>
        BY <3>2 DEF Ask, callVars, stateVars
      <4> QED  BY <3>1, <4>1, LedgerAsk
    <3>3. CASE Granted /\ Disown(s) /\ UNCHANGED callVars
      <4>1. call.command = Forget(s)
        BY <2>1, <3>3 DEF Granted, Acknowledge, Called, CallOK
      <4>2. managed' = [managed EXCEPT ![s] = NoManaged] /\ pc' = "stale"
        BY <2>1, <3>3 DEF Disown, callVars
      <4> QED  BY <2>1, <3>1, <3>3, <4>1, <4>2, LedgerDrop
    <3>4. CASE Denied
      BY <3>4, DeniedLatches DEF LedgerOK
    <3> QED  BY <1>7, <2>3, <3>2, <3>3, <3>4 DEF RelinquishStale
  <2> QED  BY <2>2, <2>3
<1>8. CASE Query
  <2>1. pc = "query" /\ UNCHANGED <<journal, call, managed>>
    BY <1>8 DEF Query, serviceVars, stateVars
  <2>2. pc' \in {"drift", "decide"} \/ (pc' = "return" /\ result' # "ok")
    BY <1>8 DEF Query, Return
  <2>3. /\ call = NoCall /\ pc # "dead" /\ pc \notin IntentLabels /\ pc' \notin IntentLabels
        /\ ~Undone /\ ~Undone'
    BY <2>1, <2>2 DEF CallOK, Undone, IntentLabels
  <2>4. \A j \in Keys : OwnedEdges(j)' = OwnedEdges(j)
    BY <2>1 DEF OwnedEdges
  <2> QED  BY <1>0, <2>1, <2>3, <2>4, LedgerQuiet
<1>9. CASE RelinquishDrifted
  <2>1. pc = "drift" /\ at.key \in Keys /\ Forget(at.key) \in Commands
    BY <1>9, CommandTypes DEF RelinquishDrifted, StepOK, StepLabels, AttemptLabels, Steps
  <2>2. CASE Ask(Forget(at.key))
    <3>1. Submit(Forget(at.key)) /\ UNCHANGED <<pc, at, result, managed>>
      BY <2>2 DEF Ask, callVars, stateVars
    <3> QED  BY <2>1, <3>1, LedgerAsk
  <2>3. CASE Granted /\ Disown(at.key) /\ pc' = "decide"
    <3>1. call.command = Forget(at.key)
      BY <2>1, <2>3 DEF Granted, Acknowledge, Called, CallOK
    <3>2. managed' = [managed EXCEPT ![at.key] = NoManaged]
      BY <2>3 DEF Disown
    <3> QED  BY <2>1, <2>3, <3>1, <3>2, LedgerDrop
  <2>4. CASE Denied
    BY <2>4, DeniedLatches DEF LedgerOK
  <2> QED  BY <1>9, <2>2, <2>3, <2>4 DEF RelinquishDrifted, Goto
<1>10. CASE Decide
  <2>1. /\ pc = "decide" /\ at.mode = "claim" /\ at.key \in Keys /\ at.claim \in Claim /\ at \in Steps
        /\ UNCHANGED <<journal, call>>
    BY <1>10 DEF Decide, StepOK, StepLabels, AttemptLabels, serviceVars, Steps
  <2>2. pc' \in {"observe", "begin"} \/ (pc' = "return" /\ at' = at)
    BY <1>10 DEF Decide, DecidePreserved, DecideUnchanged, Goto, Return
  <2>3. /\ call = NoCall /\ pc # "dead" /\ pc \notin IntentLabels /\ pc' \notin IntentLabels
        /\ ~Undone /\ ~Undone'
    BY <2>1, <2>2 DEF CallOK, Undone, IntentLabels
  <2>4. \/ managed' = managed
        \/ Owned /\ managed' = [managed EXCEPT ![at.key].owner = at.claim.owner]
    BY <1>10 DEF Decide, DecidePreserved, DecideUnchanged, stateVars
  <2>5. CASE managed' = managed
    <3>1. \A j \in Keys : OwnedEdges(j)' = OwnedEdges(j)
      BY <2>5 DEF OwnedEdges
    <3> QED  BY <1>0, <2>1, <2>3, <3>1, LedgerQuiet
  <2>6. CASE Owned /\ managed' = [managed EXCEPT ![at.key].owner = at.claim.owner]
    <3>1. managed[at.key] \in ManagedType
      BY <2>1, <2>6 DEF Owned, StateTypes
    <3>2. /\ managed'[at.key] = [managed[at.key] EXCEPT !.owner = at.claim.owner]
          /\ \A j \in Keys \ {at.key} : managed'[j] = managed[j]
      BY <2>1, <2>6 DEF StateTypes
    <3>3. managed'[at.key] \in ManagedType /\ managed'[at.key].baseline = managed[at.key].baseline
             /\ managed'[at.key].expected = managed[at.key].expected
      BY <2>1, <3>1, <3>2 DEF ManagedType, Claim
    <3>4. managed[at.key] # NoManaged /\ managed'[at.key] # NoManaged
      BY <3>1, <3>3, SentinelAssumption
    <3>5. \A j \in Keys : OwnedEdges(j)' = OwnedEdges(j)
      BY <3>2, <3>3, <3>4 DEF OwnedEdges
    <3> QED  BY <1>0, <2>1, <2>3, <3>5, LedgerQuiet
  <2> QED  BY <2>4, <2>5, <2>6
<1>11. CASE BeginChange
  <2> DEFINE c == Begin(nextId, at.key, [original |-> at.seen, expected |-> at.target])
  <2>1. pc = "begin" /\ at \in Steps /\ managed' = managed
    BY <1>11 DEF BeginChange, StepOK, StepLabels, stateVars
  <2>2. CASE Submit(c) /\ nextId \in Ids /\ UNCHANGED <<pc, result>>
    <3>1. c \in Commands
      BY <2>1, <2>2, CommandTypes DEF Steps, Edge
    <3> QED  BY <2>1, <2>2, <3>1, LedgerAsk
  <2>3. CASE Granted /\ Goto("set")
    <3>1. Landed /\ call' = NoCall /\ UNCHANGED <<journal, latched, at>> /\ pc' = "set"
      BY <2>3 DEF Granted, Acknowledge, Called, Landed, Goto
    <3>2. InForce /\ InForce' /\ ThisIntent' = ThisIntent /\ ~Undone /\ ~Undone' /\ ~Landed'
      BY <2>1, <3>1 DEF InForce, Undone, IntentLabels, Landed, ThisIntent, ThisEdge
    <3>3. call.command.op = "begin"
      BY <2>1, <3>1 DEF CallOK, Landed, Begin
    <3>4. \A k \in Keys : ExpectedEdges(k)' = ExpectedEdges(k)
      BY <2>1, <3>2, <3>3 DEF ExpectedEdges, OwnedEdges
    <3> QED  BY <2>1, <3>1, <3>2, <3>4 DEF LedgerOK
  <2>4. CASE Denied
    BY <2>4, DeniedLatches DEF LedgerOK
  <2>5. CASE /\ call = NoCall /\ UNCHANGED serviceVars
             /\ pc' = "recheck" \/ (pc' = "return" /\ result' # "ok")
    <3>1. UNCHANGED <<journal, call>> /\ pc' \notin IntentLabels /\ pc \notin IntentLabels
             /\ ~Undone /\ ~Undone' /\ pc # "dead"
      BY <2>1, <2>5 DEF serviceVars, IntentLabels, Undone
    <3>2. \A j \in Keys : OwnedEdges(j)' = OwnedEdges(j)
      BY <2>1 DEF OwnedEdges
    <3> QED  BY <1>0, <2>5, <3>1, <3>2, LedgerQuiet
  <2> QED  BY <1>11, <2>2, <2>3, <2>4, <2>5 DEF BeginChange, Goto, Return
<1>12. CASE SetPriority
  <2>1. pc = "set" /\ UNCHANGED <<journal, at, managed, call>> /\ pc' \in IntentLabels
    BY <1>12 DEF SetPriority, Goto, serviceVars, stateVars, IntentLabels
  <2>2. call = NoCall /\ ~Landed' /\ pc \in IntentLabels
    BY <2>1 DEF CallOK, Landed, IntentLabels
  <2> QED  BY <1>0, <2>1, <2>2, LedgerHeld
<1>13. CASE Verify
  <2>1. pc = "verify" /\ UNCHANGED <<journal, at, managed, call>> /\ pc' \in IntentLabels
    BY <1>13 DEF Verify, Goto, serviceVars, stateVars, IntentLabels
  <2>2. call = NoCall /\ ~Landed' /\ pc \in IntentLabels
    BY <2>1 DEF CallOK, Landed, IntentLabels
  <2> QED  BY <1>0, <2>1, <2>2, LedgerHeld
<1>14. CASE CommitChange
  <2>1. pc = "commit" /\ at \in Steps /\ at.id \in Ids /\ Commit(at.id) \in Commands
    BY <1>14, CommandTypes DEF CommitChange, StepOK, StepLabels, IntentLabels
  <2>2. CASE Ask(Commit(at.id))
    <3>1. Submit(Commit(at.id)) /\ UNCHANGED <<pc, at, result, managed>>
      BY <2>2 DEF Ask, callVars, stateVars
    <3> QED  BY <2>1, <3>1, LedgerAsk
  <2>3. CASE Granted /\ Return("ok") /\ (IF at.mode = "claim" THEN Own ELSE UNCHANGED managed)
    <3>1. /\ call.command = Commit(at.id) /\ Landed /\ call' = NoCall
          /\ UNCHANGED <<journal, latched, at>> /\ pc' = "return" /\ result' = "ok"
      BY <2>1, <2>3 DEF Granted, Acknowledge, Called, CallOK, Landed, Return
    <3>2. ~InForce /\ ~InForce' /\ ~Landed' /\ ~Undone /\ (Undone' <=> at.mode # "claim")
      BY <2>1, <3>1 DEF InForce, Undone, IntentLabels, Landed
    <3>3. \A k \in Keys : ExpectedEdges(k) =
              IF k = at.key THEN CompactOrPush(OwnedEdges(k), ThisEdge) ELSE OwnedEdges(k)
      BY <2>1, <3>1, <3>2 DEF ExpectedEdges, Commit
    <3>4. \A k \in Keys : ExpectedEdges(k)' = IF Undone' /\ k = at.key THEN << >> ELSE OwnedEdges(k)'
      BY <3>1, <3>2 DEF ExpectedEdges
    <3>5. \A k \in Keys \ {at.key} : OwnedEdges(k)' = OwnedEdges(k)
      BY <2>3 DEF Own, OwnedEdges, StateTypes
    <3>6. at.mode = "claim" =>
             OwnedEdges(at.key)' = IF Baseline = at.target THEN << >>
                                   ELSE <<[original |-> Baseline, expected |-> at.target]>>
      <4>1. at.key \in Keys /\ (at.mode = "claim" => at.claim \in Claim)
        BY <2>1 DEF StepOK, StepLabels, IntentLabels, Steps
      <4> DEFINE m == [baseline |-> Baseline, expected |-> at.target,
                       owner |-> at.claim.owner, sequence |-> at.id]
      <4>2. Baseline \in Values
        BY <2>1, <4>1 DEF Baseline, StateTypes, ManagedType, Steps
      <4>3. at.mode = "claim" => m \in ManagedType
        BY <2>1, <4>1, <4>2 DEF ManagedType, Claim, Steps
      <4>4. at.mode = "claim" => managed'[at.key] = m /\ m # NoManaged
        BY <2>3, <4>1, <4>3, SentinelAssumption DEF Own, StateTypes
      <4> QED  BY <3>1, <4>4 DEF OwnedEdges
    <3>7. ExpectedEdges(at.key)' = ExpectedEdges(at.key)
      <4>1. at.key \in Keys /\ ExpectedEdges(at.key) = CompactOrPush(OwnedEdges(at.key), ThisEdge)
        BY <2>1, <3>3 DEF Steps
      <4>2. CASE at.mode = "claim"
        <5>1. ExpectedEdges(at.key)' = OwnedEdges(at.key)'
          BY <3>1, <3>2, <3>4, <4>1, <4>2
        <5> QED  BY <2>1, <3>6, <4>1, <4>2, <5>1, CompactOwned
      <4>3. CASE at.mode # "claim"
        <5>1. ExpectedEdges(at.key)' = << >>
          BY <3>1, <3>2, <3>4, <4>1, <4>3
        <5> QED  BY <2>1, <4>1, <4>3, <5>1, CompactOwned
      <4> QED  BY <4>2, <4>3
    <3>8. ASSUME NEW k \in Keys PROVE ExpectedEdges(k)' = ExpectedEdges(k)
      <4>1. CASE k = at.key
        BY <3>1, <3>7, <4>1
      <4>2. CASE k # at.key
        BY <3>3, <3>4, <3>5, <4>2
      <4> QED  BY <4>1, <4>2
    <3> QED  BY <2>1, <3>1, <3>2, <3>8 DEF LedgerOK
  <2>4. CASE Denied
    BY <2>4, DeniedLatches DEF LedgerOK
  <2> QED  BY <1>14, <2>2, <2>3, <2>4 DEF CommitChange
<1>15. CASE Restore
  <2>1. pc = "restore" /\ UNCHANGED <<journal, at, managed, call>> /\ pc' \in IntentLabels
    BY <1>15 DEF Restore, Goto, serviceVars, stateVars, IntentLabels
  <2>2. call = NoCall /\ ~Landed' /\ pc \in IntentLabels
    BY <2>1 DEF CallOK, Landed, IntentLabels
  <2> QED  BY <1>0, <2>1, <2>2, LedgerHeld
<1>16. CASE CheckRestored
  <2>1. pc = "check" /\ UNCHANGED <<journal, at, managed, call>> /\ pc' \in IntentLabels
    BY <1>16 DEF CheckRestored, Goto, serviceVars, stateVars, IntentLabels
  <2>2. call = NoCall /\ ~Landed' /\ pc \in IntentLabels
    BY <2>1 DEF CallOK, Landed, IntentLabels
  <2> QED  BY <1>0, <2>1, <2>2, LedgerHeld
<1>17. CASE CancelChange
  <2>1. pc = "cancel" /\ at \in Steps /\ at.id \in Ids /\ Cancel(at.id) \in Commands
    BY <1>17, CommandTypes DEF CancelChange, StepOK, StepLabels, IntentLabels
  <2>2. CASE Ask(Cancel(at.id))
    <3>1. Submit(Cancel(at.id)) /\ UNCHANGED <<pc, at, result, managed>>
      BY <2>2 DEF Ask, callVars, stateVars
    <3> QED  BY <2>1, <3>1, LedgerAsk
  <2>3. CASE /\ Granted /\ managed' = managed
             /\ pc' = "recheck" \/ (pc' = "return" /\ result' # "ok")
    <3>1. /\ call.command = Cancel(at.id) /\ Landed /\ call' = NoCall
          /\ UNCHANGED <<journal, latched>>
      BY <2>1, <2>3 DEF Granted, Acknowledge, Called, CallOK, Landed
    <3>2. ~InForce /\ ~InForce' /\ ~Landed' /\ ~Undone /\ ~Undone'
      BY <2>1, <2>3, <3>1 DEF InForce, Undone, IntentLabels, Landed
    <3>3. \A k \in Keys : ExpectedEdges(k)' = ExpectedEdges(k)
      BY <2>1, <2>3, <3>1, <3>2 DEF ExpectedEdges, OwnedEdges, Cancel
    <3> QED  BY <2>1, <3>1, <3>2, <3>3 DEF LedgerOK
  <2>4. CASE Denied
    BY <2>4, DeniedLatches DEF LedgerOK
  <2> QED  BY <1>17, <2>2, <2>3, <2>4 DEF CancelChange, Goto, Return, stateVars
<1>18. CASE RetainChange
  <2>1. latched'
    BY <1>18 DEF RetainChange, Latch
  <2> QED  BY <2>1 DEF LedgerOK
<1>19. CASE Observe
  <2>1. pc = "observe" /\ UNCHANGED <<journal, call, managed>>
    BY <1>19 DEF Observe, serviceVars, stateVars
  <2>2. pc' \in {"relinquish", "begin"} \/ (pc' = "return" /\ result' # "ok")
    BY <1>19 DEF Observe, Return
  <2>3. /\ call = NoCall /\ pc # "dead" /\ pc \notin IntentLabels /\ pc' \notin IntentLabels
        /\ ~Undone /\ ~Undone'
    BY <2>1, <2>2 DEF CallOK, Undone, IntentLabels
  <2>4. \A j \in Keys : OwnedEdges(j)' = OwnedEdges(j)
    BY <2>1 DEF OwnedEdges
  <2> QED  BY <1>0, <2>1, <2>3, <2>4, LedgerQuiet
<1>20. CASE Relinquish
  <2>1. /\ pc = "relinquish" /\ at.key \in Keys /\ Forget(at.key) \in Commands
        /\ at.mode # "claim"
    BY <1>20, CommandTypes DEF Relinquish, StepOK, StepLabels, ReleaseLabels, Steps
  <2>2. CASE Ask(Forget(at.key))
    <3>1. Submit(Forget(at.key)) /\ UNCHANGED <<pc, at, result, managed>>
      BY <2>2 DEF Ask, callVars, stateVars
    <3> QED  BY <2>1, <3>1, LedgerAsk
  <2>3. CASE Granted /\ Return("ok") /\ UNCHANGED stateVars
    <3>1. /\ call.command = Forget(at.key) /\ Landed /\ call' = NoCall
          /\ UNCHANGED <<journal, latched, at, managed>> /\ pc' = "return" /\ result' = "ok"
      BY <2>1, <2>3 DEF Granted, Acknowledge, Called, CallOK, Landed, Return, stateVars
    <3>2. ~InForce /\ ~InForce' /\ ~Undone /\ Undone' /\ ~Landed'
      BY <2>1, <3>1 DEF InForce, Undone, IntentLabels, Landed
    <3>3. \A k \in Keys : ExpectedEdges(k)' = ExpectedEdges(k)
      BY <2>1, <3>1, <3>2 DEF ExpectedEdges, OwnedEdges, Forget
    <3> QED  BY <2>1, <3>1, <3>2, <3>3 DEF LedgerOK
  <2>4. CASE Denied
    BY <2>4, DeniedLatches DEF LedgerOK
  <2> QED  BY <1>20, <2>2, <2>3, <2>4 DEF Relinquish
<1>21. CASE Recheck
  <2>1. pc = "recheck" /\ pc' = "return" /\ result' # "ok" /\ UNCHANGED <<journal, call, latched>>
    BY <1>21 DEF Recheck, serviceVars, Return
  <2>2. /\ call = NoCall /\ pc # "dead" /\ pc \notin IntentLabels /\ pc' \notin IntentLabels
        /\ ~Undone /\ ~Undone'
    BY <2>1 DEF CallOK, Undone, IntentLabels
  <2>3. CASE latched
    BY <1>0, <2>3 DEF LedgerOK
  <2>4. CASE ~latched
    <3>1. managed' = managed
      BY <1>21, <2>1, <2>4 DEF Recheck, PhaseOK, StepLabels, ReleaseLabels
    <3>2. \A j \in Keys : OwnedEdges(j)' = OwnedEdges(j)
      BY <3>1 DEF OwnedEdges
    <3> QED  BY <1>0, <2>1, <2>2, <3>2, LedgerQuiet
  <2> QED  BY <2>3, <2>4
<1>22. CASE ReturnPreserved
  <2>1. /\ pc = "return" /\ at \in Steps /\ at.key \in Keys /\ at' = [at EXCEPT !.mode = "claim"]
        /\ at.mode = "preserved" /\ UNCHANGED <<journal, call, latched, pc, result>>
    BY <1>22 DEF ReturnPreserved, StepOK, StepLabels, Steps, serviceVars
  <2>2. at'.mode = "claim" /\ at'.key = at.key
    BY <2>1 DEF Steps
  <2>3. /\ call = NoCall /\ ~InForce /\ ~InForce' /\ ~Landed /\ ~Landed' /\ ~Undone'
        /\ Undone <=> result = "ok"
    BY <2>1, <2>2 DEF CallOK, InForce, Undone, IntentLabels, Landed
  <2>4. IF result = "ok" THEN managed' = [managed EXCEPT ![at.key] = NoManaged] ELSE managed' = managed
    BY <1>22 DEF ReturnPreserved, Disown
  <2>5. \A k \in Keys : OwnedEdges(k)' = IF result = "ok" /\ k = at.key THEN << >> ELSE OwnedEdges(k)
    BY <2>1, <2>4 DEF OwnedEdges, StateTypes
  <2>6. \A k \in Keys : ExpectedEdges(k)' = ExpectedEdges(k)
    BY <2>3, <2>5 DEF ExpectedEdges
  <2> QED  BY <2>1, <2>3, <2>6 DEF LedgerOK
<1>23. CASE ReturnApply
  <2>1. pc = "return" /\ at.mode = "claim" /\ pc' = "idle" /\ UNCHANGED <<journal, call, managed>>
    BY <1>23 DEF ReturnApply, serviceVars, Idle
  <2>2. /\ call = NoCall /\ pc # "dead" /\ pc \notin IntentLabels /\ pc' \notin IntentLabels
        /\ ~Undone /\ ~Undone'
    BY <2>1 DEF CallOK, Undone, IntentLabels
  <2>3. \A j \in Keys : OwnedEdges(j)' = OwnedEdges(j)
    BY <2>1 DEF OwnedEdges
  <2> QED  BY <1>0, <2>1, <2>2, <2>3, LedgerQuiet
<1>24. CASE ReturnReconcile
  <2>1. /\ pc = "return" /\ at \in Steps /\ at.key \in Keys /\ at' = at /\ pc' \in {"drop", "next"}
        /\ at.mode # "preserved" /\ UNCHANGED <<journal, call, latched, result>>
    BY <1>24 DEF ReturnReconcile, StepOK, StepLabels, Steps, serviceVars, Goto
  <2>2. /\ call = NoCall /\ ~InForce /\ ~InForce' /\ ~Landed /\ ~Landed' /\ ~Undone'
        /\ Undone <=> result = "ok" /\ at.mode = "release"
    BY <2>1 DEF CallOK, InForce, Undone, IntentLabels, Landed, Steps
  <2>3. IF Undone THEN managed' = [managed EXCEPT ![at.key] = NoManaged] ELSE managed' = managed
    BY <1>24, <2>2 DEF ReturnReconcile, Disown
  <2>4. \A k \in Keys : OwnedEdges(k)' = IF Undone /\ k = at.key THEN << >> ELSE OwnedEdges(k)
    BY <2>1, <2>3 DEF OwnedEdges, StateTypes
  <2>5. \A k \in Keys : ExpectedEdges(k)' = ExpectedEdges(k)
    BY <2>2, <2>4 DEF ExpectedEdges
  <2> QED  BY <2>1, <2>2, <2>5 DEF LedgerOK
<1>25. CASE DropExited
  <2>1. pc = "drop" /\ at.key \in Keys /\ Forget(at.key) \in Commands
    BY <1>25, CommandTypes DEF DropExited, StepOK, StepLabels, AttemptLabels, Steps
  <2>2. CASE Ask(Forget(at.key))
    <3>1. Submit(Forget(at.key)) /\ UNCHANGED <<pc, at, result, managed>>
      BY <2>2 DEF Ask, callVars, stateVars
    <3> QED  BY <2>1, <3>1, LedgerAsk
  <2>3. CASE Granted /\ Disown(at.key) /\ pc' = "next"
    <3>1. call.command = Forget(at.key)
      BY <2>1, <2>3 DEF Granted, Acknowledge, Called, CallOK
    <3>2. managed' = [managed EXCEPT ![at.key] = NoManaged]
      BY <2>3 DEF Disown
    <3> QED  BY <2>1, <2>3, <3>1, <3>2, LedgerDrop
  <2>4. CASE Denied
    BY <2>4, DeniedLatches DEF LedgerOK
  <2> QED  BY <1>25, <2>2, <2>3, <2>4 DEF DropExited, Goto
<1>26. CASE NextKey
  <2>1. pc = "next" /\ UNCHANGED <<journal, call, managed>>
    BY <1>26 DEF NextKey, serviceVars, Marked
  <2>2. pc' \in {"next", "open", "observe"}
    BY <1>26 DEF NextKey
  <2>3. /\ call = NoCall /\ pc # "dead" /\ pc \notin IntentLabels /\ pc' \notin IntentLabels
        /\ ~Undone /\ ~Undone'
    BY <2>1, <2>2 DEF CallOK, Undone, IntentLabels
  <2>4. \A j \in Keys : OwnedEdges(j)' = OwnedEdges(j)
    BY <2>1 DEF OwnedEdges
  <2> QED  BY <1>0, <2>1, <2>3, <2>4, LedgerQuiet
<1>27. CASE LoopDone
  <2>1. pc = "next" /\ UNCHANGED <<journal, call, managed>>
    BY <1>27 DEF LoopDone, serviceVars, stateVars
  <2>2. pc' \in {"idle", "stopped"}
    BY <1>27 DEF LoopDone, Idle
  <2>3. /\ call = NoCall /\ pc # "dead" /\ pc \notin IntentLabels /\ pc' \notin IntentLabels
        /\ ~Undone /\ ~Undone'
    BY <2>1, <2>2 DEF CallOK, Undone, IntentLabels
  <2>4. \A j \in Keys : OwnedEdges(j)' = OwnedEdges(j)
    BY <2>1 DEF OwnedEdges
  <2> QED  BY <1>0, <2>1, <2>3, <2>4, LedgerQuiet
<1>28. ASSUME NEW k \in Keys, NEW v \in Values, OutsiderSets(k, v)
       PROVE  LedgerOK'
  <2>1. UNCHANGED <<journal, latched, call, pc, at, result, managed>>
    BY <1>28 DEF OutsiderSets, serviceVars, callVars, stateVars
  <2>2. /\ UNCHANGED <<InForce, ThisIntent>>
        /\ \A j \in Keys : ExpectedEdges(j)' = ExpectedEdges(j)
    BY <2>1 DEF InForce, Landed, ThisIntent, ThisEdge, ExpectedEdges, Undone, OwnedEdges
  <2> QED  BY <2>1, <2>2 DEF LedgerOK
<1>29. ASSUME NEW k \in Keys, ProcessExits(k)
       PROVE  LedgerOK'
  <2>1. UNCHANGED <<journal, latched, call, pc, at, result, managed>>
    BY <1>29 DEF ProcessExits, serviceVars, callVars, stateVars
  <2>2. /\ UNCHANGED <<InForce, ThisIntent>>
        /\ \A j \in Keys : ExpectedEdges(j)' = ExpectedEdges(j)
    BY <2>1 DEF InForce, Landed, ThisIntent, ThisEdge, ExpectedEdges, Undone, OwnedEdges
  <2> QED  BY <2>1, <2>2 DEF LedgerOK
<1>30. ASSUME NEW k \in Keys, ProcessStarts(k)
       PROVE  LedgerOK'
  <2>1. UNCHANGED <<journal, latched, call, pc, at, result, managed>>
    BY <1>30 DEF ProcessStarts, serviceVars, callVars, stateVars
  <2>2. /\ UNCHANGED <<InForce, ThisIntent>>
        /\ \A j \in Keys : ExpectedEdges(j)' = ExpectedEdges(j)
    BY <2>1 DEF InForce, Landed, ThisIntent, ThisEdge, ExpectedEdges, Undone, OwnedEdges
  <2> QED  BY <2>1, <2>2 DEF LedgerOK
<1>31. ASSUME NEW k \in Keys, Replay(k)
       PROVE  LedgerOK'
  <2>1. UNCHANGED <<journal, latched, call, pc, at, result, managed>>
    BY <1>31 DEF Replay, serviceVars, callVars, stateVars
  <2>2. /\ UNCHANGED <<InForce, ThisIntent>>
        /\ \A j \in Keys : ExpectedEdges(j)' = ExpectedEdges(j)
    BY <2>1 DEF InForce, Landed, ThisIntent, ThisEdge, ExpectedEdges, Undone, OwnedEdges
  <2> QED  BY <2>1, <2>2 DEF LedgerOK
<1>32. CASE Crash
  <2>1. pc' = "dead"
    BY <1>32 DEF Crash, Idle
  <2> QED  BY <2>1 DEF LedgerOK
<1>33. CASE OtherLatches
  <2>1. latched'
    BY <1>33 DEF OtherLatches, Latch
  <2> QED  BY <2>1 DEF LedgerOK
<1>34. CASE ServiceStep
  <2>1. UNCHANGED <<pc, at, result, managed>> /\ (Land \/ LateLand \/ LateLoss)
    BY <1>34 DEF ServiceStep, ServiceActs, callVars, stateVars
  <2>2. CASE LateLand \/ LateLoss
    <3>1. latched /\ latched'
      BY <2>2 DEF LateLand, LateLoss, ServiceInv
    <3> QED  BY <3>1 DEF LedgerOK
  <2> QED  BY <2>1, <2>2, LedgerLand
<1>35. CASE UNCHANGED mpVars
  <2>1. UNCHANGED <<journal, latched, call, pc, at, result, managed>>
    BY <1>35 DEF mpVars, serviceVars, callVars, stateVars
  <2>2. /\ UNCHANGED <<InForce, ThisIntent>>
        /\ \A k \in Keys : ExpectedEdges(k)' = ExpectedEdges(k)
    BY <2>1 DEF InForce, Landed, ThisIntent, ThisEdge, ExpectedEdges, Undone, OwnedEdges
  <2> QED  BY <2>1, <2>2 DEF LedgerOK
<1> QED
  BY <1>1, <1>2, <1>3, <1>4, <1>5, <1>6, <1>7, <1>8, <1>9, <1>10, <1>11, <1>12, <1>13,
     <1>14, <1>15, <1>16, <1>17, <1>18, <1>19, <1>20, <1>21, <1>22, <1>23, <1>24,
     <1>25, <1>26, <1>27, <1>28, <1>29, <1>30, <1>31, <1>32, <1>33, <1>34, <1>35 DEF
     Next, Entry, Controller, Environment

\* The steps that send a command, and what they send.
LEMMA Submits ==
    ASSUME call = NoCall, call' # NoCall, [Next]_mpVars
    PROVE  /\ UNCHANGED <<pc, managed>> /\ UNCHANGED worldVars
           /\ \/ pc = "stale" /\ \E s \in Stale(at.key) : Submit(Forget(s))
              \/ pc \in {"drift", "relinquish", "drop"} /\ Submit(Forget(at.key))
              \/ pc = "begin" /\ nextId \in Ids /\ Submit(Begin(nextId, at.key, ThisEdge))
              \/ pc = "commit" /\ Submit(Commit(at.id))
              \/ pc = "cancel" /\ Submit(Cancel(at.id))
<1>1. CASE \/ (\E o \in PolicyOwners, k \in Keys, c \in Claims : ApplyPolicyClaim(o, k, c))
           \/ (\E k \in Keys, v \in Values : ApplyProcessListAction(k, v))
           \/ (\E o \in PolicyOwners, active \in SUBSET Keys : ReleasePolicyExcept(o, active))
           \/ RetryPendingReleases \/ Shutdown \/ Open \/ Query \/ Decide
           \/ SetPriority \/ Verify \/ Restore \/ CheckRestored \/ RetainChange
           \/ Observe \/ Recheck \/ ReturnPreserved \/ ReturnApply \/ ReturnReconcile
           \/ NextKey \/ LoopDone
           \/ (\E k \in Keys, v \in Values : OutsiderSets(k, v))
           \/ (\E k \in Keys : ProcessExits(k))
           \/ (\E k \in Keys : ProcessStarts(k))
           \/ (\E k \in Keys : Replay(k))
           \/ Crash \/ OtherLatches \/ ServiceStep
           \/ UNCHANGED mpVars
  BY <1>1 DEF ApplyPolicyClaim, ApplyProcessListAction, ReleasePolicyExcept,
     RetryPendingReleases, Shutdown, Open, Query, Decide, SetPriority, Verify,
     Restore, CheckRestored, RetainChange, Observe, Recheck, ReturnPreserved,
     ReturnApply, ReturnReconcile, NextKey, LoopDone, OutsiderSets, ProcessExits,
     ProcessStarts, Replay, Crash, OtherLatches, ServiceStep, Idle, Latch, Abandon,
     ServiceActs, Land, LateLand, LateLoss, Called, serviceVars, mpVars
<1>2. CASE RelinquishStale
  <2> DEFINE s == CHOOSE s \in Stale(at.key) : TRUE
  <2>1. Ask(Forget(s)) /\ Stale(at.key) # {} /\ pc = "stale"
    BY <1>2, CallEnds DEF RelinquishStale, serviceVars
  <2>2. s \in Stale(at.key)
    BY <2>1
  <2> QED  BY <2>1, <2>2 DEF Ask, callVars, stateVars
<1>3. CASE RelinquishDrifted
  <2>1. Ask(Forget(at.key))
    BY <1>3, CallEnds DEF RelinquishDrifted, serviceVars
  <2> QED  BY <1>3, <2>1 DEF Ask, RelinquishDrifted, callVars, stateVars
<1>4. CASE BeginChange
  <2>1. /\ nextId \in Ids /\ Submit(Begin(nextId, at.key, [original |-> at.seen, expected |-> at.target]))
        /\ UNCHANGED <<pc, managed>> /\ UNCHANGED worldVars
    BY <1>4, CallEnds DEF BeginChange, serviceVars
  <2> QED  BY <1>4, <2>1 DEF BeginChange, ThisEdge
<1>5. CASE CommitChange
  <2>1. Ask(Commit(at.id))
    BY <1>5, CallEnds DEF CommitChange, serviceVars
  <2> QED  BY <1>5, <2>1 DEF Ask, CommitChange, callVars, stateVars
<1>6. CASE CancelChange
  <2>1. Ask(Cancel(at.id))
    BY <1>6, CallEnds DEF CancelChange, serviceVars
  <2> QED  BY <1>6, <2>1 DEF Ask, CancelChange, callVars, stateVars
<1>7. CASE Relinquish
  <2>1. Ask(Forget(at.key))
    BY <1>7, CallEnds DEF Relinquish, serviceVars
  <2> QED  BY <1>7, <2>1 DEF Ask, Relinquish, callVars, stateVars
<1>8. CASE DropExited
  <2>1. Ask(Forget(at.key))
    BY <1>8, CallEnds DEF DropExited, serviceVars
  <2> QED  BY <1>8, <2>1 DEF Ask, DropExited, callVars, stateVars
<1> QED
  BY <1>1, <1>2, <1>3, <1>4, <1>5, <1>6, <1>7, <1>8 DEF Next, Entry, Controller,
     Environment

--------------------------------------------------------------------------------
(***************************************************************************)
(* The values, and what replay makes of them.                              *)
(***************************************************************************)
\* A process that lives or may yet live, last set by somebody replay can tell apart.
Watched(k) == life[k] # "exited" /\ ~mixed[k]

\* Replay of J brings back what somebody else set last.
Recovers(J) == \A k \in Keys : Watched(k) => Unwind(J, k, value[k]) = pre[k]

\* So it does whichever journal the helper finds.
UnwindOK == \A J \in Futures : Recovers(J)

Moving(k) == pc \in IntentLabels \ {"cancel"} /\ k = at.key

\* What the controller does not manage stands where somebody else set it.
UnmanagedOK ==
    pc # "dead" => \A k \in Keys :
        Watched(k) /\ managed[k] = NoManaged /\ ~Moving(k) => value[k] = pre[k]

\* The value of the process at hand is the one the label rests on.
AtHandOK ==
    pc \in StepLabels /\ Watched(at.key) =>
        /\ Undone => value[at.key] = pre[at.key]
        /\ pc \in {"drift", "decide", "begin", "set", "relinquish"} => value[at.key] = at.seen
        /\ pc = "verify" => value[at.key] = at.target
        /\ pc = "restore" => value[at.key] \in {at.seen, at.target}
        /\ pc = "commit" /\ ~Landed => value[at.key] # at.seen
        /\ pc = "cancel" /\ ~Landed => value[at.key] # at.target

ValueOK == UnmanagedOK /\ AtHandOK

\* What the journal holds of an owned process with nothing in force, and of one with
\* its intent in force.
LEMMA OwnedEdge ==
    ASSUME StateTypes, NEW k \in Keys, managed[k] # NoManaged, NEW e,
           e \in {OwnedEdges(k)[n] : n \in DOMAIN OwnedEdges(k)}
    PROVE  /\ e.expected = managed[k].expected
           /\ managed[k].baseline # managed[k].expected
<1>1. managed[k].baseline # managed[k].expected /\
      OwnedEdges(k) = <<[original |-> managed[k].baseline, expected |-> managed[k].expected]>>
  BY DEF OwnedEdges
<1> DEFINE o == [original |-> managed[k].baseline, expected |-> managed[k].expected]
<1>2. DOMAIN <<o>> = {1} /\ <<o>>[1] = o
  OBVIOUS
<1>3. e = o
  BY <1>1, <1>2
<1> QED  BY <1>1, <1>3

\* A chain is forgotten when its process is gone, or when it explains nothing of the
\* value any more.
LEMMA SendForget ==
    ASSUME StateTypes, JournalOK, UnwindOK, NEW s \in Keys,
           journal.pending = {}, journal.committed[s] = OwnedEdges(s),
           \/ life[s] = "exited"
           \/ /\ managed[s] # NoManaged
              /\ Watched(s) => value[s] # managed[s].expected \/ value[s] = managed[s].baseline
    PROVE  /\ Slim(Apply(journal, Forget(s)))
           /\ Recovers(Apply(journal, Forget(s)))
<1>1. Slim(journal) /\ Recovers(journal)
  BY DEF JournalOK, UnwindOK, Futures
<1>2. Apply(journal, Forget(s)) = ApplyForget(journal, s)
  BY DEF Apply, Forget
<1>3. ASSUME Watched(s) PROVE Unwind(journal, s, value[s]) = value[s]
  <2>1. managed[s] # NoManaged /\ (value[s] # managed[s].expected \/ value[s] = managed[s].baseline)
    BY <1>3 DEF Watched
  <2>2. EdgesOf(journal, s) = {OwnedEdges(s)[n] : n \in DOMAIN OwnedEdges(s)}
    BY DEF EdgesOf, PendingOf
  <2>3. \A e \in EdgesOf(journal, s) : value[s] # e.expected
    BY <2>1, <2>2, OwnedEdge
  <2> QED  BY <1>1, <2>3, UnwindForeign
<1>4. Slim(ApplyForget(journal, s))
  BY <1>1, SlimForget
<1>5. ASSUME NEW k \in Keys, Watched(k)
      PROVE  Unwind(ApplyForget(journal, s), k, value[k]) = pre[k]
  <2> USE DEF Recovers
  <2>0. /\ \A x : Unwind(ApplyForget(journal, s), s, x) = x
        /\ \A j \in Keys \ {s} : \A x : Unwind(ApplyForget(journal, s), j, x) = Unwind(journal, j, x)
    BY <1>1, SlimForget
  <2>1. CASE k = s
    BY <1>1, <1>3, <1>5, <2>0, <2>1
  <2>2. CASE k # s
    BY <1>1, <1>5, <2>0, <2>2
  <2> QED  BY <2>1, <2>2
<1> QED  BY <1>2, <1>4, <1>5 DEF Recovers

\* An intent is begun at the value it rests on.
LEMMA SendBegin ==
    ASSUME TypeOK, StepOK, StateTypes, PhaseOK, JournalOK, UnwindOK, ValueOK, pc = "begin",
           journal.pending = {}, \A k \in Keys : journal.committed[k] = OwnedEdges(k),
           NEW id \in Ids
    PROVE  /\ Slim(Apply(journal, Begin(id, at.key, ThisEdge)))
           /\ Recovers(Apply(journal, Begin(id, at.key, ThisEdge)))
<1> DEFINE i == [id |-> id, key |-> at.key, edge |-> ThisEdge]
<1>1. Slim(journal) /\ Recovers(journal)
  BY DEF JournalOK, UnwindOK, Futures
<1>2. at \in Steps /\ at.key \in Keys /\ ThisEdge \in Edge /\ at.seen # at.target
  BY DEF StepOK, StepLabels, Steps, ThisEdge, Edge, PhaseOK
<1>3. ThisEdge.original = at.seen /\ ThisEdge.expected = at.target
  BY DEF ThisEdge
<1>4. i \in Intent /\ i.id = id /\ i.key = at.key /\ i.edge = ThisEdge
  BY <1>2 DEF Intent
<1>5. Apply(journal, Begin(id, at.key, ThisEdge)) = ApplyBegin(journal, i.id, i.key, i.edge)
  BY DEF Apply, Begin
<1>6. OwnedEdges(at.key) = << >> \/ OwnedEdges(at.key)[1].expected = at.seen
  BY DEF OwnedEdges, PhaseOK, Owned, Mine
<1>7. Fits(journal, i)
  BY <1>2, <1>3, <1>4, <1>6 DEF Fits
<1>8. \A k \in Keys : Watched(k) => k # at.key \/ value[k] # at.target
  BY <1>2 DEF ValueOK, AtHandOK, StepLabels
<1> HIDE DEF i
<1> QED  BY <1>1, <1>3, <1>4, <1>5, <1>7, <1>8, SlimBegin DEF Recovers

\* A commit is sent once the value has left what was seen.
LEMMA SendCommit ==
    ASSUME StepOK, JournalOK, UnwindOK, ValueOK, pc = "commit", ~Landed,
           journal.pending = {ThisIntent}
    PROVE  /\ Slim(Apply(journal, Commit(at.id)))
           /\ Recovers(Apply(journal, Commit(at.id)))
<1>1. Slim(journal) /\ Recovers(journal)
  BY DEF JournalOK, UnwindOK, Futures
<1>2. at \in Steps /\ at.key \in Keys /\ at.id \in Ids /\ ThisEdge \in Edge
  BY DEF StepOK, StepLabels, IntentLabels, Steps, ThisEdge, Edge
<1>3. /\ ThisIntent \in Intent /\ ThisIntent.id = at.id /\ ThisIntent.key = at.key
      /\ ThisIntent.edge.original = at.seen
  BY <1>2 DEF ThisIntent, Intent, ThisEdge
<1>4. Apply(journal, Commit(at.id)) = ApplyCommit(journal, ThisIntent.id)
  BY <1>3 DEF Apply, Commit
<1>5. /\ Slim(ApplyCommit(journal, ThisIntent.id))
      /\ \A k \in Keys : \A x : k # at.key \/ x # at.seen =>
            Unwind(ApplyCommit(journal, ThisIntent.id), k, x) = Unwind(journal, k, x)
  <2>1. /\ Slim(ApplyCommit(journal, ThisIntent.id))
        /\ \A k \in Keys : \A x : k # ThisIntent.key \/ x # ThisIntent.edge.original =>
              Unwind(ApplyCommit(journal, ThisIntent.id), k, x) = Unwind(journal, k, x)
    <3> DEFINE i == ThisIntent
    <3> HIDE DEF i
    <3>1. i \in Intent /\ journal.pending = {i}
      BY <1>3 DEF i
    <3>2. /\ Slim(ApplyCommit(journal, i.id))
          /\ \A k \in Keys : \A x : k # i.key \/ x # i.edge.original =>
                Unwind(ApplyCommit(journal, i.id), k, x) = Unwind(journal, k, x)
      BY <1>1, <3>1, SlimCommit
    <3> QED  BY <3>2 DEF i
  <2> QED  BY <1>3, <2>1
<1>6. \A k \in Keys : Watched(k) => k # at.key \/ value[k] # at.seen
  BY DEF ValueOK, AtHandOK, StepLabels, IntentLabels
<1> QED  BY <1>1, <1>4, <1>5, <1>6 DEF Recovers

\* A cancel is sent once the value is not the target.
LEMMA SendCancel ==
    ASSUME StepOK, JournalOK, UnwindOK, ValueOK, pc = "cancel", ~Landed,
           journal.pending = {ThisIntent}
    PROVE  /\ Slim(Apply(journal, Cancel(at.id)))
           /\ Recovers(Apply(journal, Cancel(at.id)))
<1>1. Slim(journal) /\ Recovers(journal)
  BY DEF JournalOK, UnwindOK, Futures
<1>2. at \in Steps /\ at.key \in Keys /\ at.id \in Ids /\ ThisEdge \in Edge
  BY DEF StepOK, StepLabels, IntentLabels, Steps, ThisEdge, Edge
<1>3. /\ ThisIntent \in Intent /\ ThisIntent.id = at.id /\ ThisIntent.key = at.key
      /\ ThisIntent.edge.expected = at.target
  BY <1>2 DEF ThisIntent, Intent, ThisEdge
<1>4. Apply(journal, Cancel(at.id)) = ApplyCancel(journal, ThisIntent.id)
  BY <1>3 DEF Apply, Cancel
<1>5. /\ Slim(ApplyCancel(journal, ThisIntent.id))
      /\ \A k \in Keys : \A x : k # at.key \/ x # at.target =>
            Unwind(ApplyCancel(journal, ThisIntent.id), k, x) = Unwind(journal, k, x)
  <2>1. /\ Slim(ApplyCancel(journal, ThisIntent.id))
        /\ \A k \in Keys : \A x : k # ThisIntent.key \/ x # ThisIntent.edge.expected =>
              Unwind(ApplyCancel(journal, ThisIntent.id), k, x) = Unwind(journal, k, x)
    <3> DEFINE i == ThisIntent
    <3> HIDE DEF i
    <3>1. i \in Intent /\ journal.pending = {i}
      BY <1>3 DEF i
    <3>2. /\ Slim(ApplyCancel(journal, i.id))
          /\ \A k \in Keys : \A x : k # i.key \/ x # i.edge.expected =>
                Unwind(ApplyCancel(journal, i.id), k, x) = Unwind(journal, k, x)
      BY <1>1, <3>1, SlimCancel
    <3> QED  BY <3>2 DEF i
  <2> QED  BY <1>3, <2>1
<1>6. \A k \in Keys : Watched(k) => k # at.key \/ value[k] # at.target
  BY DEF ValueOK, AtHandOK, StepLabels, IntentLabels
<1> QED  BY <1>1, <1>4, <1>5, <1>6 DEF Recovers

\* Every command the controller sends leaves a journal that brings back what somebody
\* else set last.
LEMMA SendStep ==
    ASSUME TypeOK, ServiceInv, StepOK, LifeOK, StateTypes, PhaseOK, LedgerOK, JournalOK,
           UnwindOK, ValueOK, call = NoCall, call' # NoCall, [Next]_mpVars
    PROVE  \A J \in Futures' : Slim(J) /\ Recovers(J)
<1>1. Slim(journal) /\ Recovers(journal)
  BY DEF JournalOK, UnwindOK, Futures
<1>2. ASSUME NEW c \in Commands, Submit(c), Slim(Apply(journal, c)), Recovers(Apply(journal, c))
      PROVE  \A J \in Futures' : Slim(J) /\ Recovers(J)
  BY <1>1, <1>2, FuturesOfSubmit
<1>3. ASSUME pc \in {"stale", "drift", "relinquish", "drop", "begin", "commit", "cancel"},
             NEW c, Submit(c)
      PROVE  /\ ~Landed /\ journal.pending = IF pc \in IntentLabels THEN {ThisIntent} ELSE {}
             /\ \A k \in Keys : journal.committed[k] = OwnedEdges(k)
  <2>1. ~latched /\ ~Landed /\ ~Undone /\ pc # "dead"
    BY <1>3 DEF Submit, Landed, Undone
  <2>2. InForce <=> pc \in IntentLabels
    BY <2>1 DEF InForce
  <2>3. \A k \in Keys : ExpectedEdges(k) = OwnedEdges(k)
    BY <2>1 DEF ExpectedEdges
  <2> QED  BY <2>1, <2>2, <2>3 DEF LedgerOK
<1>4. ASSUME pc = "stale", NEW s \in Stale(at.key), Submit(Forget(s))
      PROVE  \A J \in Futures' : Slim(J) /\ Recovers(J)
  <2>1. s \in Keys /\ life[s] = "exited" /\ Forget(s) \in Commands
    BY <1>4, CommandTypes DEF Stale, LifeOK
  <2>2. journal.pending = {} /\ journal.committed[s] = OwnedEdges(s)
    BY <1>3, <1>4, <2>1 DEF IntentLabels
  <2> QED  BY <1>2, <1>4, <2>1, <2>2, SendForget
<1>5. ASSUME pc \in {"drift", "relinquish", "drop"}, Submit(Forget(at.key))
      PROVE  \A J \in Futures' : Slim(J) /\ Recovers(J)
  <2>1. at.key \in Keys /\ Forget(at.key) \in Commands /\ pc \in StepLabels
    BY <1>5, CommandTypes DEF StepOK, StepLabels, AttemptLabels, ReleaseLabels, Steps
  <2>2. journal.pending = {} /\ journal.committed[at.key] = OwnedEdges(at.key)
    BY <1>3, <1>5, <2>1 DEF IntentLabels
  <2>3. CASE pc = "drop"
    <3>1. life[at.key] = "exited"
      BY <2>3 DEF LifeOK
    <3> QED  BY <1>2, <1>5, <2>1, <2>2, <3>1, SendForget
  <2>4. CASE pc \in {"drift", "relinquish"}
    <3>1. Owned /\ (Mine.expected # at.seen \/ Mine.baseline = at.seen)
      BY <2>4, <2>1 DEF PhaseOK, StepOK, ReleaseLabels
    <3>2. Watched(at.key) => value[at.key] = at.seen
      BY <2>4, <2>1 DEF ValueOK, AtHandOK
    <3>3. /\ managed[at.key] # NoManaged
          /\ Watched(at.key) => \/ value[at.key] # managed[at.key].expected
                                \/ value[at.key] = managed[at.key].baseline
      BY <3>1, <3>2 DEF Owned, Mine
    <3> QED  BY <1>2, <1>5, <2>1, <2>2, <3>3, SendForget
  <2> QED  BY <1>5, <2>3, <2>4
<1>6. ASSUME pc = "begin", nextId \in Ids, Submit(Begin(nextId, at.key, ThisEdge))
      PROVE  \A J \in Futures' : Slim(J) /\ Recovers(J)
  <2>1. at.key \in Keys /\ ThisEdge \in Edge
    BY <1>6 DEF StepOK, StepLabels, Steps, ThisEdge, Edge
  <2>2. Begin(nextId, at.key, ThisEdge) \in Commands
    BY <1>6, <2>1, CommandTypes
  <2>3. journal.pending = {} /\ \A k \in Keys : journal.committed[k] = OwnedEdges(k)
    BY <1>3, <1>6 DEF IntentLabels
  <2> QED  BY <1>2, <1>6, <2>2, <2>3, SendBegin
<1>7. ASSUME pc = "commit", Submit(Commit(at.id))
      PROVE  \A J \in Futures' : Slim(J) /\ Recovers(J)
  <2>1. Commit(at.id) \in Commands
    BY <1>7, CommandTypes DEF StepOK, IntentLabels
  <2>2. ~Landed /\ journal.pending = {ThisIntent}
    BY <1>3, <1>7 DEF IntentLabels
  <2> QED  BY <1>2, <1>7, <2>1, <2>2, SendCommit
<1>8. ASSUME pc = "cancel", Submit(Cancel(at.id))
      PROVE  \A J \in Futures' : Slim(J) /\ Recovers(J)
  <2>1. Cancel(at.id) \in Commands
    BY <1>8, CommandTypes DEF StepOK, IntentLabels
  <2>2. ~Landed /\ journal.pending = {ThisIntent}
    BY <1>3, <1>8 DEF IntentLabels
  <2> QED  BY <1>2, <1>8, <2>1, <2>2, SendCancel
<1> QED  BY <1>4, <1>5, <1>6, <1>7, <1>8, Submits

\* No other step adds a journal the helper may find.
LEMMA NoSend ==
    ASSUME TypeOK, ServiceInv, StepOK, CallOK, ~(call = NoCall /\ call' # NoCall), [Next]_mpVars
    PROVE  Futures' \subseteq Futures
<1>1. ASSUME NEW c \in Commands, Submit(c) PROVE FALSE
  <2>1. [command |-> c, phase |-> "sent"] \in [command : Commands, phase : Phases]
    BY DEF Phases
  <2>2. call = NoCall /\ call' = [command |-> c, phase |-> "sent"]
    BY <1>1 DEF Submit
  <2> QED  BY <2>1, <2>2, CallAssumption
<1>2. [ServiceNext]_serviceVars
  BY ServiceMoves
<1> QED  BY <1>1, <1>2, FuturesShrink

\* One change at most is under way in every journal the helper may find.
LEMMA JournalStep ==
    ASSUME TypeOK, ServiceInv, StepOK, LifeOK, CallOK, StateTypes, PhaseOK, LedgerOK,
           JournalOK, UnwindOK, ValueOK, [Next]_mpVars
    PROVE  JournalOK'
<1>1. CASE call = NoCall /\ call' # NoCall
  <2>1. \A J \in Futures' : Slim(J)
    BY <1>1, SendStep
  <2> QED  BY <2>1 DEF JournalOK
<1>2. CASE ~(call = NoCall /\ call' # NoCall)
  <2>1. Futures' \subseteq Futures
    BY <1>2, NoSend
  <2> QED  BY <2>1 DEF JournalOK
<1> QED  BY <1>1, <1>2

\* With an intent in force, replay makes the same of the value it started from and of
\* the one it goes to.
LEMMA BothSides ==
    ASSUME NEW J, Slim(J), NEW i \in Intent, J.pending = {i}
    PROVE  Unwind(J, i.key, i.edge.expected) = Unwind(J, i.key, i.edge.original)
<1>1. i.key \in Keys /\ i.edge.original # i.edge.expected
  BY DEF Slim, Fits, Intent
<1>2. PendingOf(J, i.key) = {i}
  BY DEF PendingOf
<1>3. \A x : Unwind(J, i.key, x) = UndoEdges(J.committed[i.key], UndoEdge(i.edge, x))
  <2>1. \A x : UndoPending({i}, x) = UndoEdge(i.edge, x)
    BY DEF UndoPending
  <2> QED  BY <1>1, <1>2, <2>1, UnwindSlim
<1>4. UndoEdge(i.edge, i.edge.expected) = UndoEdge(i.edge, i.edge.original)
  BY <1>1 DEF UndoEdge
<1> QED  BY <1>3, <1>4

\* In a transition the journal is the only one the helper may find, and replay brings
\* back the last foreign value from either side of the change.
LEMMA InTransit ==
    ASSUME TypeOK, ServiceInv, StepOK, CallOK, JournalOK, UnwindOK, LedgerOK,
           pc \in IntentLabels, call = NoCall, Watched(at.key), value[at.key] \in {at.seen, at.target}
    PROVE  /\ Futures = {journal}
           /\ \A x \in {at.seen, at.target} : Unwind(journal, at.key, x) = pre[at.key]
<1>1. at \in Steps /\ at.key \in Keys /\ at.id \in Ids /\ ThisEdge \in Edge
  BY DEF StepOK, StepLabels, Steps, ThisEdge, Edge
<1>2. /\ ThisIntent \in Intent /\ ThisIntent.key = at.key
      /\ ThisIntent.edge.original = at.seen /\ ThisIntent.edge.expected = at.target
  BY <1>1 DEF ThisIntent, Intent, ThisEdge
<1>3. ~latched /\ ~Landed /\ pc # "dead"
  BY DEF CallOK, Landed, IntentLabels
<1>4. journal.pending = {ThisIntent}
  BY <1>3 DEF LedgerOK, InForce
<1>5. Futures = {journal}
  BY <1>3 DEF Futures, ServiceInv, Called
<1>6. Slim(journal) /\ Unwind(journal, at.key, value[at.key]) = pre[at.key]
  BY <1>1, <1>5 DEF JournalOK, UnwindOK, Recovers
<1>7. Unwind(journal, at.key, at.target) = Unwind(journal, at.key, at.seen)
  BY <1>2, <1>4, <1>6, BothSides
<1> QED  BY <1>5, <1>6, <1>7

\* The steps that change the world.
LEMMA WorldSteps ==
    ASSUME [Next]_mpVars
    PROVE  \/ UNCHANGED worldVars
           \/ SetPriority \/ Restore
           \/ (\E k \in Keys, v \in Values : OutsiderSets(k, v))
           \/ (\E k \in Keys : ProcessExits(k) \/ ProcessStarts(k) \/ Replay(k))
<1>1. CASE \/ (\E o \in PolicyOwners, k \in Keys, c \in Claims : ApplyPolicyClaim(o, k, c))
           \/ (\E k \in Keys, v \in Values : ApplyProcessListAction(k, v))
           \/ (\E o \in PolicyOwners, active \in SUBSET Keys : ReleasePolicyExcept(o, active))
           \/ RetryPendingReleases \/ Shutdown \/ Open \/ RelinquishStale \/ Query
           \/ RelinquishDrifted \/ Decide \/ BeginChange \/ Verify \/ CommitChange
  BY <1>1 DEF ApplyPolicyClaim, ApplyProcessListAction, ReleasePolicyExcept,
     RetryPendingReleases, Shutdown, Open, RelinquishStale, Query,
     RelinquishDrifted, Decide, BeginChange, Verify, CommitChange, Ask
<1>2. CASE \/ SetPriority \/ Restore
           \/ (\E k \in Keys, v \in Values : OutsiderSets(k, v))
           \/ (\E k \in Keys : ProcessExits(k))
           \/ (\E k \in Keys : ProcessStarts(k))
           \/ (\E k \in Keys : Replay(k))
  BY <1>2
<1>3. CASE \/ CheckRestored \/ CancelChange \/ RetainChange \/ Observe \/ Relinquish
           \/ Recheck \/ ReturnPreserved \/ ReturnApply \/ ReturnReconcile
           \/ DropExited \/ NextKey \/ LoopDone \/ Crash \/ OtherLatches
           \/ ServiceStep
           \/ UNCHANGED mpVars
  BY <1>3 DEF CheckRestored, CancelChange, RetainChange, Observe, Relinquish, Recheck,
     ReturnPreserved, ReturnApply, ReturnReconcile, DropExited, NextKey, LoopDone,
     Crash, OtherLatches, ServiceStep, Ask, mpVars
<1> QED
  BY <1>1, <1>2, <1>3 DEF Next, Entry, Controller, Environment

\* Somebody else's value that the journal does not speak of is none that a command
\* under way will make it speak of.
LEMMA ForeignFutures ==
    ASSUME ServiceInv, JournalOK, NEW k \in Keys, NEW v, v \notin OurValues(k),
           NEW J \in Futures
    PROVE  \A e \in EdgesOf(J, k) : v # e.expected
<1> DEFINE E == EdgesOf(journal, k)
                   \cup CommandEdges(limbo, k)
                   \cup CommandEdges(IF call = NoCall THEN NoCommand ELSE call.command, k)
<1>1. \A e \in E : v # e.expected
  BY DEF OurValues, EdgeValues, EdgesOf
<1>2. Slim(journal)
  BY DEF JournalOK, Futures
<1>3. CASE J = journal
  BY <1>1, <1>3
<1>4. CASE limbo # NoCommand /\ J = Apply(journal, limbo)
  <2>1. limbo \in Commands
    BY <1>4 DEF ServiceInv, ServiceTypeOK
  <2>2. limbo.op = "begin" /\ limbo.key = k => v # limbo.edge.expected
    BY <1>1, <1>4 DEF CommandEdges
  <2> QED  BY <1>1, <1>2, <1>4, <2>1, <2>2, ForeignAfter
<1>5. CASE Called("sent") /\ J = Apply(journal, call.command)
  <2>1. call # NoCall /\ call.command \in Commands
    BY <1>5 DEF ServiceInv, ServiceTypeOK, Called
  <2>2. call.command # NoCommand
    BY <2>1, CallAssumption
  <2>3. call.command.op = "begin" /\ call.command.key = k => v # call.command.edge.expected
    BY <1>1, <2>1, <2>2 DEF CommandEdges
  <2> QED  BY <1>1, <1>2, <1>5, <2>1, <2>3, ForeignAfter
<1> QED  BY <1>3, <1>4, <1>5 DEF Futures

\* Whatever happens next, the journal the helper finds brings back the last foreign value.
LEMMA UnwindStep ==
    ASSUME TypeOK, ServiceInv, StepOK, LifeOK, CallOK, StateTypes, WorldTypes, PhaseOK,
           LedgerOK, JournalOK, UnwindOK, ValueOK, [Next]_mpVars
    PROVE  UnwindOK'
<1>1. CASE UNCHANGED worldVars
  <2>1. CASE call = NoCall /\ call' # NoCall
    <3>1. \A J \in Futures' : Recovers(J)
      BY <2>1, SendStep
    <3> QED  BY <1>1, <3>1 DEF UnwindOK, Recovers, Watched, worldVars
  <2>2. CASE ~(call = NoCall /\ call' # NoCall)
    <3>1. Futures' \subseteq Futures
      BY <2>2, NoSend
    <3> QED  BY <1>1, <3>1 DEF UnwindOK, Recovers, Watched, worldVars
  <2> QED  BY <2>1, <2>2
<1>2. ASSUME SetPriority \/ Restore PROVE UnwindOK'
  <2>1. /\ pc \in {"set", "restore"} /\ UNCHANGED serviceVars
        /\ UNCHANGED <<life, pre, mixed>> /\ UNCHANGED at
    BY <1>2 DEF SetPriority, Restore, Goto
  <2>2. \/ value' = value
        \/ pc = "set" /\ value' = [value EXCEPT ![at.key] = at.target]
        \/ pc = "restore" /\ value' = [value EXCEPT ![at.key] = at.seen]
    BY <1>2 DEF SetPriority, Restore
  <2>3. at \in Steps /\ at.key \in Keys /\ pc \in IntentLabels /\ pc \in StepLabels /\ call = NoCall
    BY <2>1 DEF StepOK, StepLabels, IntentLabels, Steps, CallOK
  <2>4. Futures' = Futures
    BY <2>1 DEF Futures, Called, serviceVars
  <2>5. \A k \in Keys : k # at.key => value'[k] = value[k]
    BY <2>2 DEF WorldTypes
  <2>6. value'[at.key] \in {value[at.key], at.seen, at.target}
    BY <2>2, <2>3 DEF WorldTypes
  <2>7. ASSUME NEW J \in Futures, NEW k \in Keys, Watched(k) PROVE Unwind(J, k, value'[k]) = pre[k]
    <3>1. CASE k # at.key
      BY <2>5, <2>7, <3>1 DEF UnwindOK, Recovers
    <3>2. CASE k = at.key
      <4>1. value[at.key] \in {at.seen, at.target}
        BY <2>1, <2>3, <2>7, <3>2 DEF ValueOK, AtHandOK
      <4>2. Futures = {journal} /\ \A x \in {at.seen, at.target} : Unwind(journal, at.key, x) = pre[at.key]
        BY <2>3, <2>7, <3>2, <4>1, InTransit
      <4> QED  BY <2>6, <3>2, <4>1, <4>2
    <3> QED  BY <3>1, <3>2
  <2> QED  BY <2>1, <2>4, <2>7 DEF UnwindOK, Recovers, Watched
<1>3. ASSUME NEW k \in Keys, NEW v \in Values, OutsiderSets(k, v) PROVE UnwindOK'
  <2>1. /\ UNCHANGED serviceVars /\ life' = life
        /\ value' = [value EXCEPT ![k] = v] /\ pre' = [pre EXCEPT ![k] = v]
        /\ mixed' = [mixed EXCEPT ![k] = InTransition(k) \/ v \in OurValues(k)]
    BY <1>3 DEF OutsiderSets
  <2>2. Futures' = Futures
    BY <2>1 DEF Futures, Called, serviceVars
  <2>3. ASSUME NEW J \in Futures, NEW j \in Keys, Watched(j)' PROVE Unwind(J, j, value'[j]) = pre'[j]
    <3>1. CASE j # k
      <4>1. Watched(j) /\ value'[j] = value[j] /\ pre'[j] = pre[j]
        BY <2>1, <2>3, <3>1 DEF Watched, WorldTypes
      <4> QED  BY <4>1 DEF UnwindOK, Recovers
    <3>2. CASE j = k
      <4>1. v \notin OurValues(k) /\ value'[k] = v /\ pre'[k] = v
        BY <2>1, <2>3, <3>2 DEF Watched, WorldTypes
      <4>2. Slim(J) /\ \A e \in EdgesOf(J, k) : v # e.expected
        BY <4>1, ForeignFutures DEF JournalOK
      <4> QED  BY <3>2, <4>1, <4>2, UnwindForeign
    <3> QED  BY <3>1, <3>2
  <2> QED  BY <2>2, <2>3 DEF UnwindOK, Recovers
<1>4. ASSUME NEW k \in Keys, ProcessExits(k) \/ ProcessStarts(k) PROVE UnwindOK'
  <2>1. UNCHANGED serviceVars /\ UNCHANGED <<value, pre, mixed>>
    BY <1>4 DEF ProcessExits, ProcessStarts
  <2>2. Futures' = Futures
    BY <2>1 DEF Futures, Called, serviceVars
  <2>3. \A j \in Keys : Watched(j)' => Watched(j)
    BY <1>4, <2>1 DEF ProcessExits, ProcessStarts, Watched, WorldTypes
  <2> QED  BY <2>1, <2>2, <2>3 DEF UnwindOK, Recovers
<1>5. ASSUME NEW k \in Keys, Replay(k) PROVE UnwindOK'
  <2>1. /\ UNCHANGED serviceVars /\ UNCHANGED <<life, pre, mixed>>
        /\ limbo = NoCommand /\ call = NoCall
        /\ value' = [value EXCEPT ![k] = Unwind(journal, k, @)]
    BY <1>5 DEF Replay
  <2>2. Futures' = Futures /\ Futures = {journal}
    BY <2>1 DEF Futures, Called, serviceVars
  <2>3. Slim(journal) /\ Recovers(journal)
    BY <2>2 DEF JournalOK, UnwindOK
  <2>4. value[k] \in Values /\ value'[k] = Unwind(journal, k, value[k])
    BY <2>1 DEF WorldTypes
  <2>5. ASSUME NEW j \in Keys, Watched(j) PROVE Unwind(journal, j, value'[j]) = pre[j]
    <3>1. CASE j # k
      BY <2>1, <2>3, <2>5, <3>1 DEF Recovers
    <3>2. CASE j = k
      BY <2>3, <2>4, <2>5, <3>2, UnwindAgain DEF Recovers
    <3> QED  BY <3>1, <3>2
  <2> QED  BY <2>1, <2>2, <2>5 DEF UnwindOK, Recovers, Watched
<1> QED  BY <1>1, <1>2, <1>3, <1>4, <1>5, WorldSteps

\* What replay leaves alone stands where somebody else set it.
LEMMA Settled ==
    ASSUME JournalOK, UnwindOK, NEW k \in Keys, Watched(k),
           journal.committed[k] = << >>, journal.pending = {}
    PROVE  value[k] = pre[k]
<1>1. Slim(journal) /\ Unwind(journal, k, value[k]) = pre[k]
  BY DEF JournalOK, UnwindOK, Recovers, Futures
<1>2. UndoPending(PendingOf(journal, k), value[k]) = value[k]
  BY DEF UndoPending, PendingOf
<1>3. Unwind(journal, k, value[k]) = value[k]
  BY <1>1, <1>2, UnwindSlim DEF UndoEdges
<1> QED  BY <1>1, <1>3

\* So does a chain whose Forget is acknowledged.
LEMMA Forgotten ==
    ASSUME ServiceInv, LedgerOK, JournalOK, UnwindOK, NEW k \in Keys, Watched(k),
           Granted, call.command = Forget(k), pc \in {"stale", "drift", "drop", "relinquish"}
    PROVE  value[k] = pre[k]
<1>1. Landed /\ ~latched /\ call.command.op = "forget" /\ call.command.key = k
  BY DEF Granted, Acknowledge, Called, Landed, ServiceInv, Forget
<1>2. ~InForce /\ ExpectedEdges(k) = << >>
  BY <1>1 DEF InForce, IntentLabels, ExpectedEdges
<1>3. journal.committed[k] = << >> /\ journal.pending = {}
  BY <1>1, <1>2 DEF LedgerOK
<1> QED  BY <1>3, Settled

\* And a restoration whose commit is acknowledged.
LEMMA Restored ==
    ASSUME StepOK, StateTypes, PhaseOK, ServiceInv, CallOK, LedgerOK, JournalOK, UnwindOK,
           Watched(at.key), Granted, pc = "commit", at.mode # "claim"
    PROVE  value[at.key] = pre[at.key]
<1>1. Landed /\ ~latched /\ call.command = Commit(at.id)
  BY DEF Granted, Acknowledge, Called, Landed, ServiceInv, CallOK
<1>2. at.key \in Keys /\ CompactOrPush(OwnedEdges(at.key), ThisEdge) = << >>
  BY CompactOwned
<1>3. ~InForce /\ ExpectedEdges(at.key) = << >>
  BY <1>1, <1>2 DEF InForce, ExpectedEdges, Commit
<1>4. journal.committed[at.key] = << >> /\ journal.pending = {}
  BY <1>1, <1>2, <1>3 DEF LedgerOK
<1> QED  BY <1>2, <1>4, Settled

\* And a transition of an unmanaged process that has been taken back.
LEMMA TakenBack ==
    ASSUME TypeOK, StepOK, PhaseOK, ServiceInv, CallOK, LedgerOK, JournalOK, UnwindOK,
           Watched(at.key), pc = "check", value[at.key] = at.seen, managed[at.key] = NoManaged
    PROVE  value[at.key] = pre[at.key]
<1>1. at \in Steps /\ at.key \in Keys /\ at.id \in Ids /\ ThisEdge \in Edge /\ at.seen # at.target
  BY DEF StepOK, StepLabels, IntentLabels, Steps, ThisEdge, Edge, PhaseOK
<1>2. ~latched /\ call = NoCall /\ ~Landed /\ ~Undone
  BY DEF CallOK, Landed, Undone, IntentLabels
<1>3. InForce /\ ExpectedEdges(at.key) = << >>
  BY <1>2 DEF InForce, ExpectedEdges, OwnedEdges, IntentLabels
<1>4. journal.committed[at.key] = << >> /\ journal.pending = {ThisIntent}
  BY <1>1, <1>2, <1>3 DEF LedgerOK
<1>5. PendingOf(journal, at.key) = {ThisIntent} /\ ThisIntent.edge = ThisEdge
  BY <1>4 DEF PendingOf, ThisIntent
<1>6. UndoPending({ThisIntent}, at.seen) = at.seen
  BY <1>1, <1>5 DEF UndoPending, UndoEdge, ThisEdge
<1>7. Slim(journal) /\ Unwind(journal, at.key, at.seen) = pre[at.key]
  BY <1>1 DEF JournalOK, UnwindOK, Recovers, Futures
<1>8. UndoPending(PendingOf(journal, at.key), at.seen) = at.seen
  BY <1>5, <1>6
<1>9. Unwind(journal, at.key, at.seen) = at.seen
  BY <1>1, <1>4, <1>7, <1>8, UnwindSlim DEF UndoEdges
<1> QED  BY <1>7, <1>9

\* How the controller stops managing a process.
LEMMA ManagedLoss ==
    ASSUME StepOK, StateTypes, [Next]_mpVars, NEW k \in Keys,
           managed[k] # NoManaged, managed'[k] = NoManaged
    PROVE  \/ RelinquishStale /\ Granted /\ k \in Stale(at.key)
              /\ k = CHOOSE s \in Stale(at.key) : TRUE
           \/ RelinquishDrifted /\ Granted /\ k = at.key
           \/ DropExited /\ Granted /\ k = at.key
           \/ (ReturnPreserved \/ ReturnReconcile) /\ Undone /\ k = at.key
<1>1. managed[k] \in ManagedType
  BY DEF StateTypes
<1>2. AttemptActs
  <2>1. CASE \/ (\E o \in PolicyOwners, j \in Keys, c \in Claims : ApplyPolicyClaim(o, j, c))
             \/ (\E j \in Keys, v \in Values : ApplyProcessListAction(j, v))
             \/ (\E o \in PolicyOwners, active \in SUBSET Keys : ReleasePolicyExcept(o, active))
             \/ RetryPendingReleases \/ Shutdown \/ ReturnApply \/ NextKey \/ LoopDone
             \/ (\E j \in Keys, v \in Values : OutsiderSets(j, v))
             \/ (\E j \in Keys : ProcessExits(j) \/ ProcessStarts(j) \/ Replay(j))
             \/ Crash \/ OtherLatches \/ ServiceStep \/ UNCHANGED mpVars
    <3>1. managed' = managed
      BY <2>1 DEF ApplyPolicyClaim, ApplyProcessListAction, ReleasePolicyExcept,
         RetryPendingReleases, Shutdown, ReturnApply, NextKey, LoopDone, OutsiderSets,
         ProcessExits, ProcessStarts, Replay, Crash, OtherLatches, ServiceStep, stateVars,
         mpVars
    <3> QED  BY <3>1
  <2> QED  BY <2>1 DEF AttemptActs, Next, Entry, Controller, Environment
<1>3. at \in Steps /\ at.key \in Keys
  <2>1. pc \in StepLabels
    BY <1>2 DEF AttemptActs, Open, RelinquishStale, Query, RelinquishDrifted, Decide,
       BeginChange,
       SetPriority, Verify, CommitChange, Restore, CheckRestored, CancelChange, RetainChange,
       Observe, Relinquish, Recheck, ReturnPreserved, ReturnReconcile, DropExited,
       StepLabels, AttemptLabels, IntentLabels, ReleaseLabels
  <2> QED  BY <2>1 DEF StepOK, Steps
<1>4. CASE \/ Open \/ Query \/ BeginChange \/ SetPriority \/ Verify \/ Restore
           \/ CheckRestored \/ CancelChange \/ Observe \/ Relinquish
  <2>1. managed' = managed
    BY <1>4 DEF Open, Query, BeginChange, SetPriority, Verify, Restore, CheckRestored,
       CancelChange, Observe, Relinquish, Ask, stateVars
  <2> QED  BY <2>1
<1>5. CASE Decide \/ Recheck
  <2>1. \/ managed' = managed
        \/ managed' = [managed EXCEPT ![at.key].owner = at.claim.owner] /\ at.mode = "claim"
        \/ managed' = [managed EXCEPT ![at.key].expected = at.target]
    BY <1>5 DEF Decide, DecidePreserved, DecideUnchanged, Recheck, stateVars, StepOK,
       AttemptLabels
  <2>2. at.mode = "claim" => at.claim.owner \in Owners
    BY <1>5 DEF Decide, Recheck, StepOK, StepLabels, AttemptLabels, ReleaseLabels, Claim
  <2>3. at.target \in Values
    BY <1>3 DEF Steps
  <2>4. \A o \in Owners : [managed[k] EXCEPT !.owner = o] \in ManagedType
    BY <1>1 DEF ManagedType
  <2>5. \A v \in Values : [managed[k] EXCEPT !.expected = v] \in ManagedType
    BY <1>1 DEF ManagedType
  <2>6. managed'[k] = managed[k] \/ managed'[k] \in ManagedType
    BY <1>3, <2>1, <2>2, <2>3, <2>4, <2>5 DEF StateTypes
  <2> QED  BY <2>6, SentinelAssumption
<1>6. CASE CommitChange \/ RetainChange
  <2>1. managed' = managed \/ (Own /\ at.mode = "claim")
    BY <1>6 DEF CommitChange, RetainChange, Ask, stateVars
  <2>2. CASE Own /\ at.mode = "claim"
    <3>1. at.id \in Ids /\ at.claim \in Claim /\ at.target \in Values /\ at.seen \in Values
      BY <1>3, <1>6, <2>2 DEF CommitChange, RetainChange, StepOK, StepLabels, IntentLabels,
         Steps
    <3>2. Baseline \in Values
      BY <1>3, <3>1 DEF Baseline, StateTypes, ManagedType
    <3>3. [baseline |-> Baseline, expected |-> at.target,
           owner |-> at.claim.owner, sequence |-> at.id] \in ManagedType
      BY <3>1, <3>2 DEF ManagedType, Claim
    <3> QED  BY <1>3, <2>2, <3>3, SentinelAssumption DEF Own, StateTypes
  <2> QED  BY <2>1, <2>2
<1>7. CASE RelinquishStale
  <2> DEFINE s == CHOOSE s \in Stale(at.key) : TRUE
  <2>1. Granted /\ Stale(at.key) # {} /\ managed' = [managed EXCEPT ![s] = NoManaged]
    BY <1>7 DEF RelinquishStale, Disown, Ask, stateVars
  <2>2. s \in Stale(at.key) /\ s \in Keys
    BY <2>1 DEF Stale
  <2>3. k = s
    BY <2>1, <2>2 DEF StateTypes
  <2> QED  BY <1>7, <2>1, <2>2, <2>3
<1>8. CASE RelinquishDrifted \/ DropExited
  <2>1. Granted /\ managed' = [managed EXCEPT ![at.key] = NoManaged]
    BY <1>8 DEF RelinquishDrifted, DropExited, Disown, Ask, stateVars
  <2>2. k = at.key
    BY <1>3, <2>1 DEF StateTypes
  <2> QED  BY <1>8, <2>1, <2>2
<1>9. CASE ReturnPreserved \/ ReturnReconcile
  <2>1. pc = "return" /\ result = "ok" /\ at.mode # "claim"
        /\ managed' = [managed EXCEPT ![at.key] = NoManaged]
    BY <1>9 DEF ReturnPreserved, ReturnReconcile, Disown
  <2>2. k = at.key
    BY <1>3, <2>1 DEF StateTypes
  <2> QED  BY <1>9, <2>1, <2>2 DEF Undone
<1> QED  BY <1>2, <1>4, <1>5, <1>6, <1>7, <1>8, <1>9 DEF AttemptActs

\* A change that took effect, or may have, is managed.
LEMMA OwnManages ==
    ASSUME StateTypes, Own, at \in Steps, at.id \in Ids, at.claim \in Claim
    PROVE  managed'[at.key] # NoManaged
<1>1. at.key \in Keys /\ at.target \in Values /\ at.seen \in Values
  BY DEF Steps
<1>2. Baseline \in Values
  BY <1>1 DEF Baseline, StateTypes, ManagedType
<1>3. [baseline |-> Baseline, expected |-> at.target,
       owner |-> at.claim.owner, sequence |-> at.id] \in ManagedType
  BY <1>1, <1>2 DEF ManagedType, Claim
<1> QED  BY <1>1, <1>3, SentinelAssumption DEF Own, StateTypes

\* A transition ends in a managed change, or where it began.
LEMMA TransitEnds ==
    ASSUME StepOK, StateTypes, CallOK, [Next]_mpVars, NEW k \in Keys, Moving(k), ~Moving(k)',
           pc' # "dead", managed'[k] = NoManaged
    PROVE  /\ k = at.key /\ managed[k] = NoManaged
           /\ pc = "check" /\ pc' = "cancel" /\ value[k] = at.seen
<1>1. /\ pc \in IntentLabels \ {"cancel"} /\ k = at.key /\ pc \in StepLabels
      /\ at \in Steps /\ at.id \in Ids
  BY DEF Moving, StepOK, StepLabels, IntentLabels
<1>2. managed[k] = NoManaged
  <2> SUFFICES ASSUME managed[k] # NoManaged PROVE FALSE
    OBVIOUS
  <2> QED
    BY <1>1, ManagedLoss DEF RelinquishStale, RelinquishDrifted, DropExited, ReturnPreserved,
       ReturnReconcile, IntentLabels
<1>3. at.mode = "claim"
  BY <1>1, <1>2 DEF StepOK, Owned
<1>4. CASE SetPriority \/ Verify \/ Restore
  <2>1. pc' \in {"verify", "restore", "commit", "check", "retain"} /\ at' = at
    BY <1>4 DEF SetPriority, Verify, Restore, Goto
  <2> QED  BY <1>1, <2>1 DEF Moving, IntentLabels
<1>5. CASE CheckRestored
  <2>1. at' = at /\ (pc' = "retain" \/ (pc' = "cancel" /\ value[at.key] = at.seen)) /\ pc = "check"
    BY <1>5 DEF CheckRestored, Goto
  <2>2. pc' # "retain"
    BY <1>1, <2>1 DEF Moving, IntentLabels
  <2> QED  BY <1>1, <1>2, <2>1, <2>2
<1>6. CASE CommitChange
  <2>1. UNCHANGED <<pc, at>> \/ Own
    BY <1>3, <1>6 DEF CommitChange, Ask, callVars
  <2>2. CASE UNCHANGED <<pc, at>>
    BY <1>1, <2>2 DEF Moving
  <2>3. CASE Own
    BY <1>1, <1>3, <2>3, OwnManages DEF StepOK
  <2> QED  BY <2>1, <2>2, <2>3
<1>7. CASE RetainChange
  <2>1. Own
    BY <1>3, <1>7 DEF RetainChange
  <2> QED  BY <1>1, <1>3, <2>1, OwnManages DEF StepOK
<1>8. CASE \/ (\E j \in Keys, v \in Values : OutsiderSets(j, v))
           \/ (\E j \in Keys : ProcessExits(j) \/ ProcessStarts(j) \/ Replay(j))
           \/ OtherLatches \/ ServiceStep \/ UNCHANGED mpVars
  <2>1. UNCHANGED <<pc, at>>
    BY <1>8 DEF OutsiderSets, ProcessExits, ProcessStarts, Replay, OtherLatches, ServiceStep,
       mpVars, callVars
  <2> QED  BY <1>1, <2>1 DEF Moving
<1>9. CASE Crash
  BY <1>9 DEF Crash, Idle
<1>10. CASE \/ (\E o \in PolicyOwners, j \in Keys, c \in Claims : ApplyPolicyClaim(o, j, c))
            \/ (\E j \in Keys, v \in Values : ApplyProcessListAction(j, v))
            \/ (\E o \in PolicyOwners, active \in SUBSET Keys : ReleasePolicyExcept(o, active))
            \/ RetryPendingReleases \/ Shutdown \/ Open \/ RelinquishStale \/ Query
            \/ RelinquishDrifted \/ Decide \/ BeginChange \/ CancelChange \/ Observe
            \/ Relinquish \/ Recheck \/ ReturnPreserved \/ ReturnApply \/ ReturnReconcile
            \/ DropExited \/ NextKey \/ LoopDone
  BY <1>1, <1>10 DEF ApplyPolicyClaim, ApplyProcessListAction, ReleasePolicyExcept,
     RetryPendingReleases, Shutdown, Open, RelinquishStale, Query, RelinquishDrifted, Decide,
     BeginChange, CancelChange, Observe, Relinquish, Recheck, ReturnPreserved, ReturnApply,
     ReturnReconcile, DropExited, NextKey, LoopDone, IntentLabels
<1> QED
  BY <1>4, <1>5, <1>6, <1>7, <1>8, <1>9, <1>10 DEF Next, Entry, Controller, Environment

\* The dead stay dead.
LEMMA DeadStays == pc = "dead" /\ [Next]_mpVars => pc' = "dead"
<1> SUFFICES ASSUME pc = "dead", [Next]_mpVars PROVE pc' = "dead"
  OBVIOUS
<1>1. CASE Entry
  BY <1>1 DEF Entry, ApplyPolicyClaim, ApplyProcessListAction, ReleasePolicyExcept,
     RetryPendingReleases, Shutdown
<1>2. CASE Controller
  BY <1>2 DEF Controller, Open, RelinquishStale, Query, RelinquishDrifted, Decide, BeginChange,
     SetPriority, Verify, CommitChange, Restore, CheckRestored, CancelChange, RetainChange,
     Observe, Relinquish, Recheck, ReturnPreserved, ReturnApply, ReturnReconcile, DropExited,
     NextKey, LoopDone
<1>3. CASE Environment
  BY <1>3 DEF Environment, OutsiderSets, ProcessExits, ProcessStarts, Replay, Crash,
     OtherLatches, ServiceStep, callVars
<1>4. CASE UNCHANGED mpVars
  BY <1>4 DEF mpVars, callVars
<1> QED  BY <1>1, <1>2, <1>3, <1>4 DEF Next

\* What the controller gives up stands where somebody else set it.
LEMMA UnmanagedStep ==
    ASSUME TypeOK, ServiceInv, StepOK, LifeOK, CallOK, StateTypes, WorldTypes, PhaseOK,
           LedgerOK, JournalOK, UnwindOK, ValueOK, [Next]_mpVars
    PROVE  UnmanagedOK'
<1> SUFFICES ASSUME NEW k \in Keys, pc' # "dead", Watched(k)', managed'[k] = NoManaged, ~Moving(k)'
             PROVE  value'[k] = pre'[k]
  BY DEF UnmanagedOK
<1>1. pc # "dead"
  BY DeadStays
<1>2. CASE UNCHANGED worldVars
  <2>1. Watched(k) /\ value' = value /\ pre' = pre
    BY <1>2 DEF Watched, worldVars
  <2>2. CASE managed[k] = NoManaged /\ ~Moving(k)
    BY <1>1, <2>1, <2>2 DEF ValueOK, UnmanagedOK
  <2>3. CASE Moving(k)
    BY <2>1, <2>3, TransitEnds, TakenBack
  <2>4. CASE managed[k] # NoManaged
    <3>1. CASE RelinquishStale /\ k \in Stale(at.key)
      BY <2>1, <3>1 DEF RelinquishStale, LifeOK, Watched
    <3>2. CASE RelinquishDrifted /\ Granted /\ k = at.key
      <4>1. pc = "drift" /\ call.command = Forget(at.key)
        BY <3>2 DEF RelinquishDrifted, CallOK, Granted, Acknowledge, Called
      <4> QED  BY <2>1, <3>2, <4>1, Forgotten
    <3>3. CASE DropExited /\ k = at.key
      BY <2>1, <3>3 DEF DropExited, LifeOK, Watched
    <3>4. CASE Undone /\ k = at.key
      BY <2>1, <3>4 DEF ValueOK, AtHandOK, Undone, StepLabels
    <3> QED  BY <2>4, <3>1, <3>2, <3>3, <3>4, ManagedLoss
  <2> QED  BY <2>2, <2>3, <2>4
<1>3. CASE SetPriority \/ Restore
  <2>1. /\ UNCHANGED <<managed, life, pre, mixed, at>> /\ pc \in IntentLabels
        /\ pc' \in IntentLabels \ {"cancel"} /\ call = NoCall
    BY <1>3 DEF SetPriority, Restore, Goto, stateVars, IntentLabels, CallOK
  <2>2. k # at.key /\ ~Moving(k)
    BY <2>1 DEF Moving
  <2>3. value'[k] = value[k]
    BY <1>3, <2>2 DEF SetPriority, Restore, WorldTypes
  <2> QED  BY <1>1, <2>1, <2>2, <2>3 DEF ValueOK, UnmanagedOK, Watched
<1>4. ASSUME NEW j \in Keys, NEW v \in Values, OutsiderSets(j, v) PROVE value'[k] = pre'[k]
  <2>1. /\ UNCHANGED <<managed, pc, at, life>>
        /\ value' = [value EXCEPT ![j] = v] /\ pre' = [pre EXCEPT ![j] = v]
        /\ \E b : mixed' = [mixed EXCEPT ![j] = b]
    BY <1>4 DEF OutsiderSets, stateVars, callVars
  <2>2. CASE k = j
    BY <2>1, <2>2 DEF WorldTypes
  <2>3. CASE k # j
    <3>1. value'[k] = value[k] /\ pre'[k] = pre[k] /\ mixed'[k] = mixed[k]
      BY <2>1, <2>3 DEF WorldTypes
    <3> QED  BY <1>1, <2>1, <3>1 DEF ValueOK, UnmanagedOK, Watched, Moving
  <2> QED  BY <2>2, <2>3
<1>5. ASSUME NEW j \in Keys, ProcessExits(j) \/ ProcessStarts(j) PROVE value'[k] = pre'[k]
  <2>1. UNCHANGED <<managed, pc, at, value, pre, mixed>>
    BY <1>5 DEF ProcessExits, ProcessStarts, stateVars, callVars
  <2>2. Watched(k)
    BY <1>5, <2>1 DEF ProcessExits, ProcessStarts, Watched, WorldTypes
  <2> QED  BY <1>1, <2>1, <2>2 DEF ValueOK, UnmanagedOK, Moving
<1>6. ASSUME NEW j \in Keys, Replay(j) PROVE value'[k] = pre'[k]
  <2>1. /\ UNCHANGED <<managed, pc, at, life, pre, mixed>>
        /\ value' = [value EXCEPT ![j] = Unwind(journal, j, @)]
    BY <1>6 DEF Replay, stateVars, callVars
  <2>2. Watched(k)
    BY <2>1 DEF Watched
  <2>3. CASE k = j
    <3>1. value'[k] = Unwind(journal, k, value[k])
      BY <2>1, <2>3 DEF WorldTypes
    <3> QED  BY <2>1, <2>2, <3>1 DEF UnwindOK, Recovers, Futures
  <2>4. CASE k # j
    <3>1. value'[k] = value[k]
      BY <2>1, <2>4 DEF WorldTypes
    <3> QED  BY <1>1, <2>1, <2>2, <3>1 DEF ValueOK, UnmanagedOK, Moving
  <2> QED  BY <2>3, <2>4
<1> QED  BY <1>2, <1>3, <1>4, <1>5, <1>6, WorldSteps

\* Labels that rest on the value of the process at hand.
RestLabels == {"drift", "decide", "begin", "set", "relinquish", "verify", "restore",
               "commit", "cancel"}

\* At the other labels nothing is claimed of the value.
LEMMA AtHandPlain == pc' \notin RestLabels /\ ~Undone' => AtHandOK'
BY DEF RestLabels, AtHandOK

\* Steps that leave the attempt and the world alone keep what is claimed of the value.
LEMMA AtHandHeld ==
    ASSUME AtHandOK, UNCHANGED <<pc, at, result>>, UNCHANGED worldVars, Landed => Landed'
    PROVE  AtHandOK'
BY DEF AtHandOK, Undone, Watched, worldVars

\* The value of the process at hand stays the one the label rests on.
LEMMA AtHandStep ==
    ASSUME TypeOK, ServiceInv, StepOK, CallOK, StateTypes, WorldTypes, PhaseOK, LedgerOK,
           JournalOK, UnwindOK, AtHandOK, [Next]_mpVars
    PROVE  AtHandOK'
<1>1. ASSUME NEW o \in PolicyOwners, NEW k \in Keys, NEW c \in Claims, ApplyPolicyClaim(o, k, c)
      PROVE  AtHandOK'
  <2>1. pc' \in {"idle", "open"}
    BY <1>1 DEF ApplyPolicyClaim, callVars
  <2> QED  BY <2>1, AtHandPlain DEF Undone, RestLabels
<1>2. ASSUME NEW k \in Keys, NEW v \in Values, ApplyProcessListAction(k, v)
      PROVE  AtHandOK'
  <2>1. pc' \in {"open"}
    BY <1>2 DEF ApplyProcessListAction
  <2> QED  BY <2>1, AtHandPlain DEF Undone, RestLabels
<1>3. ASSUME NEW o \in PolicyOwners, NEW active \in SUBSET Keys, ReleasePolicyExcept(o, active)
      PROVE  AtHandOK'
  <2>1. pc' \in {"next"}
    BY <1>3 DEF ReleasePolicyExcept
  <2> QED  BY <2>1, AtHandPlain DEF Undone, RestLabels
<1>4. CASE RetryPendingReleases
  <2>1. pc' \in {"next"}
    BY <1>4 DEF RetryPendingReleases
  <2> QED  BY <2>1, AtHandPlain DEF Undone, RestLabels
<1>5. CASE Shutdown
  <2>1. pc' \in {"next"}
    BY <1>5 DEF Shutdown
  <2> QED  BY <2>1, AtHandPlain DEF Undone, RestLabels
<1>6. CASE Open
  <2>1. pc' \in {"stale"} \/ (pc' = "return" /\ result' # "ok")
    BY <1>6 DEF Open, Goto, Return
  <2> QED  BY <2>1, AtHandPlain DEF Undone, RestLabels
<1>7. CASE RelinquishStale
  <2>1. pc' \in {"stale", "query"} \/ (pc' = "return" /\ result' # "ok")
    BY <1>7 DEF RelinquishStale, Goto, Return, Ask, callVars
  <2> QED  BY <2>1, AtHandPlain DEF Undone, RestLabels
<1>8. CASE Query
  <2>1. pc = "query" /\ at \in Steps /\ at.key \in Keys /\ UNCHANGED <<value, life, mixed>>
    BY <1>8 DEF Query, StepOK, StepLabels, AttemptLabels, Steps, worldVars
  <2>2. \/ pc' = "return" /\ result' # "ok"
        \/ pc' \in {"drift", "decide"} /\ at' = [at EXCEPT !.seen = value[at.key]]
    BY <1>8 DEF Query, Return
  <2>3. CASE pc' = "return" /\ result' # "ok"
    BY <2>3, AtHandPlain DEF Undone, RestLabels
  <2>4. CASE pc' \in {"drift", "decide"} /\ at' = [at EXCEPT !.seen = value[at.key]]
    <3>1. at'.key = at.key /\ at'.seen = value[at.key]
      BY <2>1, <2>4 DEF Steps
    <3> QED  BY <2>1, <2>4, <3>1 DEF AtHandOK, Undone
  <2> QED  BY <2>2, <2>3, <2>4
<1>9. CASE RelinquishDrifted
  <2>1. pc = "drift" /\ pc \in StepLabels /\ UNCHANGED <<value, life, mixed>>
    BY <1>9 DEF RelinquishDrifted, Ask, worldVars, StepLabels, AttemptLabels
  <2>2. \/ pc' = "return" /\ result' # "ok"
        \/ pc' \in {"drift", "decide"} /\ at' = at
    BY <1>9 DEF RelinquishDrifted, Return, Goto, Ask, callVars
  <2>3. CASE pc' = "return" /\ result' # "ok"
    BY <2>3, AtHandPlain DEF Undone, RestLabels
  <2>4. CASE pc' \in {"drift", "decide"} /\ at' = at
    BY <2>1, <2>4 DEF AtHandOK, Undone, Watched
  <2> QED  BY <2>2, <2>3, <2>4
<1>10. CASE Decide
  <2>1. pc = "decide" /\ pc \in StepLabels /\ UNCHANGED <<value, life, mixed>> /\ at.mode = "claim"
    BY <1>10 DEF Decide, worldVars, StepOK, StepLabels, AttemptLabels
  <2>2. \/ pc' = "observe"
        \/ pc' = "return" /\ at' = at
        \/ pc' = "begin" /\ at' = at
    BY <1>10 DEF Decide, DecidePreserved, DecideUnchanged, Return, Goto
  <2>3. CASE pc' = "observe" \/ (pc' = "return" /\ at' = at)
    BY <2>1, <2>3, AtHandPlain DEF Undone, RestLabels
  <2>4. CASE pc' = "begin" /\ at' = at
    BY <2>1, <2>4 DEF AtHandOK, Undone, Watched
  <2> QED  BY <2>2, <2>3, <2>4
<1>11. CASE BeginChange
  <2>1. /\ pc = "begin" /\ pc \in StepLabels /\ UNCHANGED <<value, life, mixed>>
        /\ at \in Steps
    BY <1>11 DEF BeginChange, worldVars, StepOK, StepLabels
  <2>2. \/ pc' = "recheck" \/ (pc' = "return" /\ result' # "ok")
        \/ pc' = "begin" /\ at' = [at EXCEPT !.id = nextId]
        \/ pc' = "set" /\ at' = at
    BY <1>11 DEF BeginChange, Return, Goto
  <2>3. CASE pc' = "recheck" \/ (pc' = "return" /\ result' # "ok")
    BY <2>3, AtHandPlain DEF Undone, RestLabels
  <2>4. CASE \/ pc' = "begin" /\ at' = [at EXCEPT !.id = nextId]
             \/ pc' = "set" /\ at' = at
    <3>1. at'.key = at.key /\ at'.seen = at.seen
      BY <2>1, <2>4 DEF Steps
    <3> QED  BY <2>1, <2>4, <3>1 DEF AtHandOK, Undone, Watched
  <2> QED  BY <2>2, <2>3, <2>4
<1>12. CASE SetPriority
  <2>1. /\ pc = "set" /\ pc \in StepLabels /\ UNCHANGED <<at, life, mixed>>
        /\ at \in Steps /\ at.key \in Keys
    BY <1>12 DEF SetPriority, Goto, StepOK, StepLabels, IntentLabels, Steps
  <2>2. \/ pc' = "verify" /\ value'[at.key] = at.target
        \/ pc' = "restore" /\ value'[at.key] \in {value[at.key], at.target}
    BY <1>12, <2>1 DEF SetPriority, Goto, WorldTypes
  <2> QED  BY <2>1, <2>2 DEF AtHandOK, Undone, Watched
<1>13. CASE Verify
  <2>1. /\ pc = "verify" /\ pc \in StepLabels /\ UNCHANGED <<at, value, life, mixed>>
        /\ at.seen # at.target
    BY <1>13 DEF Verify, Goto, worldVars, StepLabels, IntentLabels, PhaseOK
  <2>2. pc' \in {"commit", "restore"}
    BY <1>13 DEF Verify, Goto
  <2> QED  BY <2>1, <2>2 DEF AtHandOK, Undone, Watched
<1>14. CASE CommitChange
  <2>1. /\ pc = "commit" /\ pc \in StepLabels /\ UNCHANGED <<value, life, mixed, pre>>
    BY <1>14 DEF CommitChange, Ask, worldVars, StepLabels, IntentLabels
  <2>2. \/ pc' = "recheck" \/ (pc' = "return" /\ result' # "ok")
        \/ call = NoCall /\ UNCHANGED <<pc, at>>
        \/ Granted /\ pc' = "return" /\ at' = at
    BY <1>14 DEF CommitChange, Return, Ask, Submit, callVars
  <2>3. CASE pc' = "recheck" \/ (pc' = "return" /\ result' # "ok")
    BY <2>3, AtHandPlain DEF Undone, RestLabels
  <2>4. CASE call = NoCall /\ UNCHANGED <<pc, at>>
    BY <2>1, <2>4 DEF AtHandOK, Undone, Watched, Landed
  <2>5. CASE Granted /\ pc' = "return" /\ at' = at
    <3>1. Watched(at.key) /\ at.mode # "claim" => value[at.key] = pre[at.key]
      BY <2>1, <2>5, Restored
    <3> QED  BY <2>1, <2>5, <3>1 DEF AtHandOK, Undone, Watched
  <2> QED  BY <2>2, <2>3, <2>4, <2>5
<1>15. CASE Restore
  <2>1. pc' \in {"check", "retain"}
    BY <1>15 DEF Restore, Goto
  <2> QED  BY <2>1, AtHandPlain DEF Undone, RestLabels
<1>16. CASE CheckRestored
  <2>1. UNCHANGED <<at, value, life, mixed>> /\ at.seen # at.target
    BY <1>16 DEF CheckRestored, Goto, worldVars, PhaseOK, IntentLabels
  <2>2. pc' = "retain" \/ (pc' = "cancel" /\ value[at.key] = at.seen)
    BY <1>16 DEF CheckRestored, Goto
  <2> QED  BY <2>1, <2>2 DEF AtHandOK, Undone, Watched
<1>17. CASE CancelChange
  <2>1. pc = "cancel" /\ pc \in StepLabels /\ UNCHANGED <<value, life, mixed>>
    BY <1>17 DEF CancelChange, Ask, worldVars, StepLabels, IntentLabels
  <2>2. \/ pc' = "recheck" \/ (pc' = "return" /\ result' # "ok")
        \/ call = NoCall /\ UNCHANGED <<pc, at>>
    BY <1>17 DEF CancelChange, Return, Goto, Ask, Submit, callVars
  <2>3. CASE pc' = "recheck" \/ (pc' = "return" /\ result' # "ok")
    BY <2>3, AtHandPlain DEF Undone, RestLabels
  <2>4. CASE call = NoCall /\ UNCHANGED <<pc, at>>
    BY <2>1, <2>4 DEF AtHandOK, Undone, Watched, Landed
  <2> QED  BY <2>2, <2>3, <2>4
<1>18. CASE RetainChange
  <2>1. pc' \in {"recheck"} \/ (pc' = "return" /\ result' # "ok")
    BY <1>18 DEF RetainChange, Goto, Return
  <2> QED  BY <2>1, AtHandPlain DEF Undone, RestLabels
<1>19. CASE Observe
  <2>1. at \in Steps /\ at.key \in Keys /\ UNCHANGED <<value, life, mixed>>
    BY <1>19 DEF Observe, StepOK, StepLabels, ReleaseLabels, Steps, worldVars
  <2>2. \/ pc' = "return" /\ result' # "ok"
        \/ /\ pc' \in {"relinquish", "begin"}
           /\ at' = [at EXCEPT !.seen = value[at.key], !.target = managed[at.key].baseline]
    BY <1>19 DEF Observe, Return
  <2>3. CASE pc' = "return" /\ result' # "ok"
    BY <2>3, AtHandPlain DEF Undone, RestLabels
  <2>4. CASE /\ pc' \in {"relinquish", "begin"}
             /\ at' = [at EXCEPT !.seen = value[at.key], !.target = managed[at.key].baseline]
    <3>1. at'.key = at.key /\ at'.seen = value[at.key]
      BY <2>1, <2>4 DEF Steps
    <3> QED  BY <2>1, <2>4, <3>1 DEF AtHandOK, Undone
  <2> QED  BY <2>2, <2>3, <2>4
<1>20. CASE Relinquish
  <2>1. /\ pc = "relinquish" /\ pc \in StepLabels /\ at.key \in Keys
        /\ UNCHANGED <<value, life, mixed, pre>>
    BY <1>20 DEF Relinquish, Ask, worldVars, StepOK, StepLabels, ReleaseLabels, Steps
  <2>2. \/ pc' = "return" /\ result' # "ok"
        \/ UNCHANGED <<pc, at>>
        \/ Granted /\ pc' = "return" /\ at' = at
    BY <1>20 DEF Relinquish, Return, Ask, callVars
  <2>3. CASE pc' = "return" /\ result' # "ok"
    BY <2>3, AtHandPlain DEF Undone, RestLabels
  <2>4. CASE UNCHANGED <<pc, at>>
    BY <2>1, <2>4 DEF AtHandOK, Undone, Watched
  <2>5. CASE Granted /\ pc' = "return" /\ at' = at
    <3>1. call.command = Forget(at.key)
      BY <2>1, <2>5 DEF CallOK, Granted, Acknowledge, Called
    <3>2. Watched(at.key) => value[at.key] = pre[at.key]
      BY <2>1, <2>5, <3>1, Forgotten
    <3> QED  BY <2>1, <2>5, <3>2 DEF AtHandOK, Undone, Watched
  <2> QED  BY <2>2, <2>3, <2>4, <2>5
<1>21. CASE Recheck
  <2>1. pc' \in {"recheck"} \/ (pc' = "return" /\ result' # "ok")
    BY <1>21 DEF Recheck, Return
  <2> QED  BY <2>1, AtHandPlain DEF Undone, RestLabels
<1>22. CASE ReturnPreserved
  <2>1. pc = "return" /\ pc' = "return" /\ at'.mode = "claim"
    BY <1>22 DEF ReturnPreserved, StepOK, StepLabels, Steps
  <2> QED  BY <2>1, AtHandPlain DEF Undone, RestLabels
<1>23. CASE ReturnApply
  <2>1. pc' \in {"idle"}
    BY <1>23 DEF ReturnApply, Idle
  <2> QED  BY <2>1, AtHandPlain DEF Undone, RestLabels
<1>24. CASE ReturnReconcile
  <2>1. pc' \in {"next", "drop"}
    BY <1>24 DEF ReturnReconcile, Goto
  <2> QED  BY <2>1, AtHandPlain DEF Undone, RestLabels
<1>25. CASE DropExited
  <2>1. pc' \in {"next", "drop"}
    BY <1>25 DEF DropExited, Goto, Ask, callVars
  <2> QED  BY <2>1, AtHandPlain DEF Undone, RestLabels
<1>26. CASE NextKey
  <2>1. pc' \in {"next", "open", "observe"}
    BY <1>26 DEF NextKey
  <2> QED  BY <2>1, AtHandPlain DEF Undone, RestLabels
<1>27. CASE LoopDone
  <2>1. pc' \in {"idle", "stopped"}
    BY <1>27 DEF LoopDone, Idle
  <2> QED  BY <2>1, AtHandPlain DEF Undone, RestLabels
<1>28. ASSUME NEW k \in Keys, NEW v \in Values, OutsiderSets(k, v)
       PROVE  AtHandOK'
  <2>1. /\ UNCHANGED <<pc, at, result, call, life>>
        /\ value' = [value EXCEPT ![k] = v] /\ pre' = [pre EXCEPT ![k] = v]
        /\ mixed' = [mixed EXCEPT ![k] = InTransition(k) \/ v \in OurValues(k)]
    BY <1>28 DEF OutsiderSets, callVars, serviceVars
  <2> SUFFICES ASSUME pc \in StepLabels, Watched(at.key)' PROVE AtHandOK'
    BY <2>1 DEF AtHandOK
  <2>2. CASE k # at.key
    <3>1. /\ value'[at.key] = value[at.key] /\ pre'[at.key] = pre[at.key]
          /\ mixed'[at.key] = mixed[at.key]
      BY <2>1, <2>2 DEF WorldTypes
    <3> QED  BY <2>1, <3>1 DEF AtHandOK, Watched, Undone, Landed
  <2>3. CASE k = at.key
    <3>1. value'[at.key] = v /\ pre'[at.key] = v /\ ~InTransition(k) /\ v \notin OurValues(k)
      BY <2>1, <2>3 DEF WorldTypes, Watched
    <3>2. at \in Steps /\ at # NoStep
      BY SentinelAssumption DEF StepOK
    <3>3. pc \notin {"drift", "decide", "begin", "set", "verify", "restore", "relinquish"}
      BY <2>3, <3>1, <3>2 DEF InTransition
    <3>4. ASSUME pc \in {"commit", "cancel"}, ~Landed PROVE v # at.seen /\ v # at.target
      <4>1. ~latched /\ journal.pending = {ThisIntent}
        BY <3>4 DEF CallOK, LedgerOK, InForce, IntentLabels
      <4>2. ThisEdge \in {p.edge : p \in PendingOf(journal, k)}
        BY <2>3, <4>1 DEF PendingOf, ThisIntent
      <4>3. v \notin {ThisEdge.original, ThisEdge.expected}
        BY <3>1, <4>2 DEF OurValues, EdgeValues
      <4> QED  BY <4>3 DEF ThisEdge
    <3> QED  BY <2>1, <3>1, <3>3, <3>4 DEF AtHandOK, Undone, Landed
  <2> QED  BY <2>2, <2>3
<1>29. ASSUME NEW k \in Keys, ProcessExits(k)
       PROVE  AtHandOK'
  <2>1. UNCHANGED <<pc, at, result, call, value, pre, mixed>>
    BY <1>29 DEF ProcessExits, callVars, serviceVars
  <2>2. pc \in StepLabels => at.key \in Keys
    BY DEF StepOK, Steps
  <2>3. \A j \in Keys : Watched(j)' => Watched(j)
    BY <1>29, <2>1 DEF ProcessExits, Watched, WorldTypes
  <2> QED  BY <2>1, <2>2, <2>3 DEF AtHandOK, Undone, Landed
<1>30. ASSUME NEW k \in Keys, ProcessStarts(k)
       PROVE  AtHandOK'
  <2>1. UNCHANGED <<pc, at, result, call, value, pre, mixed>>
    BY <1>30 DEF ProcessStarts, callVars, serviceVars
  <2>2. pc \in StepLabels => at.key \in Keys
    BY DEF StepOK, Steps
  <2>3. \A j \in Keys : Watched(j)' => Watched(j)
    BY <1>30, <2>1 DEF ProcessStarts, Watched, WorldTypes
  <2> QED  BY <2>1, <2>2, <2>3 DEF AtHandOK, Undone, Landed
<1>31. ASSUME NEW k \in Keys, Replay(k)
       PROVE  AtHandOK'
  <2>1. pc' \in {"dead", "stopped"}
    BY <1>31 DEF Replay, Gone, callVars
  <2> QED  BY <2>1, AtHandPlain DEF Undone, RestLabels
<1>32. CASE Crash
  <2>1. pc' \in {"dead"}
    BY <1>32 DEF Crash, Idle
  <2> QED  BY <2>1, AtHandPlain DEF Undone, RestLabels
<1>33. CASE OtherLatches
  <2>1. UNCHANGED <<pc, at, result>> /\ UNCHANGED worldVars /\ call' = call
    BY <1>33 DEF OtherLatches, Latch, callVars
  <2> QED  BY <2>1, AtHandHeld DEF Landed
<1>34. CASE ServiceStep
  <2>1. UNCHANGED <<pc, at, result>> /\ UNCHANGED worldVars /\ (Landed => Landed')
    BY <1>34 DEF ServiceStep, ServiceActs, Land, LateLand, LateLoss, Called, Landed, callVars
  <2> QED  BY <2>1, AtHandHeld
<1>35. CASE UNCHANGED mpVars
  <2>1. UNCHANGED <<pc, at, result>> /\ UNCHANGED worldVars /\ call' = call
    BY <1>35 DEF mpVars, serviceVars, callVars
  <2> QED  BY <2>1, AtHandHeld DEF Landed
<1> QED
  BY <1>1, <1>2, <1>3, <1>4, <1>5, <1>6, <1>7, <1>8, <1>9, <1>10, <1>11, <1>12, <1>13,
     <1>14, <1>15, <1>16, <1>17, <1>18, <1>19, <1>20, <1>21, <1>22, <1>23, <1>24,
     <1>25, <1>26, <1>27, <1>28, <1>29, <1>30, <1>31, <1>32, <1>33, <1>34, <1>35 DEF
     Next, Entry, Controller, Environment

--------------------------------------------------------------------------------
(***************************************************************************)
(* The inductive invariant, and what follows from it.                      *)
(***************************************************************************)
IInv ==
    /\ TypeOK /\ ServiceInv /\ StepOK /\ CallOK /\ PhaseOK
    /\ ClaimsOK /\ TodoOK /\ OwnersOK /\ LifeOK /\ RankOK /\ OrphanOK
    /\ LedgerOK /\ JournalOK /\ UnwindOK /\ ValueOK

\* A fresh controller owns nothing, and its journal is empty.
LEMMA InitInv == Init => IInv
<1> SUFFICES ASSUME Init PROVE IInv
  OBVIOUS
<1>1. ServiceInv /\ Futures = {EmptyJournal}
  BY ServiceInit_Inv DEF Init
<1>2. /\ pc = "idle" /\ op = NoOp /\ at = NoStep /\ result = "ok" /\ releases = {} /\ nextId = 1
      /\ call = NoCall /\ journal = EmptyJournal /\ pre = value
      /\ \A k \in Keys : managed[k] = NoManaged
      /\ \A o \in PolicyOwners, k \in Keys : claims[o][k] = NoClaim
  BY DEF Init, ServiceInit
<1>3. TypeOK
  <2>1. ControlTypes
    BY <1>2 DEF ControlTypes, AllLabels
  <2>2. StateTypes
    BY <1>2 DEF Init, StateTypes
  <2>3. WorldTypes
    BY DEF Init, WorldTypes
  <2>4. BoundTypes
    BY FaultsAssumption, WritesAssumption DEF Init, BoundTypes
  <2> QED  BY <1>1, <2>1, <2>2, <2>3, <2>4, TypeParts DEF ServiceInv
<1>4. pc \notin StepLabels /\ pc \notin IntentLabels /\ pc \notin AttemptLabels
      /\ pc \notin ReleaseLabels /\ pc \notin CheckedLabels
  BY <1>2 DEF StepLabels, IntentLabels, AttemptLabels, ReleaseLabels, CheckedLabels
<1>5. StepOK /\ CallOK /\ PhaseOK
  BY <1>2, <1>4 DEF StepOK, CallOK, PhaseOK
<1>6. ClaimsOK /\ TodoOK
  BY <1>2, <1>4 DEF ClaimsOK, TodoOK
<1>7. OwnersOK /\ LifeOK
  BY <1>2, <1>4 DEF Init, OwnersOK, LifeOK, ManagedKeys
<1>8. RankOK /\ OrphanOK
  BY <1>2, <1>4 DEF RankOK, OrphanOK, Outranked, Unclaimed
<1>9. LedgerOK
  <2>1. ~Landed /\ ~Undone /\ ~InForce
    BY <1>2, <1>4 DEF Landed, Undone, InForce
  <2>2. \A k \in Keys : ExpectedEdges(k) = << >>
    BY <1>2, <2>1 DEF ExpectedEdges, OwnedEdges
  <2> QED  BY <1>2, <2>1, <2>2 DEF LedgerOK, EmptyJournal
<1>10. Slim(EmptyJournal)
  BY DEF Slim, SlimEdges, EmptyJournal, JournalType
<1>11. JournalOK
  BY <1>1, <1>10 DEF JournalOK
<1>12. UnwindOK
  <2>1. ASSUME NEW k \in Keys PROVE Unwind(EmptyJournal, k, value[k]) = value[k]
    BY <1>10, UnwindForeign DEF EdgesOf, EmptyJournal, PendingOf
  <2> QED  BY <1>1, <1>2, <2>1 DEF UnwindOK, Recovers
<1>13. ValueOK
  BY <1>2, <1>4 DEF ValueOK, UnmanagedOK, AtHandOK
<1> QED  BY <1>1, <1>3, <1>5, <1>6, <1>7, <1>8, <1>9, <1>11, <1>12, <1>13 DEF IInv

\* Every step keeps the invariant.
LEMMA StepInv == IInv /\ [Next]_mpVars => IInv'
<1> SUFFICES ASSUME IInv, [Next]_mpVars PROVE IInv'
  OBVIOUS
<1>1. /\ TypeOK /\ ServiceInv /\ StepOK /\ CallOK /\ PhaseOK
      /\ ClaimsOK /\ TodoOK /\ OwnersOK /\ LifeOK /\ RankOK /\ OrphanOK
      /\ LedgerOK /\ JournalOK /\ UnwindOK /\ ValueOK
  BY DEF IInv
<1>2. ServiceTypeOK /\ ControlTypes /\ StateTypes /\ WorldTypes /\ BoundTypes
  BY <1>1, TypeParts
<1>3. ServiceInv'
  BY <1>1, ServiceMoves, ServiceStep_Inv
<1>4. TypeOK'
  <2>1. ControlTypes'
    BY <1>1, <1>2, ControlStep
  <2>2. StateTypes'
    BY <1>1, <1>2, StateStep
  <2>3. WorldTypes'
    BY <1>1, <1>2, WorldStep
  <2>4. BoundTypes'
    BY <1>2, BoundStep
  <2>5. ServiceTypeOK'
    BY <1>3 DEF ServiceInv
  <2>6. (ServiceTypeOK /\ ControlTypes /\ StateTypes /\ WorldTypes /\ BoundTypes => TypeOK)'
    BY TypeParts, PTL
  <2> QED  BY <2>1, <2>2, <2>3, <2>4, <2>5, <2>6
<1>5. StepOK' /\ CallOK'
  BY <1>1, <1>2, StepStep, CallStep
<1>6. PhaseOK'
  BY <1>1, <1>2, PhaseStep
<1>7. ClaimsOK' /\ TodoOK'
  BY <1>1, <1>2, ClaimsStep, TodoStep
<1>8. OwnersOK' /\ LifeOK'
  BY <1>1, <1>2, OwnersStep, LifeStep
<1>9. RankOK' /\ OrphanOK'
  BY <1>1, <1>2, RankStep, OrphanStep
<1>10. LedgerOK'
  BY <1>1, <1>2, LedgerStep
<1>11. JournalOK' /\ UnwindOK'
  BY <1>1, <1>2, JournalStep, UnwindStep
<1>12. ValueOK'
  <2>1. UnmanagedOK' /\ AtHandOK'
    BY <1>1, <1>2, UnmanagedStep, AtHandStep DEF ValueOK
  <2> QED  BY <2>1 DEF ValueOK
<1> QED  BY <1>1, <1>3, <1>4, <1>5, <1>6, <1>7, <1>8, <1>9, <1>10, <1>11, <1>12 DEF IInv

\* The invariant holds throughout.
LEMMA Invariance == Spec => []IInv
BY InitInv, StepInv, PTL DEF Spec

\* At any moment, whatever the controller, other programs and the helper have done, what
\* the helper's journal makes of the present value is the one somebody else set last: a
\* crash anywhere is recovered from (recover_process_key after any prefix of
\* apply_transition, release_identity and the relinquish_ functions).
THEOREM CrashAnywhere == Spec => []Recoverable
<1>1. IInv => Recoverable
  BY DEF IInv, UnwindOK, Recovers, Watched, Futures, Recoverable
<1> QED  BY <1>1, Invariance, PTL

\* Every variable keeps its type; between operations the helper's journal is exactly what
\* the controller owns (record_change against its commits, cancels and forgets); and every
\* automatic change is claimed by its owner or waits to be released (apply_policy_claim,
\* reconcile_policy_key and their failures).
THEOREM BooksInOrder == Spec => []Consistent
<1>1. IInv => LedgerAgrees
  <2> SUFFICES ASSUME IInv, pc = "idle", ~latched, NEW k \in Keys
               PROVE  Chain(journal, k) = OwnedEdges(k)
    BY DEF LedgerAgrees
  <2>1. ~Landed /\ ~Undone /\ ~InForce
    BY DEF IInv, CallOK, Landed, Undone, InForce, IntentLabels
  <2>2. journal.committed[k] = OwnedEdges(k) /\ journal.pending = {}
    BY <2>1 DEF IInv, LedgerOK, ExpectedEdges
  <2>3. PendingEdges(journal, k) = << >>
    BY <2>2, PendingNone DEF PendingOf
  <2>4. journal.committed[k] \in Seq(Edge)
    BY DEF IInv, ServiceInv, ServiceTypeOK, JournalType
  <2> QED  BY <2>2, <2>3, <2>4 DEF Chain
<1>2. IInv => NoOrphan
  <2> SUFFICES ASSUME IInv, pc = "idle", ~latched, NEW k \in ManagedKeys, Automatic(managed[k].owner)
               PROVE  EffectiveOwner(claims, k) = managed[k].owner \/ k \in releases
    BY DEF NoOrphan
  <2> QED  BY DEF IInv, OrphanOK, Unclaimed, ManagedKeys
<1>3. IInv => Consistent
  BY <1>1, <1>2 DEF IInv, Consistent
<1> QED  BY <1>3, Invariance, PTL

\* Two managed processes never have the same process id: the claim on the former bearer is
\* given up before one on the new bearer takes effect (open_process, relinquish_stale).
THEOREM OneOwnerPerId == Spec => []ReusedIdHasOneOwner
<1>1. IInv => ReusedIdHasOneOwner
  BY DEF IInv, OwnersOK, ReusedIdHasOneOwner
<1> QED  BY <1>1, Invariance, PTL

\* Between operations a change of the adaptive engine does not stand against a claim of the
\* static policy unless its release is pending (effective_claim, reconcile_policy_key).
THEOREM StaticFirst == Spec => []StaticOutranks
<1>1. IInv => StaticOutranks
  BY DEF IInv, RankOK, Outranked, StaticOutranks, ManagedKeys, StepLabels, AttemptLabels,
     IntentLabels, ReleaseLabels
<1> QED  BY <1>1, Invariance, PTL

\* After a shutdown, a process the controller no longer manages has the priority somebody
\* else set last, though calls failed, processes exited and others wrote (shutdown).
THEOREM ShutdownUndoes == Spec => []ShutdownRestores
<1>1. IInv => ShutdownRestores
  BY DEF IInv, ValueOK, UnmanagedOK, Watched, Moving, IntentLabels, ShutdownRestores
<1> QED  BY <1>1, Invariance, PTL

\* The controller, other programs and crashes move the recovery service only as the service
\* allows: what is proved of the service holds of it under this controller.
THEOREM UsesService == Spec => ServiceSpec
<1>1. Init => ServiceInit
  BY DEF Init
<1>2. IInv /\ [Next]_mpVars => [ServiceNext]_serviceVars
  BY ServiceMoves DEF IInv
<1> QED  BY <1>1, <1>2, Invariance, PTL DEF Spec, ServiceSpec
================================================================================
