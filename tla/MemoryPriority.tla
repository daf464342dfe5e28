----------------------------- MODULE MemoryPriority -----------------------------
(***************************************************************************)
(* The controller of process memory priorities                             *)
(* (src/src/control/memory_priority.rs): two policies and the process list *)
(* claim a priority for a process, the controller moves the process to it  *)
(* and back to its baseline, and every move is an intent of the recovery   *)
(* service, so that the helper can undo it after a crash.                  *)
(*                                                                         *)
(* One thread runs the controller; each call it makes to Windows or to the *)
(* recovery service is a step of its own, between which other programs     *)
(* change the same priority, processes exit, process ids are reused, and   *)
(* Winderust dies.                                                         *)
(***************************************************************************)
EXTENDS RecoveryClient

CONSTANTS
    Pid,        \* the process id of each key (process instance)
    Claims,     \* [priority, preservation] pairs a policy may claim
    MaxWrites,  \* bound on priorities set by other programs
    NoClaim, NoManaged, NoOp, NoStep

ASSUME ValuesAssumption == Values \subseteq Nat

VARIABLES
    pc, op, at, result,  \* the call in progress
    claims,     \* static_claims and adaptive_claims
    managed,    \* changes the controller owns
    releases,   \* pending_releases
    nextId,     \* RecoveryRuntime.next_intent_id
    value,      \* the memory priority of each process
    life,       \* "unborn", "alive" or "exited"
    pre,        \* history: the value somebody else set last
    mixed,      \* history: that value was set where no observer can tell it apart
    writes

callVars  == <<pc, op, at, result>>
stateVars == <<claims, managed, releases, nextId>>
worldVars == <<value, life, pre, mixed, writes>>
mpVars == <<serviceVars, callVars, stateVars, worldVars, faults>>

PolicyOwners == {"MemoryPriority", "AdaptiveEngine"}
Owners == PolicyOwners \cup {"ProcessList"}
Automatic(owner) == owner # "ProcessList"

Claim == [owner : Owners, priority : Values,
          preservation : {"Exact", "PreserveHigher", "PreserveLower"}]

ManagedType == [baseline : Values, expected : Values, owner : Owners, sequence : Ids]

Ops == [kind : {"apply", "list", "release", "retry", "shutdown"},
        owner : Owners, previous : Claim \cup {NoClaim},
        todo : SUBSET [key : Keys, rank : Nat]]

Steps == [key : Keys, claim : Claim \cup {NoClaim},
          mode : {"claim", "preserved", "release"},
          seen : Values, target : Values, id : Nat, kept : BOOLEAN]

ASSUME ClaimsAssumption ==
    Claims \subseteq [priority : Values,
                     preservation : {"Exact", "PreserveHigher", "PreserveLower"}]

ASSUME SentinelAssumption ==
    NoClaim \notin Claim /\ NoManaged \notin ManagedType /\ NoStep \notin Steps

ASSUME WritesAssumption == MaxWrites \in Nat

\* Mutant of Effective: the adaptive claim comes first.
AdaptiveFirst(C, k) ==
    IF C["AdaptiveEngine"][k] # NoClaim THEN C["AdaptiveEngine"][k] ELSE C["MemoryPriority"][k]

Effective(C, k) ==
    IF C["MemoryPriority"][k] # NoClaim THEN C["MemoryPriority"][k] ELSE C["AdaptiveEngine"][k]

EffectiveOwner(C, k) == IF Effective(C, k) = NoClaim THEN "none" ELSE Effective(C, k).owner

IsPreserved(preservation, baseline, desired) ==
    \/ preservation = "PreserveHigher" /\ baseline >= desired
    \/ preservation = "PreserveLower" /\ baseline <= desired

--------------------------------------------------------------------------------
(***************************************************************************)
(* Calls to the recovery service.  A command is sent in one step and       *)
(* answered in another; a latched service refuses it at once.              *)
(***************************************************************************)
Ask(command) ==
    /\ Submit(command)
    /\ UNCHANGED <<callVars, stateVars, worldVars, faults>>

Goto(label) == pc' = label /\ UNCHANGED <<op, at, result>>

Return(outcome) == pc' = "return" /\ result' = outcome /\ UNCHANGED <<op, at>>

Idle(label) == pc' = label /\ result' = "ok" /\ op' = NoOp /\ at' = NoStep

Disown(k) == /\ managed' = [managed EXCEPT ![k] = NoManaged]
             /\ releases' = releases \ {k}

(***************************************************************************)
(* apply_effective_claim, one key and one claim.                           *)
(***************************************************************************)
Attempt(k, claim) == [key |-> k, claim |-> claim, mode |-> "claim", seen |-> claim.priority,
                      target |-> claim.priority, id |-> 0, kept |-> FALSE]

\* Mutant of Stale: a reused process id goes unnoticed.
NoneStale(k) == {}

Stale(k) == {s \in Keys \ {k} : managed[s] # NoManaged /\ Pid[s] = Pid[k]}

Open ==
    /\ pc = "open"
    /\ \/ life[at.key] # "alive" /\ Return("exited") /\ UNCHANGED faults
       \/ Fault /\ Return("error")
       \/ life[at.key] = "alive" /\ Goto("stale") /\ UNCHANGED faults
    /\ UNCHANGED <<serviceVars, stateVars, worldVars>>

\* A process id that was reused: the claims on its previous bearer are dropped.
RelinquishStale ==
    /\ pc = "stale"
    /\ IF Stale(at.key) = {}
       THEN Goto("query") /\ UNCHANGED <<serviceVars, stateVars, worldVars, faults>>
       ELSE LET s == CHOOSE s \in Stale(at.key) : TRUE
            IN  \/ Ask(Forget(s))
                \/ Granted /\ Disown(s) /\ UNCHANGED <<callVars, claims, nextId, worldVars>>
                \/ Denied /\ Return("error") /\ UNCHANGED <<stateVars, worldVars>>

\* Mutant of Drifted: what somebody else set is not noticed.
NeverDrifted(k, seen) == FALSE

Drifted(k, seen) == managed[k] # NoManaged /\ managed[k].expected # seen

Query ==
    /\ pc = "query"
    /\ \/ Fault /\ Return("error")
       \/ /\ at' = [at EXCEPT !.seen = value[at.key]]
          /\ pc' = IF Drifted(at.key, value[at.key]) THEN "drift" ELSE "decide"
          /\ UNCHANGED <<op, result, faults>>
    /\ UNCHANGED <<serviceVars, stateVars, worldVars>>

\* Somebody else changed the priority: what they set is the new baseline.
RelinquishDrifted ==
    /\ pc = "drift"
    /\ \/ Ask(Forget(at.key))
       \/ Granted /\ Disown(at.key) /\ Goto("decide") /\ UNCHANGED <<claims, nextId, worldVars>>
       \/ Denied /\ Return("error") /\ UNCHANGED <<stateVars, worldVars>>

\* Mutant of Baseline: Winderust's own value becomes the baseline.
BaselineSeen == at.seen

Baseline == IF managed[at.key] = NoManaged THEN at.seen ELSE managed[at.key].baseline

Owned == managed[at.key] # NoManaged

DecidePreserved ==
    /\ IF Owned
       THEN /\ at' = [at EXCEPT !.mode = "preserved"]
            /\ pc' = "observe"
            /\ UNCHANGED <<op, result>>
       ELSE Return("ok")
    /\ UNCHANGED stateVars

DecideUnchanged ==
    /\ Return("ok")
    /\ IF Owned /\ (Automatic(at.claim.owner) \/ managed[at.key].owner = "ProcessList")
       THEN /\ managed' = [managed EXCEPT ![at.key].owner = at.claim.owner]
            /\ releases' = releases \ {at.key}
       ELSE UNCHANGED <<managed, releases>>
    /\ UNCHANGED <<claims, nextId>>

Decide ==
    /\ pc = "decide"
    /\ \/ /\ IsPreserved(at.claim.preservation, Baseline, at.claim.priority)
          /\ DecidePreserved
       \/ /\ ~IsPreserved(at.claim.preservation, Baseline, at.claim.priority)
          /\ IF at.seen = at.claim.priority THEN DecideUnchanged
             ELSE Goto("begin") /\ UNCHANGED stateVars
    /\ UNCHANGED <<serviceVars, worldVars, faults>>

--------------------------------------------------------------------------------
(***************************************************************************)
(* apply_transition: begin, set, verify, commit; or restore what was seen. *)
(***************************************************************************)
\* The managed entry of a change that took effect, or may have.
Own == managed' = [managed EXCEPT ![at.key] =
          [baseline |-> Baseline, expected |-> at.target,
           owner |-> at.claim.owner, sequence |-> at.id]]

\* begin_change fails before it reaches the service when the identity is unreadable.
BeginChange ==
    /\ pc = "begin"
    /\ \/ /\ nextId \in Ids
          /\ Submit(Begin(nextId, at.key, [original |-> at.seen, expected |-> at.target]))
          /\ at' = [at EXCEPT !.id = nextId]
          /\ nextId' = nextId + 1
          /\ UNCHANGED <<pc, op, result, claims, managed, releases, faults>>
       \/ Granted /\ Goto("set") /\ UNCHANGED stateVars
       \/ /\ Denied \/ (call = NoCall /\ Fault /\ UNCHANGED serviceVars)
          /\ IF at.mode = "claim" THEN Return("error") ELSE Goto("recheck")
          /\ UNCHANGED stateVars
    /\ UNCHANGED worldVars

\* An error of SetProcessInformation says nothing about the effect.
SetPriority ==
    /\ pc = "set"
    /\ \/ /\ value' = [value EXCEPT ![at.key] = at.target]
          /\ Goto("verify") /\ UNCHANGED faults
       \/ /\ Fault
          /\ value' \in {value, [value EXCEPT ![at.key] = at.target]}
          /\ Goto("restore")
    /\ UNCHANGED <<serviceVars, stateVars, life, pre, mixed, writes>>

Verify ==
    /\ pc = "verify"
    /\ \/ value[at.key] = at.target /\ Goto("commit") /\ UNCHANGED faults
       \/ value[at.key] # at.target /\ Goto("restore") /\ UNCHANGED faults
       \/ Fault /\ Goto("restore")
    /\ UNCHANGED <<serviceVars, stateVars, worldVars>>

\* A commit that is not acknowledged has latched the service: the claim keeps the
\* target, the release finds that it cannot relinquish and keeps the baseline.
CommitChange ==
    /\ pc = "commit"
    /\ \/ Ask(Commit(at.id))
       \/ /\ Granted
          /\ Return("ok")
          /\ IF at.mode = "claim"
             THEN Own /\ releases' = releases \ {at.key}
             ELSE UNCHANGED <<managed, releases>>
          /\ UNCHANGED <<claims, nextId, worldVars>>
       \/ /\ Denied
          /\ IF at.mode = "claim" THEN Own /\ Return("error")
             ELSE /\ at' = [at EXCEPT !.kept = TRUE]
                  /\ pc' = "recheck"
                  /\ UNCHANGED <<op, result, managed>>
          /\ UNCHANGED <<claims, releases, nextId, worldVars>>

Restore ==
    /\ pc = "restore"
    /\ \/ /\ value' = [value EXCEPT ![at.key] = at.seen]
          /\ Goto("check") /\ UNCHANGED faults
       \/ /\ Fault
          /\ value' \in {value, [value EXCEPT ![at.key] = at.seen]}
          /\ Goto("retain")
    /\ UNCHANGED <<serviceVars, stateVars, life, pre, mixed, writes>>

CheckRestored ==
    /\ pc = "check"
    /\ \/ value[at.key] = at.seen /\ Goto("cancel") /\ UNCHANGED faults
       \/ value[at.key] # at.seen /\ Goto("retain") /\ UNCHANGED faults
       \/ Fault /\ Goto("retain")
    /\ UNCHANGED <<serviceVars, stateVars, worldVars>>

\* The intent is dropped; the answer to its Cancel is ignored.
CancelChange ==
    /\ pc = "cancel"
    /\ \/ Ask(Cancel(at.id))
       \/ /\ Granted \/ Denied
          /\ IF at.mode = "claim" THEN Return("error") ELSE Goto("recheck")
          /\ UNCHANGED <<stateVars, worldVars>>

\* Neither applied nor restored for certain: the intent stays pending.
RetainChange ==
    /\ pc = "retain"
    /\ Latch
    /\ IF at.mode = "claim" THEN Own /\ Return("error") ELSE Goto("recheck") /\ UNCHANGED managed
    /\ UNCHANGED <<claims, releases, nextId, worldVars, faults>>

--------------------------------------------------------------------------------
(***************************************************************************)
(* release_identity: open and query, then relinquish or go back.           *)
(***************************************************************************)
Observe ==
    /\ pc = "observe"
    /\ \/ life[at.key] # "alive" /\ Return("exited") /\ UNCHANGED faults
       \/ Fault /\ Return("error")
       \/ /\ life[at.key] = "alive"
          /\ LET m == managed[at.key]
                 current == value[at.key]
             IN  /\ at' = [at EXCEPT !.seen = current, !.target = m.baseline]
                 /\ pc' = IF current # m.expected \/ current = m.baseline
                          THEN "relinquish" ELSE "begin"
          /\ UNCHANGED <<op, result, faults>>
    /\ UNCHANGED <<serviceVars, stateVars, worldVars>>

Relinquish ==
    /\ pc = "relinquish"
    /\ \/ Ask(Forget(at.key))
       \/ Granted /\ Return("ok") /\ UNCHANGED <<stateVars, worldVars>>
       \/ Denied /\ Return("error") /\ UNCHANGED <<stateVars, worldVars>>

\* The restoration failed: did the process exit meanwhile?
Recheck ==
    /\ pc = "recheck"
    /\ IF life[at.key] # "alive" THEN Return("exited") /\ UNCHANGED managed
       ELSE /\ Return("error")
            /\ managed' = IF at.kept THEN [managed EXCEPT ![at.key].expected = at.target]
                          ELSE managed
    /\ UNCHANGED <<serviceVars, claims, releases, nextId, worldVars, faults>>

--------------------------------------------------------------------------------
(***************************************************************************)
(* What the entry points do with the outcome.                              *)
(***************************************************************************)
ReturnPreserved ==
    /\ pc = "return" /\ at.mode = "preserved"
    /\ at' = [at EXCEPT !.mode = "claim"]
    /\ IF result = "ok" THEN Disown(at.key) ELSE UNCHANGED <<managed, releases>>
    /\ UNCHANGED <<serviceVars, pc, op, result, claims, nextId, worldVars, faults>>

\* apply_policy_claim puts the previous claim back; the process list keeps none.
ReturnApply ==
    /\ pc = "return" /\ at.mode = "claim" /\ op.kind \in {"apply", "list"}
    /\ Idle("idle")
    /\ claims' = IF op.kind = "apply" /\ result # "ok"
                 THEN [claims EXCEPT ![op.owner][at.key] = op.previous] ELSE claims
    /\ UNCHANGED <<serviceVars, managed, releases, nextId, worldVars, faults>>

\* reconcile_policy_key and shutdown.
ReturnReconcile ==
    /\ pc = "return" /\ at.mode # "preserved" /\ op.kind \in {"release", "retry", "shutdown"}
    /\ Goto(IF result = "exited" /\ Owned THEN "drop" ELSE "next")
    /\ IF result = "ok" /\ at.mode = "release" THEN Disown(at.key)
       ELSE /\ releases' = IF result = "error" /\ at.mode = "claim" /\ Owned
                           THEN releases \cup {at.key} ELSE releases
            /\ UNCHANGED managed
    /\ UNCHANGED <<serviceVars, claims, nextId, worldVars, faults>>

DropExited ==
    /\ pc = "drop"
    /\ \/ Ask(Forget(at.key))
       \/ Granted /\ Disown(at.key) /\ Goto("next") /\ UNCHANGED <<claims, nextId, worldVars>>
       \/ Denied /\ Goto("next") /\ UNCHANGED <<stateVars, worldVars>>

--------------------------------------------------------------------------------
(***************************************************************************)
(* The entry points.                                                       *)
(***************************************************************************)
Start(kind, owner, previous, todo) ==
    op' = [kind |-> kind, owner |-> owner, previous |-> previous, todo |-> todo]

\* Bound: an operation that may move a priority starts only while enough ids are
\* left for every release that may follow it.
Room == nextId + Cardinality(Keys) + MaxFaults + MaxWrites \in Ids

ApplyPolicyClaim(owner, k, c) ==
    LET claim == [owner |-> owner, priority |-> c.priority, preservation |-> c.preservation]
    IN  /\ pc = "idle" /\ Room /\ life[k] # "unborn"
        /\ claims' = [claims EXCEPT ![owner][k] = claim]
        /\ IF EffectiveOwner(claims', k) # owner
           THEN UNCHANGED callVars
           ELSE /\ Start("apply", owner, claims[owner][k], {})
                /\ at' = Attempt(k, claim)
                /\ pc' = "open" /\ UNCHANGED result
        /\ UNCHANGED <<serviceVars, managed, releases, nextId, worldVars, faults>>

ApplyProcessListAction(k, v) ==
    /\ pc = "idle" /\ Room /\ life[k] # "unborn"
    /\ Start("list", "ProcessList", NoClaim, {})
    /\ at' = Attempt(k, [owner |-> "ProcessList", priority |-> v, preservation |-> "Exact"])
    /\ pc' = "open" /\ UNCHANGED result
    /\ UNCHANGED <<serviceVars, stateVars, worldVars, faults>>

ReleasePolicyExcept(owner, active) ==
    LET stale == {k \in Keys \ active : claims[owner][k] # NoClaim}
    IN  /\ pc = "idle" /\ Room
        /\ claims' = [claims EXCEPT ![owner] =
                         [k \in Keys |-> IF k \in stale THEN NoClaim ELSE @[k]]]
        /\ Start("release", owner, NoClaim,
                 {[key |-> k, rank |-> 0] : k \in stale \cup
                     {j \in Keys : /\ managed[j] # NoManaged
                                   /\ managed[j].owner = owner
                                   /\ EffectiveOwner(claims', j) # owner}})
        /\ pc' = "next"
        /\ UNCHANGED <<serviceVars, at, result, managed, releases, nextId, worldVars, faults>>

Ranked(S) == {[key |-> k, rank |-> managed[k].sequence] : k \in S}

ManagedKeys == {k \in Keys : managed[k] # NoManaged}

\* Mutant of RetryPendingReleases: only releases with an heir are taken up.
RetryReplaced ==
    /\ pc = "idle" /\ releases # {}
    /\ Start("retry", "ProcessList", NoClaim,
             Ranked({k \in releases \cap ManagedKeys : Effective(claims, k) # NoClaim}))
    /\ pc' = "next"
    /\ UNCHANGED <<serviceVars, at, result, stateVars, worldVars, faults>>

\* The one-second delay is left out: a pending release may be retried at any time.
RetryPendingReleases ==
    /\ pc = "idle" /\ releases # {}
    /\ Start("retry", "ProcessList", NoClaim, Ranked(releases \cap ManagedKeys))
    /\ pc' = "next"
    /\ UNCHANGED <<serviceVars, at, result, stateVars, worldVars, faults>>

Shutdown ==
    /\ pc = "idle"
    /\ claims' = [o \in PolicyOwners |-> [k \in Keys |-> NoClaim]]
    /\ Start("shutdown", "ProcessList", NoClaim, Ranked(ManagedKeys))
    /\ pc' = "next"
    /\ UNCHANGED <<serviceVars, at, result, managed, releases, nextId, worldVars, faults>>

Newest(todo) == {t \in todo : \A u \in todo : u.rank <= t.rank}

ReleaseStep(k) == [key |-> k, claim |-> NoClaim, mode |-> "release",
                   seen |-> managed[k].expected, target |-> managed[k].baseline,
                   id |-> 0, kept |-> FALSE]

\* What a release loop marks pending before it tries; a failure leaves the mark.
Marked(k) ==
    IF op.kind # "shutdown" /\ managed[k] # NoManaged /\ Automatic(managed[k].owner)
    THEN releases \cup {k} ELSE releases

\* The loops over keys: newest change first, where the order matters.
NextKey ==
    /\ pc = "next"
    /\ \E t \in Newest(op.todo) :
        LET k == t.key
            ours == managed[k] # NoManaged /\ (Automatic(managed[k].owner) \/ k \in releases)
        IN  /\ op' = [op EXCEPT !.todo = @ \ {t}]
            /\ releases' = Marked(k)
            /\ \/ /\ op.kind # "shutdown" /\ Effective(claims, k) # NoClaim
                  /\ at' = Attempt(k, Effective(claims, k)) /\ pc' = "open"
               \/ /\ op.kind = "shutdown" \/ (Effective(claims, k) = NoClaim /\ ours)
                  /\ at' = ReleaseStep(k) /\ pc' = "observe"
               \/ /\ op.kind # "shutdown" /\ Effective(claims, k) = NoClaim /\ ~ours
                  /\ UNCHANGED <<at, pc>>
    /\ UNCHANGED <<serviceVars, result, claims, managed, nextId, worldVars, faults>>

LoopDone ==
    /\ pc = "next" /\ op.todo = {}
    /\ Idle(IF op.kind = "shutdown" THEN "stopped" ELSE "idle")
    /\ releases' = IF op.kind = "retry" THEN releases \cap ManagedKeys ELSE releases
    /\ UNCHANGED <<serviceVars, claims, managed, nextId, worldVars, faults>>

--------------------------------------------------------------------------------
(***************************************************************************)
(* Everybody else.  A foreign value is clean when replay can tell it from  *)
(* Winderust's: it is none of the values the journal, a command under way  *)
(* or the managed entry speaks of, and it was not set between the query    *)
(* that a transition rests on and the query that verifies it.              *)
(***************************************************************************)
EdgeValues(edges) == UNION {{e.original, e.expected} : e \in edges}

CommandEdges(command, k) ==
    IF command # NoCommand /\ command.op = "begin" /\ command.key = k THEN {command.edge} ELSE {}

OurValues(k) ==
    EdgeValues({journal.committed[k][n] : n \in DOMAIN journal.committed[k]}
               \cup {p.edge : p \in PendingOf(journal, k)}
               \cup CommandEdges(limbo, k)
               \cup CommandEdges(IF call = NoCall THEN NoCommand ELSE call.command, k))

InTransition(k) ==
    /\ at # NoStep /\ at.key = k
    /\ pc \in {"drift", "decide", "begin", "set", "verify", "restore", "relinquish"}

OutsiderSets(k, v) ==
    /\ writes > 0 /\ writes' = writes - 1
    /\ life[k] = "alive" /\ v # value[k]
    /\ value' = [value EXCEPT ![k] = v]
    /\ pre' = [pre EXCEPT ![k] = v]
    /\ mixed' = [mixed EXCEPT ![k] = InTransition(k) \/ v \in OurValues(k)]
    /\ UNCHANGED <<serviceVars, callVars, stateVars, life, faults>>

ProcessExits(k) ==
    /\ life[k] = "alive"
    /\ life' = [life EXCEPT ![k] = "exited"]
    /\ UNCHANGED <<serviceVars, callVars, stateVars, value, pre, mixed, writes, faults>>

ProcessStarts(k) ==
    /\ life[k] = "unborn"
    /\ \A j \in Keys : Pid[j] = Pid[k] => life[j] # "alive"
    /\ life' = [life EXCEPT ![k] = "alive"]
    /\ UNCHANGED <<serviceVars, callVars, stateVars, value, pre, mixed, writes, faults>>

\* Winderust dies; a command already sent may still reach the helper.
Crash ==
    /\ pc \notin {"dead", "stopped"}
    /\ Idle("dead")
    /\ Abandon \/ Latch
    /\ UNCHANGED <<stateVars, worldVars, faults>>

Gone == pc \in {"dead", "stopped"}

\* recover_process_key; a failed attempt of another key replays this one again.
Replay(k) ==
    /\ Gone /\ limbo = NoCommand /\ call = NoCall
    /\ life[k] = "alive"
    /\ value' = [value EXCEPT ![k] = Unwind(journal, k, @)]
    /\ UNCHANGED <<serviceVars, callVars, stateVars, life, pre, mixed, writes, faults>>

\* Another controller's command goes unanswered.  It needs the RUNTIME mutex, which
\* an open intent of this controller holds.
OtherLatches ==
    /\ pc \notin {"set", "verify", "commit", "restore", "check", "cancel", "retain"}
    /\ Latch /\ ~latched /\ Fault
    /\ UNCHANGED <<callVars, stateVars, worldVars>>

ServiceStep ==
    /\ ServiceActs
    /\ UNCHANGED <<callVars, stateVars, worldVars>>

--------------------------------------------------------------------------------
Init ==
    /\ ServiceInit
    /\ pc = "idle" /\ op = NoOp /\ at = NoStep /\ result = "ok"
    /\ claims = [o \in PolicyOwners |-> [k \in Keys |-> NoClaim]]
    /\ managed = [k \in Keys |-> NoManaged]
    /\ releases = {}
    /\ nextId = 1
    /\ value \in [Keys -> Values]
    /\ life \in [Keys -> {"unborn", "alive"}]
    /\ \A j, k \in Keys : j # k /\ life[j] = "alive" /\ life[k] = "alive" => Pid[j] # Pid[k]
    /\ pre = value
    /\ mixed = [k \in Keys |-> FALSE]
    /\ faults = MaxFaults
    /\ writes = MaxWrites

Entry ==
    \/ \E o \in PolicyOwners, k \in Keys, c \in Claims : ApplyPolicyClaim(o, k, c)
    \/ \E k \in Keys, v \in Values : ApplyProcessListAction(k, v)
    \/ \E o \in PolicyOwners, active \in SUBSET Keys : ReleasePolicyExcept(o, active)
    \/ RetryPendingReleases
    \/ Shutdown

Controller ==
    \/ Open \/ RelinquishStale \/ Query \/ RelinquishDrifted \/ Decide
    \/ BeginChange \/ SetPriority \/ Verify \/ CommitChange
    \/ Restore \/ CheckRestored \/ CancelChange \/ RetainChange
    \/ Observe \/ Relinquish \/ Recheck
    \/ ReturnPreserved \/ ReturnApply \/ ReturnReconcile \/ DropExited
    \/ NextKey \/ LoopDone

Environment ==
    \/ \E k \in Keys, v \in Values : OutsiderSets(k, v)
    \/ \E k \in Keys : ProcessExits(k) \/ ProcessStarts(k) \/ Replay(k)
    \/ Crash
    \/ OtherLatches
    \/ ServiceStep

Next == Entry \/ Controller \/ Environment

Spec == Init /\ [][Next]_mpVars

\* The automation thread runs what it started and asks for due retries on every
\* pass of its loop, however busy it is; the helper answers.
FairSpec == /\ Spec
            /\ WF_mpVars(Controller) /\ WF_mpVars(ServiceStep)
            /\ SF_mpVars(RetryPendingReleases)

--------------------------------------------------------------------------------
\* Every variable has its type.
TypeOK ==
    /\ ServiceTypeOK
    /\ pc \in {"idle", "open", "stale", "query", "drift", "decide", "begin", "set", "verify",
               "commit", "restore", "check", "cancel", "retain", "observe", "relinquish",
               "recheck", "return", "drop", "next", "stopped", "dead"}
    /\ op \in Ops \cup {NoOp}
    /\ at \in Steps \cup {NoStep}
    /\ result \in {"ok", "exited", "error"}
    /\ claims \in [PolicyOwners -> [Keys -> Claim \cup {NoClaim}]]
    /\ managed \in [Keys -> ManagedType \cup {NoManaged}]
    /\ releases \subseteq Keys
    /\ nextId \in Nat \ {0}
    /\ value \in [Keys -> Values]
    /\ life \in [Keys -> {"unborn", "alive", "exited"}]
    /\ pre \in [Keys -> Values]
    /\ mixed \in [Keys -> BOOLEAN]
    /\ faults \in 0..MaxFaults /\ writes \in 0..MaxWrites

\* Crash anywhere: in every state, between any two calls, what the helper's journal
\* makes of the current priority is the one somebody else set last.
Recoverable ==
    \A k \in Keys : life[k] = "alive" /\ ~mixed[k] => Unwind(journal, k, value[k]) = pre[k]

\* A reused process id never has two owners: the claim on its last bearer is gone
\* before one on its new bearer takes effect (open_process drops stale identities).
ReusedIdHasOneOwner ==
    pc = "idle" => \A j, k \in ManagedKeys : Pid[j] = Pid[k] => j = k

\* Between operations the helper's journal is exactly what the controller owns: one
\* edge from baseline to expected, none when they agree, nothing for other keys.
OwnedEdges(k) ==
    IF managed[k] = NoManaged \/ managed[k].baseline = managed[k].expected THEN << >>
    ELSE <<[original |-> managed[k].baseline, expected |-> managed[k].expected]>>

LedgerAgrees ==
    pc = "idle" /\ ~latched => \A k \in Keys : Chain(journal, k) = OwnedEdges(k)

\* A managed change nobody claims any more is waiting to be released.
NoOrphan ==
    pc = "idle" /\ ~latched =>
        \A k \in ManagedKeys : Automatic(managed[k].owner) =>
            EffectiveOwner(claims, k) = managed[k].owner \/ k \in releases

\* The controller's books are in order.
Consistent == TypeOK /\ LedgerAgrees /\ NoOrphan

\* A claim of the static policy outranks the adaptive one.
StaticOutranks ==
    pc = "idle" => \A k \in ManagedKeys :
        managed[k].owner = "AdaptiveEngine" /\ claims["MemoryPriority"][k] # NoClaim
            => k \in releases

\* A shutdown leaves no priority moved that it does not report: what it no longer
\* manages is back where somebody else set it.
ShutdownRestores ==
    pc = "stopped" => \A k \in Keys :
        managed[k] = NoManaged /\ life[k] = "alive" /\ ~mixed[k] => value[k] = pre[k]

\* A release that failed is taken up again until it succeeds, the process is gone
\* or claimed anew, or the service is latched (retry_pending_releases).
PendingReleasesEnd ==
    \A k \in Keys : k \in releases ~> (k \notin releases \/ latched \/ Gone)
================================================================================
