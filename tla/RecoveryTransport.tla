--------------------------- MODULE RecoveryTransport ---------------------------
(***************************************************************************)
(* The exchange between the threads of Winderust that change process or    *)
(* power state and the helper process that will undo the changes           *)
(* (src/src/backend/crash_recovery.rs).                                    *)
(*                                                                         *)
(* A caller takes the RUNTIME mutex, hands a command to the transport      *)
(* thread and waits, for a bounded time, for the helper's answer.  A       *)
(* RecoveryIntent keeps the mutex from its Begin to its Commit, Cancel or  *)
(* deferral.  Either process may die, the helper may hang, an answer may   *)
(* come after its caller gave up.                                          *)
(***************************************************************************)
EXTENDS RecoveryJournal

CONSTANTS Callers,     \* threads that record changes
          Rejectable,  \* operations the helper may answer with "error:"
                NoCaller, NoCall, NoIntent, NoRequest, NoReply

Outcomes == {"ok", "rejected", "uncertain"}
Kinds == {"begin", "commit", "commit_or_defer", "cancel", "resolve", "forget"}
Requests == [command : Commands, live : BOOLEAN]

ASSUME CallersAssumption == NoCaller \notin Callers

ASSUME SentinelAssumption ==
    /\ NoCall \notin [kind : Kinds, command : Commands] \cup Commands
    /\ NoCall \notin [command : Commands, phase : {"sent", "landed", "refused"}]
    /\ NoIntent \notin Intent
    /\ NoRequest \notin Requests
    /\ NoReply \notin Outcomes

\* The helper's Cancel has no error path and its authorisation accepts everything.
ASSUME RejectableAssumption == Rejectable \subseteq {"begin", "commit", "forget"}

VARIABLES
    lock,      \* holder of the RUNTIME mutex
    calling,   \* what the holder is sending and why, or NoCall
    intent,    \* the RecoveryIntent the holder keeps, or NoIntent
    deferred,  \* DeferredRecoveryIntents: begun, unresolved, mutex released
    nextId,    \* RecoveryRuntime.next_intent_id
    entries,   \* RecoveryRuntime.entries, the client's mirror, per key
    failed,    \* RecoveryTransport.failed is set
    runtime,   \* the RUNTIME option: "live", or "taken" by finish
    channel,   \* requests the transport thread has not taken
    current,   \* the request the transport thread is exchanging
    reply,     \* the one-slot response channel of the waiting caller
    pipeIn,    \* command lines written to the helper's stdin
    pipeOut,   \* answer lines written to its stdout
    journal,   \* the helper's entries and pending intents
    helper,    \* "reading" commands, "replaying" the journal, or "dead"
    parent     \* "alive", or "dead"

clientVars == <<lock, calling, intent, deferred, nextId, entries, failed, runtime>>
threadVars == <<channel, current, reply>>
pipeVars   == <<pipeIn, pipeOut>>
helperVars == <<journal, helper>>
vars == <<lock, calling, intent, deferred, nextId, entries, failed, runtime,
          channel, current, reply, pipeIn, pipeOut, journal, helper, parent>>

\* Every variable has its type.
TypeOK ==
    /\ lock \in Callers \cup {NoCaller}
    /\ calling \in [kind : Kinds, command : Commands] \cup {NoCall}
    /\ intent \in Intent \cup {NoIntent}
    /\ deferred \in SUBSET Intent
    /\ nextId \in Nat \ {0}
    /\ entries \in [Keys -> Seq(Edge)]
    /\ failed \in BOOLEAN
    /\ runtime \in {"live", "taken"}
    /\ channel \in Seq(Requests)
    /\ current \in Requests \cup {NoRequest}
    /\ reply \in Outcomes \cup {NoReply}
    /\ pipeIn \in Seq(Commands)
    /\ pipeOut \in Seq({"ok", "rejected"})
    /\ journal \in JournalType
    /\ helper \in {"reading", "replaying", "dead"}
    /\ parent \in {"alive", "dead"}

Init ==
    /\ lock = NoCaller
    /\ calling = NoCall
    /\ intent = NoIntent
    /\ deferred = {}
    /\ nextId = 1
    /\ entries = [k \in Keys |-> << >>]
    /\ failed = FALSE
    /\ runtime = "live"
    /\ channel = << >>
    /\ current = NoRequest
    /\ reply = NoReply
    /\ pipeIn = << >>
    /\ pipeOut = << >>
    /\ journal = EmptyJournal
    /\ helper = "reading"
    /\ parent = "alive"

--------------------------------------------------------------------------------
(***************************************************************************)
(* Callers.  Enter is RUNTIME.lock() finding a live runtime; a caller that *)
(* finds RUNTIME taken gets an error and changes nothing.                  *)
(***************************************************************************)
Enter(c) ==
    /\ parent = "alive" /\ runtime = "live"
    /\ lock = NoCaller

\* A caller between its Begin and what ends it.  The latch is never set here
\* (NoIntentUnderLatch), so the early return of send() is not modelled again.
Holds(c) ==
    /\ parent = "alive"
    /\ lock = c /\ intent # NoIntent /\ calling = NoCall

\* RecoveryTransport::send before the answer: the failed latch, then the queue.
Send(kind, command) ==
    /\ ~failed
    /\ calling' = [kind |-> kind, command |-> command]
    /\ channel' = Append(channel, [command |-> command, live |-> TRUE])
    /\ UNCHANGED <<current, reply>>

Mirrored(i) == [entries EXCEPT ![i.key] = CompactOrPush(@, i.edge)]

\* record_entry: the id is spent even when the latch refuses the command.  A
\* key with a deferred intent is not begun again: only the power plan defers,
\* and its controller resolves or forgets before it switches.
RecordEntry(c, k, e) ==
    /\ Enter(c)
    /\ nextId \in Ids
    /\ \A i \in deferred : i.key # k
    /\ e.original # e.expected
    /\ nextId' = nextId + 1
    /\ \/ /\ failed
          /\ UNCHANGED <<lock, calling, intent, deferred, entries, failed, runtime, threadVars>>
       \/ /\ Send("begin", Begin(nextId, k, e))
          /\ lock' = c
          /\ UNCHANGED <<intent, deferred, entries, failed, runtime>>
    /\ UNCHANGED <<pipeVars, helperVars, parent>>

\* Mutant of CommitIntent: the mirror is left behind.
CommitUnmirrored(c) ==
    /\ Holds(c)
    /\ Send("commit", Commit(intent.id))
    /\ UNCHANGED <<lock, intent, deferred, nextId, entries, failed, runtime,
                   pipeVars, helperVars, parent>>

\* RecoveryIntent::commit: the mirror takes the edge before the command is sent.
CommitIntent(c) ==
    /\ Holds(c)
    /\ Send("commit", Commit(intent.id))
    /\ entries' = Mirrored(intent)
    /\ UNCHANGED <<lock, intent, deferred, nextId, failed, runtime,
                   pipeVars, helperVars, parent>>

\* RecoveryIntent::commit_or_defer: on failure the intent outlives the mutex.
CommitOrDefer(c) ==
    /\ Holds(c)
    /\ Send("commit_or_defer", Commit(intent.id))
    /\ UNCHANGED <<lock, intent, deferred, nextId, entries, failed, runtime,
                   pipeVars, helperVars, parent>>

\* RecoveryIntent::defer.
DeferIntent(c) ==
    /\ Holds(c)
    /\ lock' = NoCaller /\ intent' = NoIntent
    /\ deferred' = deferred \cup {intent}
    /\ UNCHANGED <<calling, nextId, entries, failed, runtime,
                   threadVars, pipeVars, helperVars, parent>>

\* Mutant of RetainPending: the latch is set, the intent lives on.
RetainHeld(c) ==
    /\ Holds(c)
    /\ failed' = TRUE
    /\ UNCHANGED <<lock, intent, calling, deferred, nextId, entries, runtime,
                   threadVars, pipeVars, helperVars, parent>>

\* RecoveryIntent::retain_pending: unresolved mutation, no command, latch set.
RetainPending(c) ==
    /\ Holds(c)
    /\ failed' = TRUE
    /\ lock' = NoCaller /\ intent' = NoIntent
    /\ UNCHANGED <<calling, deferred, nextId, entries, runtime,
                   threadVars, pipeVars, helperVars, parent>>

\* Drop for RecoveryIntent.
DropIntent(c) ==
    /\ Holds(c)
    /\ Send("cancel", Cancel(intent.id))
    /\ UNCHANGED <<lock, intent, deferred, nextId, entries, failed, runtime,
                   pipeVars, helperVars, parent>>

\* DeferredRecoveryIntent::resolve; under the latch it fails and keeps its entry.
ResolveDeferred(c, i, applied) ==
    /\ Enter(c)
    /\ i \in deferred
    /\ Send("resolve", IF applied THEN Commit(i.id) ELSE Cancel(i.id))
    /\ lock' = c
    /\ UNCHANGED <<intent, deferred, nextId, entries, failed, runtime,
                   pipeVars, helperVars, parent>>

\* The forget_*_change functions.
ForgetKey(c, k) ==
    /\ Enter(c)
    /\ Send("forget", Forget(k))
    /\ lock' = c
    /\ UNCHANGED <<intent, deferred, nextId, entries, failed, runtime,
                   pipeVars, helperVars, parent>>

\* RecoveryClient::finish: take the runtime and drop the transport.
Finish(c) ==
    /\ Enter(c)
    /\ runtime' = "taken"
    /\ UNCHANGED <<lock, calling, intent, deferred, nextId, entries, failed,
                   threadVars, pipeVars, helperVars, parent>>

--------------------------------------------------------------------------------
(***************************************************************************)
(* The answer.  A rejection and an uncertain outcome are errors to the     *)
(* caller alike; only the latter sets the latch by itself.                 *)
(***************************************************************************)
Waiting(c) == parent = "alive" /\ lock = c /\ calling # NoCall

ResolvedIntent == CHOOSE i \in deferred : i.id = calling.command.id

OnOk ==
    CASE calling.kind = "begin" ->
            /\ intent' = [id   |-> calling.command.id,
                          key  |-> calling.command.key,
                          edge |-> calling.command.edge]
            /\ UNCHANGED <<lock, deferred, entries>>
      [] calling.kind \in {"commit", "cancel"} ->
            /\ lock' = NoCaller /\ intent' = NoIntent
            /\ UNCHANGED <<deferred, entries>>
      [] calling.kind = "commit_or_defer" ->
            /\ lock' = NoCaller /\ intent' = NoIntent
            /\ entries' = Mirrored(intent)
            /\ UNCHANGED deferred
      [] calling.kind = "resolve" ->
            /\ lock' = NoCaller
            /\ deferred' = deferred \ {ResolvedIntent}
            /\ entries' = IF calling.command.op = "commit"
                          THEN Mirrored(ResolvedIntent) ELSE entries
            /\ UNCHANGED intent
      [] calling.kind = "forget" ->
            \* The power-plan controller discards a deferred intent it forgot.
            /\ lock' = NoCaller
            /\ deferred' = {i \in deferred : i.key # calling.command.key}
            /\ entries' = [entries EXCEPT ![calling.command.key] = << >>]
            /\ UNCHANGED intent

OnError ==
    /\ lock' = NoCaller
    /\ intent' = NoIntent
    /\ deferred' = IF calling.kind = "commit_or_defer"
                   THEN deferred \cup {intent} ELSE deferred
    /\ UNCHANGED entries

\* send() returns what the transport thread put in the response slot.
TakeReply(c) ==
    /\ Waiting(c)
    /\ reply # NoReply
    /\ IF reply = "ok" THEN OnOk ELSE OnError
    /\ failed' = \/ failed
                 \/ reply = "uncertain"
                 \/ (reply = "rejected" /\ calling.kind = "commit")
    /\ calling' = NoCall
    /\ reply' = NoReply
    /\ UNCHANGED <<nextId, runtime, channel, current, pipeVars, helperVars, parent>>

Dropped(request) == [request EXCEPT !.live = FALSE]

\* Mutants of GiveUp: the latch is not set; there is no timeout.
GiveUpUnlatched(c) ==
    /\ Waiting(c) /\ reply = NoReply
    /\ OnError
    /\ calling' = NoCall
    /\ channel' = [n \in DOMAIN channel |-> Dropped(channel[n])]
    /\ current' = IF current = NoRequest THEN NoRequest ELSE Dropped(current)
    /\ UNCHANGED <<failed, nextId, runtime, reply, pipeVars, helperVars, parent>>

GiveUpOnDeath(c) == helper = "dead" /\ GiveUpUnlatched(c)

\* recv_timeout expires: the caller leaves, its response slot is gone.
GiveUp(c) ==
    /\ Waiting(c)
    /\ reply = NoReply
    /\ OnError
    /\ failed' = TRUE
    /\ calling' = NoCall
    /\ channel' = [n \in DOMAIN channel |-> Dropped(channel[n])]
    /\ current' = IF current = NoRequest THEN NoRequest ELSE Dropped(current)
    /\ UNCHANGED <<nextId, runtime, reply, pipeVars, helperVars, parent>>

--------------------------------------------------------------------------------
(***************************************************************************)
(* The transport thread: one request, one answer line, in turn.            *)
(***************************************************************************)
\* send_command, the write; a dead helper breaks the pipe.
WriteCommand ==
    /\ parent = "alive"
    /\ current = NoRequest /\ channel # << >>
    /\ channel' = Tail(channel)
    /\ IF helper = "dead"
       THEN /\ reply' = IF Head(channel).live THEN "uncertain" ELSE reply
            /\ UNCHANGED <<current, pipeIn>>
       ELSE /\ current' = Head(channel)
            /\ pipeIn' = Append(pipeIn, Head(channel).command)
            /\ UNCHANGED reply
    /\ UNCHANGED <<clientVars, pipeOut, helperVars, parent>>

\* send_command, the read: an answer line, or the end of a dead helper's output.
ReadAnswer ==
    /\ parent = "alive"
    /\ current # NoRequest
    /\ pipeOut # << >> \/ helper = "dead"
    /\ reply' = IF ~current.live THEN reply
                ELSE IF pipeOut # << >> THEN Head(pipeOut) ELSE "uncertain"
    /\ pipeOut' = IF pipeOut # << >> THEN Tail(pipeOut) ELSE pipeOut
    /\ current' = NoRequest
    /\ UNCHANGED <<clientVars, channel, pipeIn, helperVars, parent>>

\* The helper's stdin closes when the thread has drained a dropped channel,
\* or when the process that holds the pipe dies.
\* Mutants of StdinClosed: the channel is not drained; finish leaves it open.
StdinClosedEarly == parent = "dead" \/ runtime = "taken"
StdinClosedByDeath == parent = "dead"

StdinClosed ==
    \/ parent = "dead"
    \/ runtime = "taken" /\ channel = << >> /\ current = NoRequest

--------------------------------------------------------------------------------
(***************************************************************************)
(* The helper (run_watchdog_loop).  An answer it cannot write ends the     *)
(* loop as the end of its input does, and the journal is replayed.         *)
(***************************************************************************)
HandleCommand ==
    /\ helper = "reading"
    /\ pipeIn # << >>
    /\ pipeIn' = Tail(pipeIn)
    /\ \E answer \in {"ok", "rejected"} :
        /\ answer = "rejected" => Head(pipeIn).op \in Rejectable
        /\ journal' = IF answer = "ok" THEN Apply(journal, Head(pipeIn)) ELSE journal
        /\ IF parent = "alive"
           THEN pipeOut' = Append(pipeOut, answer) /\ UNCHANGED helper
           ELSE helper' = "replaying" /\ UNCHANGED pipeOut
    /\ UNCHANGED <<clientVars, threadVars, parent>>

EndOfInput ==
    /\ helper = "reading"
    /\ pipeIn = << >> /\ StdinClosed
    /\ helper' = "replaying"
    /\ UNCHANGED <<clientVars, threadVars, pipeVars, journal, parent>>

\* The processes may be killed at any time.
HelperDies ==
    /\ helper # "dead"
    /\ helper' = "dead"
    /\ UNCHANGED <<clientVars, threadVars, pipeVars, journal, parent>>

ParentDies ==
    /\ parent = "alive"
    /\ parent' = "dead"
    /\ UNCHANGED <<clientVars, threadVars, pipeVars, helperVars>>

--------------------------------------------------------------------------------
CallerStep(c) ==
    \/ \E k \in Keys, e \in Edge : RecordEntry(c, k, e)
    \/ CommitIntent(c)
    \/ CommitOrDefer(c)
    \/ DeferIntent(c)
    \/ RetainPending(c)
    \/ DropIntent(c)
    \/ \E i \in deferred, applied \in BOOLEAN : ResolveDeferred(c, i, applied)
    \/ \E k \in Keys : ForgetKey(c, k)
    \/ Finish(c)
    \/ TakeReply(c)
    \/ GiveUp(c)

Next ==
    \/ \E c \in Callers : CallerStep(c)
    \/ WriteCommand
    \/ ReadAnswer
    \/ HandleCommand
    \/ EndOfInput
    \/ HelperDies
    \/ ParentDies

(***************************************************************************)
(* A waiting caller is bounded by its own timeout, so only the callers are *)
(* fair in Spec: the helper and the transport thread may hang.  What       *)
(* depends on them assumes HelperFairness.                                 *)
(***************************************************************************)
CallerFairness == \A c \in Callers : WF_vars(GiveUp(c)) /\ WF_vars(TakeReply(c))

HelperFairness == WF_vars(WriteCommand) /\ WF_vars(ReadAnswer)
                    /\ WF_vars(HandleCommand) /\ WF_vars(EndOfInput)

Spec == Init /\ [][Next]_vars /\ CallerFairness

--------------------------------------------------------------------------------
(***************************************************************************)
(* The abstract service.  The phase of a call is read off from where its   *)
(* command or its answer is; a command is in limbo while it can still      *)
(* reach the helper although its caller is gone.                           *)
(***************************************************************************)
Called == parent = "alive" /\ calling # NoCall

PhaseOf(outcome) ==
    CASE outcome = "ok"        -> "landed"
      [] outcome = "rejected"  -> "refused"
      [] outcome = "uncertain" -> "sent"

CallPhase == IF reply # NoReply THEN PhaseOf(reply)
             ELSE IF pipeOut # << >> THEN PhaseOf(Head(pipeOut)) ELSE "sent"

AbstractCall == IF Called THEN [command |-> calling.command, phase |-> CallPhase] ELSE NoCall

AbstractLimbo ==
    IF ~Called /\ helper = "reading" /\ pipeIn # << >> THEN Head(pipeIn)
    ELSE IF ~Called /\ parent = "alive" /\ channel # << >> THEN Head(channel).command
    ELSE NoCall

Service == INSTANCE RecoveryService
           WITH latched <- failed \/ parent = "dead",
                call <- AbstractCall, limbo <- AbstractLimbo, NoCommand <- NoCall

\* The exchange implements the service the controllers are written against: an
\* answer, however late, is never taken for the answer to another command, and
\* nothing is sent after an answer was missed (RecoveryTransport::send).
ImplementsService == Service!ServiceSpec

\* Write-ahead: between calls the mirror is the helper's journal, and every
\* mutation that may be under way is pending there (record_entry before the
\* mutation; commit, commit_or_defer, resolve, Drop after it).
Held == IF intent = NoIntent THEN {} ELSE {intent}

MirrorAgrees ==
    parent = "alive" /\ helper = "reading" /\ ~failed /\ calling = NoCall
        => journal = [committed |-> entries, pending |-> deferred \cup Held]

\* A caller that still owns an intent can always send what resolves it: whatever
\* sets the latch ends the intent in the same critical section.
NoIntentUnderLatch == failed => intent = NoIntent

\* While Winderust lives, the helper starts to replay only when no intent is open
\* and no command is on its way (finish takes RUNTIME; the transport thread keeps
\* stdin open after an uncertain answer).
ReplayAfterLastCommand ==
    helper = "replaying" /\ parent = "alive"
        => lock = NoCaller /\ intent = NoIntent /\ channel = << >> /\ pipeIn = << >>

\* A caller never waits for ever, even for a helper that hangs or a transport
\* thread that is stuck in a read (recv_timeout).
WaitEnds == \A c \in Callers : (lock = c /\ calling # NoCall) ~> ~Waiting(c)

\* Whatever was in flight when Winderust finishes or dies, the helper, if it
\* lives and does not hang, comes to replay its journal (run_watchdog_loop).
AbandonedJournalIsReplayed ==
    HelperFairness => ((parent = "dead" \/ runtime = "taken") ~> helper # "reading")

--------------------------------------------------------------------------------
(***************************************************************************)
(* The inductive invariant behind MirrorAgrees and NoIntentUnderLatch.     *)
(***************************************************************************)
Owed == deferred \cup Held

\* Who holds the mutex, and that a latched transport has neither call nor intent.
LockOK ==
    /\ lock = NoCaller <=> calling = NoCall /\ intent = NoIntent
    /\ failed => calling = NoCall /\ intent = NoIntent

\* Intent ids are never used twice, and a held intent is not yet deferred.
IdsOK ==
    /\ \A i \in Owed : i.id < nextId
    /\ Held \cap deferred = {}
    /\ \A i, j \in Owed : i.id = j.id => i = j

\* What is being sent belongs to the intent it resolves.
CallOK ==
    calling # NoCall =>
        \/ /\ calling.kind = "begin" /\ intent = NoIntent
           /\ \E i \in Intent : /\ calling.command = Begin(i.id, i.key, i.edge)
                                /\ i.id < nextId /\ \A j \in deferred : j.id # i.id
        \/ /\ calling.kind \in {"commit", "commit_or_defer"} /\ intent # NoIntent
           /\ calling.command = Commit(intent.id)
        \/ /\ calling.kind = "cancel" /\ intent # NoIntent
           /\ calling.command = Cancel(intent.id)
        \/ /\ calling.kind = "resolve" /\ intent = NoIntent
           /\ \E i \in deferred : calling.command \in {Commit(i.id), Cancel(i.id)}
        \/ /\ calling.kind = "forget" /\ intent = NoIntent
           /\ \E k \in Keys : calling.command = Forget(k)

\* One command is on its way at a time, and the only answer on its way is its own.
Quiet == channel = << >> /\ current = NoRequest /\ pipeIn = << >> /\ pipeOut = << >>

Request == [command |-> calling.command, live |-> TRUE]

Queued == /\ channel = <<Request>> /\ current = NoRequest
          /\ pipeIn = << >> /\ pipeOut = << >> /\ reply = NoReply

Written == /\ channel = << >> /\ current = Request
           /\ pipeIn = <<calling.command>> /\ pipeOut = << >> /\ reply = NoReply

Answered(outcome) ==
    \/ /\ channel = << >> /\ current = Request
       /\ pipeIn = << >> /\ pipeOut = <<outcome>> /\ reply = NoReply
    \/ Quiet /\ reply = outcome

\* The journal before and after the command in flight takes effect.
Before ==
    /\ journal.pending = Owed
    /\ IF calling # NoCall /\ calling.kind = "commit"
       THEN entries = [journal.committed EXCEPT
                          ![intent.key] = CompactOrPush(@, intent.edge)]
       ELSE entries = journal.committed

Target ==
    CASE calling.kind = "begin" ->
            [committed |-> entries,
             pending |-> deferred \cup {[id |-> calling.command.id, key |-> calling.command.key,
                                         edge |-> calling.command.edge]}]
      [] calling.kind \in {"commit", "cancel"} ->
            [committed |-> entries, pending |-> deferred]
      [] calling.kind = "commit_or_defer" ->
            [committed |-> Mirrored(intent), pending |-> deferred]
      [] calling.kind = "resolve" ->
            [committed |-> IF calling.command.op = "commit" THEN Mirrored(ResolvedIntent)
                           ELSE entries,
             pending |-> deferred \ {ResolvedIntent}]
      [] calling.kind = "forget" ->
            [committed |-> [entries EXCEPT ![calling.command.key] = << >>],
             pending |-> {i \in deferred : i.key # calling.command.key}]

ExchangeOK ==
    parent = "alive" /\ ~failed =>
        \/ calling = NoCall /\ Quiet /\ reply = NoReply /\ (helper = "reading" => Before)
        \/ calling # NoCall /\ (Queued \/ Written) /\ (helper = "reading" => Before)
        \/ calling # NoCall /\ Answered("ok") /\ (helper = "reading" => journal = Target)
        \/ calling # NoCall /\ Answered("rejected") /\ (helper = "reading" => Before)
           /\ calling.command.op # "cancel"
        \/ calling # NoCall /\ reply = "uncertain" /\ helper = "dead"
           /\ channel = << >> /\ current = NoRequest

Inv == TypeOK /\ LockOK /\ IdsOK /\ CallOK /\ ExchangeOK
================================================================================
