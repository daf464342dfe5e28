------------------------ MODULE RecoveryTransportProofs ------------------------
(***************************************************************************)
(* Proofs about RecoveryTransport, for any number of callers, keys, values *)
(* and intents.  Inv is inductive; MirrorAgrees, NoIntentUnderLatch and    *)
(* TypeOK follow from it.  The first lemmas, on the journal's commands, are *)
(* those of RecoveryServiceProofs, whose variables differ from these.      *)
(***************************************************************************)
EXTENDS RecoveryTransport, FiniteSetTheorems, SequenceTheorems, TLAPS

\* The constructors build commands of the protocol.
LEMMA CommandTypes ==
    /\ \A id \in Ids, k \in Keys, e \in Edge : Begin(id, k, e) \in Commands
    /\ \A id \in Ids : Commit(id) \in Commands /\ Cancel(id) \in Commands
    /\ \A k \in Keys : Forget(k) \in Commands
BY DEF Begin, Commit, Cancel, Forget, Commands

\* Compaction keeps a key's edges a sequence of edges (compact_or_push).
LEMMA CompactOrPushType ==
    ASSUME NEW edges \in Seq(Edge), NEW edge \in Edge
    PROVE  CompactOrPush(edges, edge) \in Seq(Edge)
<1> DEFINE n == Len(edges)
<1>1. CASE n > 0 /\ edges[n].expected = edge.original
  <2>1. CASE edges[n].original = edge.expected
    <3>1. CompactOrPush(edges, edge) = SubSeq(edges, 1, n - 1)
      BY <1>1, <2>1 DEF CompactOrPush
    <3>2. n \in Nat /\ n - 1 \in 0..n
      BY <1>1
    <3> QED  BY <3>1, <3>2
  <2>2. CASE edges[n].original # edge.expected
    <3>1. CompactOrPush(edges, edge) = [edges EXCEPT ![n].expected = edge.expected]
      BY <1>1, <2>2 DEF CompactOrPush
    <3>2. n \in 1..Len(edges) /\ edges[n] \in Edge
      BY <1>1
    <3>3. [edges[n] EXCEPT !.expected = edge.expected] \in Edge
      BY <3>2 DEF Edge
    <3> QED  BY <3>1, <3>2, <3>3
  <2> QED  BY <2>1, <2>2
<1>2. CASE ~(n > 0 /\ edges[n].expected = edge.original)
  BY <1>2 DEF CompactOrPush
<1> QED  BY <1>1, <1>2

\* Commit of a pending intent moves its edge to the committed ones of its key
\* and touches nothing else (apply_watchdog_command, Commit).
LEMMA CommitMovesEdge ==
    ASSUME NEW J \in JournalType, NEW i \in J.pending,
           \A a, b \in J.pending : a.id = b.id => a = b
    PROVE  ApplyCommit(J, i.id) =
              [committed |-> [J.committed EXCEPT ![i.key] = CompactOrPush(@, i.edge)],
               pending   |-> J.pending \ {i}]
<1>1. i \in Intent /\ i.key \in Keys /\ J.committed \in [Keys -> Seq(Edge)]
  BY DEF JournalType, Intent
<1>2. (CHOOSE p \in J.pending : p.id = i.id) = i
  OBVIOUS
<1>3. Without(J, i.id) = J.pending \ {i}
  BY DEF Without
<1>4. \A k \in Keys : (\E p \in J.pending : p.id = i.id /\ p.key = k) <=> k = i.key
  OBVIOUS
<1>5. [k \in Keys |-> IF \E p \in J.pending : p.id = i.id /\ p.key = k
                      THEN CompactOrPush(J.committed[k],
                               (CHOOSE p \in J.pending : p.id = i.id).edge)
                      ELSE J.committed[k]]
        = [J.committed EXCEPT ![i.key] = CompactOrPush(@, i.edge)]
  BY <1>1, <1>2, <1>4
<1> QED  BY <1>3, <1>5 DEF ApplyCommit

\* Cancel removes the intent and nothing else.
LEMMA CancelRemovesIntent ==
    ASSUME NEW J \in JournalType, NEW i \in J.pending,
           \A a, b \in J.pending : a.id = b.id => a = b
    PROVE  ApplyCancel(J, i.id) = [committed |-> J.committed, pending |-> J.pending \ {i}]
<1>1. Without(J, i.id) = J.pending \ {i}
  BY DEF Without
<1>2. J = [committed |-> J.committed, pending |-> J.pending]
  BY DEF JournalType
<1>3. [J EXCEPT !.pending = J.pending \ {i}]
        = [committed |-> J.committed, pending |-> J.pending \ {i}]
  BY <1>2
<1> QED  BY <1>1, <1>3 DEF ApplyCancel

\* Every command leaves a journal of the same type.
LEMMA ApplyType ==
    ASSUME NEW J \in JournalType, NEW command \in Commands
    PROVE  Apply(J, command) \in JournalType
<1>1. J.committed \in [Keys -> Seq(Edge)] /\ J.pending \in SUBSET Intent
  BY DEF JournalType
<1>2. CASE command.op = "begin"
  <2>1. command.id \in Ids /\ command.key \in Keys /\ command.edge \in Edge
    BY <1>2 DEF Commands
  <2>2. Apply(J, command) = ApplyBegin(J, command.id, command.key, command.edge)
    BY <1>2 DEF Apply
  <2>3. [id |-> command.id, key |-> command.key, edge |-> command.edge] \in Intent
    BY <2>1 DEF Intent
  <2> QED  BY <2>2, <2>3, <1>1 DEF ApplyBegin, JournalType
<1>3. CASE command.op = "commit"
  <2>1. Apply(J, command) = ApplyCommit(J, command.id)
    BY <1>3 DEF Apply
  <2>2. \A k \in Keys : (\E p \in J.pending : p.id = command.id /\ p.key = k)
                        => (CHOOSE p \in J.pending : p.id = command.id).edge \in Edge
    BY <1>1 DEF Intent
  <2>3. \A k \in Keys :
           (IF \E p \in J.pending : p.id = command.id /\ p.key = k
            THEN CompactOrPush(J.committed[k],
                     (CHOOSE p \in J.pending : p.id = command.id).edge)
            ELSE J.committed[k]) \in Seq(Edge)
    BY <1>1, <2>2, CompactOrPushType
  <2>4. Without(J, command.id) \in SUBSET Intent
    BY <1>1 DEF Without
  <2> QED  BY <2>1, <2>3, <2>4 DEF ApplyCommit, JournalType
<1>4. CASE command.op = "cancel"
  <2>1. Apply(J, command) = ApplyCancel(J, command.id)
    BY <1>4 DEF Apply
  <2>2. Without(J, command.id) \in SUBSET Intent
    BY <1>1 DEF Without
  <2> QED  BY <2>1, <2>2, <1>1 DEF ApplyCancel, JournalType
<1>5. CASE command.op = "forget"
  <2>1. command.key \in Keys
    BY <1>5 DEF Commands
  <2>2. Apply(J, command) = ApplyForget(J, command.key)
    BY <1>5 DEF Apply
  <2>3. << >> \in Seq(Edge)
    OBVIOUS
  <2>4. [J.committed EXCEPT ![command.key] = << >>] \in [Keys -> Seq(Edge)]
    BY <1>1, <2>1, <2>3
  <2>5. {p \in J.pending : p.key # command.key} \in SUBSET Intent
    BY <1>1
  <2> QED  BY <2>2, <2>4, <2>5 DEF ApplyForget, JournalType
<1> QED  BY <1>2, <1>3, <1>4, <1>5 DEF Commands

--------------------------------------------------------------------------------

\* A command can be sent only into a quiet exchange, and is then queued.
LEMMA SendQueues ==
    ASSUME Inv, parent = "alive", calling = NoCall,
           NEW kind \in Kinds, NEW command \in Commands, Send(kind, command),
           UNCHANGED <<failed, pipeVars>>
    PROVE  /\ calling' = [kind |-> kind, command |-> command]
           /\ calling' \in [kind : Kinds, command : Commands]
           /\ calling' # NoCall
           /\ channel' \in Seq(Requests)
           /\ Queued'
           /\ ~failed'
<1>1. ~failed /\ Quiet /\ reply = NoReply
  BY DEF Inv, ExchangeOK, Send
<1>2. calling' = [kind |-> kind, command |-> command]
  BY DEF Send
<1>3. calling' \in [kind : Kinds, command : Commands]
  BY <1>2
<1>4. calling' # NoCall
  BY <1>3, SentinelAssumption
<1>5. [command |-> command, live |-> TRUE] \in Requests
  BY DEF Requests
<1>6. channel' = <<[command |-> command, live |-> TRUE]>>
  BY <1>1 DEF Send, Quiet
<1>7. channel' \in Seq(Requests)
  BY <1>5, <1>6
<1>8. Queued'
  BY <1>1, <1>2, <1>6 DEF Send, Queued, Request, Quiet, pipeVars
<1> QED  BY <1>1, <1>2, <1>3, <1>4, <1>7, <1>8

LEMMA InitInv == Init => Inv
<1> SUFFICES ASSUME Init PROVE Inv
  OBVIOUS
<1>1. entries \in [Keys -> Seq(Edge)] /\ journal \in JournalType
  BY DEF Init, EmptyJournal, JournalType
<1>2. TypeOK
  <2>1. << >> \in Seq(Requests) /\ << >> \in Seq(Commands) /\ << >> \in Seq({"ok", "rejected"})
    OBVIOUS
  <2>2. channel \in Seq(Requests) /\ pipeIn \in Seq(Commands) /\ pipeOut \in Seq({"ok", "rejected"})
    BY <2>1 DEF Init
  <2>3. /\ lock \in Callers \cup {NoCaller}
        /\ calling \in [kind : Kinds, command : Commands] \cup {NoCall}
        /\ intent \in Intent \cup {NoIntent}
        /\ deferred \in SUBSET Intent
        /\ current \in Requests \cup {NoRequest}
        /\ reply \in Outcomes \cup {NoReply}
    BY DEF Init
  <2>4. nextId \in Nat \ {0}
    BY DEF Init
  <2>5. /\ failed \in BOOLEAN /\ runtime \in {"live", "taken"}
        /\ helper \in {"reading", "replaying", "dead"} /\ parent \in {"alive", "dead"}
    BY DEF Init
  <2> QED  BY <1>1, <2>2, <2>3, <2>4, <2>5 DEF TypeOK
<1>3. LockOK /\ IdsOK /\ CallOK
  BY DEF Init, LockOK, IdsOK, CallOK, Owed, Held
<1>4. ExchangeOK
  BY DEF Init, ExchangeOK, Quiet, Before, EmptyJournal, Owed, Held
<1> QED  BY <1>2, <1>3, <1>4 DEF Inv

--------------------------------------------------------------------------------
(***************************************************************************)
(* The callers.                                                            *)
(***************************************************************************)
LEMMA RecordEntryInv ==
    ASSUME Inv, NEW c \in Callers, NEW k \in Keys, NEW e \in Edge, RecordEntry(c, k, e)
    PROVE  Inv'
<1>0. TypeOK /\ LockOK /\ IdsOK /\ CallOK /\ ExchangeOK
  BY DEF Inv
<1>1. parent = "alive" /\ calling = NoCall /\ intent = NoIntent
  BY <1>0 DEF RecordEntry, Enter, LockOK
<1>2. nextId \in Ids /\ nextId' = nextId + 1 /\ nextId \in Nat
  BY <1>0 DEF RecordEntry, TypeOK
<1>5. \A i \in Owed : i.id \in Nat
  BY <1>0, IdsAssumption DEF TypeOK, Owed, Held, Intent
<1>3. CASE failed /\ UNCHANGED <<lock, calling, intent, deferred, entries, failed, runtime,
                                 threadVars>>
  <2>1. UNCHANGED <<lock, calling, intent, deferred, entries, failed, runtime, channel,
                    current, reply, pipeIn, pipeOut, journal, helper, parent>>
    BY <1>3 DEF RecordEntry, threadVars, pipeVars, helperVars
  <2>2. TypeOK'
    BY <1>0, <1>2, <2>1 DEF TypeOK
  <2>3. LockOK' /\ CallOK' /\ ExchangeOK'
    BY <1>0, <1>1, <1>3, <2>1 DEF LockOK, CallOK, ExchangeOK
  <2>4. IdsOK'
    BY <1>0, <1>2, <2>1, <1>5 DEF IdsOK, Owed, Held
  <2> QED  BY <2>2, <2>3, <2>4 DEF Inv
<1>4. CASE /\ Send("begin", Begin(nextId, k, e))
           /\ lock' = c
           /\ UNCHANGED <<intent, deferred, entries, failed, runtime>>
  <2>1. UNCHANGED <<intent, deferred, entries, failed, runtime, pipeIn, pipeOut, journal,
                    helper, parent>>
    BY <1>4 DEF RecordEntry, pipeVars, helperVars
  <2>2. Begin(nextId, k, e) \in Commands /\ "begin" \in Kinds
    BY <1>2, CommandTypes DEF Kinds
  <2>3. /\ calling' = [kind |-> "begin", command |-> Begin(nextId, k, e)]
        /\ calling' \in [kind : Kinds, command : Commands]
        /\ calling' # NoCall
        /\ channel' \in Seq(Requests)
        /\ Queued'
        /\ ~failed'
    BY <1>1, <1>4, <2>1, <2>2, SendQueues DEF pipeVars
  <2>4. TypeOK'
    BY <1>0, <1>2, <1>4, <2>1, <2>3 DEF TypeOK, Send
  <2>5. LockOK'
    BY <1>4, <2>3, CallersAssumption DEF LockOK
  <2>6. IdsOK'
    BY <1>0, <1>2, <2>1, <1>5 DEF IdsOK, Owed, Held
  <2>7. CallOK'
    <3>1. [id |-> nextId, key |-> k, edge |-> e] \in Intent
      BY <1>2 DEF Intent
    <3>2. \A j \in deferred : j.id < nextId /\ j.id \in Nat
      BY <1>0, IdsAssumption DEF IdsOK, Owed, TypeOK, Intent
    <3> QED  BY <1>1, <1>2, <2>1, <2>3, <3>1, <3>2 DEF CallOK
  <2>8. ExchangeOK'
    <3>1. Before \/ helper # "reading"
      BY <1>0, <1>1, <2>1, <2>3 DEF ExchangeOK
    <3>2. Before' \/ helper # "reading"
      BY <3>1, <2>1, <2>3, <1>1 DEF Before, Owed, Held
    <3> QED  BY <2>1, <2>3, <3>2 DEF ExchangeOK
  <2> QED  BY <2>4, <2>5, <2>6, <2>7, <2>8 DEF Inv
<1> QED  BY <1>3, <1>4 DEF RecordEntry

LEMMA MirroredType ==
    ASSUME TypeOK, NEW i \in Intent
    PROVE  Mirrored(i) \in [Keys -> Seq(Edge)]
<1>1. i.key \in Keys /\ i.edge \in Edge
  BY DEF Intent
<1>2. entries \in [Keys -> Seq(Edge)]
  BY DEF TypeOK
<1>3. CompactOrPush(entries[i.key], i.edge) \in Seq(Edge)
  BY <1>1, <1>2, CompactOrPushType
<1> QED  BY <1>1, <1>2, <1>3 DEF Mirrored

\* Commit, commit_or_defer and Drop: the holder of an intent sends what resolves it.
LEMMA ResolutionInv ==
    ASSUME Inv, NEW c \in Callers, Holds(c),
           NEW kind \in {"commit", "commit_or_defer", "cancel"},
           NEW command \in {Commit(intent.id), Cancel(intent.id)},
           command = IF kind = "cancel" THEN Cancel(intent.id) ELSE Commit(intent.id),
           Send(kind, command),
           entries' = IF kind = "commit" THEN Mirrored(intent) ELSE entries,
           UNCHANGED <<lock, intent, deferred, nextId, failed, runtime,
                       pipeVars, helperVars, parent>>
    PROVE  Inv'
<1>0. TypeOK /\ LockOK /\ IdsOK /\ CallOK /\ ExchangeOK
  BY DEF Inv
<1>1. parent = "alive" /\ calling = NoCall /\ intent # NoIntent /\ lock = c
  BY DEF Holds
<1>2. intent \in Intent /\ intent.id \in Ids
  BY <1>0, <1>1 DEF TypeOK, Intent
<1>3. UNCHANGED <<lock, intent, deferred, nextId, failed, runtime, pipeIn, pipeOut,
                  journal, helper, parent>>
  BY DEF pipeVars, helperVars
<1>4. command \in Commands /\ kind \in Kinds
  BY <1>2, CommandTypes DEF Kinds
<1>5. /\ calling' = [kind |-> kind, command |-> command]
      /\ calling' \in [kind : Kinds, command : Commands]
      /\ calling' # NoCall
      /\ channel' \in Seq(Requests)
      /\ Queued'
      /\ ~failed'
  BY <1>1, <1>3, <1>4, SendQueues DEF pipeVars
<1>6. entries' \in [Keys -> Seq(Edge)]
  BY <1>0, <1>2, MirroredType DEF TypeOK
<1>7. TypeOK'
  BY <1>0, <1>3, <1>5, <1>6 DEF TypeOK, Send
<1>8. LockOK'
  BY <1>1, <1>3, <1>5, CallersAssumption DEF LockOK
<1>9. IdsOK'
  BY <1>0, <1>3 DEF IdsOK, Owed, Held
<1>10. CallOK'
  BY <1>1, <1>3, <1>5 DEF CallOK
<1>11. ExchangeOK'
  <2>1. Before \/ helper # "reading"
    BY <1>0, <1>1, <1>3, <1>5 DEF ExchangeOK
  <2>2. Before' \/ helper # "reading"
    BY <2>1, <1>1, <1>3, <1>5 DEF Before, Owed, Held, Mirrored
  <2> QED  BY <1>3, <1>5, <2>2 DEF ExchangeOK
<1> QED  BY <1>7, <1>8, <1>9, <1>10, <1>11 DEF Inv

\* resolve and forget: a caller without an intent sends a command of its own.
LEMMA DirectInv ==
    ASSUME Inv, NEW c \in Callers, Enter(c),
           NEW kind \in {"resolve", "forget"}, NEW command \in Commands,
           kind = "resolve" => \E i \in deferred : command \in {Commit(i.id), Cancel(i.id)},
           kind = "forget" => \E k \in Keys : command = Forget(k),
           Send(kind, command), lock' = c,
           UNCHANGED <<intent, deferred, nextId, entries, failed, runtime,
                       pipeVars, helperVars, parent>>
    PROVE  Inv'
<1>0. TypeOK /\ LockOK /\ IdsOK /\ CallOK /\ ExchangeOK
  BY DEF Inv
<1>1. parent = "alive" /\ calling = NoCall /\ intent = NoIntent
  BY <1>0 DEF Enter, LockOK
<1>3. UNCHANGED <<intent, deferred, nextId, entries, failed, runtime, pipeIn, pipeOut,
                  journal, helper, parent>>
  BY DEF pipeVars, helperVars
<1>5. /\ calling' = [kind |-> kind, command |-> command]
      /\ calling' \in [kind : Kinds, command : Commands]
      /\ calling' # NoCall
      /\ channel' \in Seq(Requests)
      /\ Queued'
      /\ ~failed'
  BY <1>1, <1>3, SendQueues DEF pipeVars, Kinds
<1>7. TypeOK'
  BY <1>0, <1>3, <1>5 DEF TypeOK, Send
<1>8. LockOK'
  BY <1>1, <1>3, <1>5, CallersAssumption DEF LockOK
<1>9. IdsOK'
  BY <1>0, <1>3 DEF IdsOK, Owed, Held
<1>10. CallOK'
  BY <1>1, <1>3, <1>5 DEF CallOK
<1>11. ExchangeOK'
  <2>1. Before \/ helper # "reading"
    BY <1>0, <1>1, <1>3, <1>5 DEF ExchangeOK
  <2>2. Before' \/ helper # "reading"
    BY <2>1, <1>1, <1>3, <1>5 DEF Before, Owed, Held
  <2> QED  BY <1>3, <1>5, <2>2 DEF ExchangeOK
<1> QED  BY <1>7, <1>8, <1>9, <1>10, <1>11 DEF Inv

\* defer and retain_pending end the critical section without a command.
LEMMA DeferInv ==
    ASSUME Inv, NEW c \in Callers, DeferIntent(c)
    PROVE  Inv'
<1>0. TypeOK /\ LockOK /\ IdsOK /\ CallOK /\ ExchangeOK
  BY DEF Inv
<1>1. parent = "alive" /\ calling = NoCall /\ intent # NoIntent
  BY DEF DeferIntent, Holds
<1>2. UNCHANGED <<calling, nextId, entries, failed, runtime, channel, current, reply,
                  pipeIn, pipeOut, journal, helper, parent>>
  BY DEF DeferIntent, threadVars, pipeVars, helperVars
<1>3. lock' = NoCaller /\ intent' = NoIntent /\ deferred' = deferred \cup {intent}
  BY DEF DeferIntent
<1>4. TypeOK'
  BY <1>0, <1>1, <1>2, <1>3 DEF TypeOK
<1>5. LockOK'
  BY <1>1, <1>2, <1>3 DEF LockOK
<1>6. Owed' = Owed
  BY <1>1, <1>3 DEF Owed, Held
<1>7. IdsOK'
  BY <1>0, <1>2, <1>3, <1>6 DEF IdsOK, Held
<1>8. CallOK'
  BY <1>1, <1>2 DEF CallOK
<1>9. ExchangeOK'
  BY <1>0, <1>1, <1>2, <1>6 DEF ExchangeOK, Quiet, Before
<1> QED  BY <1>4, <1>5, <1>7, <1>8, <1>9 DEF Inv

LEMMA RetainInv ==
    ASSUME Inv, NEW c \in Callers, RetainPending(c)
    PROVE  Inv'
<1>0. TypeOK /\ LockOK /\ IdsOK /\ CallOK /\ ExchangeOK
  BY DEF Inv
<1>1. calling = NoCall
  BY DEF RetainPending, Holds
<1>2. UNCHANGED <<calling, deferred, nextId, entries, runtime, channel, current, reply,
                  pipeIn, pipeOut, journal, helper, parent>>
  BY DEF RetainPending, threadVars, pipeVars, helperVars
<1>3. lock' = NoCaller /\ intent' = NoIntent /\ failed' = TRUE
  BY DEF RetainPending
<1>4. TypeOK'
  BY <1>0, <1>2, <1>3 DEF TypeOK
<1>5. LockOK' /\ CallOK' /\ ExchangeOK'
  BY <1>1, <1>2, <1>3 DEF LockOK, CallOK, ExchangeOK
<1>6. IdsOK'
  BY <1>0, <1>2, <1>3 DEF IdsOK, Owed, Held
<1> QED  BY <1>4, <1>5, <1>6 DEF Inv

LEMMA FinishInv ==
    ASSUME Inv, NEW c \in Callers, Finish(c)
    PROVE  Inv'
<1>0. TypeOK /\ LockOK /\ IdsOK /\ CallOK /\ ExchangeOK
  BY DEF Inv
<1>1. UNCHANGED <<lock, calling, intent, deferred, nextId, entries, failed, channel, current,
                  reply, pipeIn, pipeOut, journal, helper, parent>>
  BY DEF Finish, threadVars, pipeVars, helperVars
<1>2. TypeOK'
  BY <1>0, <1>1 DEF TypeOK, Finish
<1>3. LockOK' /\ IdsOK' /\ CallOK'
  BY <1>0, <1>1 DEF LockOK, IdsOK, CallOK, Owed, Held
<1>4. ExchangeOK'
  <2>1. calling = NoCall
    BY <1>0 DEF Finish, Enter, LockOK
  <2> QED  BY <1>0, <1>1, <2>1 DEF ExchangeOK, Quiet, Before, Owed, Held
<1> QED  BY <1>2, <1>3, <1>4 DEF Inv

--------------------------------------------------------------------------------
(***************************************************************************)
(* Answers.                                                                *)
(***************************************************************************)
\* What an error leaves behind is well formed, whoever reports it.
LEMMA OnErrorKeeps ==
    ASSUME Inv, calling # NoCall, OnError, calling' = NoCall, nextId' = nextId
    PROVE  /\ LockOK' /\ IdsOK' /\ CallOK'
           /\ lock' = NoCaller /\ intent' = NoIntent /\ deferred' \in SUBSET Intent
           /\ entries' = entries
           /\ calling.kind \notin {"commit", "cancel"} => Owed' = Owed
<1>0. TypeOK /\ LockOK /\ IdsOK /\ CallOK
  BY DEF Inv
<1>1. lock' = NoCaller /\ intent' = NoIntent /\ entries' = entries
  BY DEF OnError
<1>2. calling.kind = "commit_or_defer" => intent # NoIntent /\ intent \in Intent
  BY <1>0 DEF CallOK, TypeOK
<1>3. deferred' \in SUBSET Intent
  BY <1>0, <1>2 DEF OnError, TypeOK
<1>4. Owed' \subseteq Owed
  BY <1>1, <1>2 DEF OnError, Owed, Held
<1>5. IdsOK'
  BY <1>0, <1>1, <1>4 DEF IdsOK, Held
<1>6. LockOK' /\ CallOK'
  BY <1>1 DEF LockOK, CallOK
<1>7. calling.kind \notin {"commit", "cancel"} => Owed' = Owed
  BY <1>0, <1>1 DEF OnError, Owed, Held, CallOK
<1> QED  BY <1>1, <1>3, <1>5, <1>6, <1>7

\* An acknowledged command: mirror and open intents follow the journal.
LEMMA OnOkInv ==
    ASSUME Inv, NEW c \in Callers, TakeReply(c), reply = "ok"
    PROVE  Inv'
<1>0. TypeOK /\ LockOK /\ IdsOK /\ CallOK /\ ExchangeOK
  BY DEF Inv
<1>1. /\ parent = "alive" /\ lock = c /\ calling # NoCall /\ ~failed
      /\ calling \in [kind : Kinds, command : Commands]
  BY <1>0 DEF TakeReply, Waiting, LockOK, TypeOK
<1>2. /\ calling' = NoCall /\ reply' = NoReply
      /\ UNCHANGED <<nextId, runtime, channel, current, pipeIn, pipeOut, journal, helper, parent>>
  BY DEF TakeReply, pipeVars, helperVars
<1>3. OnOk
  BY DEF TakeReply
<1>4. failed' = failed
  BY <1>0, <1>1 DEF TakeReply, TypeOK
<1>5. Quiet /\ (helper = "reading" => journal = Target)
  BY <1>0, <1>1, SentinelAssumption DEF ExchangeOK, Queued, Written, Answered, Outcomes
<1>6. reply' \in Outcomes \cup {NoReply} /\ calling' \in [kind : Kinds, command : Commands] \cup {NoCall}
  BY <1>2
<1>7. SUFFICES /\ lock' \in Callers \cup {NoCaller}
               /\ intent' \in Intent \cup {NoIntent}
               /\ deferred' \in SUBSET Intent
               /\ entries' \in [Keys -> Seq(Edge)]
               /\ lock' = NoCaller <=> intent' = NoIntent
               /\ IdsOK'
               /\ helper = "reading" => journal = [committed |-> entries', pending |-> Owed']
  <2>1. TypeOK'
    BY <1>0, <1>2, <1>4, <1>6, <1>7 DEF TypeOK
  <2>2. LockOK' /\ CallOK'
    BY <1>1, <1>2, <1>4, <1>7 DEF LockOK, CallOK
  <2>3. ExchangeOK'
    BY <1>2, <1>5, <1>7 DEF ExchangeOK, Quiet, Before
  <2> QED  BY <1>7, <2>1, <2>2, <2>3 DEF Inv
<1>8. CASE calling.kind = "begin"
  <2>1. PICK i \in Intent : /\ calling.command = Begin(i.id, i.key, i.edge)
                            /\ i.id < nextId /\ \A j \in deferred : j.id # i.id
    BY <1>0, <1>1, <1>8 DEF CallOK
  <2>2. i = [id |-> calling.command.id, key |-> calling.command.key, edge |-> calling.command.edge]
    BY <2>1 DEF Begin, Intent
  <2>3. intent' = i /\ UNCHANGED <<lock, deferred, entries>>
    BY <1>3, <1>8, <2>2 DEF OnOk
  <2>4. intent' # NoIntent /\ lock' # NoCaller
    BY <1>1, <2>3, SentinelAssumption, CallersAssumption
  <2>5. Owed' = deferred \cup {i}
    BY <2>3, <2>4 DEF Owed, Held
  <2>6. IdsOK'
    <3>1. Held' = {i} /\ deferred' = deferred
      BY <2>3, <2>4 DEF Held
    <3> QED  BY <1>0, <1>2, <2>1, <2>5, <3>1 DEF IdsOK, Owed
  <2>7. helper = "reading" => journal = [committed |-> entries', pending |-> Owed']
    BY <1>5, <1>8, <2>2, <2>3, <2>5 DEF Target
  <2> QED  BY <1>0, <2>1, <2>3, <2>4, <2>6, <2>7 DEF TypeOK
<1>9. CASE calling.kind \in {"commit", "cancel"}
  <2>1. lock' = NoCaller /\ intent' = NoIntent /\ UNCHANGED <<deferred, entries>>
    BY <1>3, <1>9 DEF OnOk
  <2>2. Owed' = deferred
    BY <2>1 DEF Owed, Held
  <2>3. IdsOK'
    BY <1>0, <1>2, <2>1, <2>2 DEF IdsOK, Owed, Held
  <2>4. helper = "reading" => journal = [committed |-> entries', pending |-> Owed']
    BY <1>5, <1>9, <2>1, <2>2 DEF Target
  <2> QED  BY <1>0, <2>1, <2>3, <2>4 DEF TypeOK
<1>10. CASE calling.kind = "commit_or_defer"
  <2>1. lock' = NoCaller /\ intent' = NoIntent /\ entries' = Mirrored(intent) /\ UNCHANGED deferred
    BY <1>3, <1>10 DEF OnOk
  <2>2. intent \in Intent
    BY <1>0, <1>1, <1>10 DEF CallOK, TypeOK
  <2>3. entries' \in [Keys -> Seq(Edge)]
    BY <1>0, <2>1, <2>2, MirroredType
  <2>4. Owed' = deferred
    BY <2>1 DEF Owed, Held
  <2>5. IdsOK'
    BY <1>0, <1>2, <2>1, <2>4 DEF IdsOK, Owed, Held
  <2>6. helper = "reading" => journal = [committed |-> entries', pending |-> Owed']
    BY <1>5, <1>10, <2>1, <2>4 DEF Target
  <2> QED  BY <1>0, <2>1, <2>3, <2>5, <2>6 DEF TypeOK
<1>11. CASE calling.kind = "resolve"
  <2>1. intent = NoIntent /\ ResolvedIntent \in deferred
    BY <1>0, <1>1, <1>11 DEF CallOK, ResolvedIntent, Commit, Cancel
  <2>2. /\ lock' = NoCaller /\ intent' = NoIntent /\ deferred' = deferred \ {ResolvedIntent}
        /\ entries' = IF calling.command.op = "commit" THEN Mirrored(ResolvedIntent) ELSE entries
    BY <1>3, <1>11, <2>1 DEF OnOk
  <2>3. ResolvedIntent \in Intent /\ deferred' \in SUBSET Intent
    BY <1>0, <2>1, <2>2 DEF TypeOK
  <2>4. entries' \in [Keys -> Seq(Edge)]
    BY <1>0, <2>2, <2>3, MirroredType DEF TypeOK
  <2>5. Owed' = deferred \ {ResolvedIntent}
    BY <2>2 DEF Owed, Held
  <2>6. IdsOK'
    BY <1>0, <1>2, <2>2, <2>5 DEF IdsOK, Owed, Held
  <2>7. helper = "reading" => journal = [committed |-> entries', pending |-> Owed']
    BY <1>5, <1>11, <2>2, <2>5 DEF Target
  <2> QED  BY <2>2, <2>3, <2>4, <2>6, <2>7
<1>12. CASE calling.kind = "forget"
  <2>1. intent = NoIntent /\ calling.command.key \in Keys
    BY <1>0, <1>1, <1>12 DEF CallOK, Forget
  <2>2. /\ lock' = NoCaller /\ intent' = NoIntent
        /\ deferred' = {i \in deferred : i.key # calling.command.key}
        /\ entries' = [entries EXCEPT ![calling.command.key] = << >>]
    BY <1>3, <1>12, <2>1 DEF OnOk
  <2>3. deferred' \in SUBSET Intent
    BY <1>0, <2>2 DEF TypeOK
  <2>4. entries' \in [Keys -> Seq(Edge)]
    <3>1. << >> \in Seq(Edge)
      OBVIOUS
    <3> QED  BY <1>0, <2>1, <2>2, <3>1 DEF TypeOK
  <2>5. Owed' = deferred'
    BY <2>2 DEF Owed, Held
  <2>6. IdsOK'
    BY <1>0, <1>2, <2>2, <2>5 DEF IdsOK, Owed, Held
  <2>7. helper = "reading" => journal = [committed |-> entries', pending |-> Owed']
    BY <1>5, <1>12, <2>2, <2>5 DEF Target
  <2> QED  BY <2>2, <2>3, <2>4, <2>6, <2>7
<1> QED  BY <1>1, <1>8, <1>9, <1>10, <1>11, <1>12 DEF Kinds

\* A rejected command, or one whose outcome is not known.
LEMMA ErrorReplyInv ==
    ASSUME Inv, NEW c \in Callers, TakeReply(c), reply # "ok"
    PROVE  Inv'
<1>0. TypeOK /\ LockOK /\ IdsOK /\ CallOK /\ ExchangeOK
  BY DEF Inv
<1>1. parent = "alive" /\ calling # NoCall /\ ~failed
  BY <1>0 DEF TakeReply, Waiting, LockOK
<1>2. /\ calling' = NoCall /\ reply' = NoReply /\ OnError
      /\ UNCHANGED <<nextId, runtime, channel, current, pipeIn, pipeOut, journal, helper, parent>>
  BY DEF TakeReply, pipeVars, helperVars
<1>3. /\ LockOK' /\ IdsOK' /\ CallOK'
      /\ lock' = NoCaller /\ intent' = NoIntent /\ deferred' \in SUBSET Intent
      /\ entries' = entries
      /\ calling.kind \notin {"commit", "cancel"} => Owed' = Owed
  BY <1>1, <1>2, OnErrorKeeps
<1>4. failed' \in BOOLEAN
  BY <1>0 DEF TakeReply, TypeOK
<1>5. TypeOK'
  BY <1>0, <1>2, <1>3, <1>4 DEF TypeOK
<1>6. ExchangeOK'
  <2>1. CASE reply = "uncertain"
    <3>1. failed'
      BY <2>1 DEF TakeReply
    <3> QED  BY <3>1 DEF ExchangeOK
  <2>2. CASE reply = "rejected" /\ calling.kind = "commit"
    <3>1. failed'
      BY <2>2 DEF TakeReply
    <3> QED  BY <3>1 DEF ExchangeOK
  <2>3. CASE reply = "rejected" /\ calling.kind # "commit"
    <3>1. Quiet /\ (helper = "reading" => Before) /\ calling.command.op # "cancel"
      BY <1>0, <1>1, <2>3, SentinelAssumption
         DEF ExchangeOK, Queued, Written, Answered, Outcomes
    <3>2. calling.kind # "cancel"
      BY <1>0, <1>1, <3>1 DEF CallOK, Cancel
    <3>3. helper = "reading" => Before'
      BY <1>2, <1>3, <2>3, <3>1, <3>2 DEF Before
    <3> QED  BY <1>2, <3>1, <3>3 DEF ExchangeOK, Quiet
  <2>4. reply \in {"uncertain", "rejected"}
    BY <1>0 DEF TypeOK, Outcomes, TakeReply
  <2> QED  BY <2>1, <2>2, <2>3, <2>4
<1> QED  BY <1>3, <1>5, <1>6 DEF Inv

LEMMA GiveUpInv ==
    ASSUME Inv, NEW c \in Callers, GiveUp(c)
    PROVE  Inv'
<1>0. TypeOK /\ LockOK /\ IdsOK /\ CallOK /\ ExchangeOK
  BY DEF Inv
<1>1. /\ calling # NoCall /\ calling' = NoCall /\ OnError /\ failed' = TRUE
      /\ UNCHANGED <<nextId, runtime, reply, pipeIn, pipeOut, journal, helper, parent>>
  BY DEF GiveUp, Waiting, pipeVars, helperVars
<1>2. /\ LockOK' /\ IdsOK' /\ CallOK'
      /\ lock' = NoCaller /\ intent' = NoIntent /\ deferred' \in SUBSET Intent
      /\ entries' = entries
  BY <1>1, OnErrorKeeps
<1>3. \A r \in Requests : Dropped(r) \in Requests
  BY DEF Dropped, Requests
<1>4. channel' \in Seq(Requests)
  <2>1. \A n \in DOMAIN channel : channel[n] \in Requests
    BY <1>0 DEF TypeOK
  <2>2. channel' = [n \in DOMAIN channel |-> Dropped(channel[n])]
    BY DEF GiveUp
  <2>3. Len(channel) \in Nat /\ DOMAIN channel = 1..Len(channel)
    BY <1>0 DEF TypeOK
  <2>4. channel' \in [1..Len(channel) -> Requests]
    BY <1>3, <2>1, <2>2, <2>3
  <2> QED  BY <2>3, <2>4
<1>5. current' \in Requests \cup {NoRequest}
  BY <1>0, <1>3 DEF TypeOK, GiveUp
<1>6. TypeOK'
  BY <1>0, <1>1, <1>2, <1>4, <1>5 DEF TypeOK
<1>7. ExchangeOK'
  BY <1>1 DEF ExchangeOK
<1> QED  BY <1>2, <1>6, <1>7 DEF Inv

--------------------------------------------------------------------------------
(***************************************************************************)
(* The transport thread and the helper.                                    *)
(***************************************************************************)
LEMMA WriteCommandInv ==
    ASSUME Inv, WriteCommand
    PROVE  Inv'
<1>0. TypeOK /\ LockOK /\ IdsOK /\ CallOK /\ ExchangeOK
  BY DEF Inv
<1>1. UNCHANGED <<lock, calling, intent, deferred, nextId, entries, failed, runtime,
                  pipeOut, journal, helper, parent>>
  BY DEF WriteCommand, clientVars, helperVars
<1>2. Head(channel) \in Requests /\ Tail(channel) \in Seq(Requests)
  BY <1>0 DEF WriteCommand, TypeOK
<1>3. Head(channel).command \in Commands
  BY <1>2 DEF Requests
<1>4. /\ channel' \in Seq(Requests) /\ current' \in Requests \cup {NoRequest}
      /\ reply' \in Outcomes \cup {NoReply} /\ pipeIn' \in Seq(Commands)
  <2>1. Append(pipeIn, Head(channel).command) \in Seq(Commands)
    BY <1>0, <1>3 DEF TypeOK
  <2>2. CASE helper = "dead"
    BY <1>0, <1>2, <2>2 DEF WriteCommand, TypeOK, Outcomes
  <2>3. CASE helper # "dead"
    BY <1>0, <1>2, <2>1, <2>3 DEF WriteCommand, TypeOK
  <2> QED  BY <2>2, <2>3
<1>5. TypeOK'
  BY <1>0, <1>1, <1>4 DEF TypeOK
<1>6. LockOK' /\ IdsOK' /\ CallOK'
  BY <1>0, <1>1 DEF LockOK, IdsOK, CallOK, Owed, Held
<1>7. ExchangeOK'
  <2> SUFFICES ASSUME parent = "alive", ~failed PROVE ExchangeOK'
    BY <1>1 DEF ExchangeOK
  <2>1. calling # NoCall /\ Queued /\ (helper = "reading" => Before)
    BY <1>0 DEF ExchangeOK, WriteCommand, Quiet, Written, Answered
  <2>2. Before' <=> Before
    BY <1>1 DEF Before, Owed, Held
  <2>3. Head(channel) = Request /\ channel' = << >>
    BY <2>1 DEF Queued, WriteCommand
  <2>4. CASE helper = "dead"
    <3>1. reply' = "uncertain" /\ current' = NoRequest
      BY <2>1, <2>3, <2>4 DEF WriteCommand, Request, Queued
    <3> QED  BY <1>1, <2>1, <2>3, <2>4, <3>1 DEF ExchangeOK
  <2>5. CASE helper # "dead"
    <3>1. Written'
      BY <1>1, <2>1, <2>3, <2>5 DEF WriteCommand, Queued, Written, Request
    <3> QED  BY <1>1, <2>1, <2>2, <3>1 DEF ExchangeOK
  <2> QED  BY <2>4, <2>5
<1> QED  BY <1>5, <1>6, <1>7 DEF Inv

LEMMA ReadAnswerInv ==
    ASSUME Inv, ReadAnswer
    PROVE  Inv'
<1>0. TypeOK /\ LockOK /\ IdsOK /\ CallOK /\ ExchangeOK
  BY DEF Inv
<1>1. UNCHANGED <<lock, calling, intent, deferred, nextId, entries, failed, runtime,
                  channel, pipeIn, journal, helper, parent>>
  BY DEF ReadAnswer, clientVars, helperVars
<1>2. pipeOut # << >> => Head(pipeOut) \in {"ok", "rejected"}
                         /\ Tail(pipeOut) \in Seq({"ok", "rejected"})
  BY <1>0 DEF TypeOK
<1>3. /\ reply' \in Outcomes \cup {NoReply} /\ pipeOut' \in Seq({"ok", "rejected"})
      /\ current' = NoRequest
  BY <1>0, <1>2 DEF ReadAnswer, TypeOK, Outcomes
<1>4. TypeOK'
  BY <1>0, <1>1, <1>3 DEF TypeOK
<1>5. LockOK' /\ IdsOK' /\ CallOK'
  BY <1>0, <1>1 DEF LockOK, IdsOK, CallOK, Owed, Held
<1>6. ExchangeOK'
  <2> SUFFICES ASSUME parent = "alive", ~failed PROVE ExchangeOK'
    BY <1>1 DEF ExchangeOK
  <2>1. (Before' <=> Before) /\ Target' = Target
    BY <1>1 DEF Before, Owed, Held, Target, Mirrored, ResolvedIntent
  <2>2. \/ calling # NoCall /\ Written /\ helper = "dead"
        \/ calling # NoCall /\ current = Request /\ Answered("ok")
           /\ (helper = "reading" => journal = Target)
        \/ calling # NoCall /\ current = Request /\ Answered("rejected")
           /\ (helper = "reading" => Before) /\ calling.command.op # "cancel"
    BY <1>0 DEF ExchangeOK, ReadAnswer, Quiet, Queued, Written, Answered
  <2>3. Request # NoRequest /\ Request.live
    <3>1. calling # NoCall => Request \in Requests
      BY <1>0 DEF TypeOK, Request, Requests
    <3> QED  BY <2>2, <3>1, SentinelAssumption DEF Request
  <2>4. CASE calling # NoCall /\ Written /\ helper = "dead"
    <3>1. reply' = "uncertain" /\ channel = << >>
      BY <2>3, <2>4 DEF ReadAnswer, Written
    <3> QED  BY <1>1, <1>3, <2>4, <3>1 DEF ExchangeOK
  <2>5. CASE calling # NoCall /\ current = Request /\ Answered("ok")
             /\ (helper = "reading" => journal = Target)
    <3>1. channel = << >> /\ pipeIn = << >> /\ pipeOut = <<"ok">>
      BY <2>3, <2>5 DEF Answered, Quiet
    <3>2. reply' = "ok" /\ pipeOut' = << >>
      BY <2>3, <2>5, <3>1 DEF ReadAnswer
    <3>3. Answered("ok")'
      BY <1>1, <1>3, <3>1, <3>2 DEF Answered, Quiet
    <3> QED  BY <1>1, <2>1, <2>5, <3>3 DEF ExchangeOK
  <2>6. CASE calling # NoCall /\ current = Request /\ Answered("rejected")
             /\ (helper = "reading" => Before) /\ calling.command.op # "cancel"
    <3>1. channel = << >> /\ pipeIn = << >> /\ pipeOut = <<"rejected">>
      BY <2>3, <2>6 DEF Answered, Quiet
    <3>2. reply' = "rejected" /\ pipeOut' = << >>
      BY <2>3, <2>6, <3>1 DEF ReadAnswer
    <3>3. Answered("rejected")'
      BY <1>1, <1>3, <3>1, <3>2 DEF Answered, Quiet
    <3> QED  BY <1>1, <2>1, <2>6, <3>3 DEF ExchangeOK
  <2> QED  BY <2>2, <2>4, <2>5, <2>6
<1> QED  BY <1>4, <1>5, <1>6 DEF Inv

\* What the helper does with the command in flight is what the caller expects of it.
LEMMA ApplyReachesTarget ==
    ASSUME Inv, calling # NoCall, Before
    PROVE  Apply(journal, calling.command) = Target
<1>0. TypeOK /\ LockOK /\ IdsOK /\ CallOK
  BY DEF Inv
<1>1. /\ journal \in JournalType /\ journal.pending = Owed
      /\ \A a, b \in journal.pending : a.id = b.id => a = b
  BY <1>0 DEF TypeOK, Before, IdsOK
<1>2. calling.kind # "commit" => entries = journal.committed
  BY DEF Before
<1>3. journal = [committed |-> journal.committed, pending |-> journal.pending]
  BY <1>1 DEF JournalType
<1>4. CASE calling.kind = "begin"
  <2>1. PICK i \in Intent : calling.command = Begin(i.id, i.key, i.edge)
    BY <1>0, <1>4 DEF CallOK
  <2>2. Owed = deferred
    BY <1>0, <1>4 DEF CallOK, Owed, Held
  <2>3. Apply(journal, calling.command)
          = ApplyBegin(journal, calling.command.id, calling.command.key, calling.command.edge)
    BY <2>1 DEF Apply, Begin
  <2> QED  BY <1>1, <1>2, <1>3, <1>4, <2>2, <2>3 DEF ApplyBegin, Target
<1>5. CASE calling.kind \in {"commit", "commit_or_defer"}
  <2>1. intent \in Owed /\ calling.command = Commit(intent.id) /\ Owed \ {intent} = deferred
    <3>1. intent # NoIntent /\ calling.command = Commit(intent.id)
      BY <1>0, <1>5 DEF CallOK
    <3>2. intent \notin deferred
      BY <1>0, <3>1 DEF IdsOK, Held
    <3> QED  BY <3>1, <3>2 DEF Owed, Held
  <2>2. Apply(journal, calling.command) = ApplyCommit(journal, intent.id)
    BY <2>1 DEF Apply, Commit
  <2>3. ApplyCommit(journal, intent.id)
          = [committed |-> [journal.committed EXCEPT ![intent.key] = CompactOrPush(@, intent.edge)],
             pending |-> journal.pending \ {intent}]
    BY <1>1, <2>1, CommitMovesEdge
  <2> QED  BY <1>1, <1>2, <1>5, <2>1, <2>2, <2>3 DEF Target, Before, Mirrored
<1>6. CASE calling.kind = "cancel"
  <2>1. intent \in Owed /\ calling.command = Cancel(intent.id) /\ Owed \ {intent} = deferred
    <3>1. intent # NoIntent /\ calling.command = Cancel(intent.id)
      BY <1>0, <1>6 DEF CallOK
    <3>2. intent \notin deferred
      BY <1>0, <3>1 DEF IdsOK, Held
    <3> QED  BY <3>1, <3>2 DEF Owed, Held
  <2>2. Apply(journal, calling.command) = ApplyCancel(journal, intent.id)
    BY <2>1 DEF Apply, Cancel
  <2>3. ApplyCancel(journal, intent.id)
          = [committed |-> journal.committed, pending |-> journal.pending \ {intent}]
    BY <1>1, <2>1, CancelRemovesIntent
  <2> QED  BY <1>1, <1>2, <1>6, <2>1, <2>2, <2>3 DEF Target
<1>7. CASE calling.kind = "resolve"
  <2>1. PICK i \in deferred : calling.command \in {Commit(i.id), Cancel(i.id)}
    BY <1>0, <1>7 DEF CallOK
  <2>2. Owed = deferred
    BY <1>0, <1>7 DEF CallOK, Owed, Held
  <2>3. ResolvedIntent = i
    BY <1>1, <2>1, <2>2 DEF ResolvedIntent, Commit, Cancel
  <2>4. CASE calling.command = Commit(i.id)
    <3>1. Apply(journal, calling.command) = ApplyCommit(journal, i.id)
      BY <2>4 DEF Apply, Commit
    <3>2. ApplyCommit(journal, i.id)
            = [committed |-> [journal.committed EXCEPT ![i.key] = CompactOrPush(@, i.edge)],
               pending |-> journal.pending \ {i}]
      BY <1>1, <2>1, <2>2, CommitMovesEdge
    <3>3. calling.command.op = "commit"
      BY <2>4 DEF Commit
    <3> QED  BY <1>1, <1>2, <1>7, <2>2, <2>3, <3>1, <3>2, <3>3 DEF Target, Mirrored
  <2>5. CASE calling.command = Cancel(i.id)
    <3>1. Apply(journal, calling.command) = ApplyCancel(journal, i.id)
      BY <2>5 DEF Apply, Cancel
    <3>2. ApplyCancel(journal, i.id)
            = [committed |-> journal.committed, pending |-> journal.pending \ {i}]
      BY <1>1, <2>1, <2>2, CancelRemovesIntent
    <3>3. calling.command.op # "commit"
      BY <2>5 DEF Cancel
    <3> QED  BY <1>1, <1>2, <1>7, <2>2, <2>3, <3>1, <3>2, <3>3 DEF Target
  <2> QED  BY <2>1, <2>4, <2>5
<1>8. CASE calling.kind = "forget"
  <2>1. PICK k \in Keys : calling.command = Forget(k)
    BY <1>0, <1>8 DEF CallOK
  <2>2. Owed = deferred
    BY <1>0, <1>8 DEF CallOK, Owed, Held
  <2>3. Apply(journal, calling.command) = ApplyForget(journal, k) /\ calling.command.key = k
    BY <2>1 DEF Apply, Forget
  <2> QED  BY <1>1, <1>2, <1>8, <2>2, <2>3 DEF ApplyForget, Target
<1>9. calling.kind \in Kinds
  BY <1>0 DEF TypeOK
<1> QED  BY <1>4, <1>5, <1>6, <1>7, <1>8, <1>9 DEF Kinds

LEMMA HandleCommandInv ==
    ASSUME Inv, HandleCommand
    PROVE  Inv'
<1>0. TypeOK /\ LockOK /\ IdsOK /\ CallOK /\ ExchangeOK
  BY DEF Inv
<1>1. UNCHANGED <<lock, calling, intent, deferred, nextId, entries, failed, runtime,
                  channel, current, reply, parent>>
  BY DEF HandleCommand, clientVars, threadVars
<1>2. PICK answer \in {"ok", "rejected"} :
        /\ answer = "rejected" => Head(pipeIn).op \in Rejectable
        /\ journal' = IF answer = "ok" THEN Apply(journal, Head(pipeIn)) ELSE journal
        /\ IF parent = "alive"
           THEN pipeOut' = Append(pipeOut, answer) /\ UNCHANGED helper
           ELSE helper' = "replaying" /\ UNCHANGED pipeOut
  BY DEF HandleCommand
<1>3. helper = "reading" /\ pipeIn # << >> /\ pipeIn' = Tail(pipeIn)
  BY DEF HandleCommand
<1>4. Head(pipeIn) \in Commands /\ Tail(pipeIn) \in Seq(Commands)
  BY <1>0, <1>3 DEF TypeOK
<1>5. journal' \in JournalType
  BY <1>0, <1>2, <1>4, ApplyType DEF TypeOK
<1>6. pipeOut' \in Seq({"ok", "rejected"}) /\ helper' \in {"reading", "replaying", "dead"}
  <2>1. pipeOut \in Seq({"ok", "rejected"}) /\ answer \in {"ok", "rejected"}
    BY <1>0 DEF TypeOK
  <2>2. Append(pipeOut, answer) \in Seq({"ok", "rejected"})
    BY <2>1
  <2> QED  BY <1>2, <1>3, <2>1, <2>2
<1>7. TypeOK'
  BY <1>0, <1>1, <1>3, <1>4, <1>5, <1>6 DEF TypeOK
<1>8. LockOK' /\ IdsOK' /\ CallOK'
  BY <1>0, <1>1 DEF LockOK, IdsOK, CallOK, Owed, Held
<1>9. ExchangeOK'
  <2> SUFFICES ASSUME parent = "alive", ~failed PROVE ExchangeOK'
    BY <1>1 DEF ExchangeOK
  <2>1. calling # NoCall /\ Written /\ Before
    BY <1>0, <1>3 DEF ExchangeOK, Quiet, Queued, Answered
  <2>2. Head(pipeIn) = calling.command /\ pipeIn' = << >>
    BY <1>3, <2>1 DEF Written
  <2>3. pipeOut' = <<answer>> /\ helper' = "reading"
    BY <1>2, <1>3, <2>1 DEF Written
  <2>4. Answered(answer)'
    BY <1>1, <2>1, <2>2, <2>3 DEF Written, Answered, Request
  <2>5. Target' = Target
    BY <1>1 DEF Target, Mirrored, ResolvedIntent
  <2>6. CASE answer = "ok"
    <3>1. journal' = Target'
      BY <1>2, <2>1, <2>2, <2>5, <2>6, ApplyReachesTarget
    <3> QED  BY <1>1, <2>1, <2>4, <2>6, <3>1 DEF ExchangeOK
  <2>7. CASE answer = "rejected"
    <3>1. calling'.command.op # "cancel"
      BY <1>1, <1>2, <2>2, <2>7, RejectableAssumption
    <3>2. Before'
      BY <1>1, <1>2, <2>1, <2>7 DEF Before, Owed, Held
    <3> QED  BY <1>1, <2>1, <2>4, <2>7, <3>1, <3>2 DEF ExchangeOK
  <2> QED  BY <2>6, <2>7
<1> QED  BY <1>7, <1>8, <1>9 DEF Inv

\* The end of the input and the death of either process change no exchange.
LEMMA LifecycleInv ==
    ASSUME Inv, EndOfInput \/ HelperDies \/ ParentDies
    PROVE  Inv'
<1>0. TypeOK /\ LockOK /\ IdsOK /\ CallOK /\ ExchangeOK
  BY DEF Inv
<1>1. UNCHANGED <<lock, calling, intent, deferred, nextId, entries, failed, runtime,
                  channel, current, reply, pipeIn, pipeOut, journal>>
  BY DEF EndOfInput, HelperDies, ParentDies, clientVars, threadVars, pipeVars, helperVars
<1>2. helper' \in {"reading", "replaying", "dead"} /\ parent' \in {"alive", "dead"}
  BY <1>0 DEF EndOfInput, HelperDies, ParentDies, helperVars, TypeOK
<1>3. TypeOK'
  BY <1>0, <1>1, <1>2 DEF TypeOK
<1>4. LockOK' /\ IdsOK' /\ CallOK'
  BY <1>0, <1>1 DEF LockOK, IdsOK, CallOK, Owed, Held
<1>5. parent' = "alive" => parent = "alive"
  BY DEF EndOfInput, HelperDies, ParentDies
<1>6. (helper' = "reading" => helper = "reading") /\ (helper = "dead" => helper' = "dead")
  BY DEF EndOfInput, HelperDies, ParentDies, helperVars
<1>7. (Before' <=> Before) /\ Target' = Target /\ (Quiet' <=> Quiet)
      /\ (Queued' <=> Queued) /\ (Written' <=> Written)
      /\ (Answered("ok")' <=> Answered("ok")) /\ (Answered("rejected")' <=> Answered("rejected"))
  BY <1>1 DEF Before, Owed, Held, Target, Mirrored, ResolvedIntent, Quiet, Queued, Written,
              Answered, Request
<1>8. ExchangeOK'
  BY <1>0, <1>1, <1>5, <1>6, <1>7 DEF ExchangeOK
<1> QED  BY <1>3, <1>4, <1>8 DEF Inv

LEMMA StutterInv ==
    ASSUME Inv, UNCHANGED vars
    PROVE  Inv'
<1>1. UNCHANGED <<lock, calling, intent, deferred, nextId, entries, failed, runtime,
                  channel, current, reply, pipeIn, pipeOut, journal, helper, parent>>
  BY DEF vars
<1>2. TypeOK' /\ LockOK' /\ IdsOK' /\ CallOK'
  BY <1>1 DEF Inv, TypeOK, LockOK, IdsOK, CallOK, Owed, Held
<1>3. (Before' <=> Before) /\ Target' = Target /\ (Quiet' <=> Quiet)
      /\ (Queued' <=> Queued) /\ (Written' <=> Written)
      /\ (Answered("ok")' <=> Answered("ok")) /\ (Answered("rejected")' <=> Answered("rejected"))
  BY <1>1 DEF Before, Owed, Held, Target, Mirrored, ResolvedIntent, Quiet, Queued, Written,
              Answered, Request
<1>4. ExchangeOK'
  BY <1>1, <1>3 DEF Inv, ExchangeOK
<1> QED  BY <1>2, <1>4 DEF Inv

--------------------------------------------------------------------------------
LEMMA NextInv == Inv /\ [Next]_vars => Inv'
<1> SUFFICES ASSUME Inv, [Next]_vars PROVE Inv'
  OBVIOUS
<1>1. ASSUME NEW c \in Callers, CallerStep(c) PROVE Inv'
  <2>1. ASSUME NEW k \in Keys, NEW e \in Edge, RecordEntry(c, k, e) PROVE Inv'
    BY <2>1, RecordEntryInv
  <2>2. CASE CommitIntent(c)
    BY <2>2, ResolutionInv DEF CommitIntent
  <2>3. CASE CommitOrDefer(c)
    BY <2>3, ResolutionInv DEF CommitOrDefer
  <2>4. CASE DeferIntent(c)
    BY <2>4, DeferInv
  <2>5. CASE RetainPending(c)
    BY <2>5, RetainInv
  <2>6. CASE DropIntent(c)
    BY <2>6, ResolutionInv DEF DropIntent
  <2>7. ASSUME NEW i \in deferred, NEW applied \in BOOLEAN, ResolveDeferred(c, i, applied)
        PROVE  Inv'
    <3> DEFINE command == IF applied THEN Commit(i.id) ELSE Cancel(i.id)
    <3>1. command \in {Commit(i.id), Cancel(i.id)} /\ command \in Commands
      BY CommandTypes DEF Inv, TypeOK, Intent
    <3>2. /\ Enter(c) /\ Send("resolve", command) /\ lock' = c
          /\ UNCHANGED <<intent, deferred, nextId, entries, failed, runtime,
                         pipeVars, helperVars, parent>>
      BY <2>7 DEF ResolveDeferred
    <3> HIDE DEF command
    <3> QED  BY <3>1, <3>2, DirectInv
  <2>8. ASSUME NEW k \in Keys, ForgetKey(c, k) PROVE Inv'
    <3>1. Forget(k) \in Commands
      BY CommandTypes
    <3>2. /\ Enter(c) /\ Send("forget", Forget(k)) /\ lock' = c
          /\ UNCHANGED <<intent, deferred, nextId, entries, failed, runtime,
                         pipeVars, helperVars, parent>>
      BY <2>8 DEF ForgetKey
    <3> QED  BY <3>1, <3>2, DirectInv
  <2>9. CASE Finish(c)
    BY <2>9, FinishInv
  <2>10. CASE TakeReply(c)
    BY <2>10, OnOkInv, ErrorReplyInv
  <2>11. CASE GiveUp(c)
    BY <2>11, GiveUpInv
  <2> QED  BY <1>1, <2>1, <2>2, <2>3, <2>4, <2>5, <2>6, <2>7, <2>8, <2>9, <2>10, <2>11
           DEF CallerStep
<1>2. CASE WriteCommand
  BY <1>2, WriteCommandInv
<1>3. CASE ReadAnswer
  BY <1>3, ReadAnswerInv
<1>4. CASE HandleCommand
  BY <1>4, HandleCommandInv
<1>5. CASE EndOfInput \/ HelperDies \/ ParentDies
  BY <1>5, LifecycleInv
<1>6. CASE UNCHANGED vars
  BY <1>6, StutterInv
<1> QED  BY <1>1, <1>2, <1>3, <1>4, <1>5, <1>6 DEF Next

THEOREM Invariance == Spec => []Inv
<1>1. Inv /\ [Next]_vars => Inv'
  BY NextInv
<1> QED  BY InitInv, <1>1, PTL DEF Spec

\* Every variable keeps its type: in particular a resolution is only ever sent for an
\* intent that exists.
THEOREM TypeCorrect == Spec => []TypeOK
<1>1. Inv => TypeOK
  BY DEF Inv
<1> QED  BY Invariance, <1>1, PTL

\* Write-ahead for every number of callers, keys and mutations: while the helper can be
\* reached and between two calls, its journal holds exactly the committed changes of
\* the mirror and, as pending, every open or deferred intent.
THEOREM WriteAhead == Spec => []MirrorAgrees
<1>1. Inv => MirrorAgrees
  BY DEF Inv, ExchangeOK, Before, Owed, MirrorAgrees, TypeOK, JournalType
<1> QED  BY Invariance, <1>1, PTL

\* The latch never strands an intent whose owner could still resolve it.
THEOREM LatchStrandsNoIntent == Spec => []NoIntentUnderLatch
<1>1. Inv => NoIntentUnderLatch
  BY DEF Inv, LockOK, NoIntentUnderLatch
<1> QED  BY Invariance, <1>1, PTL

--------------------------------------------------------------------------------
(***************************************************************************)
(* What holds after an answer was missed as well, where Inv says nothing   *)
(* of the exchange.                                                        *)
(***************************************************************************)
\* However the exchange went, at most one command can still reach the helper.
OneInFlight == Len(channel) + Len(pipeIn) <= 1

\* finish takes the runtime only from a free mutex, and nobody enters any more; the
\* helper of a living Winderust saw the end of its input after all of that.
FinishOK ==
    /\ runtime = "taken" => lock = NoCaller
    /\ helper = "replaying" /\ parent = "alive" =>
           runtime = "taken" /\ channel = << >> /\ pipeIn = << >>

LEMMA OneInFlightInductive == Inv /\ OneInFlight /\ [Next]_vars => OneInFlight'
<1> SUFFICES ASSUME Inv, OneInFlight, [Next]_vars PROVE OneInFlight'
  OBVIOUS
<1>1. TypeOK /\ LockOK /\ ExchangeOK
  BY DEF Inv
<1>2. channel \in Seq(Requests) /\ pipeIn \in Seq(Commands)
  BY <1>1 DEF TypeOK
<1>3. ASSUME NEW kind, NEW command, Send(kind, command), calling = NoCall, parent = "alive",
             UNCHANGED pipeVars
      PROVE  OneInFlight'
  <2>1. channel = << >> /\ pipeIn = << >>
    BY <1>1, <1>3 DEF ExchangeOK, Send, Quiet
  <2>2. channel' = <<[command |-> command, live |-> TRUE]>> /\ pipeIn' = << >>
    BY <1>3, <2>1 DEF Send, pipeVars
  <2> QED  BY <2>2 DEF OneInFlight
<1>4. ASSUME NEW c \in Callers, CallerStep(c) PROVE OneInFlight'
  <2>1. CASE \E k \in Keys, e \in Edge : RecordEntry(c, k, e)
    BY <1>1, <1>3, <2>1 DEF RecordEntry, Enter, LockOK, OneInFlight, threadVars, pipeVars
  <2>2. CASE CommitIntent(c) \/ CommitOrDefer(c) \/ DropIntent(c)
    BY <1>3, <2>2 DEF CommitIntent, CommitOrDefer, DropIntent, Holds
  <2>3. CASE \/ \E i \in deferred, applied \in BOOLEAN : ResolveDeferred(c, i, applied)
             \/ \E k \in Keys : ForgetKey(c, k)
    BY <1>1, <1>3, <2>3 DEF ResolveDeferred, ForgetKey, Enter, LockOK
  <2>4. CASE DeferIntent(c) \/ RetainPending(c) \/ Finish(c) \/ TakeReply(c)
    BY <2>4 DEF DeferIntent, RetainPending, Finish, TakeReply, OneInFlight, threadVars, pipeVars
  <2>5. CASE GiveUp(c)
    <3>1. channel' = [n \in DOMAIN channel |-> Dropped(channel[n])] /\ pipeIn' = pipeIn
      BY <2>5 DEF GiveUp, pipeVars
    <3>2. DOMAIN channel' = 1 .. Len(channel)
      BY <1>2, <3>1
    <3>3. Len(channel') = Len(channel)
      BY <1>2, <3>1, <3>2
    <3> QED  BY <3>1, <3>3 DEF OneInFlight
  <2> QED  BY <1>4, <2>1, <2>2, <2>3, <2>4, <2>5 DEF CallerStep
<1>5. CASE WriteCommand
  <2>1. channel # << >> /\ Len(channel) = 1 /\ Len(pipeIn) = 0
    <3>1. channel # << >>
      BY <1>5 DEF WriteCommand
    <3>2. Len(channel) \in Nat /\ Len(channel) # 0 /\ Len(pipeIn) \in Nat
      BY <1>2, <3>1
    <3>3. Len(channel) + Len(pipeIn) <= 1
      BY DEF OneInFlight
    <3>4. \A m, n \in Nat : m # 0 /\ m + n <= 1 => m = 1 /\ n = 0
      OBVIOUS
    <3> QED  BY <3>1, <3>2, <3>3, <3>4, Zenon
  <2>2. Len(channel') = 0
    BY <1>2, <1>5, <2>1 DEF WriteCommand
  <2>3. pipeIn' = pipeIn \/ pipeIn' = Append(pipeIn, Head(channel).command)
    BY <1>5 DEF WriteCommand
  <2>4. Len(pipeIn') \in {0, 0 + 1}
    <3>1. Head(channel) \in Requests
      BY <1>2, <2>1
    <3>2. Head(channel).command \in Commands
      BY <3>1 DEF Requests
    <3>3. Len(Append(pipeIn, Head(channel).command)) = Len(pipeIn) + 1
      BY <1>2, <3>2
    <3> QED  BY <2>1, <2>3, <3>3, Zenon
  <2>5. \A n \in {0, 0 + 1} : 0 + n <= 1
    OBVIOUS
  <2> QED  BY <2>2, <2>4, <2>5, Zenon DEF OneInFlight
<1>6. CASE HandleCommand
  <2>1. pipeIn' = Tail(pipeIn) /\ pipeIn # << >> /\ channel' = channel
    BY <1>6 DEF HandleCommand, threadVars
  <2>2. Len(pipeIn') = Len(pipeIn) - 1
    BY <1>2, <2>1
  <2> QED  BY <1>2, <2>1, <2>2 DEF OneInFlight
<1>7. CASE ReadAnswer \/ EndOfInput \/ HelperDies \/ ParentDies \/ UNCHANGED vars
  BY <1>7 DEF ReadAnswer, EndOfInput, HelperDies, ParentDies, vars, threadVars, pipeVars, OneInFlight
<1> QED  BY <1>4, <1>5, <1>6, <1>7 DEF Next

LEMMA FinishInductive == Inv /\ FinishOK /\ [Next]_vars => FinishOK'
<1> SUFFICES ASSUME Inv, FinishOK, [Next]_vars PROVE FinishOK'
  OBVIOUS
<1>1. LockOK /\ TypeOK
  BY DEF Inv
<1>2. ASSUME NEW c \in Callers, CallerStep(c) PROVE FinishOK'
  <2>1. helper' = helper /\ parent' = parent /\ parent = "alive" /\ pipeIn' = pipeIn
    BY <1>2 DEF CallerStep, RecordEntry, CommitIntent, CommitOrDefer, DropIntent, DeferIntent,
                RetainPending, ResolveDeferred, ForgetKey, Finish, TakeReply, GiveUp, Enter, Holds,
                Waiting, helperVars, pipeVars
  <2>2. CASE Finish(c)
    BY <2>1, <2>2 DEF Finish, FinishOK, Enter, threadVars
  <2>3. CASE ~Finish(c)
    <3>1. runtime' = runtime
      BY <1>2, <2>3 DEF CallerStep, RecordEntry, CommitIntent, CommitOrDefer, DropIntent,
                  DeferIntent, RetainPending, ResolveDeferred, ForgetKey, TakeReply, GiveUp
    <3>2. ASSUME runtime = "taken" PROVE FALSE
      <4>1. lock = NoCaller
        BY <3>2 DEF FinishOK
      <4> QED  BY <1>1, <1>2, <2>3, <3>2, <4>1, CallersAssumption
               DEF CallerStep, RecordEntry, CommitIntent, CommitOrDefer, DropIntent, DeferIntent,
                   RetainPending, ResolveDeferred, ForgetKey, TakeReply, GiveUp, Enter, Holds, Waiting
    <3> QED  BY <2>1, <3>1, <3>2 DEF FinishOK
  <2> QED  BY <2>2, <2>3
<1>3. CASE WriteCommand
  BY <1>3 DEF WriteCommand, FinishOK, clientVars, helperVars
<1>4. CASE HandleCommand
  BY <1>4 DEF HandleCommand, FinishOK, clientVars, threadVars
<1>5. CASE EndOfInput
  BY <1>5 DEF EndOfInput, StdinClosed, FinishOK, clientVars, threadVars, pipeVars
<1>6. CASE ReadAnswer \/ HelperDies \/ ParentDies \/ UNCHANGED vars
  BY <1>6 DEF ReadAnswer, HelperDies, ParentDies, vars, clientVars, threadVars, pipeVars,
              helperVars, FinishOK
<1> QED  BY <1>2, <1>3, <1>4, <1>5, <1>6 DEF Next

\* The helper of a living Winderust starts to replay only after the last command: no
\* caller holds the mutex or an intent, and nothing is on its way.
THEOREM ReplayIsLast == Spec => []ReplayAfterLastCommand
<1>1. Init => FinishOK
  BY DEF Init, FinishOK
<1>2. Inv /\ FinishOK => ReplayAfterLastCommand
  BY DEF Inv, LockOK, FinishOK, ReplayAfterLastCommand
<1> QED  BY <1>1, <1>2, Invariance, FinishInductive, PTL DEF Spec

--------------------------------------------------------------------------------
(***************************************************************************)
(* The refinement.  Each step of the exchange is a step of the service or  *)
(* none, seen through AbstractCall and AbstractLimbo.                      *)
(***************************************************************************)
\* What the service sees while a caller waits, and while none does.
Seen ==
    /\ Called =>
        /\ ~failed /\ calling \in [kind : Kinds, command : Commands]
        /\ AbstractLimbo = NoCall
        /\ AbstractCall = [command |-> calling.command, phase |-> CallPhase]
        /\ AbstractCall # NoCall
        /\ Queued \/ Written => CallPhase = "sent"
        /\ Answered("ok") => CallPhase = "landed"
        /\ Answered("rejected") => CallPhase = "refused"
        /\ reply = "uncertain" => CallPhase = "sent"
    /\ ~Called => AbstractCall = NoCall
    /\ parent = "alive" /\ ~failed /\ calling = NoCall => Quiet /\ AbstractLimbo = NoCall
    /\ Quiet => AbstractLimbo = NoCall

LEMMA SeenHolds == Inv => Seen
<1> SUFFICES ASSUME Inv PROVE Seen
  OBVIOUS
<1>1. TypeOK /\ LockOK /\ ExchangeOK
  BY DEF Inv
<1>2. Quiet => AbstractLimbo = NoCall
  BY DEF Quiet, AbstractLimbo
<1>3. CASE Called
  <2>1. ~failed /\ calling \in [kind : Kinds, command : Commands] /\ parent = "alive"
    BY <1>1, <1>3 DEF Called, LockOK, TypeOK
  <2>2. AbstractCall = [command |-> calling.command, phase |-> CallPhase] /\ AbstractLimbo = NoCall
    BY <1>3 DEF AbstractCall, AbstractLimbo
  <2>3. /\ Queued \/ Written => CallPhase = "sent"
        /\ reply = "uncertain" => CallPhase = "sent"
    BY SentinelAssumption DEF Queued, Written, CallPhase, PhaseOf, Outcomes
  <2>4. ASSUME NEW outcome \in {"ok", "rejected"}, Answered(outcome)
        PROVE  CallPhase = PhaseOf(outcome)
    <3>1. CASE Quiet /\ reply = outcome
      BY <3>1, <2>4, SentinelAssumption DEF CallPhase, Outcomes
    <3>2. CASE pipeOut = <<outcome>> /\ reply = NoReply
      <4>1. pipeOut # << >> /\ Head(pipeOut) = outcome
        BY <3>2
      <4> QED  BY <3>2, <4>1 DEF CallPhase
    <3> QED  BY <2>4, <3>1, <3>2 DEF Answered
  <2>5. CallPhase \in {"sent", "landed", "refused"}
    <3>1. Queued \/ Written \/ Answered("ok") \/ Answered("rejected") \/ reply = "uncertain"
      BY <1>1, <1>3, <2>1 DEF ExchangeOK, Called
    <3> QED  BY <2>3, <2>4, <3>1 DEF PhaseOf
  <2>6. AbstractCall # NoCall
    BY <2>1, <2>2, <2>5, SentinelAssumption
  <2> QED  BY <1>2, <1>3, <2>1, <2>2, <2>3, <2>4, <2>6 DEF Seen, PhaseOf, Called
<1>4. CASE ~Called
  <2>1. parent = "alive" /\ ~failed /\ calling = NoCall => Quiet
    BY <1>1 DEF ExchangeOK
  <2> QED  BY <1>2, <1>4, <2>1 DEF Seen, AbstractCall
<1> QED  BY <1>3, <1>4

\* The service's journal is the helper's: commands and their effects are the same.
LEMMA ServiceCommands ==
    /\ Service!Commands = Commands
    /\ Service!EmptyJournal = EmptyJournal
    /\ \A command : Service!Apply(journal, command) = Apply(journal, command)
<1>1. Service!Edge = Edge /\ Service!EmptyJournal = EmptyJournal
  BY DEF Service!Edge, Edge, Service!EmptyJournal, EmptyJournal
<1>2. \A edges, edge : Service!CompactOrPush(edges, edge) = CompactOrPush(edges, edge)
  BY DEF Service!CompactOrPush, CompactOrPush
<1>3. ASSUME NEW command PROVE Service!Apply(journal, command) = Apply(journal, command)
  <2>1. Service!ApplyCommit(journal, command.id) = ApplyCommit(journal, command.id)
    BY <1>2 DEF Service!ApplyCommit, ApplyCommit, Service!Without, Without
  <2>2. Service!ApplyBegin(journal, command.id, command.key, command.edge)
          = ApplyBegin(journal, command.id, command.key, command.edge)
    BY DEF Service!ApplyBegin, ApplyBegin
  <2>3. Service!ApplyCancel(journal, command.id) = ApplyCancel(journal, command.id)
    BY DEF Service!ApplyCancel, ApplyCancel, Service!Without, Without
  <2>4. Service!ApplyForget(journal, command.key) = ApplyForget(journal, command.key)
    BY DEF Service!ApplyForget, ApplyForget
  <2> QED  BY <2>1, <2>2, <2>3, <2>4 DEF Service!Apply, Apply
<1> QED  BY <1>1, <1>3 DEF Service!Commands, Commands

\* A command enters the exchange: the service takes it.
LEMMA SubmitStep ==
    ASSUME Inv, parent = "alive", calling = NoCall,
           NEW kind \in Kinds, NEW command \in Commands, Send(kind, command),
           UNCHANGED <<failed, pipeVars, journal, parent>>
    PROVE  [Service!ServiceNext]_(Service!serviceVars)
<1>1. ~failed /\ AbstractCall = NoCall /\ AbstractLimbo = NoCall
  BY SeenHolds DEF Seen, Send, Called
<1>2. /\ calling' = [kind |-> kind, command |-> command] /\ calling' # NoCall /\ Queued' /\ ~failed'
  BY SendQueues
<1>3. Called' /\ AbstractLimbo' = NoCall
  BY <1>2 DEF Called, AbstractLimbo
<1>4. CallPhase' = "sent"
  BY <1>2 DEF Queued, CallPhase
<1>5. AbstractCall' = [command |-> command, phase |-> "sent"]
  BY <1>2, <1>3, <1>4 DEF AbstractCall
<1>6. Service!Submit(command)
  BY <1>1, <1>2, <1>3, <1>5 DEF Service!Submit
<1> QED  BY <1>6, ServiceCommands DEF Service!ServiceNext

\* A caller that leaves without an answer, or dies with Winderust: its command may still land.
LEMMA AbandonStep ==
    ASSUME Inv, Called, ~Called', failed' \/ parent' = "dead", journal' = journal,
           \/ AbstractLimbo' = NoCall
           \/ (Queued \/ Written) /\ AbstractLimbo' = calling.command
    PROVE  [Service!ServiceNext]_(Service!serviceVars)
<1>1. Seen
  BY SeenHolds
<1>2. AbstractCall # NoCall /\ AbstractCall.phase = CallPhase /\ AbstractCall.command = calling.command
  BY <1>1 DEF Seen
<1>3. AbstractCall' = NoCall
  BY DEF AbstractCall
<1>4. AbstractLimbo' \in IF AbstractCall.phase = "sent" THEN {AbstractCall.command, NoCall} ELSE {NoCall}
  BY <1>1, <1>2 DEF Seen
<1>5. Service!Abandon
  BY <1>2, <1>3, <1>4 DEF Service!Abandon
<1> QED  BY <1>5 DEF Service!ServiceNext

LEMMA CallerRefines ==
    ASSUME Inv, Inv', OneInFlight, NEW c \in Callers, CallerStep(c)
    PROVE  [Service!ServiceNext]_(Service!serviceVars)
<1>1. TypeOK /\ LockOK /\ Seen
  BY SeenHolds DEF Inv
<1>2. parent = "alive" /\ parent' = parent /\ journal' = journal /\ helper' = helper /\ pipeIn' = pipeIn /\ pipeOut' = pipeOut
  BY DEF CallerStep, RecordEntry, CommitIntent, CommitOrDefer, DropIntent, DeferIntent,
         RetainPending, ResolveDeferred, ForgetKey, Finish, TakeReply, GiveUp, Enter, Holds,
         Waiting, helperVars, pipeVars
<1>3. ASSUME UNCHANGED <<calling, failed, channel, reply>>
      PROVE  [Service!ServiceNext]_(Service!serviceVars)
  BY <1>2, <1>3 DEF Service!serviceVars, AbstractCall, AbstractLimbo, Called, CallPhase, PhaseOf
<1>4. ASSUME NEW k \in Keys, NEW e \in Edge, RecordEntry(c, k, e)
      PROVE  [Service!ServiceNext]_(Service!serviceVars)
  <2>1. CASE failed /\ UNCHANGED <<lock, calling, intent, deferred, entries, failed, runtime, threadVars>>
    BY <1>3, <2>1 DEF threadVars
  <2>2. CASE Send("begin", Begin(nextId, k, e)) /\ UNCHANGED failed
    <3>1. Begin(nextId, k, e) \in Commands /\ calling = NoCall
      BY <1>1, <1>4, CommandTypes DEF RecordEntry, Enter, LockOK
    <3>2. UNCHANGED pipeVars
      BY <1>2 DEF pipeVars
    <3> QED  BY <1>2, <2>2, <3>1, <3>2, SubmitStep DEF Kinds
  <2> QED  BY <1>4, <2>1, <2>2 DEF RecordEntry
<1>5. CASE CommitIntent(c) \/ CommitOrDefer(c) \/ DropIntent(c)
  <2>1. calling = NoCall /\ intent \in Intent /\ UNCHANGED <<failed, pipeVars>>
    BY <1>1, <1>5 DEF CommitIntent, CommitOrDefer, DropIntent, Holds, TypeOK
  <2>2. Commit(intent.id) \in Commands /\ Cancel(intent.id) \in Commands
    BY <2>1, CommandTypes DEF Intent
  <2>3. PICK kind \in Kinds, command \in Commands : Send(kind, command)
    BY <1>5, <2>2 DEF CommitIntent, CommitOrDefer, DropIntent, Kinds
  <2> QED  BY <1>2, <2>1, <2>3, SubmitStep
<1>6. CASE \/ \E i \in deferred, applied \in BOOLEAN : ResolveDeferred(c, i, applied)
           \/ \E k \in Keys : ForgetKey(c, k)
  <2>1. calling = NoCall /\ UNCHANGED <<failed, pipeVars>>
    BY <1>1, <1>6 DEF ResolveDeferred, ForgetKey, Enter, LockOK
  <2>2. \A i \in deferred : Commit(i.id) \in Commands /\ Cancel(i.id) \in Commands
    BY <1>1, CommandTypes DEF TypeOK, Intent
  <2>3. PICK kind \in Kinds, command \in Commands : Send(kind, command)
    BY <1>6, <2>2, CommandTypes DEF ResolveDeferred, ForgetKey, Kinds
  <2> QED  BY <1>2, <2>1, <2>3, SubmitStep
<1>7. CASE DeferIntent(c) \/ Finish(c)
  BY <1>3, <1>7 DEF DeferIntent, Finish, threadVars
<1>8. CASE RetainPending(c)
  <2>1. UNCHANGED <<calling, channel, reply>> /\ calling = NoCall /\ failed'
    BY <1>8 DEF RetainPending, Holds, threadVars
  <2>2. AbstractCall = NoCall /\ AbstractCall' = NoCall /\ AbstractLimbo' = AbstractLimbo
    BY <1>2, <2>1 DEF AbstractCall, AbstractLimbo, Called
  <2>3. Service!Latch
    BY <1>2, <2>1, <2>2 DEF Service!Latch
  <2> QED  BY <2>3 DEF Service!ServiceNext
<1>9. CASE TakeReply(c)
  <2>1. Called /\ ~Called' /\ reply # NoReply /\ UNCHANGED channel
    BY <1>9 DEF TakeReply, Waiting, Called
  <2>2. Quiet \/ (reply = "uncertain" /\ helper = "dead" /\ channel = << >>)
    BY <1>1, <2>1, SentinelAssumption DEF Seen, Inv, ExchangeOK, Called, Queued, Written, Answered
  <2>3. AbstractLimbo' = NoCall
    BY <1>2, <2>1, <2>2 DEF Quiet, AbstractLimbo
  <2>4. AbstractLimbo = NoCall /\ AbstractCall # NoCall /\ AbstractCall.phase = CallPhase /\ ~failed
    BY <1>1, <2>1 DEF Seen
  <2>5. AbstractCall' = NoCall
    BY <2>1 DEF AbstractCall
  <2>6. CASE reply = "ok"
    <3>1. CallPhase = "landed" /\ failed' = failed
      BY <1>1, <1>9, <2>1, <2>6 DEF CallPhase, PhaseOf, TakeReply, TypeOK
    <3>2. Service!Acknowledge
      BY <1>2, <2>3, <2>4, <2>5, <3>1 DEF Service!Acknowledge, Service!Called
    <3> QED  BY <3>2 DEF Service!ServiceNext
  <2>7. CASE reply = "rejected"
    <3>1. CallPhase = "refused" /\ failed' \in BOOLEAN
      BY <1>1, <1>9, <2>1, <2>7 DEF CallPhase, PhaseOf, TakeReply, TypeOK
    <3>2. Service!Reject
      BY <1>2, <2>3, <2>4, <2>5, <3>1 DEF Service!Reject, Service!Called
    <3> QED  BY <3>2 DEF Service!ServiceNext
  <2>8. CASE reply = "uncertain"
    <3>1. failed'
      BY <1>9, <2>8 DEF TakeReply
    <3> QED  BY <1>2, <2>1, <2>3, <3>1, AbandonStep
  <2> QED  BY <1>1, <2>1, <2>6, <2>7, <2>8 DEF TypeOK, Outcomes
<1>10. CASE GiveUp(c)
  <2>1. Called /\ ~Called' /\ failed' /\ reply = NoReply
    BY <1>10 DEF GiveUp, Waiting, Called
  <2>2. channel' = [n \in DOMAIN channel |-> Dropped(channel[n])]
    BY <1>10 DEF GiveUp
  <2>3. Queued \/ Written \/ Answered("ok") \/ Answered("rejected")
    BY <1>1, <2>1, SentinelAssumption DEF Seen, Inv, ExchangeOK, Called, Outcomes
  <2>4. CASE Queued
    <3>1. channel = <<Request>>
      BY <2>4 DEF Queued
    <3>2. DOMAIN channel' = 1 .. 1 /\ channel'[1] = Dropped(Request) /\ channel' \in Seq({Dropped(Request)})
      BY <2>2, <3>1
    <3>3. channel' # << >> /\ Head(channel') = Dropped(Request)
      BY <3>2
    <3>4. Dropped(Request).command = calling.command
      BY DEF Dropped, Request
    <3>5. AbstractLimbo' = calling.command
      BY <1>2, <2>1, <2>4, <3>3, <3>4 DEF Queued, AbstractLimbo
    <3> QED  BY <1>2, <2>1, <2>4, <3>5, AbandonStep
  <2>5. CASE ~Queued
    <3>1. channel = << >> /\ (Written \/ pipeIn = << >>)
      BY <2>3, <2>5 DEF Written, Answered, Quiet
    <3>2. channel' = << >>
      BY <2>2, <3>1
    <3>3. pipeIn # << >> => Head(pipeIn) = calling.command
      BY <3>1 DEF Written
    <3>4. AbstractLimbo' = NoCall \/ (Written /\ AbstractLimbo' = calling.command)
      BY <1>2, <2>1, <3>1, <3>2, <3>3 DEF AbstractLimbo
    <3> QED  BY <1>2, <2>1, <3>4, AbandonStep
  <2> QED  BY <2>4, <2>5
<1> QED  BY <1>4, <1>5, <1>6, <1>7, <1>8, <1>9, <1>10 DEF CallerStep

\* The transport thread moves a command or an answer along: the service does not see it, unless
\* the command was abandoned and finds no helper that reads.
LEMMA ThreadRefines ==
    ASSUME Inv, OneInFlight, WriteCommand \/ ReadAnswer
    PROVE  [Service!ServiceNext]_(Service!serviceVars)
<1>1. TypeOK /\ LockOK /\ ExchangeOK /\ Seen
  BY SeenHolds DEF Inv
<1>2. UNCHANGED <<calling, failed, journal, helper, parent>> /\ parent = "alive"
  BY DEF WriteCommand, ReadAnswer, clientVars, helperVars
<1>3. (Called' <=> Called)
  BY <1>2 DEF Called
<1>4. ASSUME AbstractCall' = AbstractCall, AbstractLimbo' = AbstractLimbo
      PROVE  [Service!ServiceNext]_(Service!serviceVars)
  BY <1>2, <1>4 DEF Service!serviceVars
<1>5. CASE WriteCommand /\ Called
  <2>1. Queued
    <3>1. channel # << >> /\ ~failed /\ calling # NoCall
      BY <1>1, <1>5 DEF WriteCommand, Seen, Called
    <3> QED  BY <1>1, <1>2, <3>1 DEF ExchangeOK, Written, Answered, Quiet
  <2>2. reply' \in {NoReply, "uncertain"} /\ pipeOut' = pipeOut
    BY <1>5, <2>1 DEF WriteCommand, Queued
  <2>3. CallPhase = "sent" /\ CallPhase' = "sent"
    BY <2>1, <2>2, SentinelAssumption DEF Queued, CallPhase, PhaseOf, Outcomes
  <2>4. AbstractCall' = AbstractCall /\ AbstractLimbo' = AbstractLimbo
    BY <1>2, <1>3, <1>5, <2>3 DEF AbstractCall, AbstractLimbo
  <2> QED  BY <1>4, <2>4
<1>6. CASE WriteCommand /\ ~Called
  <2>1. channel # << >> /\ Len(channel) \in Nat /\ Len(channel) # 0 /\ Len(pipeIn) \in Nat
    BY <1>1, <1>6 DEF WriteCommand, TypeOK
  <2>2. \A m, n \in Nat : m # 0 /\ m + n <= 1 => m = 1 /\ n = 0
    OBVIOUS
  <2>3. Len(channel) = 1 /\ Len(pipeIn) = 0
    BY <2>1, <2>2, Zenon DEF OneInFlight
  <2>4. pipeIn = << >> /\ channel' = << >>
    BY <1>1, <1>6, <2>3 DEF WriteCommand, TypeOK
  <2>5. AbstractCall = NoCall /\ AbstractCall' = NoCall /\ AbstractLimbo = Head(channel).command
    BY <1>2, <1>3, <1>6, <2>1, <2>4 DEF AbstractCall, AbstractLimbo
  <2>6. Head(channel).command # NoCall
    <3>1. Head(channel) \in Requests
      BY <1>1, <2>1 DEF TypeOK
    <3>2. Head(channel).command \in Commands
      BY <3>1 DEF Requests
    <3> QED  BY <3>2, SentinelAssumption
  <2>7. CASE helper = "reading"
    <3>1. pipeIn' = <<Head(channel).command>>
      BY <1>6, <2>4, <2>7 DEF WriteCommand
    <3>2. AbstractLimbo' = Head(channel).command
      BY <1>2, <1>3, <1>6, <2>7, <3>1 DEF AbstractLimbo
    <3> QED  BY <1>4, <2>5, <3>2
  <2>8. CASE helper # "reading"
    <3>1. AbstractLimbo' = NoCall
      BY <1>2, <2>4, <2>8 DEF AbstractLimbo
    <3>2. Service!LateLoss
      BY <1>2, <2>5, <2>6, <3>1 DEF Service!LateLoss
    <3> QED  BY <3>2 DEF Service!ServiceNext
  <2> QED  BY <2>7, <2>8
<1>7. CASE ReadAnswer
  <2>1. UNCHANGED <<channel, pipeIn>>
    BY <1>7 DEF ReadAnswer
  <2>2. AbstractLimbo' = AbstractLimbo
    BY <1>2, <1>3, <2>1 DEF AbstractLimbo
  <2>3. ASSUME Called PROVE CallPhase' = CallPhase
    <3>1. current = Request /\ reply = NoReply
          /\ (pipeOut \in {<<"ok">>, <<"rejected">>} \/ (pipeOut = << >> /\ helper = "dead"))
      BY <1>1, <1>7, <2>3 DEF ReadAnswer, ExchangeOK, Seen, Called, Queued, Written, Answered, Quiet
    <3>2. current.live
      BY <3>1 DEF Request
    <3>3. CASE pipeOut = << >>
      <4>1. reply' = "uncertain"
        BY <1>7, <3>2, <3>3 DEF ReadAnswer
      <4> QED  BY <3>1, <3>3, <4>1, SentinelAssumption DEF CallPhase, PhaseOf, Outcomes
    <3>4. CASE pipeOut \in {<<"ok">>, <<"rejected">>}
      <4>1. pipeOut # << >> /\ reply' = Head(pipeOut) /\ Head(pipeOut) \in {"ok", "rejected"}
        BY <1>7, <3>2, <3>4 DEF ReadAnswer
      <4> QED  BY <3>1, <4>1, SentinelAssumption DEF CallPhase, PhaseOf, Outcomes
    <3> QED  BY <3>1, <3>3, <3>4
  <2>4. AbstractCall' = AbstractCall
    BY <1>2, <1>3, <2>3 DEF AbstractCall
  <2> QED  BY <1>4, <2>2, <2>4
<1> QED  BY <1>5, <1>6, <1>7

\* The helper takes a command: it lands or is refused, for a caller that waits or after it left.
LEMMA HelperRefines ==
    ASSUME Inv, OneInFlight, HandleCommand
    PROVE  [Service!ServiceNext]_(Service!serviceVars)
<1>1. TypeOK /\ LockOK /\ ExchangeOK /\ Seen
  BY SeenHolds DEF Inv
<1>2. UNCHANGED <<calling, failed, channel, current, reply, parent>>
      /\ pipeIn # << >> /\ pipeIn' = Tail(pipeIn) /\ helper = "reading"
  BY DEF HandleCommand, clientVars, threadVars
<1>3. (Called' <=> Called)
  BY <1>2 DEF Called
<1>4. PICK answer \in {"ok", "rejected"} :
        /\ journal' = IF answer = "ok" THEN Apply(journal, Head(pipeIn)) ELSE journal
        /\ IF parent = "alive"
           THEN pipeOut' = Append(pipeOut, answer) /\ UNCHANGED helper
           ELSE helper' = "replaying" /\ UNCHANGED pipeOut
  BY DEF HandleCommand
<1>5. Head(pipeIn) \in Commands /\ Head(pipeIn) # NoCall
  BY <1>1, <1>2, SentinelAssumption DEF TypeOK
<1>6. CASE Called
  <2>1. Written
    BY <1>1, <1>2, <1>6, SentinelAssumption
       DEF ExchangeOK, Seen, Called, Queued, Answered, Quiet, TypeOK, Inv, Outcomes
  <2>2. Head(pipeIn) = calling.command /\ pipeOut' = <<answer>> /\ reply' = NoReply
    BY <1>2, <1>4, <1>6, <2>1 DEF Written, Called
  <2>3. CallPhase' = PhaseOf(answer)
    <3>1. pipeOut' # << >> /\ Head(pipeOut') = answer
      BY <2>2
    <3> QED  BY <2>2, <3>1 DEF CallPhase, PhaseOf
  <2>4. /\ AbstractCall = [command |-> calling.command, phase |-> "sent"] /\ AbstractCall # NoCall
        /\ AbstractCall' = [command |-> calling.command, phase |-> PhaseOf(answer)]
        /\ AbstractLimbo = NoCall /\ AbstractLimbo' = NoCall
    BY <1>1, <1>2, <1>3, <1>6, <2>1, <2>3 DEF Seen, AbstractCall, AbstractLimbo
  <2>5. [AbstractCall EXCEPT !.phase = PhaseOf(answer)] = AbstractCall'
    BY <2>4
  <2>6. CASE answer = "ok"
    <3>1. Service!Land
      BY <1>2, <1>4, <2>2, <2>4, <2>5, <2>6, ServiceCommands DEF Service!Land, Service!Called, PhaseOf
    <3> QED  BY <3>1 DEF Service!ServiceNext
  <2>7. CASE answer = "rejected"
    <3>1. Service!Refuse
      BY <1>2, <1>4, <2>2, <2>4, <2>5, <2>7 DEF Service!Refuse, Service!Called, PhaseOf
    <3> QED  BY <3>1 DEF Service!ServiceNext
  <2> QED  BY <2>6, <2>7
<1>7. CASE ~Called
  <2>1. AbstractCall = NoCall /\ AbstractCall' = NoCall /\ AbstractLimbo = Head(pipeIn)
    BY <1>2, <1>3, <1>7 DEF AbstractCall, AbstractLimbo
  <2>2. channel = << >> /\ pipeIn' = << >>
    <3>1. Len(channel) \in Nat /\ Len(pipeIn) \in Nat /\ Len(pipeIn) # 0
      BY <1>1, <1>2 DEF TypeOK
    <3>2. \A m, n \in Nat : n # 0 /\ m + n <= 1 => n = 1 /\ m = 0
      OBVIOUS
    <3>3. Len(pipeIn) = 1 /\ Len(channel) = 0
      BY <3>1, <3>2, Zenon DEF OneInFlight
    <3> QED  BY <1>1, <1>2, <3>3 DEF TypeOK
  <2>3. AbstractLimbo' = NoCall
    BY <1>2, <2>2 DEF AbstractLimbo
  <2>4. CASE answer = "ok"
    <3>1. Service!LateLand
      BY <1>2, <1>4, <1>5, <2>1, <2>3, <2>4, ServiceCommands DEF Service!LateLand
    <3> QED  BY <3>1 DEF Service!ServiceNext
  <2>5. CASE answer = "rejected"
    <3>1. Service!LateLoss
      BY <1>2, <1>4, <1>5, <2>1, <2>3, <2>5 DEF Service!LateLoss
    <3> QED  BY <3>1 DEF Service!ServiceNext
  <2> QED  BY <2>4, <2>5
<1> QED  BY <1>6, <1>7

\* What ends the helper or Winderust loses at most the command that is on its way.
LEMMA LifecycleRefines ==
    ASSUME Inv, OneInFlight, EndOfInput \/ HelperDies \/ ParentDies
    PROVE  [Service!ServiceNext]_(Service!serviceVars)
<1>1. TypeOK /\ LockOK /\ ExchangeOK /\ Seen
  BY SeenHolds DEF Inv
<1>2. UNCHANGED <<calling, failed, channel, current, reply, pipeIn, pipeOut, journal>>
  BY DEF EndOfInput, HelperDies, ParentDies, clientVars, threadVars, pipeVars, helperVars
<1>3. AbstractLimbo # NoCall /\ AbstractLimbo' = NoCall /\ AbstractCall' = AbstractCall
        /\ UNCHANGED <<failed, parent>>
      => [Service!ServiceNext]_(Service!serviceVars)
  BY <1>2 DEF Service!LateLoss, Service!ServiceNext
<1>4. ASSUME AbstractLimbo' = AbstractLimbo, AbstractCall' = AbstractCall,
             (failed' \/ parent' = "dead") = (failed \/ parent = "dead")
      PROVE  [Service!ServiceNext]_(Service!serviceVars)
  BY <1>2, <1>4 DEF Service!serviceVars
<1>5. CASE EndOfInput \/ HelperDies
  <2>1. parent' = parent /\ (helper' = "replaying" => pipeIn = << >>) /\ helper' # "reading"
        /\ (EndOfInput => pipeIn = << >>)
    BY <1>5 DEF EndOfInput, HelperDies
  <2>2. AbstractCall' = AbstractCall
    BY <1>2, <2>1 DEF AbstractCall, Called, CallPhase, PhaseOf
  <2>3. AbstractLimbo' \in {AbstractLimbo, NoCall}
    <3>1. CASE pipeIn = << >> \/ helper # "reading"
      BY <1>2, <2>1, <3>1 DEF AbstractLimbo, Called
    <3>2. CASE pipeIn # << >>
      <4>1. Len(channel) \in Nat /\ Len(pipeIn) \in Nat /\ Len(pipeIn) # 0
        BY <1>1, <3>2 DEF TypeOK
      <4>2. \A m, n \in Nat : n # 0 /\ m + n <= 1 => n = 1 /\ m = 0
        OBVIOUS
      <4>3. Len(channel) = 0
        BY <4>1, <4>2, Zenon DEF OneInFlight
      <4>4. channel = << >>
        BY <1>1, <4>3 DEF TypeOK
      <4> QED  BY <1>2, <2>1, <4>4 DEF AbstractLimbo
    <3> QED  BY <3>1, <3>2
  <2> QED  BY <1>2, <1>3, <1>4, <2>1, <2>2, <2>3
<1>6. CASE ParentDies /\ Called
  <2>1. ~Called' /\ parent' = "dead"
    BY <1>6 DEF ParentDies, Called
  <2>2. helper' = helper
    BY <1>6 DEF ParentDies, helperVars
  <2>3. AbstractLimbo' = NoCall \/ ((Queued \/ Written) /\ AbstractLimbo' = calling.command)
    <3>1. CASE pipeIn = << >>
      BY <1>2, <2>1, <3>1 DEF AbstractLimbo
    <3>2. CASE pipeIn # << >> /\ helper = "reading"
      <4>1. Written
        BY <1>1, <1>6, <3>2, SentinelAssumption
           DEF ExchangeOK, Seen, Called, Queued, Answered, Quiet, Inv
      <4>2. Head(pipeIn) = calling.command
        BY <4>1 DEF Written
      <4> QED  BY <1>2, <2>1, <2>2, <3>2, <4>1, <4>2 DEF AbstractLimbo
    <3>3. CASE helper # "reading"
      BY <1>2, <2>1, <2>2, <3>3 DEF AbstractLimbo
    <3> QED  BY <3>1, <3>2, <3>3
  <2> QED  BY <1>2, <1>6, <2>1, <2>3, AbandonStep
<1>7. CASE ParentDies /\ ~Called
  <2>1. AbstractCall = NoCall /\ AbstractCall' = NoCall /\ parent' = "dead" /\ parent = "alive"
        /\ calling = NoCall /\ helper' = helper
    BY <1>2, <1>7 DEF AbstractCall, Called, ParentDies, helperVars
  <2>2. CASE ~failed
    <3>1. AbstractLimbo = NoCall /\ Quiet
      BY <1>1, <2>1, <2>2 DEF Seen
    <3>2. AbstractLimbo' = NoCall
      BY <1>2, <2>1, <3>1 DEF Quiet, AbstractLimbo
    <3>3. Service!Latch
      BY <1>2, <2>1, <3>1, <3>2 DEF Service!Latch
    <3> QED  BY <3>3 DEF Service!ServiceNext
  <2>3. CASE failed
    <3>1. AbstractLimbo' \in {AbstractLimbo, NoCall}
      BY <1>2, <2>1 DEF AbstractLimbo, Called
    <3>2. CASE AbstractLimbo' = AbstractLimbo
      BY <1>2, <1>4, <2>1, <2>3, <3>2
    <3>3. CASE AbstractLimbo' = NoCall /\ AbstractLimbo # NoCall
      <4>1. Service!LateLoss
        BY <1>2, <2>1, <2>3, <3>3 DEF Service!LateLoss
      <4> QED  BY <4>1 DEF Service!ServiceNext
    <3> QED  BY <3>1, <3>2, <3>3
  <2> QED  BY <2>2, <2>3
<1> QED  BY <1>5, <1>6, <1>7

LEMMA InitRefines == Init => Service!ServiceInit
<1> SUFFICES ASSUME Init PROVE Service!ServiceInit
  OBVIOUS
<1>1. AbstractCall = NoCall /\ AbstractLimbo = NoCall /\ journal = Service!EmptyJournal
      /\ (failed \/ parent = "dead") = FALSE
  BY ServiceCommands DEF Init, AbstractCall, AbstractLimbo, Called
<1> QED  BY <1>1 DEF Service!ServiceInit

LEMMA StepRefines ==
    Inv /\ Inv' /\ OneInFlight /\ [Next]_vars => [Service!ServiceNext]_(Service!serviceVars)
<1> SUFFICES ASSUME Inv, Inv', OneInFlight, [Next]_vars
             PROVE  [Service!ServiceNext]_(Service!serviceVars)
  OBVIOUS
<1>1. CASE \E c \in Callers : CallerStep(c)
  BY <1>1, CallerRefines
<1>2. CASE WriteCommand \/ ReadAnswer
  BY <1>2, ThreadRefines
<1>3. CASE HandleCommand
  BY <1>3, HelperRefines
<1>4. CASE EndOfInput \/ HelperDies \/ ParentDies
  BY <1>4, LifecycleRefines
<1>5. CASE UNCHANGED vars
  BY <1>5 DEF vars, Service!serviceVars, AbstractCall, AbstractLimbo, Called, CallPhase, PhaseOf
<1> QED  BY <1>1, <1>2, <1>3, <1>4, <1>5 DEF Next

\* Whatever the threads, the pipes and the helper do, the controllers see the service of
\* RecoveryService: a command takes effect at most once, its caller is never told of another
\* command's fate, and nothing is accepted once somebody left without an answer.
THEOREM Implementation == Spec => ImplementsService
<1>1. Init => OneInFlight
  BY DEF Init, OneInFlight
<1> QED  BY <1>1, Invariance, OneInFlightInductive, InitRefines, StepRefines, PTL
         DEF Spec, ImplementsService, Service!ServiceSpec
================================================================================
