---------------------------- MODULE RecoveryJournal ----------------------------
(***************************************************************************)
(* The journal the recovery helper keeps, as data: the edges it records,   *)
(* the commands that change it, and the replay that unwinds it             *)
(* (src/src/backend/crash_recovery.rs).                                    *)
(*                                                                         *)
(* An edge says that one externally visible value was, or is about to be,  *)
(* moved from "original" to "expected".  The code keeps all committed      *)
(* edges in one vector; every operation on it selects the edges of one     *)
(* key, so the model keeps one sequence per key.  A pending edge (Begin    *)
(* acknowledged, neither committed nor cancelled) carries the intent's id; *)
(* ids grow, so their order is the order of the pending vector.            *)
(***************************************************************************)
EXTENDS Naturals, Sequences, FiniteSets

CONSTANTS Keys,     \* recovery keys: one process instance and one property
          Values,   \* the values of that property
          Ids       \* intent ids; a finite set bounds the mutations of a behaviour

ASSUME IdsAssumption == Ids \subseteq Nat \ {0}

Edge == [original : Values, expected : Values]

Intent == [id : Ids, key : Keys, edge : Edge]

JournalType == [committed : [Keys -> Seq(Edge)], pending : SUBSET Intent]

EmptyJournal == [committed |-> [k \in Keys |-> << >>], pending |-> {}]

(***************************************************************************)
(* Committing: an edge that continues the newest edge of its key extends   *)
(* it, and a chain that is back at its baseline disappears.  The special   *)
(* cases for ThreadSuspension and SuspendedJob (crash_recovery.rs:1039,    *)
(* 1055) are left out: the edges modelled never reach them.                *)
(***************************************************************************)
\* Mutant of CompactOrPush: the newest edge is replaced, its original lost.
ReplaceOrPush(edges, edge) ==
    IF edges # << >> /\ edges[Len(edges)].expected = edge.original
    THEN [edges EXCEPT ![Len(edges)] = edge]
    ELSE Append(edges, edge)

CompactOrPush(edges, edge) ==
    LET n == Len(edges)
    IN  IF n > 0 /\ edges[n].expected = edge.original
        THEN IF edges[n].original = edge.expected
             THEN SubSeq(edges, 1, n - 1)
             ELSE [edges EXCEPT ![n].expected = edge.expected]
        ELSE Append(edges, edge)

(***************************************************************************)
(* The commands of the protocol, as functions of the journal.              *)
(***************************************************************************)
Commands == [op : {"begin"}, id : Ids, key : Keys, edge : Edge]
              \cup [op : {"commit", "cancel"}, id : Ids]
              \cup [op : {"forget"}, key : Keys]

Begin(id, key, edge) == [op |-> "begin", id |-> id, key |-> key, edge |-> edge]
Commit(id) == [op |-> "commit", id |-> id]
Cancel(id) == [op |-> "cancel", id |-> id]
Forget(key) == [op |-> "forget", key |-> key]

Without(journal, id) == {p \in journal.pending : p.id # id}

ApplyBegin(journal, id, key, edge) ==
    [journal EXCEPT !.pending = @ \cup {[id |-> id, key |-> key, edge |-> edge]}]

ApplyCommit(journal, id) ==
    [committed |->
        [k \in Keys |->
            IF \E p \in journal.pending : p.id = id /\ p.key = k
            THEN CompactOrPush(journal.committed[k],
                     (CHOOSE p \in journal.pending : p.id = id).edge)
            ELSE journal.committed[k]],
     pending |-> Without(journal, id)]

ApplyCancel(journal, id) == [journal EXCEPT !.pending = Without(journal, id)]

ApplyForget(journal, key) ==
    [committed |-> [journal.committed EXCEPT ![key] = << >>],
     pending   |-> {p \in journal.pending : p.key # key}]

Apply(journal, command) ==
    CASE command.op = "begin"  -> ApplyBegin(journal, command.id, command.key, command.edge)
      [] command.op = "commit" -> ApplyCommit(journal, command.id)
      [] command.op = "cancel" -> ApplyCancel(journal, command.id)
      [] command.op = "forget" -> ApplyForget(journal, command.key)

(***************************************************************************)
(* Replay.  The chain of a key is its committed edges followed by its      *)
(* pending ones, oldest first; replay visits it newest first.              *)
(***************************************************************************)
PendingOf(journal, key) == {p \in journal.pending : p.key = key}

\* append_pending_intents: the pending edges of a key, in the order they were begun.
PendingEdges(journal, key) ==
    LET S == PendingOf(journal, key)
    IN  [n \in 1..Cardinality(S) |->
            (CHOOSE p \in S : Cardinality({q \in S : q.id < p.id}) = n - 1).edge]

Chain(journal, key) == journal.committed[key] \o PendingEdges(journal, key)

\* One edge of the unwind: an edge that explains the value is undone, a
\* pending edge that was never applied is skipped, anything else ends it.
UnwindEdge(state, edge, committed) ==
    IF ~state.open THEN state
    ELSE IF edge.expected = state.value THEN [value |-> edge.original, open |-> TRUE]
    ELSE IF committed \/ edge.original # state.value THEN [state EXCEPT !.open = FALSE]
    ELSE state

UnwindChain(current, chain, committedLen) ==
    LET n == Len(chain)
        unwound[i \in 0..n] ==
            IF i = 0 THEN [value |-> current, open |-> TRUE]
            ELSE UnwindEdge(unwound[i - 1], chain[n + 1 - i], n + 1 - i <= committedLen)
    IN  unwound[n].value

\* What replay makes of the value it finds.
Unwind(journal, key, current) ==
    UnwindChain(current, Chain(journal, key), Len(journal.committed[key]))
================================================================================
