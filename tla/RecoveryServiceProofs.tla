------------------------- MODULE RecoveryServiceProofs -------------------------
(***************************************************************************)
(* Facts about the recovery service that every controller composed with it *)
(* needs.  A controller's proof speaks of the journals the helper may find *)
(* when Winderust dies now: the present one, the one an abandoned command  *)
(* may still make of it, the one the command under way will.               *)
(***************************************************************************)
EXTENDS RecoveryService, FiniteSetTheorems, SequenceTheorems, TLAPS

--------------------------------------------------------------------------------
(***************************************************************************)
(* The journal operators, for every set of keys and values.                *)
(***************************************************************************)
\* The constructors build commands of the protocol.
LEMMA CommandTypes ==
    /\ \A id \in Ids, k \in Keys, e \in Edge : Begin(id, k, e) \in Commands
    /\ \A id \in Ids : Commit(id) \in Commands /\ Cancel(id) \in Commands
    /\ \A k \in Keys : Forget(k) \in Commands
BY DEF Begin, Commit, Cancel, Forget, Commands

\* Compaction keeps a key's edges a sequence of edges (compact_or_push).
LEMMA CompactOrPushType ==
    ASSUME NEW edges \in Seq(Edge), NEW edge \in Edge
    PROVE  CompactOrPush(edges, edge) \in Seq(Edge)
<1> DEFINE n == Len(edges)
<1>1. CASE n > 0 /\ edges[n].expected = edge.original
  <2>1. CASE edges[n].original = edge.expected
    <3>1. CompactOrPush(edges, edge) = SubSeq(edges, 1, n - 1)
      BY <1>1, <2>1 DEF CompactOrPush
    <3>2. n \in Nat /\ n - 1 \in 0..n
      BY <1>1
    <3> QED  BY <3>1, <3>2
  <2>2. CASE edges[n].original # edge.expected
    <3>1. CompactOrPush(edges, edge) = [edges EXCEPT ![n].expected = edge.expected]
      BY <1>1, <2>2 DEF CompactOrPush
    <3>2. n \in 1..Len(edges) /\ edges[n] \in Edge
      BY <1>1
    <3>3. [edges[n] EXCEPT !.expected = edge.expected] \in Edge
      BY <3>2 DEF Edge
    <3> QED  BY <3>1, <3>2, <3>3
  <2> QED  BY <2>1, <2>2
<1>2. CASE ~(n > 0 /\ edges[n].expected = edge.original)
  BY <1>2 DEF CompactOrPush
<1> QED  BY <1>1, <1>2

\* Commit of a pending intent moves its edge to the committed ones of its key
\* and touches nothing else (apply_watchdog_command, Commit).
LEMMA CommitMovesEdge ==
    ASSUME NEW J \in JournalType, NEW i \in J.pending,
           \A a, b \in J.pending : a.id = b.id => a = b
    PROVE  ApplyCommit(J, i.id) =
              [committed |-> [J.committed EXCEPT ![i.key] = CompactOrPush(@, i.edge)],
               pending   |-> J.pending \ {i}]
<1>1. i \in Intent /\ i.key \in Keys /\ J.committed \in [Keys -> Seq(Edge)]
  BY DEF JournalType, Intent
<1>2. (CHOOSE p \in J.pending : p.id = i.id) = i
  OBVIOUS
<1>3. Without(J, i.id) = J.pending \ {i}
  BY DEF Without
<1>4. \A k \in Keys : (\E p \in J.pending : p.id = i.id /\ p.key = k) <=> k = i.key
  OBVIOUS
<1>5. [k \in Keys |-> IF \E p \in J.pending : p.id = i.id /\ p.key = k
                      THEN CompactOrPush(J.committed[k],
                               (CHOOSE p \in J.pending : p.id = i.id).edge)
                      ELSE J.committed[k]]
        = [J.committed EXCEPT ![i.key] = CompactOrPush(@, i.edge)]
  BY <1>1, <1>2, <1>4
<1> QED  BY <1>3, <1>5 DEF ApplyCommit

\* Cancel removes the intent and nothing else.
LEMMA CancelRemovesIntent ==
    ASSUME NEW J \in JournalType, NEW i \in J.pending,
           \A a, b \in J.pending : a.id = b.id => a = b
    PROVE  ApplyCancel(J, i.id) = [committed |-> J.committed, pending |-> J.pending \ {i}]
<1>1. Without(J, i.id) = J.pending \ {i}
  BY DEF Without
<1>2. J = [committed |-> J.committed, pending |-> J.pending]
  BY DEF JournalType
<1>3. [J EXCEPT !.pending = J.pending \ {i}]
        = [committed |-> J.committed, pending |-> J.pending \ {i}]
  BY <1>2
<1> QED  BY <1>1, <1>3 DEF ApplyCancel

\* Every command leaves a journal of the same type.
LEMMA ApplyType ==
    ASSUME NEW J \in JournalType, NEW command \in Commands
    PROVE  Apply(J, command) \in JournalType
<1>1. J.committed \in [Keys -> Seq(Edge)] /\ J.pending \in SUBSET Intent
  BY DEF JournalType
<1>2. CASE command.op = "begin"
  <2>1. command.id \in Ids /\ command.key \in Keys /\ command.edge \in Edge
    BY <1>2 DEF Commands
  <2>2. Apply(J, command) = ApplyBegin(J, command.id, command.key, command.edge)
    BY <1>2 DEF Apply
  <2>3. [id |-> command.id, key |-> command.key, edge |-> command.edge] \in Intent
    BY <2>1 DEF Intent
  <2> QED  BY <2>2, <2>3, <1>1 DEF ApplyBegin, JournalType
<1>3. CASE command.op = "commit"
  <2>1. Apply(J, command) = ApplyCommit(J, command.id)
    BY <1>3 DEF Apply
  <2>2. \A k \in Keys : (\E p \in J.pending : p.id = command.id /\ p.key = k)
                        => (CHOOSE p \in J.pending : p.id = command.id).edge \in Edge
    BY <1>1 DEF Intent
  <2>3. \A k \in Keys :
           (IF \E p \in J.pending : p.id = command.id /\ p.key = k
            THEN CompactOrPush(J.committed[k],
                     (CHOOSE p \in J.pending : p.id = command.id).edge)
            ELSE J.committed[k]) \in Seq(Edge)
    BY <1>1, <2>2, CompactOrPushType
  <2>4. Without(J, command.id) \in SUBSET Intent
    BY <1>1 DEF Without
  <2> QED  BY <2>1, <2>3, <2>4 DEF ApplyCommit, JournalType
<1>4. CASE command.op = "cancel"
  <2>1. Apply(J, command) = ApplyCancel(J, command.id)
    BY <1>4 DEF Apply
  <2>2. Without(J, command.id) \in SUBSET Intent
    BY <1>1 DEF Without
  <2> QED  BY <2>1, <2>2, <1>1 DEF ApplyCancel, JournalType
<1>5. CASE command.op = "forget"
  <2>1. command.key \in Keys
    BY <1>5 DEF Commands
  <2>2. Apply(J, command) = ApplyForget(J, command.key)
    BY <1>5 DEF Apply
  <2>3. << >> \in Seq(Edge)
    OBVIOUS
  <2>4. [J.committed EXCEPT ![command.key] = << >>] \in [Keys -> Seq(Edge)]
    BY <1>1, <2>1, <2>3
  <2>5. {p \in J.pending : p.key # command.key} \in SUBSET Intent
    BY <1>1
  <2> QED  BY <2>2, <2>4, <2>5 DEF ApplyForget, JournalType
<1> QED  BY <1>2, <1>3, <1>4, <1>5 DEF Commands

--------------------------------------------------------------------------------
(***************************************************************************)
(* Replay of the journals a controller with one change under way leaves:   *)
(* at most one committed edge per key, and at most one pending intent,     *)
(* which continues it.  The recursion of UnwindChain then has at most two  *)
(* steps, which the first three lemmas unfold.                             *)
(***************************************************************************)
\* The unwind before its first step.
Fresh(x) == [value |-> x, open |-> TRUE]

\* An empty chain leaves the value as it is.
LEMMA UnwindNone ==
    ASSUME NEW x, NEW n PROVE UnwindChain(x, << >>, n) = x
<1> DEFINE F(f) == [i \in 0..0 |-> IF i = 0 THEN Fresh(x)
                       ELSE UnwindEdge(f[i - 1], << >>[0 + 1 - i], 0 + 1 - i <= n)]
<1>1. [i \in 0..0 |-> Fresh(x)] = F([i \in 0..0 |-> Fresh(x)])
  OBVIOUS
<1>2. (CHOOSE f : f = F(f)) = F(CHOOSE f : f = F(f))
  BY <1>1
<1>3. (CHOOSE f : f = F(f))[0] = Fresh(x)
  BY <1>2
<1>4. Len(<< >>) = 0
  OBVIOUS
<1> QED  BY <1>3, <1>4 DEF UnwindChain, Fresh

\* A chain of one edge is one step of the unwind.
LEMMA UnwindOne ==
    ASSUME NEW x, NEW e, NEW n
    PROVE  UnwindChain(x, <<e>>, n) = UnwindEdge(Fresh(x), e, 1 <= n).value
<1> DEFINE F(f) == [i \in 0..1 |-> IF i = 0 THEN Fresh(x)
                       ELSE UnwindEdge(f[i - 1], <<e>>[1 + 1 - i], 1 + 1 - i <= n)]
           g == [i \in 0..1 |-> IF i = 0 THEN Fresh(x) ELSE UnwindEdge(Fresh(x), e, 1 <= n)]
<1>1. g = F(g)
  <2>1. g[0] = Fresh(x)
    OBVIOUS
  <2>2. 0..1 = {0, 1} /\ 1 + 1 - 1 = 1 /\ 1 - 1 = 0 /\ <<e>>[1] = e
    OBVIOUS
  <2>3. F(g)[0] = g[0]
    OBVIOUS
  <2>4. F(g)[1] = UnwindEdge(g[0], e, 1 <= n)
    BY <2>2
  <2>5. F(g)[1] = g[1]
    BY <2>1, <2>4
  <2> QED  BY <2>2, <2>3, <2>5
<1> DEFINE h == CHOOSE f : f = F(f)
<1>2. h = F(h)
  BY <1>1
<1>3. h[0] = Fresh(x) /\ h[1] = UnwindEdge(h[0], e, 1 <= n)
  <2> HIDE DEF h
  <2>1. F(h)[0] = Fresh(x) /\ F(h)[1] = UnwindEdge(h[0], e, 1 <= n)
    <3>1. 0 \in 0..1 /\ 1 \in 0..1 /\ 1 + 1 - 1 = 1 /\ 1 - 1 = 0 /\ <<e>>[1] = e /\ 1 # 0
      OBVIOUS
    <3> QED  BY <3>1
  <2> QED  BY <1>2, <2>1
<1>4. Len(<<e>>) = 1
  OBVIOUS
<1>5. UnwindChain(x, <<e>>, n) = h[1].value
  BY <1>4 DEF UnwindChain, Fresh
<1> QED  BY <1>3, <1>5

\* A committed edge and a pending one are two steps, the pending one first.
LEMMA UnwindTwo ==
    ASSUME NEW x, NEW e1, NEW e2
    PROVE  UnwindChain(x, <<e1, e2>>, 1)
             = UnwindEdge(UnwindEdge(Fresh(x), e2, FALSE), e1, TRUE).value
<1> DEFINE c == <<e1, e2>>
           F(f) == [i \in 0..2 |-> IF i = 0 THEN Fresh(x)
                       ELSE UnwindEdge(f[i - 1], c[2 + 1 - i], 2 + 1 - i <= 1)]
           u == UnwindEdge(Fresh(x), e2, FALSE)
           g == [i \in 0..2 |-> IF i = 0 THEN Fresh(x) ELSE IF i = 1 THEN u ELSE UnwindEdge(u, e1, TRUE)]
<1>0. /\ 0..2 = {0, 1, 2} /\ 2 + 1 - 1 = 2 /\ 1 - 1 = 0 /\ 2 - 1 = 1 /\ 2 + 1 - 2 = 1
      /\ c[1] = e1 /\ c[2] = e2 /\ (2 <= 1) = FALSE /\ (1 <= 1) = TRUE
  OBVIOUS
<1>a. ASSUME NEW f PROVE /\ F(f)[0] = Fresh(x)
                         /\ F(f)[1] = UnwindEdge(f[0], e2, FALSE)
                         /\ F(f)[2] = UnwindEdge(f[1], e1, TRUE)
  <2> HIDE DEF c
  <2>1. /\ F(f)[0] = Fresh(x)
        /\ F(f)[1] = UnwindEdge(f[1 - 1], c[2 + 1 - 1], 2 + 1 - 1 <= 1)
        /\ F(f)[2] = UnwindEdge(f[2 - 1], c[2 + 1 - 2], 2 + 1 - 2 <= 1)
    OBVIOUS
  <2> QED  BY <2>1, <1>0
<1>1. g = F(g)
  <2>1. g[0] = Fresh(x) /\ g[1] = u /\ g[2] = UnwindEdge(u, e1, TRUE)
    OBVIOUS
  <2>2. F(g)[0] = g[0] /\ F(g)[1] = g[1] /\ F(g)[2] = g[2]
    BY <1>a, <2>1
  <2> QED  BY <2>2, <1>0
<1> DEFINE h == CHOOSE f : f = F(f)
<1>2. h = F(h)
  BY <1>1
<1>3. h[0] = Fresh(x) /\ h[1] = UnwindEdge(h[0], e2, FALSE) /\ h[2] = UnwindEdge(h[1], e1, TRUE)
  <2> HIDE DEF h, F
  <2> QED  BY <1>2, <1>a
<1>4. Len(<<e1, e2>>) = 2
  OBVIOUS
<1>5. UnwindChain(x, <<e1, e2>>, 1) = h[2].value
  BY <1>4 DEF UnwindChain, Fresh
<1> QED  BY <1>3, <1>5

\* A key without intents has no pending edges.
LEMMA PendingNone ==
    ASSUME NEW J, NEW k, PendingOf(J, k) = {} PROVE PendingEdges(J, k) = << >>
<1>1. Cardinality({}) = 0 /\ 1..0 = {}
  BY FS_EmptySet
<1> QED  BY <1>1 DEF PendingEdges

\* A key with one intent has one pending edge.
LEMMA PendingOne ==
    ASSUME NEW J, NEW k, NEW p, p.id \in Nat, PendingOf(J, k) = {p}
    PROVE  PendingEdges(J, k) = <<p.edge>>
<1>1. Cardinality({p}) = 1 /\ 1..1 = {1} /\ Cardinality({}) = 0 /\ 1 - 1 = 0
  BY FS_EmptySet, FS_Singleton
<1>2. {q \in {p} : q.id < p.id} = {}
  OBVIOUS
<1>3. (CHOOSE r \in {p} : Cardinality({q \in {p} : q.id < r.id}) = 1 - 1) = p
  BY <1>1, <1>2
<1> DEFINE f == [n \in 1..1 |->
              (CHOOSE r \in {p} : Cardinality({q \in {p} : q.id < r.id}) = n - 1).edge]
<1>4. PendingEdges(J, k) = f
  BY <1>1 DEF PendingEdges
<1>5. f = [n \in 1..1 |-> p.edge]
  <2>1. \A n \in 1..1 : f[n] = p.edge
    BY <1>1, <1>3
  <2> QED  BY <2>1
<1>6. [n \in 1..1 |-> p.edge] = <<p.edge>>
  OBVIOUS
<1> QED  BY <1>4, <1>5, <1>6

\* At most one edge, which moves the value.
SlimEdges(edges) ==
    edges = << >> \/ \E e \in Edge : e.original # e.expected /\ edges = <<e>>

\* An intent that continues the committed edge of its key.
Fits(J, p) ==
    /\ p.edge.original # p.edge.expected
    /\ J.committed[p.key] = << >> \/ J.committed[p.key][1].expected = p.edge.original

Slim(J) ==
    /\ J \in JournalType
    /\ \A k \in Keys : SlimEdges(J.committed[k])
    /\ \A p \in J.pending : J.pending = {p} /\ Fits(J, p)

\* What replay makes of x for one edge, for the committed edges, for the intents.
UndoEdge(edge, x) == IF x = edge.expected THEN edge.original ELSE x

UndoEdges(edges, x) == IF edges = << >> THEN x ELSE UndoEdge(edges[1], x)

UndoPending(S, x) == IF S = {} THEN x ELSE UndoEdge((CHOOSE p \in S : TRUE).edge, x)

\* In a slim journal, replay undoes the pending edge of a key and then its committed one.
LEMMA UnwindSlim ==
    ASSUME NEW J, Slim(J), NEW k \in Keys, NEW x
    PROVE  Unwind(J, k, x) = UndoEdges(J.committed[k], UndoPending(PendingOf(J, k), x))
<1>1. /\ J.committed \in [Keys -> Seq(Edge)] /\ J.pending \in SUBSET Intent
      /\ SlimEdges(J.committed[k])
  BY DEF Slim, JournalType
<1>2. CASE PendingOf(J, k) = {}
  <2>1. PendingEdges(J, k) = << >>
    BY <1>2, PendingNone
  <2>2. CASE J.committed[k] = << >>
    <3>1. Chain(J, k) = << >>
      BY <2>1, <2>2 DEF Chain
    <3> QED  BY <1>2, <2>2, <3>1, UnwindNone DEF Unwind, UndoEdges, UndoPending
  <2>3. ASSUME NEW e \in Edge, J.committed[k] = <<e>>
        PROVE  Unwind(J, k, x) = UndoEdges(J.committed[k], UndoPending(PendingOf(J, k), x))
    <3>1. Chain(J, k) = <<e>> /\ Len(J.committed[k]) = 1 /\ (1 <= 1) = TRUE
      BY <2>1, <2>3 DEF Chain
    <3>2. Unwind(J, k, x) = UnwindEdge(Fresh(x), e, TRUE).value
      BY <3>1, UnwindOne DEF Unwind
    <3>3. <<e>> # << >> /\ <<e>>[1] = e
      OBVIOUS
    <3> QED  BY <1>2, <2>3, <3>2, <3>3 DEF UnwindEdge, Fresh, UndoEdges, UndoPending, UndoEdge
  <2> QED  BY <1>1, <2>2, <2>3 DEF SlimEdges
<1>3. ASSUME NEW p \in J.pending, p.key = k
      PROVE  Unwind(J, k, x) = UndoEdges(J.committed[k], UndoPending(PendingOf(J, k), x))
  <2>1. p \in Intent /\ Fits(J, p) /\ PendingOf(J, k) = {p}
    BY <1>1, <1>3 DEF PendingOf, Slim
  <2>2. p.id \in Nat /\ p.edge \in Edge
    BY <2>1, IdsAssumption DEF Intent
  <2>3. PendingEdges(J, k) = <<p.edge>> /\ (CHOOSE q \in PendingOf(J, k) : TRUE) = p
    BY <2>1, <2>2, PendingOne
  <2>4. UndoPending(PendingOf(J, k), x) = UndoEdge(p.edge, x)
    BY <2>1, <2>3 DEF UndoPending
  <2>5. CASE J.committed[k] = << >>
    <3>1. Chain(J, k) = <<p.edge>> /\ Len(J.committed[k]) = 0 /\ (1 <= 0) = FALSE
      BY <2>3, <2>5 DEF Chain
    <3>2. Unwind(J, k, x) = UnwindEdge(Fresh(x), p.edge, FALSE).value
      BY <3>1, UnwindOne DEF Unwind
    <3> QED  BY <2>4, <2>5, <3>2 DEF UnwindEdge, Fresh, UndoEdges, UndoEdge
  <2>6. ASSUME NEW e \in Edge, J.committed[k] = <<e>>
        PROVE  Unwind(J, k, x) = UndoEdges(J.committed[k], UndoPending(PendingOf(J, k), x))
    <3>0. \A f \in Edge : <<e>> \o <<f>> = <<e, f>> /\ Len(<<e>>) = 1
      <4>1. ASSUME NEW f \in Edge PROVE <<e>> \o <<f>> = <<e, f>>
        <5>1. <<e>> \in Seq(Edge) /\ <<f>> \in Seq(Edge) /\ <<e, f>> \in Seq(Edge)
          OBVIOUS
        <5>2. Len(<<e>> \o <<f>>) = 2 /\ Len(<<e, f>>) = 2
          BY <5>1
        <5>3. \A n \in 1..2 : (<<e>> \o <<f>>)[n] = <<e, f>>[n]
          BY <5>1
        <5>4. <<e>> \o <<f>> \in Seq(Edge)
          BY <5>1
        <5> QED  BY <5>1, <5>2, <5>3, <5>4, SeqEqual
      <4> QED  BY <4>1
    <3>1. Chain(J, k) = <<e, p.edge>> /\ Len(J.committed[k]) = 1
      BY <2>2, <2>3, <2>6, <3>0 DEF Chain
    <3>2. Unwind(J, k, x)
            = UnwindEdge(UnwindEdge(Fresh(x), p.edge, FALSE), e, TRUE).value
      BY <3>1, UnwindTwo DEF Unwind
    <3>3. <<e>> # << >> /\ <<e>>[1] = e
      OBVIOUS
    <3>4. e.expected = p.edge.original
      BY <1>3, <2>1, <2>6, <3>3 DEF Fits
    <3> QED  BY <2>4, <2>6, <3>2, <3>3, <3>4 DEF UnwindEdge, Fresh, UndoEdges, UndoEdge
  <2> QED  BY <1>1, <2>5, <2>6 DEF SlimEdges
<1> QED  BY <1>2, <1>3 DEF PendingOf

\* Only the edges of the key matter.
LEMMA UnwindOfKey ==
    ASSUME NEW J, NEW K, NEW k, NEW x,
           J.committed[k] = K.committed[k], PendingOf(J, k) = PendingOf(K, k)
    PROVE  Unwind(J, k, x) = Unwind(K, k, x)
BY DEF Unwind, Chain, PendingEdges

EdgesOf(J, k) == {J.committed[k][n] : n \in DOMAIN J.committed[k]}
                   \cup {p.edge : p \in PendingOf(J, k)}

\* A value that no edge of the key moves to is left as it is.
LEMMA UnwindForeign ==
    ASSUME NEW J, Slim(J), NEW k \in Keys, NEW x,
           \A e \in EdgesOf(J, k) : x # e.expected
    PROVE  Unwind(J, k, x) = x
<1>1. UndoPending(PendingOf(J, k), x) = x
  BY DEF UndoPending, UndoEdge, EdgesOf
<1>2. UndoEdges(J.committed[k], x) = x
  <2>1. SlimEdges(J.committed[k])
    BY DEF Slim
  <2>2. ASSUME NEW e \in Edge, J.committed[k] = <<e>> PROVE UndoEdges(J.committed[k], x) = x
    <3>1. <<e>> # << >> /\ <<e>>[1] = e /\ 1 \in DOMAIN <<e>>
      OBVIOUS
    <3>2. e \in EdgesOf(J, k)
      BY <2>2, <3>1 DEF EdgesOf
    <3> QED  BY <2>2, <3>1, <3>2 DEF UndoEdges, UndoEdge
  <2> QED  BY <2>1, <2>2 DEF SlimEdges, UndoEdges
<1> QED  BY <1>1, <1>2, UnwindSlim

\* Replay stays within the values, and a second replay changes nothing
\* (recover_process_key after a failed attempt of another key).
LEMMA UnwindAgain ==
    ASSUME NEW J, Slim(J), NEW k \in Keys, NEW x \in Values
    PROVE  Unwind(J, k, x) \in Values /\ Unwind(J, k, Unwind(J, k, x)) = Unwind(J, k, x)
<1> DEFINE S == PendingOf(J, k)
           c == J.committed[k]
<1>1. \A y : Unwind(J, k, y) = UndoEdges(c, UndoPending(S, y))
  BY UnwindSlim
<1>2. SlimEdges(c) /\ S \subseteq Intent
  BY DEF Slim, JournalType, PendingOf
<1>3. ASSUME NEW p \in S PROVE (CHOOSE q \in S : TRUE) = p /\ Fits(J, p) /\ p \in Intent /\ p.key = k
  BY <1>2 DEF Slim, PendingOf
<1>4. \A e : <<e>> # << >> /\ <<e>>[1] = e
  OBVIOUS
<1>5. CASE S = {}
  <2>1. \A y : Unwind(J, k, y) = UndoEdges(c, y)
    BY <1>1, <1>5 DEF UndoPending
  <2> QED  BY <2>1, <1>2, <1>4 DEF UndoEdges, UndoEdge, SlimEdges, Edge
<1>6. ASSUME NEW p \in S
      PROVE  Unwind(J, k, x) \in Values /\ Unwind(J, k, Unwind(J, k, x)) = Unwind(J, k, x)
  <2>1. \A y : Unwind(J, k, y) = UndoEdges(c, UndoEdge(p.edge, y))
    BY <1>1, <1>3, <1>6 DEF UndoPending
  <2>2. p.edge \in Edge /\ p.edge.original # p.edge.expected
        /\ (c = << >> \/ c[1].expected = p.edge.original)
    BY <1>3, <1>6 DEF Fits, Intent
  <2> HIDE DEF S, c
  <2>3. CASE c = << >>
    BY <2>1, <2>2, <2>3 DEF UndoEdges, UndoEdge, Edge
  <2>4. CASE c # << >>
    <3>1. PICK e \in Edge : e.original # e.expected /\ c = <<e>>
      BY <1>2, <2>4 DEF SlimEdges
    <3> QED  BY <2>1, <2>2, <3>1, <1>4 DEF UndoEdges, UndoEdge, Edge
  <2> QED  BY <2>3, <2>4
<1> QED  BY <1>5, <1>6

\* Begin: replay makes the same of the value the change starts from.
LEMMA SlimBegin ==
    ASSUME NEW J, Slim(J), J.pending = {}, NEW i \in Intent, Fits(J, i)
    PROVE  /\ Slim(ApplyBegin(J, i.id, i.key, i.edge))
           /\ \A k \in Keys : \A x :
                 k # i.key \/ x # i.edge.expected =>
                    Unwind(ApplyBegin(J, i.id, i.key, i.edge), k, x) = Unwind(J, k, x)
<1> DEFINE K == ApplyBegin(J, i.id, i.key, i.edge)
<1>1. J.committed \in [Keys -> Seq(Edge)] /\ J = [committed |-> J.committed, pending |-> {}]
  BY DEF Slim, JournalType
<1>2. [id |-> i.id, key |-> i.key, edge |-> i.edge] = i
  BY DEF Intent
<1>3. K = [committed |-> J.committed, pending |-> {i}]
  <2>1. J.pending \cup {[id |-> i.id, key |-> i.key, edge |-> i.edge]} = {i}
    BY <1>2
  <2>2. [J EXCEPT !.pending = {i}] = [committed |-> J.committed, pending |-> {i}]
    <3>1. J = [committed |-> J.committed, pending |-> J.pending]
      BY DEF Slim, JournalType
    <3> QED  BY <3>1
  <2> QED  BY <2>1, <2>2 DEF ApplyBegin
<1>4. Slim(K)
  BY <1>1, <1>3 DEF Slim, JournalType, Fits
<1>5. ASSUME NEW k \in Keys, NEW x, k # i.key \/ x # i.edge.expected
      PROVE  Unwind(K, k, x) = Unwind(J, k, x)
  <2>1. CASE k # i.key
    <3>1. PendingOf(K, k) = PendingOf(J, k) /\ K.committed[k] = J.committed[k]
      BY <1>3, <2>1 DEF PendingOf
    <3> QED  BY <3>1, UnwindOfKey
  <2>2. CASE k = i.key /\ x # i.edge.expected
    <3>1. PendingOf(K, k) = {i} /\ PendingOf(J, k) = {} /\ K.committed[k] = J.committed[k]
      BY <1>3, <2>2 DEF PendingOf
    <3>2. UndoPending({i}, x) = x /\ UndoPending({}, x) = x
      BY <2>2 DEF UndoPending, UndoEdge
    <3> QED  BY <3>1, <3>2, <1>4, UnwindSlim
  <2> QED  BY <1>5, <2>1, <2>2
<1> QED  BY <1>4, <1>5

\* Compaction leaves at most one edge, and none back at the baseline (compact_or_push).
LEMMA SlimCompact ==
    ASSUME NEW edges, SlimEdges(edges), NEW edge \in Edge, edge.original # edge.expected,
           edges = << >> \/ edges[1].expected = edge.original
    PROVE  /\ SlimEdges(CompactOrPush(edges, edge))
           /\ CompactOrPush(edges, edge) =
                 IF edges = << >> THEN <<edge>>
                 ELSE IF edges[1].original = edge.expected THEN << >>
                 ELSE <<[original |-> edges[1].original, expected |-> edge.expected]>>
<1>1. CASE edges = << >>
  <2>1. CompactOrPush(edges, edge) = <<edge>>
    BY <1>1 DEF CompactOrPush
  <2> QED  BY <1>1, <2>1 DEF SlimEdges
<1>2. CASE edges # << >>
  <2>1. PICK e \in Edge : e.original # e.expected /\ edges = <<e>>
    BY <1>2 DEF SlimEdges
  <2>2. Len(edges) = 1 /\ edges[1] = e /\ e.expected = edge.original
    BY <1>2, <2>1
  <2>3. CASE e.original = edge.expected
    <3>1. CompactOrPush(edges, edge) = SubSeq(edges, 1, 1 - 1)
      BY <2>2, <2>3 DEF CompactOrPush
    <3>2. SubSeq(edges, 1, 1 - 1) = << >>
      BY <2>1
    <3> QED  BY <1>2, <2>2, <2>3, <3>1, <3>2 DEF SlimEdges
  <2>4. CASE e.original # edge.expected
    <3>1. CompactOrPush(edges, edge) = [edges EXCEPT ![1].expected = edge.expected]
      BY <2>2, <2>4 DEF CompactOrPush
    <3>2. [e EXCEPT !.expected = edge.expected]
            = [original |-> e.original, expected |-> edge.expected]
      BY DEF Edge
    <3>3. CompactOrPush(edges, edge) = <<[original |-> e.original, expected |-> edge.expected]>>
      BY <2>1, <3>1, <3>2
    <3>4. [original |-> e.original, expected |-> edge.expected] \in Edge
      BY DEF Edge
    <3> QED  BY <1>2, <2>2, <2>4, <3>3, <3>4 DEF SlimEdges
  <2> QED  BY <2>3, <2>4
<1> QED  BY <1>1, <1>2

\* Commit: replay makes the same of every value but the one the change started from.
LEMMA SlimCommit ==
    ASSUME NEW J, Slim(J), NEW i \in Intent, J.pending = {i}
    PROVE  /\ Slim(ApplyCommit(J, i.id))
           /\ ApplyCommit(J, i.id).pending = {}
           /\ ApplyCommit(J, i.id).committed
                 = [J.committed EXCEPT ![i.key] = CompactOrPush(@, i.edge)]
           /\ \A k \in Keys : \A x :
                 k # i.key \/ x # i.edge.original =>
                    Unwind(ApplyCommit(J, i.id), k, x) = Unwind(J, k, x)
<1> DEFINE K == ApplyCommit(J, i.id)
           c == J.committed[i.key]
           d == CompactOrPush(c, i.edge)
<1>1. /\ J \in JournalType /\ J.committed \in [Keys -> Seq(Edge)]
      /\ i.key \in Keys /\ i.edge \in Edge
      /\ Fits(J, i) /\ SlimEdges(c) /\ J.pending \ {i} = {}
  BY DEF Slim, JournalType, Intent
<1>2. K = [committed |-> [J.committed EXCEPT ![i.key] = d], pending |-> {}]
  BY <1>1, CommitMovesEdge
<1>3. SlimEdges(d) /\ d = IF c = << >> THEN <<i.edge>>
                          ELSE IF c[1].original = i.edge.expected THEN << >>
                          ELSE <<[original |-> c[1].original, expected |-> i.edge.expected]>>
  BY <1>1, SlimCompact DEF Fits
<1>4. d \in Seq(Edge)
  BY <1>1, CompactOrPushType
<1>5. Slim(K)
  <2> HIDE DEF d
  <2> QED  BY <1>1, <1>2, <1>3, <1>4 DEF Slim, JournalType
<1>6. ASSUME NEW k \in Keys, NEW x, k # i.key \/ x # i.edge.original
      PROVE  Unwind(K, k, x) = Unwind(J, k, x)
  <2>1. CASE k # i.key
    <3>1. PendingOf(K, k) = PendingOf(J, k) /\ K.committed[k] = J.committed[k]
      BY <1>1, <1>2, <2>1 DEF PendingOf
    <3> QED  BY <3>1, UnwindOfKey
  <2>2. CASE k = i.key /\ x # i.edge.original
    <3>1. PendingOf(J, k) = {i} /\ PendingOf(K, k) = {} /\ K.committed[k] = d /\ J.committed[k] = c
      BY <1>1, <1>2, <2>2 DEF PendingOf
    <3>2. UndoPending({i}, x) = UndoEdge(i.edge, x) /\ UndoPending({}, x) = x
      BY DEF UndoPending
    <3>3. Unwind(J, k, x) = UndoEdges(c, UndoEdge(i.edge, x)) /\ Unwind(K, k, x) = UndoEdges(d, x)
      BY <3>1, <3>2, <1>5, UnwindSlim
    <3>4. \A e : <<e>> # << >> /\ <<e>>[1] = e
      OBVIOUS
    <3>5. UndoEdges(c, UndoEdge(i.edge, x)) = UndoEdges(d, x)
      <4>1. c = << >> \/ (c # << >> /\ c[1].expected = i.edge.original /\ c[1].original # c[1].expected)
        BY <1>1, <3>4 DEF Fits, SlimEdges
      <4> HIDE DEF c, d
      <4> QED  BY <1>3, <2>2, <3>4, <4>1 DEF UndoEdges, UndoEdge
    <3> QED  BY <3>3, <3>5
  <2> QED  BY <1>6, <2>1, <2>2
<1> QED  BY <1>2, <1>5, <1>6

\* Cancel: replay makes the same of every value but the one the change was to set.
LEMMA SlimCancel ==
    ASSUME NEW J, Slim(J), NEW i \in Intent, J.pending = {i}
    PROVE  /\ Slim(ApplyCancel(J, i.id))
           /\ ApplyCancel(J, i.id) = [committed |-> J.committed, pending |-> {}]
           /\ \A k \in Keys : \A x :
                 k # i.key \/ x # i.edge.expected =>
                    Unwind(ApplyCancel(J, i.id), k, x) = Unwind(J, k, x)
<1> DEFINE K == ApplyCancel(J, i.id)
<1>1. J \in JournalType /\ J.pending \ {i} = {}
  BY DEF Slim
<1>2. K = [committed |-> J.committed, pending |-> {}]
  BY <1>1, CancelRemovesIntent
<1>3. Slim(K)
  BY <1>1, <1>2 DEF Slim, JournalType
<1>4. ASSUME NEW k \in Keys, NEW x, k # i.key \/ x # i.edge.expected
      PROVE  Unwind(K, k, x) = Unwind(J, k, x)
  <2>1. CASE k # i.key
    <3>1. PendingOf(K, k) = PendingOf(J, k) /\ K.committed[k] = J.committed[k]
      BY <1>1, <1>2, <2>1 DEF PendingOf
    <3> QED  BY <3>1, UnwindOfKey
  <2>2. CASE k = i.key /\ x # i.edge.expected
    <3>1. PendingOf(J, k) = {i} /\ PendingOf(K, k) = {} /\ K.committed[k] = J.committed[k]
      BY <1>1, <1>2, <2>2 DEF PendingOf
    <3>2. UndoPending({i}, x) = x /\ UndoPending({}, x) = x
      BY <2>2 DEF UndoPending, UndoEdge
    <3> QED  BY <3>1, <3>2, <1>3, UnwindSlim
  <2> QED  BY <1>4, <2>1, <2>2
<1> QED  BY <1>2, <1>3, <1>4

\* Forget: the key is left as it is, the others are not touched.
LEMMA SlimForget ==
    ASSUME NEW J, Slim(J), NEW key \in Keys
    PROVE  /\ Slim(ApplyForget(J, key))
           /\ ApplyForget(J, key).committed = [J.committed EXCEPT ![key] = << >>]
           /\ ApplyForget(J, key).pending = {p \in J.pending : p.key # key}
           /\ \A x : Unwind(ApplyForget(J, key), key, x) = x
           /\ \A k \in Keys \ {key} : \A x : Unwind(ApplyForget(J, key), k, x) = Unwind(J, k, x)
<1> DEFINE K == ApplyForget(J, key)
<1>1. J.committed \in [Keys -> Seq(Edge)] /\ J.pending \in SUBSET Intent
  BY DEF Slim, JournalType
<1>2. K = [committed |-> [J.committed EXCEPT ![key] = << >>],
           pending   |-> {p \in J.pending : p.key # key}]
  BY DEF ApplyForget
<1>3. << >> \in Seq(Edge)
  OBVIOUS
<1>4. K.committed \in [Keys -> Seq(Edge)] /\ K.pending \in SUBSET Intent /\ K \in JournalType
  BY <1>1, <1>2, <1>3 DEF JournalType
<1>5. \A k \in Keys : SlimEdges(K.committed[k])
  BY <1>1, <1>2 DEF Slim, SlimEdges
<1>6. ASSUME NEW p \in K.pending PROVE K.pending = {p} /\ Fits(K, p)
  <2>1. p \in J.pending /\ p.key # key /\ p.key \in Keys
    BY <1>1, <1>2 DEF Intent
  <2> QED  BY <1>1, <1>2, <2>1 DEF Slim, Fits
<1>7. Slim(K)
  BY <1>4, <1>5, <1>6 DEF Slim
<1>8. ASSUME NEW x PROVE Unwind(K, key, x) = x
  <2>1. PendingOf(K, key) = {} /\ K.committed[key] = << >>
    BY <1>1, <1>2 DEF PendingOf
  <2> QED  BY <2>1, <1>7, UnwindSlim DEF UndoEdges, UndoPending
<1>9. ASSUME NEW k \in Keys \ {key}, NEW x PROVE Unwind(K, k, x) = Unwind(J, k, x)
  <2>1. PendingOf(K, k) = PendingOf(J, k) /\ K.committed[k] = J.committed[k]
    BY <1>1, <1>2 DEF PendingOf
  <2> QED  BY <2>1, UnwindOfKey
<1> QED  BY <1>2, <1>7, <1>8, <1>9

\* A value that neither the journal nor the command speaks of stays foreign to
\* the journal after the command.
LEMMA ForeignAfter ==
    ASSUME NEW J, Slim(J), NEW command \in Commands, NEW k \in Keys, NEW x,
           \A e \in EdgesOf(J, k) : x # e.expected,
           command.op = "begin" /\ command.key = k => x # command.edge.expected
    PROVE  \A e \in EdgesOf(Apply(J, command), k) : x # e.expected
<1>1. /\ J.committed \in [Keys -> Seq(Edge)] /\ J.pending \in SUBSET Intent
      /\ J = [committed |-> J.committed, pending |-> J.pending]
  BY DEF Slim, JournalType
<1> DEFINE K == Apply(J, command)
<1> SUFFICES ASSUME NEW e \in EdgesOf(K, k) PROVE x # e.expected
  OBVIOUS
<1>2. CASE command.op = "begin"
  <2>1. K = ApplyBegin(J, command.id, command.key, command.edge)
    BY <1>2 DEF Apply
  <2>2. /\ K.committed = J.committed
        /\ K.pending = J.pending \cup
              {[id |-> command.id, key |-> command.key, edge |-> command.edge]}
    BY <1>1, <2>1 DEF ApplyBegin
  <2> QED  BY <1>2, <2>2 DEF EdgesOf, PendingOf
<1>3. CASE command.op = "cancel"
  <2>1. K = ApplyCancel(J, command.id)
    BY <1>3 DEF Apply
  <2>2. K.committed = J.committed /\ K.pending \subseteq J.pending
    BY <1>1, <2>1 DEF ApplyCancel, Without
  <2> QED  BY <2>2 DEF EdgesOf, PendingOf
<1>4. CASE command.op = "forget"
  <2>1. K = ApplyForget(J, command.key) /\ command.key \in Keys
    BY <1>4 DEF Apply, Commands
  <2>2. /\ K.committed[k] = J.committed[k] \/ K.committed[k] = << >>
        /\ K.pending \subseteq J.pending
    BY <1>1, <2>1 DEF ApplyForget
  <2>3. DOMAIN << >> = {}
    OBVIOUS
  <2> QED  BY <2>2, <2>3 DEF EdgesOf, PendingOf
<1>5. CASE command.op = "commit"
  <2>1. K = ApplyCommit(J, command.id)
    BY <1>5 DEF Apply
  <2>2. CASE \A p \in J.pending : p.id # command.id
    <3>1. K.committed[k] = J.committed[k] /\ K.pending \subseteq J.pending
      BY <1>1, <2>1, <2>2 DEF ApplyCommit, Without
    <3> QED  BY <3>1 DEF EdgesOf, PendingOf
  <2>3. ASSUME NEW i \in J.pending, i.id = command.id PROVE x # e.expected
    <3>1. i \in Intent /\ J.pending = {i} /\ Fits(J, i) /\ i.edge \in Edge
      BY <1>1 DEF Slim, Intent
    <3>2. K.pending = {} /\ K.committed = [J.committed EXCEPT ![i.key] = CompactOrPush(@, i.edge)]
      BY <2>1, <2>3, <3>1, SlimCommit
    <3>3. CASE k # i.key
      BY <1>1, <3>2, <3>3 DEF EdgesOf, PendingOf
    <3>4. CASE k = i.key
      <4>1. PICK n \in DOMAIN K.committed[k] : e = K.committed[k][n]
        BY <3>2 DEF EdgesOf, PendingOf
      <4>2. K.committed[k] = CompactOrPush(J.committed[k], i.edge) /\ SlimEdges(J.committed[k])
        BY <1>1, <3>2, <3>4 DEF Slim
      <4>3. K.committed[k] = IF J.committed[k] = << >> THEN <<i.edge>>
                 ELSE IF J.committed[k][1].original = i.edge.expected THEN << >>
                 ELSE <<[original |-> J.committed[k][1].original, expected |-> i.edge.expected]>>
        BY <3>1, <3>4, <4>2, SlimCompact DEF Fits
      <4>4. /\ DOMAIN << >> = {}
            /\ \A f : DOMAIN <<f>> = {1} /\ <<f>>[1] = f
        OBVIOUS
      <4>5. e.expected = i.edge.expected
        BY <4>1, <4>3, <4>4
      <4>6. i.edge \in EdgesOf(J, k)
        BY <3>1, <3>4 DEF EdgesOf, PendingOf
      <4> QED  BY <4>5, <4>6
    <3> QED  BY <3>3, <3>4
  <2> QED  BY <2>2, <2>3
<1> QED  BY <1>2, <1>3, <1>4, <1>5 DEF Commands

--------------------------------------------------------------------------------
(***************************************************************************)
(* The service.                                                            *)
(***************************************************************************)
\* Nothing is under way once the service is latched, and nothing is abandoned before.
ServiceInv ==
    /\ ServiceTypeOK
    /\ call # NoCall => ~latched
    /\ limbo # NoCommand => latched

Futures ==
    {journal} \cup (IF limbo = NoCommand THEN {} ELSE {Apply(journal, limbo)})
              \cup (IF Called("sent") THEN {Apply(journal, call.command)} ELSE {})

LEMMA ServiceInit_Inv == ServiceInit => ServiceInv /\ Futures = {EmptyJournal}
<1> SUFFICES ASSUME ServiceInit PROVE ServiceInv /\ Futures = {EmptyJournal}
  OBVIOUS
<1>1. EmptyJournal \in JournalType
  BY DEF EmptyJournal, JournalType
<1> QED  BY <1>1 DEF ServiceInit, ServiceInv, ServiceTypeOK, Futures, Called

LEMMA ServiceStep_Inv == ServiceInv /\ [ServiceNext]_serviceVars => ServiceInv'
<1> SUFFICES ASSUME ServiceInv, [ServiceNext]_serviceVars PROVE ServiceInv'
  OBVIOUS
<1> USE DEF ServiceInv, ServiceTypeOK
<1>1. ASSUME NEW c \in Commands, Submit(c) PROVE ServiceInv'
  BY <1>1 DEF Submit, Phases
<1>2. CASE Land
  <2>1. call \in [command : Commands, phase : Phases] /\ call.command \in Commands
    BY <1>2 DEF Land, Called
  <2>2. journal' \in JournalType
    BY <1>2, <2>1, ApplyType DEF Land
  <2>3. call' \in [command : Commands, phase : Phases]
    BY <1>2, <2>1 DEF Land, Phases
  <2>4. call # NoCall /\ UNCHANGED <<latched, limbo>>
    BY <1>2 DEF Land, Called
  <2> QED  BY <2>2, <2>3, <2>4
<1>3. CASE Refuse
  BY <1>3 DEF Refuse, Called, Phases
<1>4. CASE Acknowledge
  BY <1>4 DEF Acknowledge
<1>5. CASE Reject
  BY <1>5 DEF Reject, Called
<1>6. CASE Abandon
  <2>1. call.command \in Commands
    BY <1>6 DEF Abandon
  <2>2. limbo' \in Commands \cup {NoCommand}
    BY <1>6, <2>1 DEF Abandon
  <2> QED  BY <1>6, <2>2 DEF Abandon
<1>7. CASE LateLand
  <2>1. journal' \in JournalType
    BY <1>7, ApplyType DEF LateLand
  <2> QED  BY <1>7, <2>1 DEF LateLand
<1>8. CASE LateLoss
  BY <1>8 DEF LateLoss
<1>9. CASE Latch
  BY <1>9 DEF Latch
<1>10. CASE UNCHANGED serviceVars
  BY <1>10 DEF serviceVars
<1> QED
  BY <1>1, <1>2, <1>3, <1>4, <1>5, <1>6, <1>7, <1>8, <1>9, <1>10 DEF ServiceNext

\* Only a new command adds a journal that the helper may find.
LEMMA FuturesOfSubmit ==
    ASSUME ServiceInv, NEW c \in Commands, Submit(c)
    PROVE  Futures' = {journal, Apply(journal, c)} /\ Futures = {journal}
<1>1. limbo = NoCommand /\ limbo' = NoCommand /\ journal' = journal /\ call = NoCall
  BY DEF Submit, ServiceInv
<1>2. call' = [command |-> c, phase |-> "sent"] /\ call' # NoCall
  BY CallAssumption DEF Submit, Phases
<1> QED  BY <1>1, <1>2 DEF Futures, Called

LEMMA FuturesShrink ==
    ASSUME ServiceInv, [ServiceNext]_serviceVars, \A c \in Commands : ~Submit(c)
    PROVE  Futures' \subseteq Futures
<1> USE DEF ServiceInv, ServiceTypeOK, Futures, Called
<1>1. CASE Land
  BY <1>1 DEF Land
<1>2. CASE Refuse
  BY <1>2 DEF Refuse
<1>3. CASE Acknowledge
  BY <1>3 DEF Acknowledge
<1>4. CASE Reject
  BY <1>4 DEF Reject
<1>5. CASE Abandon
  BY <1>5 DEF Abandon
<1>6. CASE LateLand
  BY <1>6 DEF LateLand
<1>7. CASE LateLoss
  BY <1>7 DEF LateLoss
<1>8. CASE Latch
  BY <1>8 DEF Latch
<1>9. CASE UNCHANGED serviceVars
  BY <1>9 DEF serviceVars
<1> QED  BY <1>1, <1>2, <1>3, <1>4, <1>5, <1>6, <1>7, <1>8, <1>9 DEF ServiceNext
--------------------------------------------------------------------------------
(***************************************************************************)
(* Journals in which no key has two records, so that Commit never compacts *)
(* anything: those of the owners that record one edge before they act and  *)
(* keep it until they have undone it.                                      *)
(***************************************************************************)
Rec(J, k) == J.committed[k] # << >> \/ \E p \in J.pending : p.key = k

OneRecord(J) ==
    /\ J \in JournalType
    /\ \A p \in J.pending : J.pending = {p} /\ J.committed[p.key] = << >>

\* The helper replays a key exactly when it has a record.
LEMMA RecordedRec ==
    ASSUME NEW J, OneRecord(J), NEW k \in Keys
    PROVE  Chain(J, k) # << >> <=> Rec(J, k)
<1>1. J.committed[k] \in Seq(Edge) /\ J.pending \subseteq Intent
  BY DEF OneRecord, JournalType
<1>2. CASE PendingOf(J, k) = {}
  <2>1. PendingEdges(J, k) = << >>
    BY <1>2, PendingNone
  <2>2. Chain(J, k) = J.committed[k]
    BY <1>1, <2>1 DEF Chain
  <2> QED  BY <1>2, <2>2 DEF Rec, PendingOf
<1>3. CASE PendingOf(J, k) # {}
  <2>1. PICK p \in J.pending : p.key = k /\ PendingOf(J, k) = {p}
    BY <1>3 DEF PendingOf, OneRecord
  <2>2. p.id \in Nat /\ J.committed[k] = << >>
    BY <1>1, <2>1, IdsAssumption DEF Intent, OneRecord
  <2>3. PendingEdges(J, k) = <<p.edge>>
    BY <2>1, <2>2, PendingOne
  <2>4. Chain(J, k) = << >> \o <<p.edge>>
    BY <2>2, <2>3 DEF Chain
  <2> QED  BY <2>1, <2>4 DEF Rec
<1> QED  BY <1>2, <1>3

LEMMA OneBegin ==
    ASSUME NEW J, OneRecord(J), J.pending = {}, NEW id \in Ids, NEW k \in Keys,
           NEW e \in Edge, J.committed[k] = << >>
    PROVE  LET K == ApplyBegin(J, id, k, e)
           IN  /\ OneRecord(K) /\ K.committed = J.committed
               /\ K.pending = {[id |-> id, key |-> k, edge |-> e]}
<1> DEFINE i == [id |-> id, key |-> k, edge |-> e]
           K == ApplyBegin(J, id, k, e)
<1>1. i \in Intent /\ i.key = k
  BY DEF Intent
<1>2. J.committed \in [Keys -> Seq(Edge)] /\ J = [committed |-> J.committed, pending |-> {}]
  BY DEF OneRecord, JournalType
<1>3. K = [J EXCEPT !.pending = J.pending \cup {i}]
  BY DEF ApplyBegin
<1> HIDE DEF i, K
<1>4. K.committed = J.committed /\ K.pending = {i} /\ K \in JournalType
  BY <1>1, <1>2, <1>3 DEF JournalType
<1>5. OneRecord(K)
  BY <1>1, <1>4 DEF OneRecord
<1> QED  BY <1>4, <1>5 DEF i, K

LEMMA OneCommit ==
    ASSUME NEW J, OneRecord(J), NEW id \in Ids, NEW k \in Keys, NEW e \in Edge,
           J.pending = {[id |-> id, key |-> k, edge |-> e]}
    PROVE  LET K == ApplyCommit(J, id)
           IN  /\ OneRecord(K) /\ K.pending = {}
               /\ K.committed[k] = <<e>>
               /\ \A j \in Keys \ {k} : K.committed[j] = J.committed[j]
<1> DEFINE i == [id |-> id, key |-> k, edge |-> e]
           K == ApplyCommit(J, id)
<1>1. i.id = id /\ i.key = k /\ i.edge = e /\ J.pending = {i}
  OBVIOUS
<1>2. J.committed \in [Keys -> Seq(Edge)] /\ J.committed[k] = << >>
  BY <1>1 DEF OneRecord, JournalType
<1> HIDE DEF i
<1>3. Without(J, id) = {} /\ (CHOOSE p \in J.pending : p.id = id) = i
  BY <1>1 DEF Without
<1>4. CompactOrPush(<< >>, e) = <<e>>
  BY DEF CompactOrPush
<1>5. \A j \in Keys : (\E p \in J.pending : p.id = id /\ p.key = j) <=> j = k
  BY <1>1
<1>6. /\ K.pending = {}
      /\ K.committed = [j \in Keys |-> IF j = k THEN <<e>> ELSE J.committed[j]]
      /\ K = [committed |-> K.committed, pending |-> K.pending]
  BY <1>1, <1>2, <1>3, <1>4, <1>5 DEF ApplyCommit
<1>7. <<e>> \in Seq(Edge)
  OBVIOUS
<1> HIDE DEF K
<1>8. K.committed \in [Keys -> Seq(Edge)]
  BY <1>2, <1>6, <1>7
<1>9. OneRecord(K)
  BY <1>6, <1>8 DEF OneRecord, JournalType
<1> QED  BY <1>6, <1>9 DEF K

LEMMA OneCancel ==
    ASSUME NEW J, OneRecord(J), NEW id \in Ids, NEW k \in Keys, NEW e \in Edge,
           J.pending = {[id |-> id, key |-> k, edge |-> e]}
    PROVE  LET K == ApplyCancel(J, id)
           IN  OneRecord(K) /\ K.pending = {} /\ K.committed = J.committed
<1> DEFINE K == ApplyCancel(J, id)
<1>1. J.committed \in [Keys -> Seq(Edge)] /\ J = [committed |-> J.committed, pending |-> J.pending]
  BY DEF OneRecord, JournalType
<1>2. Without(J, id) = {}
  BY DEF Without
<1>3. K = [J EXCEPT !.pending = {}]
  BY <1>2 DEF ApplyCancel
<1> HIDE DEF K
<1>4. K.pending = {} /\ K.committed = J.committed /\ K \in JournalType
  BY <1>1, <1>3 DEF JournalType
<1> QED  BY <1>4 DEF OneRecord, K

LEMMA OneForget ==
    ASSUME NEW J, OneRecord(J), NEW k \in Keys, J.pending = {}
    PROVE  LET K == ApplyForget(J, k)
           IN  /\ OneRecord(K) /\ K.pending = {} /\ K.committed[k] = << >>
               /\ \A j \in Keys \ {k} : K.committed[j] = J.committed[j]
<1> DEFINE K == ApplyForget(J, k)
<1>1. J.committed \in [Keys -> Seq(Edge)] /\ << >> \in Seq(Edge)
  BY DEF OneRecord, JournalType
<1>2. K = [committed |-> [J.committed EXCEPT ![k] = << >>], pending |-> {}]
  BY DEF ApplyForget
<1>3. K.committed = [J.committed EXCEPT ![k] = << >>] /\ K.pending = {} /\ K \in JournalType
  BY <1>1, <1>2 DEF JournalType
<1> HIDE DEF K
<1> QED  BY <1>1, <1>3 DEF OneRecord, K

LEMMA Applies ==
    ASSUME NEW J
    PROVE  /\ \A id, k, e : Apply(J, Begin(id, k, e)) = ApplyBegin(J, id, k, e)
           /\ \A id : Apply(J, Commit(id)) = ApplyCommit(J, id)
           /\ \A id : Apply(J, Cancel(id)) = ApplyCancel(J, id)
           /\ \A k : Apply(J, Forget(k)) = ApplyForget(J, k)
BY DEF Apply, Begin, Commit, Cancel, Forget

\* A command sent, and one that has reached the helper, have a caller that waits.
LEMMA SubmitCall ==
    ASSUME NEW c \in Commands, Submit(c)
    PROVE  /\ call = NoCall /\ ~latched /\ call' # NoCall /\ call'.command = c /\ call'.phase = "sent"
           /\ UNCHANGED <<journal, latched, limbo>>
BY CallAssumption DEF Submit, Phases

LEMMA LandCall ==
    ASSUME ServiceTypeOK, Land
    PROVE  /\ call # NoCall /\ call.phase = "sent" /\ call.command \in Commands
           /\ call' # NoCall /\ call'.command = call.command /\ call'.phase = "landed"
           /\ journal' = Apply(journal, call.command) /\ UNCHANGED <<latched, limbo>>
<1>1. call # NoCall /\ call \in [command : Commands, phase : Phases] /\ call.phase = "sent"
  BY DEF Land, Called, ServiceTypeOK
<1>2. /\ call' \in [command : Commands, phase : Phases] /\ call'.command = call.command
      /\ call'.phase = "landed"
  BY <1>1 DEF Land, Phases
<1> QED  BY <1>1, <1>2, CallAssumption DEF Land

================================================================================
