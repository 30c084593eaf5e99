---------------------------- MODULE OrdersProofs ----------------------------
(***************************************************************************)
(* Lemmas about the operators of Orders that the theorems about the order  *)
(* state, the robot and the fleet rest on, and what ValidateOrder accepts. *)
(***************************************************************************)
EXTENDS OrderRules, SequenceTheorems, FiniteSetTheorems, WellFoundedInduction,
        TLAPS

\* Induction: if something fails for a number, it fails for a least one.
LEMMA LeastNat ==
    ASSUME NEW T \in SUBSET Nat, T # {}
    PROVE  \E m \in T : \A n \in T : m <= n
  <1> DEFINE Below == OpToRel(<, Nat)
  <1>1. ASSUME NEW m \in Nat, NEW n \in Nat
        PROVE  <<n, m>> \in Below <=> n < m
    BY DEF OpToRel
  <1> HIDE DEF Below
  <1>2. PICK m \in T : \A n \in T : ~(<<n, m>> \in Below)
    BY WFMin, NatLessThanWellFounded, Zenon DEF Below
  <1>3. ASSUME NEW n \in T PROVE m <= n
    <2>1. m \in Nat /\ n \in Nat
      OBVIOUS
    <2>2. ~(n < m)
      BY <1>1, <1>2, <2>1
    <2> QED
      BY <2>1, <2>2
  <1> QED
    BY <1>3

LEMMA Induction ==
    ASSUME NEW N \in Nat, NEW G, 0 \in G,
           \A n \in 1..N : n - 1 \in G => n \in G
    PROVE  0..N \subseteq G
  <1> DEFINE Bad == (0..N) \ G
  <1> SUFFICES ASSUME Bad # {} PROVE FALSE
    OBVIOUS
  <1>1. PICK n \in Bad : \A m \in Bad : n <= m
    <2> Bad \in SUBSET Nat
      OBVIOUS
    <2> HIDE DEF Bad
    <2> QED
      BY LeastNat
  <1>2. n \in 1..N
    OBVIOUS
  <1>3. n - 1 \notin Bad /\ n - 1 \in 0..N
    BY <1>1, <1>2
  <1> QED
    BY <1>2, <1>3

\* The recurrence of Filter: what is kept of the first i elements.
Kept(s, T, kept, i) ==
    IF i = 0 THEN <<>>
    ELSE IF s[i] \in T THEN Append(kept[i-1], s[i]) ELSE kept[i-1]

Keeps(s, T, n, kept) == kept = [i \in 0..n |-> Kept(s, T, kept, i)]

LEMMA FilterExists ==
    ASSUME NEW S, NEW s \in Seq(S), NEW T
    PROVE  \E kept : Keeps(s, T, Len(s), kept) /\ Filter(s, T) = kept[Len(s)]
  <1>0. Len(s) \in Nat
    OBVIOUS
  <1> DEFINE Good == {n \in 0..Len(s) : \E kept : Keeps(s, T, n, kept)}
  <1>1. 0..Len(s) \subseteq Good
    <2>1. 0 \in Good
      <3>1. Keeps(s, T, 0, [i \in 0..0 |-> <<>>])
        BY DEF Keeps, Kept
      <3> QED
        BY <3>1
    <2>2. ASSUME NEW n \in 1..Len(s), n - 1 \in Good PROVE n \in Good
      <3>1. PICK kept : Keeps(s, T, n - 1, kept)
        BY <2>2
      <3> DEFINE next == [i \in 0..n |->
                             IF i < n THEN kept[i] ELSE Kept(s, T, kept, n)]
      <3>2. ASSUME NEW i \in 0..n PROVE next[i] = Kept(s, T, next, i)
        <4>1. i # 0 => next[i-1] = kept[i-1]
          OBVIOUS
        <4>2. Kept(s, T, next, i) = Kept(s, T, kept, i)
          BY <4>1 DEF Kept
        <4>3. i < n => kept[i] = Kept(s, T, kept, i)
          <5>1. i < n => i \in 0..n - 1
            OBVIOUS
          <5> HIDE DEF next
          <5> QED
            BY <3>1, <5>1 DEF Keeps
        <4> QED
          BY <4>2, <4>3
      <3>3. next = [i \in 0..n |-> Kept(s, T, next, i)]
        <4>1. DOMAIN next = 0..n /\ next = [i \in DOMAIN next |-> next[i]]
          OBVIOUS
        <4> HIDE DEF next
        <4> QED
          BY <3>2, <4>1
      <3>4. Keeps(s, T, n, next)
        BY <3>3 DEF Keeps
      <3> QED
        BY <3>4
    <2> HIDE DEF Good
    <2> QED
      BY <1>0, <2>1, <2>2, Induction
  <1>2. \E kept : Keeps(s, T, Len(s), kept)
    <2>1. Len(s) \in 0..Len(s)
      OBVIOUS
    <2> QED
      BY <1>1, <2>1
  <1> QED
    BY <1>2, Zenon DEF Keeps, Kept, Filter

\* The same, one step at a time.
LEMMA FilterSteps ==
    ASSUME NEW S, NEW s \in Seq(S), NEW T
    PROVE  \E kept :
              /\ kept[0] = <<>>
              /\ \A n \in 1..Len(s) :
                    /\ s[n] \in T => kept[n] = Append(kept[n-1], s[n])
                    /\ s[n] \notin T => kept[n] = kept[n-1]
              /\ Filter(s, T) = kept[Len(s)]
  <1>1. PICK kept : Keeps(s, T, Len(s), kept) /\ Filter(s, T) = kept[Len(s)]
    BY FilterExists
  <1>2. ASSUME NEW n \in 0..Len(s) PROVE kept[n] = Kept(s, T, kept, n)
    BY <1>1 DEF Keeps
  <1>3. ASSUME NEW n \in 1..Len(s)
        PROVE  /\ s[n] \in T => kept[n] = Append(kept[n-1], s[n])
               /\ s[n] \notin T => kept[n] = kept[n-1]
    <2>1. kept[n] = Kept(s, T, kept, n) /\ n # 0
      BY <1>2
    <2> QED
      BY <2>1 DEF Kept
  <1>4. kept[0] = <<>>
    BY <1>2 DEF Kept
  <1> QED
    BY <1>1, <1>3, <1>4

LEMMA ElementsAppend ==
    ASSUME NEW S, NEW s \in Seq(S), NEW x \in S
    PROVE  Elements(Append(s, x)) = Elements(s) \union {x}
  <1>1. /\ DOMAIN Append(s, x) = 1..Len(s) + 1
        /\ \A i \in 1..Len(s) : Append(s, x)[i] = s[i]
        /\ Append(s, x)[Len(s) + 1] = x
        /\ DOMAIN s = 1..Len(s) /\ Len(s) \in Nat
    OBVIOUS
  <1>2. ASSUME NEW y \in Elements(s) PROVE y \in Elements(Append(s, x))
    BY <1>1 DEF Elements
  <1>3. x \in Elements(Append(s, x))
    BY <1>1 DEF Elements
  <1>4. ASSUME NEW y \in Elements(Append(s, x)), y # x PROVE y \in Elements(s)
    BY <1>1, <1>4 DEF Elements
  <1> QED
    BY <1>2, <1>3, <1>4

\* A filtered sequence has the elements it is filtered by, and no others.
LEMMA FilterElements ==
    ASSUME NEW S, NEW s \in Seq(S), NEW T
    PROVE  /\ Filter(s, T) \in Seq(S)
           /\ Elements(Filter(s, T)) = Elements(s) \cap T
  <1>1. PICK kept :
              /\ kept[0] = <<>>
              /\ \A n \in 1..Len(s) :
                    /\ s[n] \in T => kept[n] = Append(kept[n-1], s[n])
                    /\ s[n] \notin T => kept[n] = kept[n-1]
              /\ Filter(s, T) = kept[Len(s)]
    BY FilterSteps
  <1> DEFINE First(n) == {s[i] : i \in 1..n}
             Good == {n \in 0..Len(s) : /\ kept[n] \in Seq(S)
                                        /\ Elements(kept[n]) = First(n) \cap T}
  <1>2. 0 \in Good
    <2>1. /\ Elements(<<>>) = {} /\ First(0) = {}
          /\ 0 \in 0..Len(s) /\ <<>> \in Seq(S)
      BY DEF Elements
    <2> HIDE DEF First
    <2> QED
      BY <1>1, <2>1
  <1>3. ASSUME NEW n \in 1..Len(s), n - 1 \in Good PROVE n \in Good
    <2>1. s[n] \in S
      OBVIOUS
    <2>2. First(n) = First(n-1) \union {s[n]}
      OBVIOUS
    <2> HIDE DEF First
    <2>3. CASE s[n] \in T
      <3>1. kept[n] = Append(kept[n-1], s[n])
        BY <1>1, <2>3
      <3>2. kept[n-1] \in Seq(S) /\ Elements(kept[n-1]) = First(n-1) \cap T
        BY <1>3
      <3>3. kept[n] \in Seq(S)
        BY <2>1, <3>1, <3>2
      <3>4. Elements(kept[n]) = Elements(kept[n-1]) \union {s[n]}
        BY <2>1, <3>1, <3>2, ElementsAppend
      <3>5. Elements(kept[n]) = First(n) \cap T
        BY <2>2, <2>3, <3>2, <3>4
      <3> QED
        BY <3>3, <3>5
    <2>4. CASE s[n] \notin T
      BY <1>1, <1>3, <2>2, <2>4
    <2> QED
      BY <2>3, <2>4
  <1>4. Len(s) \in Good
    <2>1. Len(s) \in Nat /\ Len(s) \in 0..Len(s)
      OBVIOUS
    <2> HIDE DEF Good
    <2> QED
      BY <1>2, <1>3, <2>1, Induction
  <1>5. First(Len(s)) = Elements(s)
    BY DEF Elements
  <1> QED
    BY <1>1, <1>4, <1>5

LEMMA FilterEmpty == ASSUME NEW T PROVE Filter(<<>>, T) = <<>>
  <1>1. <<>> \in Seq({}) /\ Len(<<>>) = 0
    OBVIOUS
  <1>2. \E kept : kept[0] = <<>> /\ Filter(<<>>, T) = kept[Len(<<>>)]
    BY <1>1, FilterSteps, Zenon
  <1> QED
    BY <1>1, <1>2

\* Keeping the elements at the positions from+1 .. to is cutting a piece out.
Picks(T, s, from, to) == \A i \in DOMAIN s : s[i] \in T <=> from < i /\ i <= to

IsPiece(piece, s, from, to) ==
    /\ Len(piece) = to - from
    /\ \A i \in 1..to - from : piece[i] = s[from + i]

LEMMA FilterInterval ==
    ASSUME NEW S, NEW s \in Seq(S), NEW T,
           NEW from \in 0..Len(s), NEW to \in from..Len(s), Picks(T, s, from, to)
    PROVE  IsPiece(Filter(s, T), s, from, to)
  <1>0. \A i \in 1..Len(s) : s[i] \in T <=> from < i /\ i <= to
    BY DEF Picks
  <1>1. PICK kept :
              /\ kept[0] = <<>>
              /\ \A n \in 1..Len(s) :
                    /\ s[n] \in T => kept[n] = Append(kept[n-1], s[n])
                    /\ s[n] \notin T => kept[n] = kept[n-1]
              /\ Filter(s, T) = kept[Len(s)]
    BY FilterSteps
  <1> DEFINE Length(n) == IF n <= from THEN 0 ELSE IF n <= to THEN n - from
                          ELSE to - from
             Good == {n \in 0..Len(s) :
                         /\ kept[n] \in Seq(S) /\ Len(kept[n]) = Length(n)
                         /\ \A i \in 1..Length(n) : kept[n][i] = s[from + i]}
  <1>2. 0 \in Good
    <2>1. 0 \in 0..Len(s) /\ Length(0) = 0 /\ 1..Length(0) = {}
      OBVIOUS
    <2> HIDE DEF Length
    <2>2. kept[0] \in Seq(S) /\ Len(kept[0]) = 0
      BY <1>1
    <2>3. \A i \in 1..Length(0) : kept[0][i] = s[from + i]
      BY <2>1
    <2> QED
      BY <2>1, <2>2, <2>3
  <1>3. ASSUME NEW n \in 1..Len(s), n - 1 \in Good PROVE n \in Good
    <2>1. s[n] \in S /\ Length(n) \in Nat
      OBVIOUS
    <2>2. CASE from < n /\ n <= to
      <3>1. s[n] \in T
        BY <1>0, <2>2
      <3>2. kept[n] = Append(kept[n-1], s[n])
        BY <1>1, <3>1
      <3>3. Length(n) = n - from /\ Length(n-1) = n - 1 - from
        BY <2>2
      <3> HIDE DEF Length
      <3>4. kept[n-1] \in Seq(S) /\ Len(kept[n-1]) = n - 1 - from
        BY <1>3, <3>3
      <3>5. kept[n] \in Seq(S) /\ Len(kept[n]) = n - from
        BY <2>1, <3>2, <3>4
      <3>6. ASSUME NEW i \in 1..n - from PROVE kept[n][i] = s[from + i]
        <4>1. CASE i = n - from
          BY <2>1, <3>2, <3>4, <4>1
        <4>2. CASE i # n - from
          <5>1. i \in 1..n - 1 - from
            BY <4>2
          <5>2. kept[n-1][i] = s[from + i]
            BY <1>3, <3>3, <5>1
          <5> QED
            BY <2>1, <3>2, <3>4, <5>1, <5>2
        <4> QED
          BY <4>1, <4>2
      <3> QED
        BY <3>3, <3>5, <3>6
    <2>3. CASE ~(from < n /\ n <= to)
      <3>1. kept[n] = kept[n-1]
        BY <1>0, <1>1, <2>3
      <3>2. Length(n) = Length(n-1)
        BY <2>3
      <3> QED
        BY <1>3, <3>1, <3>2
    <2> QED
      BY <2>2, <2>3
  <1>4. Len(s) \in Good
    <2>1. Len(s) \in Nat /\ Len(s) \in 0..Len(s)
      OBVIOUS
    <2> HIDE DEF Good
    <2> QED
      BY <1>2, <1>3, <2>1, Induction
  <1>5. Length(Len(s)) = to - from
    OBVIOUS
  <1> QED
    BY <1>1, <1>4, <1>5 DEF IsPiece

-----------------------------------------------------------------------------
(* Chains.                                                                 *)

Chain(N, E, nodes, edges) ==
    /\ nodes \in Seq(N) /\ edges \in Seq(E)
    /\ \A n \in N : n.sequenceId \in Int
    /\ Paired(nodes, edges)

Counts(nodes, edges) ==
    /\ DOMAIN nodes = 1..Len(nodes) /\ DOMAIN edges = 1..Len(edges)
    /\ Len(edges) \in Nat /\ Len(nodes) = Len(edges) + 1
    /\ nodes[1].sequenceId \in Int
    /\ \A i \in 1..Len(nodes) :
          nodes[i].sequenceId = nodes[1].sequenceId + 2 * (i - 1)
    /\ \A i \in 1..Len(edges) :
          edges[i].sequenceId = nodes[1].sequenceId + 2 * i - 1

\* A chain counts its sequenceIds up from the first one.
LEMMA ChainCounts ==
    ASSUME NEW N, NEW E, NEW nodes, NEW edges, Chain(N, E, nodes, edges)
    PROVE  Counts(nodes, edges)
  <1> DEFINE first == nodes[1].sequenceId
             Good == {n \in 0..Len(edges) :
                         nodes[n+1].sequenceId = first + 2 * n}
  <1>1. /\ Len(edges) \in Nat /\ Len(nodes) = Len(edges) + 1
        /\ DOMAIN nodes = 1..Len(nodes) /\ DOMAIN edges = 1..Len(edges)
        /\ \A i \in DOMAIN nodes : nodes[i].sequenceId \in Int
        /\ first \in Int
    BY DEF Chain, Paired
  <1>2. 0 \in Good
    BY <1>1
  <1>3. ASSUME NEW n \in 1..Len(edges), n - 1 \in Good PROVE n \in Good
    <2>1. edges[n].sequenceId = nodes[n].sequenceId + 1
      BY <1>1 DEF Chain, Paired
    <2>2. nodes[n+1].sequenceId = edges[n].sequenceId + 1
      BY <1>1 DEF Chain, Paired
    <2>3. nodes[n].sequenceId = first + 2 * (n - 1)
      BY <1>3
    <2> QED
      BY <1>1, <2>1, <2>2, <2>3
  <1>4. 0..Len(edges) \subseteq Good
    <2> HIDE DEF Good
    <2> QED
      BY <1>1, <1>2, <1>3, Induction
  <1>5. ASSUME NEW i \in 1..Len(nodes)
        PROVE  nodes[i].sequenceId = first + 2 * (i - 1)
    <2>1. i - 1 \in 0..Len(edges)
      BY <1>1
    <2>2. i - 1 \in Good
      BY <1>4, <2>1
    <2> QED
      BY <1>1, <2>2
  <1>6. ASSUME NEW i \in 1..Len(edges)
        PROVE  edges[i].sequenceId = first + 2 * i - 1
    <2>1. edges[i].sequenceId = nodes[i].sequenceId + 1 /\ i \in 1..Len(nodes)
      BY <1>1 DEF Chain, Paired
    <2>2. nodes[i].sequenceId = first + 2 * (i - 1)
      BY <1>5, <2>1
    <2> HIDE DEF first
    <2> QED
      BY <1>1, <2>1, <2>2
  <1> QED
    BY <1>1, <1>5, <1>6 DEF Counts

\* decisionPoint finds where the base of a chain ends.
LEMMA DecisionOfBase ==
    ASSUME NEW N, NEW E, NEW nodes, NEW edges, Chain(N, E, nodes, edges),
           NEW r \in DOMAIN nodes, ReleasedUpTo(nodes, edges, r),
           NEW o, o.nodes = nodes, o.edges = edges
    PROVE  DecisionPoint(o) = [nodeId |-> nodes[r].nodeId,
                               sequenceId |-> nodes[r].sequenceId]
  <1> DEFINE passed == ReleasedPrefix(nodes, edges)
  <1>1. Counts(nodes, edges)
    BY ChainCounts
  <1>2. r \in Nat
    BY <1>1 DEF Counts
  <1>3. nodes[r] \in passed
    <2>1. nodes[r].released /\ nodes[r] \in Elements(nodes)
      BY <1>2 DEF Elements, ReleasedUpTo
    <2>2. ASSUME NEW x \in Elements(nodes),
                 x.sequenceId < nodes[r].sequenceId
          PROVE  x.released
      <3>1. PICK i \in DOMAIN nodes : x = nodes[i]
        BY DEF Elements
      <3>2. i < r
        BY <1>1, <1>2, <2>2, <3>1 DEF Counts
      <3> QED
        BY <1>1, <1>2, <3>1, <3>2 DEF ReleasedUpTo, Counts
    <2>3. ASSUME NEW e \in Elements(edges),
                 e.sequenceId < nodes[r].sequenceId
          PROVE  e.released
      <3>1. PICK i \in DOMAIN edges : e = edges[i]
        BY DEF Elements
      <3>2. i < r
        BY <1>1, <1>2, <2>3, <3>1 DEF Counts
      <3> QED
        BY <3>1, <3>2 DEF ReleasedUpTo
    <2> QED
      BY <2>1, <2>2, <2>3 DEF ReleasedPrefix
  <1>4. ASSUME NEW n \in passed
        PROVE  \E i \in DOMAIN nodes : i <= r /\ n = nodes[i]
    BY DEF ReleasedPrefix, Elements, ReleasedUpTo
  <1>5. ASSUME NEW n \in passed, \A m \in passed : m.sequenceId <= n.sequenceId
        PROVE  n = nodes[r]
    <2>1. PICK i \in DOMAIN nodes : i <= r /\ n = nodes[i]
      BY <1>4
    <2>2. nodes[r].sequenceId <= nodes[i].sequenceId
      BY <1>3, <1>5, <2>1
    <2>3. i = r
      BY <1>1, <1>2, <2>1, <2>2 DEF Counts
    <2> QED
      BY <2>1, <2>3
  <1>6. ASSUME NEW m \in passed PROVE m.sequenceId <= nodes[r].sequenceId
    <2>1. PICK i \in DOMAIN nodes : i <= r /\ m = nodes[i]
      BY <1>4
    <2> QED
      BY <1>1, <1>2, <2>1 DEF Counts
  <1> DEFINE last == CHOOSE n \in passed :
                        \A m \in passed : m.sequenceId <= n.sequenceId
  <1>7. last = nodes[r]
    <2> HIDE DEF passed
    <2> QED
      BY <1>3, <1>5, <1>6
  <1>8. passed # {}
    BY <1>3
  <1> QED
    BY <1>7, <1>8 DEF DecisionPoint

\* What stitch keeps is the base from the last node, nodes[k], to the decision
\* point, nodes[r], the latter without its node.
LEMMA KeptOfBase ==
    ASSUME NEW N, NEW E, NEW nodes, NEW edges, Chain(N, E, nodes, edges),
           NEW r \in DOMAIN nodes, NEW k \in 1..r, ReleasedUpTo(nodes, edges, r),
           NEW s, s.nodes = nodes, s.edges = edges,
           s.lastNodeSequenceId = nodes[k].sequenceId,
           s.decisionSequenceId = nodes[r].sequenceId
    PROVE  /\ KeptNodes(s) \in Seq(N) /\ KeptEdges(s) \in Seq(E)
           /\ IsPiece(KeptNodes(s), nodes, k - 1, r - 1)
           /\ IsPiece(KeptEdges(s), edges, k - 1, r - 1)
  <1> DEFINE keepNodes == {n \in Elements(nodes) :
                              /\ n.released
                              /\ n.sequenceId >= s.lastNodeSequenceId
                              /\ n.sequenceId # s.decisionSequenceId}
             keepEdges == {e \in Elements(edges) :
                              /\ e.released
                              /\ e.sequenceId >= s.lastNodeSequenceId}
  <1>1. Counts(nodes, edges) /\ nodes \in Seq(N) /\ edges \in Seq(E)
    BY ChainCounts DEF Chain
  <1>2. /\ r \in 1..Len(nodes) /\ k \in Nat
        /\ nodes[k].sequenceId = nodes[1].sequenceId + 2 * (k - 1)
        /\ nodes[r].sequenceId = nodes[1].sequenceId + 2 * (r - 1)
    BY <1>1 DEF Counts
  <1>3. Picks(keepNodes, nodes, k - 1, r - 1)
    <2> SUFFICES ASSUME NEW i \in DOMAIN nodes
                 PROVE  nodes[i] \in keepNodes <=> k - 1 < i /\ i <= r - 1
      BY DEF Picks
    <2>1. /\ i \in Nat /\ nodes[i] \in Elements(nodes)
          /\ nodes[i].released <=> i <= r
          /\ nodes[i].sequenceId = nodes[1].sequenceId + 2 * (i - 1)
      BY <1>1 DEF Counts, Elements, ReleasedUpTo
    <2> QED
      BY <1>1, <1>2, <2>1 DEF Counts
  <1>4. Picks(keepEdges, edges, k - 1, r - 1)
    <2> SUFFICES ASSUME NEW i \in DOMAIN edges
                 PROVE  edges[i] \in keepEdges <=> k - 1 < i /\ i <= r - 1
      BY DEF Picks
    <2>1. /\ i \in Nat /\ edges[i] \in Elements(edges)
          /\ edges[i].released <=> i < r
          /\ edges[i].sequenceId = nodes[1].sequenceId + 2 * i - 1
      BY <1>1 DEF Counts, Elements, ReleasedUpTo
    <2> QED
      BY <1>1, <1>2, <2>1 DEF Counts
  <1>5. /\ KeptNodes(s) = Filter(nodes, keepNodes)
        /\ KeptEdges(s) = Filter(edges, keepEdges)
    BY DEF KeptNodes, KeptEdges
  <1>6. /\ k - 1 \in 0..Len(nodes) /\ r - 1 \in k-1..Len(nodes)
        /\ k - 1 \in 0..Len(edges) /\ r - 1 \in k-1..Len(edges)
    BY <1>1, <1>2 DEF Counts
  <1> HIDE DEF keepNodes, keepEdges
  <1>7. /\ IsPiece(Filter(nodes, keepNodes), nodes, k - 1, r - 1)
        /\ Filter(nodes, keepNodes) \in Seq(N)
    BY <1>1, <1>3, <1>6, FilterInterval, FilterElements
  <1>8. /\ IsPiece(Filter(edges, keepEdges), edges, k - 1, r - 1)
        /\ Filter(edges, keepEdges) \in Seq(E)
    BY <1>1, <1>4, <1>6, FilterInterval, FilterElements
  <1> QED
    BY <1>5, <1>7, <1>8

\* What cancelOrder leaves of a chain is the piece behind the robot.
LEMMA TraversedOfChain ==
    ASSUME NEW N, NEW E, NEW nodes, NEW edges, Chain(N, E, nodes, edges),
           NEW k \in DOMAIN nodes, NEW last, last = nodes[k].sequenceId,
           NEW keptNodes, keptNodes = Filter(nodes, {x \in Elements(nodes) :
                                                       x.sequenceId <= last}),
           NEW keptEdges, keptEdges = Filter(edges, {x \in Elements(edges) :
                                                       x.sequenceId <= last})
    PROVE  /\ keptNodes \in Seq(N) /\ keptEdges \in Seq(E)
           /\ IsPiece(keptNodes, nodes, 0, k) /\ IsPiece(keptEdges, edges, 0, k - 1)
  <1> DEFINE keepNodes == {x \in Elements(nodes) : x.sequenceId <= last}
             keepEdges == {x \in Elements(edges) : x.sequenceId <= last}
  <1>1. Counts(nodes, edges) /\ nodes \in Seq(N) /\ edges \in Seq(E)
    BY ChainCounts DEF Chain
  <1>2. /\ k \in 1..Len(nodes)
        /\ last = nodes[1].sequenceId + 2 * (k - 1)
    BY <1>1 DEF Counts
  <1>3. Picks(keepNodes, nodes, 0, k)
    <2> SUFFICES ASSUME NEW i \in DOMAIN nodes
                 PROVE  nodes[i] \in keepNodes <=> 0 < i /\ i <= k
      BY DEF Picks
    <2>1. /\ i \in Nat \ {0} /\ nodes[i] \in Elements(nodes)
          /\ nodes[i].sequenceId = nodes[1].sequenceId + 2 * (i - 1)
      BY <1>1 DEF Counts, Elements
    <2> QED
      BY <1>1, <1>2, <2>1 DEF Counts
  <1>4. Picks(keepEdges, edges, 0, k - 1)
    <2> SUFFICES ASSUME NEW i \in DOMAIN edges
                 PROVE  edges[i] \in keepEdges <=> 0 < i /\ i <= k - 1
      BY DEF Picks
    <2>1. /\ i \in Nat \ {0} /\ edges[i] \in Elements(edges)
          /\ edges[i].sequenceId = nodes[1].sequenceId + 2 * i - 1
      BY <1>1 DEF Counts, Elements
    <2> QED
      BY <1>1, <1>2, <2>1 DEF Counts
  <1>5. /\ 0 \in 0..Len(nodes) /\ k \in 0..Len(nodes)
        /\ 0 \in 0..Len(edges) /\ k - 1 \in 0..Len(edges)
    BY <1>1, <1>2 DEF Counts
  <1>6. keptNodes = Filter(nodes, keepNodes) /\ keptEdges = Filter(edges, keepEdges)
    OBVIOUS
  <1> HIDE DEF keepNodes, keepEdges
  <1>7. IsPiece(keptNodes, nodes, 0, k) /\ keptNodes \in Seq(N)
    BY <1>1, <1>3, <1>5, <1>6, FilterInterval, FilterElements
  <1>8. IsPiece(keptEdges, edges, 0, k - 1) /\ keptEdges \in Seq(E)
    BY <1>1, <1>4, <1>5, <1>6, FilterInterval, FilterElements
  <1> QED
    BY <1>7, <1>8

\* What stitch keeps of a chain whose base ends in old[r], when the robot is at
\* old[k].
KeepsOfBase(N, E, old, oldEdges, k, r, keptNodes, keptEdges) ==
    /\ Chain(N, E, old, oldEdges)
    /\ r \in DOMAIN old /\ k \in 1..r /\ ReleasedUpTo(old, oldEdges, r)
    /\ keptNodes \in Seq(N) /\ IsPiece(keptNodes, old, k - 1, r - 1)
    /\ keptEdges \in Seq(E) /\ IsPiece(keptEdges, oldEdges, k - 1, r - 1)

\* A chain that continues another one from old[r]; its own base ends in new[q].
Continues(N, E, old, r, new, newEdges, q) ==
    /\ Chain(N, E, new, newEdges)
    /\ q \in DOMAIN new /\ ReleasedUpTo(new, newEdges, q)
    /\ new[1].nodeId = old[r].nodeId
    /\ new[1].sequenceId = old[r].sequenceId

\* The chain of the two: old from old[k] to old[r-1], and behind it all of new.
Stitched(N, E, old, k, r, new, q, nodes, edges) ==
    /\ Chain(N, E, nodes, edges)
    /\ r - k + q \in DOMAIN nodes
    /\ ReleasedUpTo(nodes, edges, r - k + q)
    /\ \A i \in 1..r - k : nodes[i] = old[k + i - 1]
    /\ \A i \in DOMAIN new : nodes[r - k + i] = new[i]

\* An update that continues from the end of the base, joined to what is kept of
\* it, is one chain, whose base ends where that of the update does.
LEMMA StitchedChain ==
    ASSUME NEW N, NEW E, NEW old, NEW oldEdges, NEW k, NEW r,
           NEW keptNodes, NEW keptEdges,
           KeepsOfBase(N, E, old, oldEdges, k, r, keptNodes, keptEdges),
           NEW new, NEW newEdges, NEW q,
           Continues(N, E, old, r, new, newEdges, q),
           NEW nodes, nodes = keptNodes \o new,
           NEW edges, edges = keptEdges \o newEdges
    PROVE  Stitched(N, E, old, k, r, new, q, nodes, edges)
  <1> DEFINE m == r - k
             a == Len(new)
             b == Len(newEdges)
  <1>0. /\ Chain(N, E, old, oldEdges)
        /\ r \in DOMAIN old /\ k \in 1..r /\ ReleasedUpTo(old, oldEdges, r)
        /\ keptNodes \in Seq(N) /\ IsPiece(keptNodes, old, k - 1, r - 1)
        /\ keptEdges \in Seq(E) /\ IsPiece(keptEdges, oldEdges, k - 1, r - 1)
        /\ Chain(N, E, new, newEdges)
        /\ q \in DOMAIN new /\ ReleasedUpTo(new, newEdges, q)
        /\ new[1].nodeId = old[r].nodeId
        /\ new[1].sequenceId = old[r].sequenceId
    BY DEF KeepsOfBase, Continues
  <1> USE <1>0
  <1>1. /\ Counts(old, oldEdges) /\ Counts(new, newEdges)
        /\ old \in Seq(N) /\ oldEdges \in Seq(E)
        /\ new \in Seq(N) /\ newEdges \in Seq(E)
    BY ChainCounts DEF Chain
  <1>2. /\ r \in 1..Len(old) /\ r - 1 \in 0..Len(oldEdges)
        /\ k \in Nat /\ m \in Nat /\ q \in 1..a /\ k + m = r
        /\ Len(old) \in Nat /\ a \in Nat /\ b \in Nat /\ a = b + 1
        /\ DOMAIN new = 1..a /\ DOMAIN newEdges = 1..b
        /\ DOMAIN old = 1..Len(old) /\ DOMAIN oldEdges = 1..Len(oldEdges)
    <2>1. r \in 1..Len(old) /\ q \in 1..a
      BY <1>1 DEF Counts
    <2>2. Len(old) = Len(oldEdges) + 1 /\ Len(oldEdges) \in Nat /\ a = b + 1 /\ b \in Nat
      BY <1>1 DEF Counts
    <2>3. /\ DOMAIN new = 1..a /\ DOMAIN newEdges = 1..b
          /\ DOMAIN old = 1..Len(old) /\ DOMAIN oldEdges = 1..Len(oldEdges)
      BY <1>1 DEF Counts
    <2> HIDE DEF a, b
    <2> QED
      BY <2>1, <2>2, <2>3
  <1>3. /\ Len(keptNodes) = m /\ Len(keptEdges) = m
        /\ \A i \in 1..m : keptNodes[i] = old[k + i - 1]
        /\ \A i \in 1..m : keptEdges[i] = oldEdges[k + i - 1]
    <2>1. (r - 1) - (k - 1) = m /\ \A i \in 1..m : (k - 1) + i = k + i - 1
      BY <1>2
    <2> QED
      BY <2>1 DEF IsPiece
  <1> HIDE DEF m, a, b
  <1>4. /\ nodes \in Seq(N) /\ Len(nodes) = m + a
        /\ \A i \in 1..m + a :
              nodes[i] = IF i <= m THEN keptNodes[i] ELSE new[i - m]
    BY <1>1, <1>3, ConcatProperties DEF a, b
  <1>5. /\ edges \in Seq(E) /\ Len(edges) = m + b
        /\ \A i \in 1..m + b :
              edges[i] = IF i <= m THEN keptEdges[i] ELSE newEdges[i - m]
    BY <1>1, <1>3, ConcatProperties DEF a, b
  <1>6. DOMAIN nodes = 1..m + a /\ DOMAIN edges = 1..m + b
    <2>1. DOMAIN nodes = 1..Len(nodes) /\ DOMAIN edges = 1..Len(edges)
      BY <1>4, <1>5
    <2> QED
      BY <1>4, <1>5, <2>1
  <1>7. ASSUME NEW i \in 1..m
        PROVE  /\ nodes[i] = old[k + i - 1] /\ edges[i] = oldEdges[k + i - 1]
               /\ k + i - 1 \in 1..r - 1
    <2>1. i \in 1..m + a /\ i \in 1..m + b /\ i <= m
      BY <1>2
    <2>2. k + i - 1 \in 1..r - 1
      BY <1>2
    <2> QED
      BY <1>3, <1>4, <1>5, <2>1, <2>2
  <1>8. ASSUME NEW i \in 1..a
        PROVE  m + i \in DOMAIN nodes /\ nodes[m + i] = new[i]
    <2>1. m + i \in 1..m + a /\ ~(m + i <= m) /\ (m + i) - m = i
      BY <1>2
    <2> QED
      BY <1>4, <1>6, <2>1
  <1>9. ASSUME NEW i \in 1..b
        PROVE  m + i \in DOMAIN edges /\ edges[m + i] = newEdges[i]
    <2>1. m + i \in 1..m + b /\ ~(m + i <= m) /\ (m + i) - m = i
      BY <1>2
    <2> QED
      BY <1>5, <1>6, <2>1
  <1>10. ASSUME NEW i \in 1..m
         PROVE  /\ nodes[i+1].nodeId = old[k + i].nodeId
                /\ nodes[i+1].sequenceId = old[k + i].sequenceId
    <2>1. CASE i < m
      <3>1. i + 1 \in 1..m /\ k + (i + 1) - 1 = k + i
        BY <1>2, <2>1
      <3> QED
        BY <1>7, <3>1
    <2>2. CASE i = m
      <3>1. 1 \in 1..a /\ k + i = r
        BY <1>2, <2>2
      <3> QED
        BY <1>8, <2>2, <3>1
    <2>3. i < m \/ i = m
      BY <1>2
    <2> QED
      BY <2>1, <2>2, <2>3
  <1>11. ASSUME NEW i \in 1..m + b, i > m
         PROVE  /\ i - m \in 1..b /\ m + (i - m) = i
                /\ m + ((i - m) + 1) = i + 1
    BY <1>2, <1>11
  <1>12. Paired(nodes, edges)
    <2> SUFFICES ASSUME NEW i \in 1..m + b
                 PROVE  /\ edges[i].startNodeId = nodes[i].nodeId
                        /\ edges[i].endNodeId = nodes[i+1].nodeId
                        /\ edges[i].sequenceId = nodes[i].sequenceId + 1
                        /\ nodes[i+1].sequenceId = edges[i].sequenceId + 1
      <3>1. Len(nodes) = Len(edges) + 1
        BY <1>2, <1>4, <1>5
      <3> QED
        BY <1>6, <3>1 DEF Paired
    <2>1. CASE i <= m
      <3>1. i \in 1..m
        BY <1>2, <2>1
      <3> DEFINE j == k + i - 1
      <3>2. j \in DOMAIN oldEdges /\ j + 1 = k + i
        BY <1>2, <3>1
      <3>3. /\ oldEdges[j].startNodeId = old[j].nodeId
            /\ oldEdges[j].endNodeId = old[j+1].nodeId
            /\ oldEdges[j].sequenceId = old[j].sequenceId + 1
            /\ old[j+1].sequenceId = oldEdges[j].sequenceId + 1
        BY <3>2 DEF Chain, Paired
      <3> QED
        BY <1>7, <1>10, <3>1, <3>2, <3>3
    <2>2. CASE i > m
      <3> DEFINE j == i - m
      <3>1. j \in 1..b /\ m + j = i /\ m + (j + 1) = i + 1
        BY <1>11, <2>2
      <3>2. j \in 1..a /\ j + 1 \in 1..a
        BY <1>2, <3>1
      <3> HIDE DEF j
      <3>3. nodes[i] = new[j] /\ nodes[i+1] = new[j+1] /\ edges[i] = newEdges[j]
        BY <1>8, <1>9, <3>1, <3>2
      <3>4. /\ newEdges[j].startNodeId = new[j].nodeId
            /\ newEdges[j].endNodeId = new[j+1].nodeId
            /\ newEdges[j].sequenceId = new[j].sequenceId + 1
            /\ new[j+1].sequenceId = newEdges[j].sequenceId + 1
        BY <1>2, <3>1 DEF Chain, Paired
      <3> QED
        BY <3>3, <3>4
    <2>3. i <= m \/ i > m
      BY <1>2
    <2> QED
      BY <2>1, <2>2, <2>3
  <1>13. ReleasedUpTo(nodes, edges, m + q)
    <2>1. ASSUME NEW i \in 1..m + a PROVE nodes[i].released <=> i <= m + q
      <3>1. CASE i <= m
        <4>1. i \in 1..m /\ i <= m + q
          BY <1>2, <3>1
        <4>2. nodes[i] = old[k + i - 1] /\ k + i - 1 \in 1..r - 1
          BY <1>7, <4>1
        <4>3. PICK j \in 1..r - 1 : j = k + i - 1
          BY <4>2
        <4>4. /\ r \in 1..Len(old) /\ Len(old) \in Nat
              /\ DOMAIN old = 1..Len(old)
          BY <1>2
        <4>5. j \in DOMAIN old /\ j <= r
          BY <4>4
        <4> QED
          BY <4>1, <4>2, <4>3, <4>5 DEF ReleasedUpTo
      <3>2. CASE i > m
        <4>0. /\ a \in Nat /\ m \in Nat /\ q \in Nat /\ i \in Nat
              /\ i <= m + a /\ i > m
          BY <1>2, <3>2
        <4>1. i - m \in 1..a /\ m + (i - m) = i
              /\ (i - m <= q <=> i <= m + q)
          BY <4>0
        <4>2. nodes[i] = new[i - m]
          BY <1>8, <4>1
        <4> QED
          BY <1>2, <4>1, <4>2 DEF ReleasedUpTo
      <3>3. i <= m \/ i > m
        BY <1>2
      <3> QED
        BY <3>1, <3>2, <3>3
    <2>2. ASSUME NEW i \in 1..m + b
          PROVE  edges[i].released <=> i < m + q
      <3>1. CASE i <= m
        <4>1. i \in 1..m /\ i < m + q
          BY <1>2, <3>1
        <4>2. edges[i] = oldEdges[k + i - 1] /\ k + i - 1 \in 1..r - 1
          BY <1>7, <4>1
        <4>3. k + i - 1 \in DOMAIN oldEdges /\ k + i - 1 < r
          <5>1. \A j \in 1..r-1 : j \in 1..Len(oldEdges) /\ j < r
            BY <1>2
          <5> QED
            BY <1>2, <4>2, <5>1
        <4> QED
          BY <4>1, <4>2, <4>3 DEF ReleasedUpTo
      <3>2. CASE i > m
        <4>1. i - m \in 1..b /\ m + (i - m) = i
          BY <1>11, <3>2
        <4>2. i - m < q <=> i < m + q
          <5>1. i \in Int /\ m \in Int /\ q \in Int
            BY <1>2
          <5> QED
            BY <5>1
        <4>3. edges[i] = newEdges[i - m]
          BY <1>9, <4>1
        <4> QED
          BY <1>2, <4>1, <4>2, <4>3 DEF ReleasedUpTo
      <3>3. i <= m \/ i > m
        BY <1>2
      <3> QED
        BY <3>1, <3>2, <3>3
    <2> QED
      BY <1>6, <2>1, <2>2 DEF ReleasedUpTo
  <1>14. Chain(N, E, nodes, edges)
    BY <1>4, <1>5, <1>12 DEF Chain
  <1>15. DOMAIN new = 1..a /\ q \in 1..a
    BY <1>2
  <1> QED
    BY <1>7, <1>8, <1>13, <1>14, <1>15 DEF m, Stitched

\* A piece from the front of a chain is a chain.
LEMMA FrontOfChain ==
    ASSUME NEW N, NEW E, NEW nodes, NEW edges, Chain(N, E, nodes, edges),
           NEW k \in DOMAIN nodes,
           NEW front \in Seq(N), IsPiece(front, nodes, 0, k),
           NEW frontEdges \in Seq(E), IsPiece(frontEdges, edges, 0, k - 1)
    PROVE  /\ Chain(N, E, front, frontEdges) /\ Len(front) = k
           /\ \A i \in 1..k : front[i] = nodes[i]
           /\ \A i \in 1..k - 1 : frontEdges[i] = edges[i]
  <1>1. Counts(nodes, edges)
    BY ChainCounts
  <1>2. k \in 1..Len(nodes) /\ k - 0 = k /\ (k - 1) - 0 = k - 1 /\ k - 1 \in Nat
    BY <1>1 DEF Counts
  <1>3. Len(front) = k /\ \A i \in 1..k : front[i] = nodes[i]
    <2>1. \A i \in 1..k : 0 + i = i
      OBVIOUS
    <2> QED
      BY <1>2, <2>1 DEF IsPiece
  <1>4. Len(frontEdges) = k - 1 /\ \A i \in 1..k - 1 : frontEdges[i] = edges[i]
    <2>1. \A i \in 1..k - 1 : 0 + i = i
      OBVIOUS
    <2> QED
      BY <1>2, <2>1 DEF IsPiece
  <1>5. Paired(front, frontEdges)
    <2> SUFFICES ASSUME NEW i \in 1..k - 1
                 PROVE  /\ frontEdges[i].startNodeId = front[i].nodeId
                        /\ frontEdges[i].endNodeId = front[i+1].nodeId
                        /\ frontEdges[i].sequenceId = front[i].sequenceId + 1
                        /\ front[i+1].sequenceId = frontEdges[i].sequenceId + 1
      BY <1>2, <1>3, <1>4 DEF Paired
    <2>1. i \in 1..k /\ i + 1 \in 1..k /\ i \in DOMAIN edges
      BY <1>1, <1>2 DEF Counts
    <2> QED
      BY <1>3, <1>4, <2>1 DEF Chain, Paired
  <1> QED
    BY <1>3, <1>4, <1>5 DEF Chain

-----------------------------------------------------------------------------
(* The chain of an order state s, when the messages M are well-formed, and *)
(* of its successor t.                                                     *)

MessagesFit(M) == \A o \in M : WellFormed(o) /\ o.orderUpdateId \in Int

OrderShape(s) == DOMAIN s = Fields /\ s.orderUpdateId \in Int

NodesOf(M, id) ==
    UNION {Elements(o.nodes) : o \in {m \in M : m.orderId = id}}

EdgesOf(M, id) ==
    UNION {Elements(o.edges) : o \in {m \in M : m.orderId = id}}

StateTyped(M, s) ==
    /\ OrderShape(s)
    /\ s.cancelled \in BOOLEAN /\ s.paused \in BOOLEAN
    /\ s.orderId \in {NoOrder} \union {o.orderId : o \in M}
    /\ s.lastNodeSequenceId \in Int /\ s.decisionSequenceId \in Int
    /\ s.nodes \in Seq(NodesOf(M, s.orderId))
    /\ s.edges \in Seq(EdgesOf(M, s.orderId))

\* The robot was last at nodes[k]; the base ends in nodes[r], the decision
\* point, or where the robot is, after a cancelOrder.
AtBase(s, k, r) ==
    /\ r \in DOMAIN s.nodes /\ k \in 1..r
    /\ ReleasedUpTo(s.nodes, s.edges, r)
    /\ s.lastNodeSequenceId = s.nodes[k].sequenceId
    /\ s.cancelled => k = r /\ r = Len(s.nodes)
    /\ ~s.cancelled =>
          /\ s.decisionSequenceId = s.nodes[r].sequenceId
          /\ s.decisionNodeId = s.nodes[r].nodeId

\* The inductive invariant of an order state.  That its chain is paired is not
\* inductive alone: stitch cuts the chain at the last node and at the decision
\* point, which must be on it.
HoldsChain(M, s) ==
    /\ StateTyped(M, s)
    /\ s.orderId = NoOrder => s.nodes = <<>> /\ s.edges = <<>>
    /\ s.orderId # NoOrder =>
          /\ Paired(s.nodes, s.edges)
          /\ \E r \in DOMAIN s.nodes : \E k \in 1..r : AtBase(s, k, r)

\* The base of a chain ends at the decision point, and the robot is on it.
LEMMA EndOfBase ==
    ASSUME NEW s, ~s.cancelled, Counts(s.nodes, s.edges),
           NEW r, NEW k, AtBase(s, k, r)
    PROVE  /\ s.lastNodeSequenceId <= s.decisionSequenceId
           /\ \E n \in Elements(s.nodes) :
                 /\ n.nodeId = s.decisionNodeId
                 /\ n.sequenceId = s.decisionSequenceId
                 /\ \A m \in Elements(s.nodes) :
                       m.released <=> m.sequenceId <= n.sequenceId
  <1>1. PICK nodes, edges : nodes = s.nodes /\ edges = s.edges
    OBVIOUS
  <1>2. /\ ReleasedUpTo(nodes, edges, r) /\ r \in DOMAIN nodes /\ k \in 1..r
        /\ s.lastNodeSequenceId = nodes[k].sequenceId
        /\ s.decisionSequenceId = nodes[r].sequenceId
        /\ s.decisionNodeId = nodes[r].nodeId
    BY <1>1 DEF AtBase
  <1>3. Counts(nodes, edges)
    BY <1>1
  <1>4. k <= r /\ r \in 1..Len(nodes) /\ k \in 1..Len(nodes) /\ Len(nodes) \in Nat
    BY <1>2, <1>3 DEF Counts
  <1>5. ASSUME NEW i \in 1..Len(nodes), NEW j \in 1..Len(nodes)
        PROVE  i <= j <=> nodes[i].sequenceId <= nodes[j].sequenceId
    <2>1. PICK first \in Int :
             /\ nodes[i].sequenceId = first + 2 * (i - 1)
             /\ nodes[j].sequenceId = first + 2 * (j - 1)
      BY <1>3 DEF Counts
    <2>2. i \in Int /\ j \in Int
      BY <1>4
    <2> QED
      BY <2>1, <2>2
  <1>6. ASSUME NEW m \in Elements(nodes)
        PROVE  m.released <=> m.sequenceId <= nodes[r].sequenceId
    <2>1. PICK i \in DOMAIN nodes : m = nodes[i]
      BY DEF Elements
    <2>2. i \in 1..Len(nodes) /\ (m.released <=> i <= r)
      BY <1>2, <1>3, <2>1 DEF ReleasedUpTo, Counts
    <2> QED
      BY <1>4, <1>5, <2>1, <2>2
  <1>7. nodes[r] \in Elements(nodes)
    BY <1>2 DEF Elements
  <1>8. s.lastNodeSequenceId <= s.decisionSequenceId
    BY <1>2, <1>4, <1>5
  <1> QED
    BY <1>1, <1>2, <1>6, <1>7, <1>8

\* The chain that a message holds.
LEMMA MessageChain ==
    ASSUME NEW M, MessagesFit(M), NEW o \in M
    PROVE  /\ Chain(NodesOf(M, o.orderId), EdgesOf(M, o.orderId), o.nodes, o.edges)
           /\ o.orderId # NoOrder
           /\ \E q \in DOMAIN o.nodes : ReleasedUpTo(o.nodes, o.edges, q)
  <1> DEFINE N == NodesOf(M, o.orderId)
             E == EdgesOf(M, o.orderId)
  <1>1. WellFormed(o)
    BY DEF MessagesFit
  <1>2. Elements(o.nodes) \subseteq N /\ Elements(o.edges) \subseteq E
    BY DEF NodesOf, EdgesOf
  <1>3. ASSUME NEW n \in N PROVE n.sequenceId \in Int
    BY DEF NodesOf, MessagesFit, WellFormed
  <1> HIDE DEF N, E
  <1>4. o.nodes \in Seq(N) /\ o.edges \in Seq(E)
    BY <1>1, <1>2, SeqMonotonic DEF WellFormed
  <1> QED
    BY <1>1, <1>3, <1>4 DEF Chain, WellFormed, N, E

\* The chain that a state holds.
LEMMA StateChain ==
    ASSUME NEW M, MessagesFit(M), NEW s, HoldsChain(M, s), s.orderId # NoOrder
    PROVE  Chain(NodesOf(M, s.orderId), EdgesOf(M, s.orderId),
                 s.nodes, s.edges)
  <1>1. ASSUME NEW n \in NodesOf(M, s.orderId) PROVE n.sequenceId \in Int
    BY DEF NodesOf, MessagesFit, WellFormed
  <1> QED
    BY <1>1 DEF Chain, HoldsChain, StateTyped

\* A new order is a chain, and the robot is at its first node.
LEMMA AcceptedNew ==
    ASSUME NEW M, MessagesFit(M), NEW s, HoldsChain(M, s), NEW o \in M,
           IsNew(s, o), NEW t, t = Accepted(s, o)
    PROVE  HoldsChain(M, t) /\ ~t.cancelled
  <1>1. /\ t.orderId = o.orderId /\ t.nodes = o.nodes
        /\ t.edges = o.edges /\ ~t.cancelled
        /\ t.cancelled = FALSE /\ t.paused = s.paused
        /\ t.lastNodeSequenceId = o.nodes[1].sequenceId
        /\ t.decisionNodeId = DecisionPoint(o).nodeId
        /\ t.decisionSequenceId = DecisionPoint(o).sequenceId
    BY DEF Accepted, HoldsChain, StateTyped, OrderShape, Fields
  <1>2. OrderShape(t)
    <2>1. o.orderUpdateId \in Int /\ DOMAIN s = Fields
      BY DEF MessagesFit, HoldsChain, StateTyped, OrderShape
    <2> QED
      BY <2>1 DEF Accepted, OrderShape, Fields
  <1> DEFINE N == NodesOf(M, o.orderId)
             E == EdgesOf(M, o.orderId)
  <1>3. Chain(N, E, o.nodes, o.edges) /\ o.orderId # NoOrder
    BY MessageChain
  <1>4. PICK q \in DOMAIN o.nodes : ReleasedUpTo(o.nodes, o.edges, q)
    BY MessageChain
  <1>5. Counts(o.nodes, o.edges)
    BY <1>3, ChainCounts
  <1>6. DecisionPoint(o) = [nodeId |-> o.nodes[q].nodeId,
                            sequenceId |-> o.nodes[q].sequenceId]
    BY <1>3, <1>4, DecisionOfBase
  <1>7. o.nodes[1].sequenceId \in Int /\ o.nodes[q].sequenceId \in Int /\ 1 \in 1..q
    BY <1>5 DEF Counts
  <1>8. StateTyped(M, t)
    <2>1. /\ t.cancelled \in BOOLEAN /\ t.paused \in BOOLEAN
          /\ t.orderId \in {m.orderId : m \in M}
      BY <1>1 DEF StateTyped, HoldsChain
    <2>2. t.lastNodeSequenceId \in Int /\ t.decisionSequenceId \in Int
      BY <1>1, <1>6, <1>7
    <2>3. /\ t.nodes \in Seq(NodesOf(M, t.orderId))
          /\ t.edges \in Seq(EdgesOf(M, t.orderId))
      BY <1>1, <1>3, Zenon DEF Chain
    <2> QED
      BY <1>2, <2>1, <2>2, <2>3 DEF StateTyped
  <1>9. Paired(t.nodes, t.edges)
    BY <1>1, <1>3 DEF Chain
  <1>10. AtBase(t, 1, q)
    BY <1>1, <1>4, <1>6, <1>7 DEF AtBase
  <1>11. q \in DOMAIN t.nodes
    BY <1>1
  <1> QED
    BY <1>1, <1>3, <1>7, <1>8, <1>9, <1>10, <1>11 DEF HoldsChain

\* Both chains have the nodes from old[k] to old[r], which are the first ones
\* of nodes.
Carries(old, k, r, nodes) ==
    \A i \in k..r :
       /\ nodes[i-k+1].sequenceId = old[i].sequenceId
       /\ nodes[i-k+1].nodeId = old[i].nodeId

\* What stitch leaves is a chain, and the robot is at its first node.
LEMMA AcceptedUpdate ==
    ASSUME NEW M, MessagesFit(M), NEW s, HoldsChain(M, s), NEW o \in M,
           ~IsNew(s, o), ~s.cancelled, ContinuesFromDecision(s, o),
           NEW t, t = Accepted(s, o)
    PROVE  /\ HoldsChain(M, t)
           /\ \E r \in DOMAIN s.nodes : \E k \in 1..r :
                 \E p \in DOMAIN t.nodes :
                    /\ AtBase(s, k, r) /\ AtBase(t, 1, p) /\ r - k + 1 <= p
                    /\ Carries(s.nodes, k, r, t.nodes)
  <1> DEFINE N == NodesOf(M, o.orderId)
             E == EdgesOf(M, o.orderId)
  <1>1. PICK old, oldEdges, new, newEdges, keptNodes, keptEdges, nodes, edges :
           /\ old = s.nodes /\ oldEdges = s.edges
           /\ o.nodes = new /\ o.edges = newEdges
           /\ keptNodes = KeptNodes(s) /\ keptEdges = KeptEdges(s)
           /\ nodes = t.nodes /\ edges = t.edges
    OBVIOUS
  <1>2. /\ t.orderId = s.orderId /\ t.paused = s.paused
        /\ nodes = keptNodes \o new /\ edges = keptEdges \o newEdges
        /\ t.cancelled = s.cancelled
        /\ t.lastNodeSequenceId = s.lastNodeSequenceId
        /\ t.decisionNodeId = DecisionPoint(o).nodeId
        /\ t.decisionSequenceId = DecisionPoint(o).sequenceId
    <2>1. DOMAIN s = Fields
      BY DEF HoldsChain, StateTyped, OrderShape
    <2> QED
      BY <1>1, <2>1 DEF Accepted, Fields
  <1>3. OrderShape(t)
    <2>1. o.orderUpdateId \in Int /\ DOMAIN s = Fields
      BY DEF MessagesFit, HoldsChain, StateTyped, OrderShape
    <2> QED
      BY <2>1 DEF Accepted, OrderShape, Fields
  <1>4. /\ Chain(N, E, new, newEdges) /\ o.orderId # NoOrder
        /\ s.orderId = o.orderId
    BY <1>1, MessageChain DEF IsNew
  <1>5. PICK q \in DOMAIN new : ReleasedUpTo(new, newEdges, q)
    BY <1>1, MessageChain
  <1>6. Chain(N, E, old, oldEdges)
    BY <1>1, <1>4, StateChain
  <1>7. PICK r \in DOMAIN old : \E k \in 1..r : AtBase(s, k, r)
    BY <1>1, <1>4 DEF HoldsChain
  <1>8. PICK k \in 1..r : AtBase(s, k, r)
    BY <1>7
  <1>9. /\ ~s.cancelled
        /\ new[1].nodeId = old[r].nodeId
        /\ new[1].sequenceId = old[r].sequenceId
    BY <1>1, <1>8 DEF ContinuesFromDecision, AtBase
  <1>10. /\ ReleasedUpTo(old, oldEdges, r)
         /\ s.lastNodeSequenceId = old[k].sequenceId
         /\ s.decisionSequenceId = old[r].sequenceId
    BY <1>1, <1>8, <1>9 DEF AtBase
  <1> HIDE DEF N, E
  <1>11. /\ keptNodes \in Seq(N) /\ keptEdges \in Seq(E)
         /\ IsPiece(keptNodes, old, k - 1, r - 1)
         /\ IsPiece(keptEdges, oldEdges, k - 1, r - 1)
    BY <1>1, <1>6, <1>10, KeptOfBase
  <1>12. Stitched(N, E, old, k, r, new, q, nodes, edges)
    <2>1. nodes = keptNodes \o new /\ edges = keptEdges \o newEdges
      BY <1>2
    <2>2. KeepsOfBase(N, E, old, oldEdges, k, r, keptNodes, keptEdges)
      BY <1>6, <1>10, <1>11 DEF KeepsOfBase
    <2>3. Continues(N, E, old, r, new, newEdges, q)
      BY <1>4, <1>5, <1>9 DEF Continues
    <2> QED
      BY <2>1, <2>2, <2>3, StitchedChain
  <1>13. DecisionPoint(o) = [nodeId |-> new[q].nodeId,
                             sequenceId |-> new[q].sequenceId]
    BY <1>1, <1>4, <1>5, DecisionOfBase
  <1>14. Counts(old, oldEdges) /\ Counts(new, newEdges)
    BY <1>4, <1>6, ChainCounts
  <1>15. /\ r \in Nat /\ k \in 1..r /\ q \in Nat \ {0}
         /\ r - k + q \in Nat \ {0} /\ 1 \in 1..r - k + q
         /\ new[q].sequenceId \in Int
    <2>1. r \in 1..Len(old) /\ q \in 1..Len(new)
      BY <1>14 DEF Counts
    <2>2. new[q] \in N
      BY <1>4, <2>1 DEF Chain
    <2>3. new[q].sequenceId \in Int
      BY <1>4, <2>2 DEF Chain
    <2>4. r \in Nat /\ k \in 1..r /\ q \in Nat \ {0}
      BY <1>14, <2>1 DEF Counts
    <2> QED
      BY <2>3, <2>4
  \* The last node is the first of the stitched chain, kept or repeated.
  <1>16. nodes[1].sequenceId = s.lastNodeSequenceId
    <2>1. CASE k < r
      <3>1. 1 \in 1..r - k /\ k + 1 - 1 = k
        BY <1>15, <2>1
      <3> QED
        BY <1>10, <1>12, <3>1 DEF Stitched
    <2>2. CASE k = r
      <3>1. r - k + 1 = 1
        BY <1>15, <2>2
      <3>2. 1 \in DOMAIN new
        BY <1>14 DEF Counts
      <3>3. nodes[r - k + 1] = new[1]
        BY <1>12, <3>2 DEF Stitched
      <3> QED
        BY <1>9, <1>10, <2>2, <3>1, <3>3
    <2>3. k < r \/ k = r
      BY <1>15
    <2> QED
      BY <2>1, <2>2, <2>3
  <1>17. StateTyped(M, t)
    <2>1. /\ t.cancelled \in BOOLEAN /\ t.paused \in BOOLEAN
          /\ t.orderId \in {NoOrder} \union {m.orderId : m \in M}
          /\ t.lastNodeSequenceId \in Int
      BY <1>2 DEF StateTyped, HoldsChain
    <2>2. t.decisionSequenceId \in Int
      BY <1>2, <1>13, <1>15
    <2>3. /\ t.nodes \in Seq(NodesOf(M, t.orderId))
          /\ t.edges \in Seq(EdgesOf(M, t.orderId))
      BY <1>1, <1>2, <1>4, <1>12, Zenon DEF Stitched, Chain, N, E
    <2> QED
      BY <1>3, <2>1, <2>2, <2>3 DEF StateTyped
  <1>18. AtBase(t, 1, r - k + q)
    <2>1. /\ r - k + q \in DOMAIN nodes
          /\ ReleasedUpTo(nodes, edges, r - k + q)
          /\ nodes[r - k + q] = new[q]
      BY <1>5, <1>12 DEF Stitched
    <2>2. /\ ~t.cancelled
          /\ t.lastNodeSequenceId = nodes[1].sequenceId
          /\ t.decisionNodeId = new[q].nodeId
          /\ t.decisionSequenceId = new[q].sequenceId
      BY <1>2, <1>9, <1>13, <1>16
    <2> QED
      BY <1>1, <1>15, <2>1, <2>2 DEF AtBase
  <1>19. Paired(t.nodes, t.edges)
    BY <1>1, <1>12 DEF Stitched, Chain
  <1>20. HoldsChain(M, t)
    BY <1>1, <1>2, <1>4, <1>12, <1>15, <1>17, <1>18, <1>19 DEF HoldsChain, Stitched
  <1>21. Carries(old, k, r, nodes)
    <2> SUFFICES ASSUME NEW i \in k..r
                 PROVE  /\ nodes[i-k+1].sequenceId = old[i].sequenceId
                        /\ nodes[i-k+1].nodeId = old[i].nodeId
      BY DEF Carries
    <2>1. CASE i < r
      <3>1. i - k + 1 \in 1..r - k /\ k + (i - k + 1) - 1 = i
        BY <1>15, <2>1
      <3> QED
        BY <1>12, <3>1 DEF Stitched
    <2>2. CASE i = r
      <3>1. 1 \in DOMAIN new /\ i - k + 1 = r - k + 1
        BY <1>14, <2>2 DEF Counts
      <3>2. nodes[r - k + 1] = new[1]
        BY <1>12, <3>1 DEF Stitched
      <3> QED
        BY <1>9, <2>2, <3>1, <3>2
    <2>3. i < r \/ i = r
      BY <1>15
    <2> QED
      BY <2>1, <2>2, <2>3
  <1>22. r - k + q \in DOMAIN nodes /\ r - k + 1 <= r - k + q
    BY <1>12, <1>15 DEF Stitched
  <1> QED
    BY <1>1, <1>8, <1>18, <1>20, <1>21, <1>22

\* The lookup of a place that is there finds its first visit.
LEMMA FirstVisit ==
    ASSUME NEW nodes, DOMAIN nodes = 1..Len(nodes), NEW n \in Elements(nodes)
    PROVE  /\ FirstIndex(nodes, n.nodeId) \in DOMAIN nodes
           /\ nodes[FirstIndex(nodes, n.nodeId)].nodeId = n.nodeId
           /\ \A w \in 1..FirstIndex(nodes, n.nodeId)-1 :
                 nodes[w].nodeId # n.nodeId
  <1> DEFINE Visits == {v \in DOMAIN nodes : nodes[v].nodeId = n.nodeId}
  <1>1. PICK i \in DOMAIN nodes : n = nodes[i]
    BY DEF Elements
  <1>2. i \in Visits /\ Visits \in SUBSET Nat
    BY <1>1
  <1>3. PICK v \in Visits : \A w \in Visits : v <= w
    <2> HIDE DEF Visits
    <2> QED
      BY <1>2, LeastNat
  <1>4. \A w \in 1..v-1 : nodes[w].nodeId # n.nodeId
    <2> SUFFICES ASSUME NEW w \in 1..v-1, nodes[w].nodeId = n.nodeId
                 PROVE  FALSE
      OBVIOUS
    <2>1. w \in DOMAIN nodes /\ ~(v <= w)
      BY <1>2, <1>3
    <2> QED
      BY <1>3, <2>1
  <1>5. \E u \in DOMAIN nodes :
           /\ nodes[u].nodeId = n.nodeId
           /\ \A w \in 1..u-1 : nodes[w].nodeId # n.nodeId
    BY <1>3, <1>4
  <1> QED
    BY <1>5, Zenon DEF FirstIndex

\* An arrival at a released node, which the lookup may take for an earlier
\* visit of its place, leaves the robot on the base.
LEMMA ArrivedChain ==
    ASSUME NEW M, MessagesFit(M), NEW s, HoldsChain(M, s),
           s.orderId # NoOrder, ~s.cancelled,
           NEW n \in Elements(s.nodes), n.released,
           NEW t, t = Arrived(s, n.nodeId)
    PROVE  HoldsChain(M, t)
  <1>0. PICK nodes, edges : nodes = s.nodes /\ edges = s.edges
    OBVIOUS
  <1>2. /\ t.nodes = s.nodes /\ t.edges = s.edges
        /\ t.orderId = s.orderId /\ t.cancelled = s.cancelled
        /\ t.paused = s.paused
        /\ t.decisionNodeId = s.decisionNodeId
        /\ t.decisionSequenceId = s.decisionSequenceId
        /\ t.lastNodeSequenceId = SequenceIdFor(s, n.nodeId)
    BY DEF Arrived, HoldsChain, StateTyped, OrderShape, Fields
  <1>3. OrderShape(t)
    BY DEF Arrived, HoldsChain, StateTyped, OrderShape, Fields
  <1>5. Counts(nodes, edges)
    BY <1>0, StateChain, ChainCounts
  <1>6. PICK r \in DOMAIN nodes : \E k \in 1..r : AtBase(s, k, r)
    BY <1>0 DEF HoldsChain
  <1>7. PICK k \in 1..r : AtBase(s, k, r)
    BY <1>6
  <1>8. PICK i \in DOMAIN nodes : n = nodes[i]
    BY <1>0 DEF Elements
  <1>9. i <= r
    BY <1>0, <1>7, <1>8 DEF AtBase, ReleasedUpTo
  <1> DEFINE j == FirstIndex(nodes, n.nodeId)
  \* The lookup finds the first visit of the place, which is not behind n.
  <1>10. j \in 1..r /\ t.lastNodeSequenceId = nodes[j].sequenceId
    <2>1. /\ j \in DOMAIN nodes
          /\ nodes[j].nodeId = n.nodeId
          /\ \A w \in 1..j-1 : nodes[w].nodeId # n.nodeId
      BY <1>0, <1>5, FirstVisit DEF Counts
    <2> HIDE DEF j
    <2>2. j <= i
      <3> SUFFICES ASSUME ~(j <= i) PROVE FALSE
        OBVIOUS
      <3>1. i \in 1..j-1
        BY <1>5, <2>1 DEF Counts
      <3> QED
        BY <1>8, <2>1, <3>1
    <2>3. j \in 1..r
      BY <1>5, <1>9, <2>1, <2>2 DEF Counts
    <2>4. SequenceIdFor(s, n.nodeId) = nodes[j].sequenceId
      <3>1. KnowsNode(s, n.nodeId)
        BY DEF KnowsNode
      <3> QED
        BY <1>0, <3>1 DEF SequenceIdFor, j
    <2> QED
      BY <1>2, <2>3, <2>4
  <1>11. nodes[j].sequenceId \in Int
    <2>1. j \in 1..Len(nodes)
      BY <1>5, <1>10 DEF Counts
    <2> HIDE DEF j
    <2> QED
      BY <1>5, <2>1 DEF Counts
  <1> HIDE DEF j
  <1>13. AtBase(t, j, r)
    BY <1>0, <1>2, <1>7, <1>10 DEF AtBase
  <1>14. StateTyped(M, t)
    <2>1. /\ t.cancelled \in BOOLEAN /\ t.paused \in BOOLEAN
          /\ t.orderId \in {NoOrder} \union {m.orderId : m \in M}
          /\ t.lastNodeSequenceId \in Int
          /\ t.decisionSequenceId \in Int
      BY <1>2, <1>10, <1>11 DEF StateTyped, HoldsChain
    <2>2. /\ t.nodes \in Seq(NodesOf(M, t.orderId))
          /\ t.edges \in Seq(EdgesOf(M, t.orderId))
      BY <1>2, Zenon DEF StateTyped, HoldsChain
    <2> QED
      BY <1>3, <2>1, <2>2 DEF StateTyped
  <1> QED
    BY <1>0, <1>2, <1>10, <1>13, <1>14 DEF HoldsChain

\* cancelOrder leaves the chain up to where the robot is.
LEMMA CancelledChain ==
    ASSUME NEW M, MessagesFit(M), NEW s, HoldsChain(M, s), NEW t, t = Cancelled(s)
    PROVE  /\ HoldsChain(M, t)
           /\ s.orderId # NoOrder =>
                \E r \in DOMAIN s.nodes : \E k \in 1..r :
                   /\ AtBase(s, k, r) /\ AtBase(t, k, k)
                   /\ k \in DOMAIN t.nodes
                   /\ t.nodes[k] = s.nodes[k]
  <1> DEFINE Behind(elements) ==
                {x \in Elements(elements) :
                    x.sequenceId <= s.lastNodeSequenceId}
             N == NodesOf(M, s.orderId)
             E == EdgesOf(M, s.orderId)
  <1>1. PICK nodes, edges, last, keptNodes, keptEdges :
           /\ nodes = s.nodes /\ edges = s.edges
           /\ last = s.lastNodeSequenceId
           /\ keptNodes = t.nodes /\ keptEdges = t.edges
    OBVIOUS
  <1>2. /\ keptNodes = Filter(nodes, Behind(nodes))
        /\ keptEdges = Filter(edges, Behind(edges))
        /\ t.orderId = s.orderId /\ t.paused = s.paused
        /\ t.cancelled = TRUE
        /\ t.lastNodeSequenceId = last
        /\ t.decisionSequenceId = s.decisionSequenceId
    BY <1>1 DEF Cancelled, HoldsChain, StateTyped, OrderShape, Fields
  <1>3. OrderShape(t)
    BY DEF Cancelled, HoldsChain, StateTyped, OrderShape, Fields
  <1>4. /\ t.cancelled \in BOOLEAN /\ t.paused \in BOOLEAN
        /\ t.orderId \in {NoOrder} \union {m.orderId : m \in M}
        /\ t.lastNodeSequenceId \in Int
        /\ t.decisionSequenceId \in Int
    BY <1>1, <1>2 DEF StateTyped, HoldsChain
  <1>5. CASE s.orderId = NoOrder
    <2>1. nodes = <<>> /\ edges = <<>>
      BY <1>1, <1>5 DEF HoldsChain
    <2>2. keptNodes = <<>> /\ keptEdges = <<>>
      <3> HIDE DEF Behind
      <3> QED
        BY <1>2, <2>1, FilterEmpty
    <2>3. /\ t.nodes \in Seq(NodesOf(M, t.orderId))
          /\ t.edges \in Seq(EdgesOf(M, t.orderId))
      BY <1>1, <2>2
    <2> QED
      BY <1>1, <1>2, <1>3, <1>4, <1>5, <2>2, <2>3 DEF HoldsChain, StateTyped
  <1>6. CASE s.orderId # NoOrder
    <2>1. Chain(N, E, nodes, edges)
      BY <1>1, <1>6, StateChain
    <2>2. PICK r \in DOMAIN nodes : \E i \in 1..r : AtBase(s, i, r)
      BY <1>1, <1>6 DEF HoldsChain
    <2>3. PICK k \in 1..r : AtBase(s, k, r)
      BY <2>2
    <2> HIDE DEF N, E
    <2>4. Counts(nodes, edges)
      BY <2>1, ChainCounts
    <2>5. /\ r \in 1..Len(nodes) /\ k \in 1..Len(nodes) /\ k \in Nat
          /\ k \in DOMAIN nodes /\ k <= r
      BY <2>4 DEF Counts
    <2>6. last = nodes[k].sequenceId /\ ReleasedUpTo(nodes, edges, r)
      BY <1>1, <2>3 DEF AtBase
    <2>7. /\ keptNodes \in Seq(N) /\ keptEdges \in Seq(E)
          /\ IsPiece(keptNodes, nodes, 0, k) /\ IsPiece(keptEdges, edges, 0, k - 1)
      BY <1>1, <1>2, <2>1, <2>5, <2>6, TraversedOfChain
    <2>8. /\ Chain(N, E, keptNodes, keptEdges) /\ Len(keptNodes) = k
          /\ \A i \in 1..k : keptNodes[i] = nodes[i]
          /\ \A i \in 1..k - 1 : keptEdges[i] = edges[i]
      BY <2>1, <2>5, <2>7, FrontOfChain
    <2>9. Counts(keptNodes, keptEdges)
      BY <2>8, ChainCounts
    <2>10. /\ DOMAIN keptNodes = 1..k /\ DOMAIN keptEdges = 1..k - 1
           /\ keptNodes[k] = nodes[k]
      BY <2>5, <2>8, <2>9 DEF Counts
    <2>11. ReleasedUpTo(keptNodes, keptEdges, k)
      <3>1. ASSUME NEW i \in 1..k PROVE keptNodes[i].released <=> i <= k
        <4>1. i \in DOMAIN nodes /\ i <= k /\ i <= r
          BY <2>4, <2>5 DEF Counts
        <4> QED
          BY <2>6, <2>8, <4>1 DEF ReleasedUpTo
      <3>2. ASSUME NEW i \in 1..k - 1 PROVE keptEdges[i].released <=> i < k
        <4>1. i \in DOMAIN edges /\ i < k /\ i < r
          BY <2>4, <2>5 DEF Counts
        <4> QED
          BY <2>6, <2>8, <4>1 DEF ReleasedUpTo
      <3> QED
        BY <2>10, <3>1, <3>2 DEF ReleasedUpTo
    <2>12. AtBase(t, k, k)
      <3>1. k \in 1..k
        BY <2>5
      <3> QED
        BY <1>1, <1>2, <2>6, <2>8, <2>10, <2>11, <3>1 DEF AtBase
    <2>13. Paired(t.nodes, t.edges)
      BY <1>1, <2>8 DEF Chain
    <2>14. /\ t.nodes \in Seq(NodesOf(M, t.orderId))
           /\ t.edges \in Seq(EdgesOf(M, t.orderId))
      BY <1>1, <1>2, <2>8, Zenon DEF Chain, N, E
    <2>15. k \in DOMAIN t.nodes /\ k \in 1..k
      BY <1>1, <2>5, <2>10
    <2>16. HoldsChain(M, t)
      BY <1>2, <1>3, <1>4, <1>6, <2>12, <2>13, <2>14, <2>15 DEF HoldsChain, StateTyped
    <2> QED
      BY <1>1, <2>3, <2>10, <2>12, <2>15, <2>16
  <1> QED
    BY <1>5, <1>6

\* A pause touches nothing that the invariant is about.
LEMMA PausedChain ==
    ASSUME NEW M, NEW s, HoldsChain(M, s), NEW on \in BOOLEAN,
           NEW t, t = Paused(s, on)
    PROVE  HoldsChain(M, t)
  <1>1. /\ t.nodes = s.nodes /\ t.edges = s.edges
        /\ t.orderId = s.orderId /\ t.cancelled = s.cancelled
        /\ t.paused = on
        /\ t.lastNodeSequenceId = s.lastNodeSequenceId
        /\ t.decisionNodeId = s.decisionNodeId
        /\ t.decisionSequenceId = s.decisionSequenceId
    BY DEF Paused, HoldsChain, StateTyped, OrderShape, Fields
  <1>2. OrderShape(t)
    BY DEF Paused, HoldsChain, StateTyped, OrderShape, Fields
  <1>3. StateTyped(M, t)
    BY <1>1, <1>2, Zenon DEF HoldsChain, StateTyped
  <1>4. ASSUME NEW k, NEW r, AtBase(s, k, r) PROVE AtBase(t, k, r)
    BY <1>1, <1>4, Zenon DEF AtBase
  <1> QED
    BY <1>1, <1>3, <1>4, Zenon DEF HoldsChain

-----------------------------------------------------------------------------
(* What holds of an order state s and its successor t however the messages *)
(* M are ordered and released, and however often they were cancelled.      *)

AllNodes(M) == UNION {Elements(o.nodes) : o \in M}

AllEdges(M) == UNION {Elements(o.edges) : o \in M}

Typed(M, s) ==
    /\ OrderShape(s)
    /\ s.cancelled \in BOOLEAN /\ s.paused \in BOOLEAN
    /\ s.orderId \in {NoOrder} \union {o.orderId : o \in M}
    /\ s.lastNodeSequenceId \in Int /\ s.decisionSequenceId \in Int
    /\ s.nodes \in Seq(AllNodes(M)) /\ s.edges \in Seq(AllEdges(M))

\* A sequence has an element with the highest sequenceId of those in T.
LEMMA HighestOf ==
    ASSUME NEW S, NEW s \in Seq(S), NEW T \in SUBSET Elements(s), T # {},
           \A x \in T : x.sequenceId \in Int
    PROVE  \E x \in T : \A y \in T : y.sequenceId <= x.sequenceId
  <1> DEFINE First(n) == {s[i] : i \in 1..n} \cap T
             Good == {n \in 0..Len(s) :
                         First(n) # {} =>
                            \E x \in First(n) :
                               \A y \in First(n) : y.sequenceId <= x.sequenceId}
  <1>1. DOMAIN s = 1..Len(s) /\ Len(s) \in Nat
    OBVIOUS
  <1>2. 0 \in Good
    <2>1. First(0) = {}
      OBVIOUS
    <2> HIDE DEF First
    <2> QED
      BY <1>1, <2>1
  <1>3. ASSUME NEW n \in 1..Len(s), n - 1 \in Good PROVE n \in Good
    <2>1. First(n) = First(n-1) \union ({s[n]} \cap T)
      OBVIOUS
    <2>2. First(n-1) \subseteq T /\ n \in 0..Len(s)
      BY <1>1
    <2> HIDE DEF First
    <2>3. CASE s[n] \notin T
      <3>1. First(n) = First(n-1)
        BY <2>1, <2>3
      <3> QED
        BY <1>3, <2>2, <3>1
    <2>4. CASE s[n] \in T /\ First(n-1) = {}
      <3>1. First(n) = {s[n]} /\ s[n].sequenceId \in Int
        BY <2>1, <2>4
      <3> QED
        BY <2>2, <3>1
    <2>5. CASE s[n] \in T /\ First(n-1) # {}
      <3>1. PICK x \in First(n-1) : \A y \in First(n-1) : y.sequenceId <= x.sequenceId
        BY <1>3, <2>5
      <3>2. /\ x.sequenceId \in Int /\ s[n].sequenceId \in Int
            /\ First(n) = First(n-1) \union {s[n]}
        BY <2>1, <2>2, <2>5
      <3>3. CASE s[n].sequenceId <= x.sequenceId
        BY <2>2, <3>1, <3>2, <3>3
      <3>4. CASE x.sequenceId < s[n].sequenceId
        <4>1. \A y \in First(n) : y.sequenceId <= s[n].sequenceId
          <5> SUFFICES ASSUME NEW y \in First(n)
                       PROVE  y.sequenceId <= s[n].sequenceId
            OBVIOUS
          <5>1. CASE y = s[n]
            BY <3>2, <5>1
          <5>2. CASE y \in First(n-1)
            <6>1. y.sequenceId \in Int /\ y.sequenceId <= x.sequenceId
              BY <2>2, <3>1, <5>2
            <6> QED
              BY <3>2, <3>4, <6>1
          <5> QED
            BY <3>2, <5>1, <5>2
        <4> QED
          BY <2>2, <3>2, <4>1
      <3> QED
        BY <3>2, <3>3, <3>4
    <2> QED
      BY <2>3, <2>4, <2>5
  <1>4. Len(s) \in Good
    <2>1. Len(s) \in 0..Len(s)
      BY <1>1
    <2> HIDE DEF Good
    <2> QED
      BY <1>1, <1>2, <1>3, <2>1, Induction
  <1>5. First(Len(s)) = T
    BY <1>1 DEF Elements
  <1> QED
    BY <1>4, <1>5

\* decisionPoint always has an answer.
LEMMA DecisionTyped ==
    ASSUME NEW o, o.nodes \in Seq(Elements(o.nodes)),
           \A n \in Elements(o.nodes) : n.sequenceId \in Int
    PROVE  DecisionPoint(o).sequenceId \in Int
  <1> DEFINE passed == ReleasedPrefix(o.nodes, o.edges)
  <1>1. passed \subseteq Elements(o.nodes)
    BY DEF ReleasedPrefix
  <1>2. CASE passed = {}
    BY <1>2 DEF DecisionPoint
  <1>3. CASE passed # {}
    <2> DEFINE last == CHOOSE n \in passed :
                          \A m \in passed : m.sequenceId <= n.sequenceId
    <2>1. DecisionPoint(o).sequenceId = last.sequenceId
      BY <1>3 DEF DecisionPoint
    <2> HIDE DEF passed
    <2>2. \E n \in passed : \A m \in passed : m.sequenceId <= n.sequenceId
      BY <1>1, <1>3, HighestOf
    <2>3. last \in passed
      BY <2>2
    <2> HIDE DEF last
    <2> QED
      BY <1>1, <2>1, <2>3
  <1> QED
    BY <1>2, <1>3

LEMMA AllTyped ==
    ASSUME NEW M, MessagesTyped(M)
    PROVE  /\ \A n \in AllNodes(M) : n.sequenceId \in Int
           /\ \A o \in M : /\ o.nodes \in Seq(AllNodes(M))
                           /\ o.edges \in Seq(AllEdges(M))
                           /\ o.nodes[1] \in AllNodes(M)
  <1> SUFFICES ASSUME NEW o \in M
               PROVE  /\ \A n \in Elements(o.nodes) : n.sequenceId \in Int
                      /\ o.nodes \in Seq(AllNodes(M))
                      /\ o.edges \in Seq(AllEdges(M))
                      /\ o.nodes[1] \in AllNodes(M)
    BY DEF AllNodes
  <1>1. PICK nodes, edges : nodes = o.nodes /\ edges = o.edges
    OBVIOUS
  <1>2. /\ nodes # <<>> /\ \A n \in Elements(nodes) : n.sequenceId \in Int
        /\ nodes \in Seq(Elements(nodes)) /\ edges \in Seq(Elements(edges))
    BY <1>1 DEF MessagesTyped
  <1>3. Elements(nodes) \subseteq AllNodes(M) /\ Elements(edges) \subseteq AllEdges(M)
    BY <1>1 DEF AllNodes, AllEdges
  <1> HIDE DEF AllNodes, AllEdges
  <1>4. nodes \in Seq(AllNodes(M)) /\ edges \in Seq(AllEdges(M))
    BY <1>2, <1>3
  <1>5. nodes[1] \in AllNodes(M)
    BY <1>2, <1>4
  <1> QED
    BY <1>1, <1>2, <1>4, <1>5

\* The nodes and edges an order state holds are those of the messages.
LEMMA ShapeOfTyped ==
    ASSUME NEW M, NEW s, Typed(M, s)
    PROVE  /\ DOMAIN s = Fields
           /\ Elements(s.nodes) \subseteq AllNodes(M)
           /\ Elements(s.edges) \subseteq AllEdges(M)
  <1>1. DOMAIN s = Fields
    BY DEF Typed, OrderShape
  <1>2. PICK nodes, edges : nodes = s.nodes /\ edges = s.edges
    OBVIOUS
  <1>3. nodes \in Seq(AllNodes(M)) /\ edges \in Seq(AllEdges(M))
    BY <1>2 DEF Typed
  <1>4. Elements(nodes) \subseteq AllNodes(M) /\ Elements(edges) \subseteq AllEdges(M)
    BY <1>3 DEF Elements
  <1> QED
    BY <1>1, <1>2, <1>4

LEMMA NoStateTyped == ASSUME NEW M PROVE Typed(M, NoState)
  BY DEF Typed, NoState, OrderShape, Fields

LEMMA AcceptedTyped ==
    ASSUME NEW M, MessagesTyped(M), NEW s, Typed(M, s), NEW o \in M
    PROVE  Typed(M, Accepted(s, o))
  <1> DEFINE t == Accepted(s, o)
  <1> SUFFICES Typed(M, t)
    OBVIOUS
  <1>1. DOMAIN s = Fields
    BY ShapeOfTyped
  <1>2. /\ o.orderUpdateId \in Int /\ DecisionPoint(o).sequenceId \in Int
        /\ o.nodes[1].sequenceId \in Int
        /\ o.nodes \in Seq(AllNodes(M)) /\ o.edges \in Seq(AllEdges(M))
    BY AllTyped, DecisionTyped DEF MessagesTyped
  <1>3. KeptNodes(s) \in Seq(AllNodes(M)) /\ KeptEdges(s) \in Seq(AllEdges(M))
    BY FilterElements DEF KeptNodes, KeptEdges, Typed
  <1>4. CASE IsNew(s, o)
    <2>1. /\ DOMAIN t = Fields
          /\ t.orderUpdateId = o.orderUpdateId
          /\ t.cancelled = FALSE /\ t.paused = s.paused
          /\ t.orderId = o.orderId
          /\ t.lastNodeSequenceId = o.nodes[1].sequenceId
          /\ t.decisionSequenceId = DecisionPoint(o).sequenceId
          /\ t.nodes = o.nodes /\ t.edges = o.edges
      BY <1>1, <1>4 DEF Accepted, Fields
    <2> HIDE DEF t
    <2> QED
      BY <1>2, <2>1, Zenon DEF Typed, OrderShape
  <1>5. CASE ~IsNew(s, o)
    <2>1. /\ DOMAIN t = Fields
          /\ t.orderUpdateId = o.orderUpdateId
          /\ t.cancelled = s.cancelled /\ t.paused = s.paused
          /\ t.orderId = s.orderId
          /\ t.lastNodeSequenceId = s.lastNodeSequenceId
          /\ t.decisionSequenceId = DecisionPoint(o).sequenceId
          /\ t.nodes = KeptNodes(s) \o o.nodes
          /\ t.edges = KeptEdges(s) \o o.edges
      BY <1>1, <1>5 DEF Accepted, Fields
    <2>2. /\ KeptNodes(s) \o o.nodes \in Seq(AllNodes(M))
          /\ KeptEdges(s) \o o.edges \in Seq(AllEdges(M))
      BY <1>2, <1>3
    <2> HIDE DEF t
    <2> QED
      BY <1>2, <2>1, <2>2, Zenon DEF Typed, OrderShape
  <1> QED
    BY <1>4, <1>5

\* The node whose sequenceId and actions an arrival looks up.
LEMMA KnownNode ==
    ASSUME NEW M, NEW s, Typed(M, s), NEW place, KnowsNode(s, place)
    PROVE  s.nodes[FirstIndex(s.nodes, place)] \in AllNodes(M)
  <1>1. PICK nodes : nodes = s.nodes
    OBVIOUS
  <1>2. nodes \in Seq(AllNodes(M)) /\ DOMAIN nodes = 1..Len(nodes)
    BY <1>1 DEF Typed
  <1>3. PICK n \in Elements(nodes) : n.nodeId = place
    BY <1>1 DEF KnowsNode
  <1>4. FirstIndex(nodes, place) \in DOMAIN nodes
    BY <1>2, <1>3, FirstVisit
  <1> QED
    BY <1>1, <1>2, <1>4

LEMMA ActionsOfNode ==
    ASSUME NEW M, NEW s, Typed(M, s), NEW place
    PROVE  \/ ActionsForNode(s, place) = <<>>
           \/ \E n \in AllNodes(M) : ActionsForNode(s, place) = n.actions
  BY KnownNode DEF ActionsForNode

LEMMA ArrivedTyped ==
    ASSUME NEW M, MessagesTyped(M), NEW s, Typed(M, s), NEW place
    PROVE  Typed(M, Arrived(s, place))
  <1> DEFINE t == Arrived(s, place)
  <1> SUFFICES Typed(M, t)
    OBVIOUS
  <1>1. SequenceIdFor(s, place) \in Int
    BY KnownNode, AllTyped DEF SequenceIdFor
  <1>2. DOMAIN s = Fields
    BY ShapeOfTyped
  <1>3. /\ DOMAIN t = Fields
        /\ t.lastNodeSequenceId = SequenceIdFor(s, place)
    BY <1>2 DEF Arrived, Fields
  <1>4. /\ t.orderUpdateId = s.orderUpdateId /\ t.cancelled = s.cancelled
        /\ t.paused = s.paused /\ t.orderId = s.orderId
        /\ t.decisionSequenceId = s.decisionSequenceId
        /\ t.nodes = s.nodes /\ t.edges = s.edges
    BY <1>2 DEF Arrived, Fields
  <1> HIDE DEF t
  <1> QED
    BY <1>1, <1>3, <1>4, Zenon DEF Typed, OrderShape

LEMMA CancelledTyped ==
    ASSUME NEW M, NEW s, Typed(M, s)
    PROVE  Typed(M, Cancelled(s))
  <1> DEFINE t == Cancelled(s)
             Old(elements) ==
                Filter(elements, {x \in Elements(elements) :
                                     x.sequenceId <= s.lastNodeSequenceId})
  <1> SUFFICES Typed(M, t)
    OBVIOUS
  <1>1. DOMAIN s = Fields
    BY ShapeOfTyped
  <1>2. Old(s.nodes) \in Seq(AllNodes(M)) /\ Old(s.edges) \in Seq(AllEdges(M))
    BY FilterElements DEF Typed
  <1>3. t = [s EXCEPT !.cancelled = TRUE, !.nodes = Old(s.nodes), !.edges = Old(s.edges)]
    BY DEF Cancelled
  <1> HIDE DEF Old
  <1>4. /\ DOMAIN t = Fields /\ t.cancelled = TRUE /\ t.paused = s.paused
        /\ t.orderUpdateId = s.orderUpdateId /\ t.orderId = s.orderId
        /\ t.lastNodeSequenceId = s.lastNodeSequenceId
        /\ t.decisionSequenceId = s.decisionSequenceId
        /\ t.nodes = Old(s.nodes) /\ t.edges = Old(s.edges)
    BY <1>1, <1>3 DEF Fields
  <1> HIDE DEF t
  <1> QED
    BY <1>2, <1>4, Zenon DEF Typed, OrderShape

LEMMA PausedTyped ==
    ASSUME NEW M, NEW s, Typed(M, s), NEW on \in BOOLEAN
    PROVE  Typed(M, Paused(s, on))
  <1> DEFINE t == Paused(s, on)
  <1> SUFFICES Typed(M, t)
    OBVIOUS
  <1>1. DOMAIN s = Fields
    BY ShapeOfTyped
  <1>2. /\ DOMAIN t = Fields /\ t.paused = on
        /\ t.cancelled = s.cancelled
        /\ t.orderUpdateId = s.orderUpdateId /\ t.orderId = s.orderId
        /\ t.lastNodeSequenceId = s.lastNodeSequenceId
        /\ t.decisionSequenceId = s.decisionSequenceId
        /\ t.nodes = s.nodes /\ t.edges = s.edges
    BY <1>1 DEF Paused, Fields
  <1> HIDE DEF t
  <1> QED
    BY <1>2, Zenon DEF Typed, OrderShape

-----------------------------------------------------------------------------
(* ValidateOrder.                                                          *)

\* The elements that sort.Slice does not put behind s[i].
UpTo(s, i) ==
    {j \in DOMAIN s : \/ s[j].it.sequenceId < s[i].it.sequenceId
                      \/ s[j].it.sequenceId = s[i].it.sequenceId /\ j <= i}

LEMMA FiniteInterval ==
    ASSUME NEW n \in Nat PROVE IsFiniteSet(1..n) /\ Cardinality(1..n) = n
  BY FS_Interval

LEMMA RankGrows ==
    ASSUME NEW u, NEW n \in Nat, DOMAIN u = 1..n,
           \A i \in 1..n : u[i].it.sequenceId \in Int,
           NEW i \in 1..n, NEW j \in 1..n, i # j, i \in UpTo(u, j)
    PROVE  Rank(u, i) < Rank(u, j)
  <1>1. IsFiniteSet(1..n) /\ UpTo(u, i) \subseteq 1..n /\ UpTo(u, j) \subseteq 1..n
    BY FS_Interval DEF UpTo
  <1>2. IsFiniteSet(UpTo(u, j)) /\ IsFiniteSet(UpTo(u, i))
    BY <1>1, FS_Subset
  <1>3. UpTo(u, i) \subseteq UpTo(u, j) /\ j \in UpTo(u, j) /\ j \notin UpTo(u, i)
    BY DEF UpTo
  <1>4. Cardinality(UpTo(u, i)) <= Cardinality(UpTo(u, j))
        /\ Cardinality(UpTo(u, i)) # Cardinality(UpTo(u, j))
    BY <1>2, <1>3, FS_Subset
  <1>5. Cardinality(UpTo(u, i)) \in Nat /\ Cardinality(UpTo(u, j)) \in Nat
    BY <1>2, FS_CardinalityType
  <1> QED
    BY <1>4, <1>5 DEF Rank, UpTo

\* Each element has a place of its own,
LEMMA RankIsPlace ==
    ASSUME NEW u, NEW n \in Nat, DOMAIN u = 1..n,
           \A i \in 1..n : u[i].it.sequenceId \in Int
    PROVE  /\ \A i \in 1..n : Rank(u, i) \in 1..n
           /\ \A i, j \in 1..n : Rank(u, i) = Rank(u, j) => i = j
           /\ \A m \in 1..n : \E i \in 1..n : Rank(u, i) = m
  <1>1. ASSUME NEW i \in 1..n PROVE Rank(u, i) \in 1..n
    <2>1. IsFiniteSet(1..n) /\ Cardinality(1..n) = n /\ UpTo(u, i) \in SUBSET (1..n)
      BY FS_Interval DEF UpTo
    <2>2. IsFiniteSet(UpTo(u, i)) /\ Cardinality(UpTo(u, i)) <= n
      BY <2>1, FS_Subset
    <2>3. Cardinality(UpTo(u, i)) \in Nat
      BY <2>2, FS_CardinalityType
    <2>4. Cardinality(UpTo(u, i)) # 0
      <3>1. i \in UpTo(u, i)
        BY DEF UpTo
      <3> QED
        BY <2>2, <3>1, FS_EmptySet
    <2> QED
      BY <2>2, <2>3, <2>4 DEF Rank, UpTo
  <1>2. ASSUME NEW i \in 1..n, NEW j \in 1..n, i # j
        PROVE  Rank(u, i) # Rank(u, j)
    <2>1. i \in UpTo(u, j) \/ j \in UpTo(u, i)
      BY <1>2 DEF UpTo
    <2>2. Rank(u, i) \in Int /\ Rank(u, j) \in Int
      BY <1>1
    <2> QED
      BY <1>2, <2>1, <2>2, RankGrows
  <1>3. ASSUME NEW m \in 1..n PROVE \E i \in 1..n : Rank(u, i) = m
    <2> DEFINE rank == [i \in 1..n |-> Rank(u, i)]
    <2>0. /\ rank \in [1..n -> 1..n]
          /\ \A i, j \in 1..n : rank[i] = rank[j] => i = j
      BY <1>1, <1>2
    <2>1. rank \in Injection(1..n, 1..n)
      <3> HIDE DEF rank
      <3> QED
        BY <2>0, Zenon DEF Injection, IsInjective
    <2>2. IsFiniteSet(1..n)
      BY FiniteInterval
    <2>3. rank \in Surjection(1..n, 1..n)
      <3> HIDE DEF rank
      <3> QED
        BY <2>1, <2>2, FS_Injection
    <2> QED
      BY <2>3 DEF Surjection
  <1> QED
    BY <1>1, <1>2, <1>3

\* so that sorting is a permutation.
LEMMA SortedPermutes ==
    ASSUME NEW u, NEW n \in Nat, DOMAIN u = 1..n,
           \A i \in 1..n : u[i].it.sequenceId \in Int
    PROVE  /\ DOMAIN Sorted(u) = 1..n
           /\ \A i \in 1..n : Sorted(u)[Rank(u, i)] = u[i]
           /\ \A m \in 1..n : \E i \in 1..n : Rank(u, i) = m /\ Sorted(u)[m] = u[i]
  <1>1. DOMAIN Sorted(u) = 1..n
    BY DEF Sorted
  <1>2. ASSUME NEW i \in 1..n PROVE Sorted(u)[Rank(u, i)] = u[i]
    <2>1. Rank(u, i) \in 1..n /\ \A j \in 1..n : Rank(u, j) = Rank(u, i) => j = i
      BY RankIsPlace
    <2>2. (CHOOSE j \in DOMAIN u : Rank(u, j) = Rank(u, i)) = i
      BY <2>1
    <2> QED
      BY <2>1, <2>2 DEF Sorted
  <1>3. ASSUME NEW m \in 1..n
        PROVE  \E i \in 1..n : Rank(u, i) = m /\ Sorted(u)[m] = u[i]
    <2>1. PICK i \in 1..n : Rank(u, i) = m
      BY RankIsPlace
    <2> QED
      BY <1>2, <2>1
  <1> QED
    BY <1>1, <1>2, <1>3

\* Where the sequenceIds are first, first + 1 and so on, each once, they tell
\* the places.
LEMMA SortedCounts ==
    ASSUME NEW u, NEW n \in Nat, DOMAIN u = 1..n, NEW first \in Int,
           \A i \in 1..n : u[i].it.sequenceId - first + 1 \in 1..n,
           \A i \in 1..n : u[i].it.sequenceId \in Int,
           \A m \in 1..n : \E i \in 1..n : u[i].it.sequenceId = first + m - 1
    PROVE  \A i \in 1..n : Rank(u, i) = u[i].it.sequenceId - first + 1
  <1> DEFINE key == [i \in 1..n |-> u[i].it.sequenceId - first + 1]
  <1>0. ASSUME NEW i \in 1..n
        PROVE  /\ key[i] = u[i].it.sequenceId - first + 1 /\ key[i] \in 1..n
               /\ u[i].it.sequenceId \in Int
    OBVIOUS
  <1>1. /\ key \in [1..n -> 1..n]
        /\ \A m \in 1..n : \E i \in 1..n : key[i] = m
    <2>1. key \in [1..n -> 1..n]
      OBVIOUS
    <2>2. ASSUME NEW m \in 1..n PROVE \E i \in 1..n : key[i] = m
      <3>1. PICK i \in 1..n : u[i].it.sequenceId = first + m - 1
        OBVIOUS
      <3>2. key[i] = m
        BY <3>1
      <3> QED
        BY <3>2
    <2> QED
      BY <2>1, <2>2
  <1> HIDE DEF key
  <1>2. \A i, j \in 1..n : key[i] = key[j] => i = j
    <2>1. IsFiniteSet(1..n)
      BY FiniteInterval
    <2>2. key \in Surjection(1..n, 1..n)
      BY <1>1 DEF Surjection
    <2>3. key \in Injection(1..n, 1..n)
      BY <2>1, <2>2, FS_SurjSameCardinalityImpliesInj
    <2> QED
      BY <2>3, Zenon DEF Injection, IsInjective
  <1>3. ASSUME NEW i \in 1..n PROVE Rank(u, i) = key[i]
    <2>1. UpTo(u, i) = {j \in 1..n : key[j] <= key[i]}
      <3>1. ASSUME NEW j \in 1..n
            PROVE  j \in UpTo(u, i) <=> key[j] <= key[i]
        <4>1. key[j] = u[j].it.sequenceId - first + 1
              /\ key[i] = u[i].it.sequenceId - first + 1
              /\ u[i].it.sequenceId \in Int /\ u[j].it.sequenceId \in Int
          BY <1>0
        <4>2. key[j] = key[i] => j = i
          BY <1>2
        <4>3. j \in UpTo(u, i)
                 <=> \/ u[j].it.sequenceId < u[i].it.sequenceId
                     \/ u[j].it.sequenceId = u[i].it.sequenceId /\ j <= i
          BY DEF UpTo
        <4>4. PICK a, b : a = u[j].it.sequenceId /\ b = u[i].it.sequenceId
          OBVIOUS
        <4>5. a \in Int /\ b \in Int /\ key[j] = a - first + 1 /\ key[i] = b - first + 1
          BY <4>1, <4>4
        <4>6. CASE i = j
          BY <4>3, <4>5, <4>6
        <4>7. CASE i # j
          <5>1. key[j] # key[i]
            BY <4>2, <4>7
          <5>2. a # b
            BY <4>5, <5>1
          <5>3. key[j] <= key[i] <=> a < b
            BY <4>5, <5>2
          <5> QED
            BY <4>3, <4>4, <5>2, <5>3
        <4> QED
          BY <4>6, <4>7
      <3> QED
        BY <3>1 DEF UpTo
    <2>2. key[i] \in 1..n
      BY <1>1
    <2> DEFINE back == [j \in UpTo(u, i) |-> key[j]]
    <2>3. back \in Bijection(UpTo(u, i), 1..key[i])
      <3>1. back \in [UpTo(u, i) -> 1..key[i]]
        <4>1. ASSUME NEW j \in UpTo(u, i) PROVE key[j] \in 1..key[i]
          BY <1>1, <2>1, <2>2
        <4> QED
          BY <4>1
      <3>2. \A a, b \in UpTo(u, i) : back[a] = back[b] => a = b
        <4>1. UpTo(u, i) \subseteq 1..n
          BY <2>1
        <4> QED
          BY <1>2, <4>1
      <3>3. ASSUME NEW t \in 1..key[i] PROVE \E j \in UpTo(u, i) : back[j] = t
        <4>0. t \in 1..n
          BY <2>2
        <4>1. PICK j \in 1..n : key[j] = t
          BY <1>1, <4>0
        <4>2. j \in UpTo(u, i)
          BY <2>1, <4>1
        <4> QED
          BY <4>1, <4>2
      <3> HIDE DEF back
      <3> QED
        BY <3>1, <3>2, <3>3, Zenon
           DEF Bijection, Injection, Surjection, IsInjective
    <2>4. IsFiniteSet(UpTo(u, i))
      <3>1. IsFiniteSet(1..n) /\ UpTo(u, i) \in SUBSET (1..n)
        BY FiniteInterval, <2>1
      <3> QED
        BY <3>1, FS_Subset
    <2>5. Cardinality(UpTo(u, i)) = Cardinality(1..key[i])
      <3>1. ExistsBijection(UpTo(u, i), 1..key[i])
        BY <2>3 DEF ExistsBijection
      <3> QED
        BY <2>4, <3>1, FS_Bijection
    <2>6. Cardinality(1..key[i]) = key[i]
      BY <2>2, FiniteInterval
    <2> QED
      BY <2>5, <2>6 DEF Rank, UpTo
  <1> QED
    BY <1>0, <1>3

LEMMA SeqOfFunction ==
    ASSUME NEW S, NEW n \in Nat, NEW f \in [1..n -> S] PROVE f \in Seq(S)
  OBVIOUS

\* What the local `sequence' holds before it is sorted.
LEMMA TogetherShape ==
    ASSUME NEW N, NEW E, NEW nodes \in Seq(N), NEW edges \in Seq(E)
    PROVE  LET u == Together(nodes, edges)
           IN  /\ DOMAIN u = 1..Len(nodes) + Len(edges)
               /\ \A i \in 1..Len(nodes) : u[i].isNode /\ u[i].it = nodes[i]
               /\ \A i \in 1..Len(edges) :
                     /\ ~u[Len(nodes) + i].isNode
                     /\ u[Len(nodes) + i].it = edges[i]
  <1> DEFINE ns == [i \in 1..Len(nodes) |-> [isNode |-> TRUE, it |-> nodes[i]]]
             es == [i \in 1..Len(edges) |-> [isNode |-> FALSE, it |-> edges[i]]]
             S == [isNode : BOOLEAN, it : N \union E]
  <1>1. /\ Len(nodes) \in Nat /\ DOMAIN nodes = 1..Len(nodes)
        /\ Len(edges) \in Nat /\ DOMAIN edges = 1..Len(edges)
    OBVIOUS
  <1>2. ns \in [1..Len(nodes) -> S] /\ es \in [1..Len(edges) -> S]
    OBVIOUS
  <1>3. ns \in Seq(S) /\ es \in Seq(S)
    <2> HIDE DEF ns, es, S
    <2> QED
      BY <1>1, <1>2, SeqOfFunction
  <1>4. Len(ns) = Len(nodes) /\ Len(es) = Len(edges)
    <2> HIDE DEF S
    <2>1. DOMAIN ns = 1..Len(nodes) /\ DOMAIN es = 1..Len(edges)
      OBVIOUS
    <2> HIDE DEF ns, es
    <2> QED
      BY <1>1, <1>3, <2>1
  <1>5. Together(nodes, edges) = ns \o es
    BY <1>1, Zenon DEF Together
  <1>6. /\ \A i \in 1..Len(nodes) : ns[i].isNode /\ ns[i].it = nodes[i]
        /\ \A i \in 1..Len(edges) : ~es[i].isNode /\ es[i].it = edges[i]
    OBVIOUS
  <1> HIDE DEF ns, es, S
  <1>7. /\ Len(ns \o es) = Len(ns) + Len(es) /\ ns \o es \in Seq(S)
        /\ \A i \in 1..Len(ns) : (ns \o es)[i] = ns[i]
        /\ \A i \in 1..Len(es) : (ns \o es)[Len(ns) + i] = es[i]
    BY <1>3
  <1> DEFINE u == ns \o es
  <1>8. DOMAIN u = 1..Len(nodes) + Len(edges)
    BY <1>4, <1>7
  <1>9. ASSUME NEW i \in 1..Len(nodes) PROVE u[i].isNode /\ u[i].it = nodes[i]
    <2>1. u[i] = ns[i]
      BY <1>4, <1>7
    <2> QED
      BY <1>6, <2>1, Zenon
  <1>10. ASSUME NEW i \in 1..Len(edges)
         PROVE  ~u[Len(nodes) + i].isNode /\ u[Len(nodes) + i].it = edges[i]
    <2>1. u[Len(nodes) + i] = es[i]
      BY <1>4, <1>7
    <2> QED
      BY <1>6, <2>1, Zenon
  <1>11. Together(nodes, edges) = u
    BY <1>5
  <1> HIDE DEF u
  <1> QED
    BY <1>8, <1>9, <1>10, <1>11, Zenon

\* What ValidateOrder walks.
Sequence(nodes, edges) == Sorted(Together(nodes, edges))

\* An order that is a chain is walked node, edge, node and so on.
Zipped(s, nodes, edges) ==
    /\ DOMAIN s = 1 .. 2 * Len(edges) + 1 /\ Len(s) = 2 * Len(edges) + 1
    /\ \A i \in 1..Len(nodes) : s[2 * i - 1].isNode /\ s[2 * i - 1].it = nodes[i]
    /\ \A i \in 1..Len(edges) : ~s[2 * i].isNode /\ s[2 * i].it = edges[i]

LEMMA ChainSorted ==
    ASSUME NEW N, NEW E, NEW nodes, NEW edges, Chain(N, E, nodes, edges)
    PROVE  Zipped(Sequence(nodes, edges), nodes, edges)
  <1> DEFINE u == Together(nodes, edges)
             k == Len(edges)
             n == 2 * k + 1
             first == nodes[1].sequenceId
  <1>1. Counts(nodes, edges)
    BY ChainCounts
  <1>2. /\ k \in Nat /\ Len(nodes) = k + 1 /\ first \in Int
        /\ \A i \in 1..k+1 : nodes[i].sequenceId = first + 2 * (i - 1)
        /\ \A i \in 1..k : edges[i].sequenceId = first + 2 * i - 1
    BY <1>1 DEF Counts
  <1>3. /\ DOMAIN u = 1..(k + 1) + k
        /\ \A i \in 1..k+1 : u[i].isNode /\ u[i].it = nodes[i]
        /\ \A i \in 1..k : ~u[(k + 1) + i].isNode /\ u[(k + 1) + i].it = edges[i]
    <2>1. nodes \in Seq(N) /\ edges \in Seq(E)
      BY DEF Chain
    <2>2. /\ DOMAIN u = 1..Len(nodes) + k
          /\ \A i \in 1..Len(nodes) : u[i].isNode /\ u[i].it = nodes[i]
          /\ \A i \in 1..k :
                ~u[Len(nodes) + i].isNode /\ u[Len(nodes) + i].it = edges[i]
      BY <2>1, TogetherShape
    <2> HIDE DEF u, k
    <2> QED
      BY <1>2, <2>2
  <1> HIDE DEF u, k, first
  <1>4. DOMAIN u = 1..n /\ n \in Nat
    BY <1>2, <1>3
  <1>5. /\ \A i \in 1..k+1 : u[i].it.sequenceId = first + 2 * (i - 1)
        /\ \A i \in 1..k : u[(k + 1) + i].it.sequenceId = first + 2 * i - 1
    BY <1>2, <1>3, Zenon
  <1>6. ASSUME NEW i \in 1..n
        PROVE  /\ u[i].it.sequenceId \in Int
               /\ u[i].it.sequenceId - first + 1 \in 1..n
    <2>1. CASE i \in 1..k+1
      BY <1>2, <1>5, <2>1
    <2>2. CASE i \notin 1..k+1
      <3>1. PICK j \in 1..k : i = (k + 1) + j
        <4>1. i - (k + 1) \in 1..k /\ i = (k + 1) + (i - (k + 1))
          BY <1>2, <2>2
        <4> QED
          BY <4>1
      <3> QED
        <4>1. u[i].it.sequenceId = first + 2 * j - 1
          BY <1>5, <3>1
        <4> QED
          BY <1>2, <4>1
    <2> QED
      BY <2>1, <2>2
  <1>7. ASSUME NEW m \in 1..n
        PROVE  \E i \in 1..n : u[i].it.sequenceId = first + m - 1
    <2>1. PICK j \in 0..k : m = 2 * j + 1 \/ (m = 2 * j /\ j > 0)
      <3>1. m % 2 \in {0, 1} /\ m = 2 * (m \div 2) + (m % 2) /\ m \div 2 \in Int
        BY <1>2
      <3>2. PICK h \in Int : m = 2 * h \/ m = 2 * h + 1
        BY <3>1
      <3>3. h \in 0..k /\ (m = 2 * h => h > 0)
        BY <1>2, <3>2
      <3> QED
        <4>1. CASE m = 2 * h + 1
          BY <3>3, <4>1
        <4>2. CASE m = 2 * h
          BY <3>3, <4>2
        <4> QED
          BY <3>2, <4>1, <4>2
    <2>2. CASE m = 2 * j + 1
      <3>1. j + 1 \in 1..k+1 /\ j + 1 \in 1..n
        BY <1>2
      <3>2. u[j+1].it.sequenceId = first + 2 * ((j + 1) - 1)
        BY <1>5, <3>1
      <3>3. u[j+1].it.sequenceId = first + m - 1
        BY <1>2, <2>2, <3>2
      <3> QED
        BY <3>1, <3>3
    <2>3. CASE m = 2 * j /\ j > 0
      <3>1. j \in 1..k /\ (k + 1) + j \in 1..n
        BY <1>2, <2>3
      <3>2. u[(k+1)+j].it.sequenceId = first + 2 * j - 1
        BY <1>5, <3>1
      <3> QED
        BY <1>2, <2>3, <3>1, <3>2
    <2> QED
      BY <2>1, <2>2, <2>3
  <1>8. \A i \in 1..n : Rank(u, i) = u[i].it.sequenceId - first + 1
    <2> HIDE DEF n
    <2>1. \A i \in 1..n : u[i].it.sequenceId - first + 1 \in 1..n
      BY <1>6
    <2>2. \A i \in 1..n : u[i].it.sequenceId \in Int
      BY <1>6
    <2> QED
      <3>1. n \in Nat /\ DOMAIN u = 1..n /\ first \in Int
        BY <1>2, <1>4
      <3> QED
        BY ONLY <1>7, <2>1, <2>2, <3>1, SortedCounts
  <1>9. DOMAIN Sorted(u) = 1..n /\ \A i \in 1..n : Sorted(u)[Rank(u, i)] = u[i]
    <2> HIDE DEF n
    <2> QED
      BY <1>4, <1>6, SortedPermutes
  <1>10. Sequence(nodes, edges) = Sorted(u)
    BY DEF Sequence, u
  <1>11. Len(Sorted(u)) = n
    <2> HIDE DEF n
    <2> QED
      BY <1>4, <1>9
  <1>12. ASSUME NEW i \in 1..k+1
         PROVE  Sorted(u)[2 * i - 1].isNode /\ Sorted(u)[2 * i - 1].it = nodes[i]
    <2>1. i \in 1..n
      BY <1>2
    <2>2. Rank(u, i) = 2 * i - 1
      <3>1. Rank(u, i) = u[i].it.sequenceId - first + 1
        BY <1>8, <2>1
      <3>2. u[i].it.sequenceId = first + 2 * (i - 1)
        BY <1>5
      <3> QED
        BY <1>2, <3>1, <3>2
    <2> QED
      <3>1. Sorted(u)[2 * i - 1] = u[i]
        BY <1>9, <2>1, <2>2, Zenon
      <3> QED
        BY <1>3, <3>1, Zenon
  <1>13. ASSUME NEW i \in 1..k
         PROVE  ~Sorted(u)[2 * i].isNode /\ Sorted(u)[2 * i].it = edges[i]
    <2>1. (k + 1) + i \in 1..n
      BY <1>2
    <2>2. Rank(u, (k + 1) + i) = 2 * i
      <3>1. Rank(u, (k + 1) + i) = u[(k + 1) + i].it.sequenceId - first + 1
        BY <1>8, <2>1
      <3>2. u[(k + 1) + i].it.sequenceId = first + 2 * i - 1
        BY <1>5
      <3> QED
        BY <1>2, <3>1, <3>2
    <2> QED
      <3>1. Sorted(u)[2 * i] = u[(k + 1) + i]
        BY <1>9, <2>1, <2>2, Zenon
      <3> QED
        BY <1>3, <3>1, Zenon
  <1> QED
    BY <1>2, <1>9, <1>10, <1>11, <1>12, <1>13 DEF Zipped, k

\* Every number is the place of a node or of an edge.
LEMMA OddOrEven ==
    ASSUME NEW k \in Nat, NEW m \in 1 .. 2 * k + 1
    PROVE  \/ \E i \in 1..k+1 : m = 2 * i - 1 /\ m % 2 = 1
           \/ \E i \in 1..k : m = 2 * i /\ m % 2 = 0
  <1>1. m % 2 \in {0, 1} /\ m = 2 * (m \div 2) + (m % 2) /\ m \div 2 \in Int
    OBVIOUS
  <1>2. PICK h \in Int : (m = 2 * h /\ m % 2 = 0) \/ (m = 2 * h + 1 /\ m % 2 = 1)
    BY <1>1
  <1>3. CASE m = 2 * h /\ m % 2 = 0
    <2>1. h \in 1..k
      BY <1>3
    <2> QED
      BY <1>3, <2>1
  <1>4. CASE m = 2 * h + 1 /\ m % 2 = 1
    <2>1. h + 1 \in 1..k+1 /\ m = 2 * (h + 1) - 1
      BY <1>4
    <2> QED
      BY <1>4, <2>1
  <1> QED
    BY <1>2, <1>3, <1>4

\* What the walk over a chain that is released up to nodes[r] meets.
Walk(s, n, first, r) ==
    /\ DOMAIN s = 1..n /\ Len(s) = n
    /\ \A m \in 1..n :
          /\ s[m].isNode <=> m % 2 = 1
          /\ s[m].it.sequenceId = first + m - 1
          /\ s[m].it.released <=> m < 2 * r

LEMMA ChainWalk ==
    ASSUME NEW N, NEW E, NEW nodes, NEW edges, Chain(N, E, nodes, edges),
           NEW r \in DOMAIN nodes, ReleasedUpTo(nodes, edges, r)
    PROVE  Walk(Sequence(nodes, edges), 2 * Len(edges) + 1,
                nodes[1].sequenceId, r)
  <1>1. PICK s, k, first :
           s = Sequence(nodes, edges) /\ k = Len(edges)
           /\ first = nodes[1].sequenceId
    OBVIOUS
  <1>2. Zipped(s, nodes, edges)
    BY <1>1, ChainSorted
  <1>3. /\ k \in Nat /\ Len(nodes) = k + 1 /\ first \in Int
        /\ DOMAIN nodes = 1..k+1 /\ DOMAIN edges = 1..k
        /\ \A i \in 1..k+1 : nodes[i].sequenceId = first + 2 * (i - 1)
        /\ \A i \in 1..k : edges[i].sequenceId = first + 2 * i - 1
    <2>1. Counts(nodes, edges)
      BY ChainCounts
    <2> QED
      BY <1>1, <2>1 DEF Counts
  <1>4. /\ DOMAIN s = 1 .. 2 * k + 1 /\ Len(s) = 2 * k + 1
        /\ \A i \in 1..k+1 : s[2 * i - 1].isNode /\ s[2 * i - 1].it = nodes[i]
        /\ \A i \in 1..k : ~s[2 * i].isNode /\ s[2 * i].it = edges[i]
    BY <1>1, <1>2, <1>3 DEF Zipped
  <1>5. r \in 1..k+1
        /\ (\A i \in 1..k+1 : nodes[i].released <=> i <= r)
        /\ (\A i \in 1..k : edges[i].released <=> i < r)
    BY <1>3 DEF ReleasedUpTo
  <1>6. ASSUME NEW m \in 1 .. 2 * k + 1
        PROVE  /\ s[m].isNode <=> m % 2 = 1
               /\ s[m].it.sequenceId = first + m - 1
               /\ s[m].it.released <=> m < 2 * r
    <2>1. ASSUME NEW i \in 1..k+1, m = 2 * i - 1, m % 2 = 1
          PROVE  /\ s[m].isNode <=> m % 2 = 1
                 /\ s[m].it.sequenceId = first + m - 1
                 /\ s[m].it.released <=> m < 2 * r
      <3>1. s[m].isNode /\ s[m].it = nodes[i]
        BY <1>4, <2>1
      <3>2. nodes[i].sequenceId = first + 2 * (i - 1)
        BY <1>3
      <3>3. first + 2 * (i - 1) = first + m - 1 /\ (i <= r <=> m < 2 * r)
        BY <1>3, <1>5, <2>1
      <3> QED
        BY <1>5, <2>1, <3>1, <3>2, <3>3, Zenon
    <2>2. ASSUME NEW i \in 1..k, m = 2 * i, m % 2 = 0
          PROVE  /\ s[m].isNode <=> m % 2 = 1
                 /\ s[m].it.sequenceId = first + m - 1
                 /\ s[m].it.released <=> m < 2 * r
      <3>1. ~s[m].isNode /\ s[m].it = edges[i]
        BY <1>4, <2>2
      <3>2. edges[i].sequenceId = first + 2 * i - 1
        BY <1>3
      <3>3. first + 2 * i - 1 = first + m - 1 /\ (i < r <=> m < 2 * r)
            /\ ~(m % 2 = 1)
        BY <1>3, <1>5, <2>2
      <3> QED
        BY <1>5, <3>1, <3>2, <3>3, Zenon
    <2> QED
      BY <1>3, <2>1, <2>2, OddOrEven
  <1> QED
    BY <1>1, <1>4, <1>6, Zenon DEF Walk

\* The validator passes every order that is built like this, if it counts from
\* an even number.
LEMMA ChainValid ==
    ASSUME NEW N, NEW E, NEW o, Chain(N, E, o.nodes, o.edges),
           NEW r \in DOMAIN o.nodes, ReleasedUpTo(o.nodes, o.edges, r)
    PROVE  ValidateOrder(o) <=> o.nodes[1].sequenceId % 2 = 0
  <1>1. PICK s, k, first, nodes, edges :
           /\ nodes = o.nodes /\ edges = o.edges
           /\ s = Sequence(nodes, edges) /\ k = Len(edges)
           /\ first = nodes[1].sequenceId
    OBVIOUS
  <1>2. /\ k \in Nat /\ Len(nodes) = k + 1 /\ first \in Int
        /\ DOMAIN nodes = 1..k+1 /\ DOMAIN edges = 1..k
    <2>1. Counts(nodes, edges)
      BY <1>1, ChainCounts
    <2> QED
      BY <1>1, <2>1 DEF Counts
  <1>3. /\ DOMAIN s = 1 .. 2 * k + 1 /\ Len(s) = 2 * k + 1
        /\ \A m \in 1 .. 2 * k + 1 :
              /\ s[m].isNode <=> m % 2 = 1
              /\ s[m].it.sequenceId = first + m - 1
              /\ s[m].it.released <=> m < 2 * r
    <2>1. Walk(s, 2 * k + 1, first, r)
      BY <1>1, ChainWalk
    <2> QED
      BY <2>1, Zenon DEF Walk
  <1>4. /\ \A i \in 1..k+1 : s[2 * i - 1].it = nodes[i]
        /\ \A i \in 1..k : s[2 * i].it = edges[i]
    <2>1. Zipped(s, nodes, edges)
      BY <1>1, ChainSorted
    <2> QED
      BY <1>1, <1>2, <2>1 DEF Zipped
  <1>5. SequenceIdsFit(s) <=> first % 2 = 0
    <2>1. SequenceIdsFit(s) => first % 2 = 0
      <3>1. 1 \in 1 .. 2 * k + 1 /\ 1 % 2 = 1
        BY <1>2
      <3>2. s[1].isNode /\ s[1].it.sequenceId = first
        BY <1>2, <1>3, <3>1
      <3> QED
        BY <1>3, <3>1, <3>2, Zenon DEF SequenceIdsFit
    <2>2. ASSUME first % 2 = 0, NEW m \in 1 .. 2 * k + 1
          PROVE  /\ m > 1 => s[m].it.sequenceId = s[m-1].it.sequenceId + 1
                 /\ s[m].isNode <=> s[m].it.sequenceId % 2 = 0
      <3>1. m > 1 => s[m].it.sequenceId = s[m-1].it.sequenceId + 1
        <4>1. m > 1 => m - 1 \in 1 .. 2 * k + 1
          BY <1>2
        <4> QED
          BY <1>2, <1>3, <4>1
      <3>2. m % 2 = 1 <=> (first + m - 1) % 2 = 0
        BY <1>2, <2>2
      <3> QED
        BY <1>3, <3>1, <3>2
    <2> QED
      BY <1>3, <2>1, <2>2 DEF SequenceIdsFit
  <1>6. ReleasedFirst(s)
    <2>1. ASSUME NEW i \in 1 .. 2 * k + 1, NEW j \in 1 .. 2 * k + 1, i < j,
                 j < 2 * r
          PROVE  i < 2 * r
      <3>1. r \in Int
        BY <1>1, <1>2
      <3> QED
        BY <1>2, <2>1, <3>1
    <2> QED
      BY <1>3, <2>1 DEF ReleasedFirst
  <1>7. Alternates(s)
    <2>1. ASSUME NEW i \in 1 .. 2 * k + 1
          PROVE  /\ i \in {1, 2 * k + 1} => i % 2 = 1
                 /\ i > 1 => i - 1 \in 1 .. 2 * k + 1
                             /\ ~(i % 2 = 1 /\ (i - 1) % 2 = 1)
      BY <1>2
    <2>2. ASSUME NEW i \in 1 .. 2 * k + 1, i > 1
          PROVE  ~(s[i].isNode /\ s[i-1].isNode)
      BY <1>3, <2>1, <2>2
    <2>3. ASSUME NEW i \in 1 .. 2 * k + 1, i \in {1, 2 * k + 1}
          PROVE  s[i].isNode
      BY <1>3, <2>1, <2>3
    <2> QED
      BY <1>3, <2>2, <2>3 DEF Alternates
  <1>8. EdgesJoin(s)
    <2>1. ASSUME NEW m \in 1 .. 2 * k + 1, ~s[m].isNode
          PROVE  /\ m > 1 /\ m < 2 * k + 1
                 /\ s[m-1].isNode /\ s[m-1].it.nodeId = s[m].it.startNodeId
                 /\ s[m+1].isNode /\ s[m+1].it.nodeId = s[m].it.endNodeId
                 /\ s[m].it.released => s[m-1].it.released /\ s[m+1].it.released
      <3>1. PICK i \in 1..k : m = 2 * i
        BY <1>2, <1>3, <2>1, OddOrEven
      <3>2. /\ m - 1 = 2 * i - 1 /\ m + 1 = 2 * (i + 1) - 1
            /\ i \in 1..k+1 /\ i + 1 \in 1..k+1
            /\ m - 1 \in 1 .. 2 * k + 1 /\ m + 1 \in 1 .. 2 * k + 1
            /\ (m - 1) % 2 = 1 /\ (m + 1) % 2 = 1
            /\ m > 1 /\ m < 2 * k + 1
        BY <1>2, <3>1
      <3>3. s[m-1].isNode /\ s[m+1].isNode
        BY <1>3, <3>2
      <3>4. s[m-1].it = nodes[i] /\ s[m+1].it = nodes[i+1] /\ s[m].it = edges[i]
        BY <1>4, <3>1, <3>2
      <3>5. nodes[i].nodeId = edges[i].startNodeId
            /\ nodes[i+1].nodeId = edges[i].endNodeId
        BY <1>1, <1>2 DEF Chain, Paired
      <3>6. m < 2 * r => m - 1 < 2 * r /\ m + 1 < 2 * r
        <4>1. r \in Int
          BY <1>1, <1>2
        <4> QED
          BY <1>2, <3>1, <4>1
      <3>7. s[m].it.released => s[m-1].it.released /\ s[m+1].it.released
        BY <1>3, <3>2, <3>6
      <3> QED
        BY <3>2, <3>3, <3>4, <3>5, <3>7, Zenon
    <2> QED
      BY <1>3, <2>1 DEF EdgesJoin
  <1>9. ValidateOrder(o) <=>
           SequenceIdsFit(s) /\ ReleasedFirst(s) /\ Alternates(s) /\ EdgesJoin(s)
    BY <1>1, Zenon DEF ValidateOrder, SortedSequences, Sequence
  <1> QED
    BY <1>1, <1>5, <1>6, <1>7, <1>8, <1>9, Zenon

-----------------------------------------------------------------------------
(* ValidateOrder against the rules.                                        *)

\* What the walk meets: every element, and nothing else.
Walked(s, nodes, edges, n) ==
    /\ DOMAIN s = 1..n /\ Len(s) = n
    /\ \A x \in Elements(nodes) : \E m \in 1..n : s[m].isNode /\ s[m].it = x
    /\ \A x \in Elements(edges) : \E m \in 1..n : ~s[m].isNode /\ s[m].it = x
    /\ \A m \in 1..n : /\ s[m].isNode => s[m].it \in Elements(nodes)
                       /\ ~s[m].isNode => s[m].it \in Elements(edges)

\* The elements before they are sorted.
Laid(u, nodes, edges, a, b) ==
    /\ a \in Nat /\ b \in Nat /\ DOMAIN u = 1..a+b
    /\ DOMAIN nodes = 1..a /\ DOMAIN edges = 1..b
    /\ \A i \in 1..a : u[i].isNode /\ u[i].it = nodes[i]
    /\ \A i \in 1..b : ~u[a+i].isNode /\ u[a+i].it = edges[i]
    /\ \A i \in 1..a+b : u[i].it.sequenceId \in Int
    /\ \A i \in 1..a+b : u[i].isNode <=> i <= a

LEMMA DecodedTogether ==
    ASSUME NEW o, Decoded(o)
    PROVE  Laid(Together(o.nodes, o.edges), o.nodes, o.edges, Len(o.nodes),
                Len(o.edges))
  <1>0. PICK nodes, edges : nodes = o.nodes /\ edges = o.edges
    OBVIOUS
  <1>1. PICK u, a, b :
           a = Len(nodes) /\ b = Len(edges) /\ u = Together(nodes, edges)
    OBVIOUS
  <1>2. /\ nodes \in Seq(Elements(nodes)) /\ edges \in Seq(Elements(edges))
        /\ \A x \in Elements(nodes) \union Elements(edges) : x.sequenceId \in Int
    BY <1>0, Zenon DEF Decoded
  <1>3. /\ a \in Nat /\ b \in Nat /\ DOMAIN nodes = 1..a /\ DOMAIN edges = 1..b
    BY <1>1, <1>2
  <1>4. /\ DOMAIN u = 1..a+b
        /\ \A i \in 1..a : u[i].isNode /\ u[i].it = nodes[i]
        /\ \A i \in 1..b : ~u[a+i].isNode /\ u[a+i].it = edges[i]
    <2> DEFINE v == Together(nodes, edges)
    <2>1. /\ DOMAIN v = 1..Len(nodes) + Len(edges)
          /\ \A i \in 1..Len(nodes) : v[i].isNode /\ v[i].it = nodes[i]
          /\ \A i \in 1..Len(edges) :
                ~v[Len(nodes) + i].isNode /\ v[Len(nodes) + i].it = edges[i]
      BY <1>2, TogetherShape
    <2>2. u = v
      BY <1>1
    <2> HIDE DEF v
    <2> QED
      BY <1>1, <2>1, <2>2, Zenon
  <1>5. ASSUME NEW i \in 1..a+b
        PROVE  u[i].it.sequenceId \in Int /\ (u[i].isNode <=> i <= a)
    <2>1. CASE i <= a
      <3>1. i \in 1..a
        BY <1>3, <2>1
      <3>2. nodes[i] \in Elements(nodes)
        BY <1>3, <3>1 DEF Elements
      <3> QED
        BY <1>2, <1>4, <2>1, <3>1, <3>2
    <2>2. CASE ~(i <= a)
      <3>1. PICK j \in 1..b : i = a + j
        <4>1. i - a \in 1..b /\ i = a + (i - a)
          BY <1>3, <2>2
        <4> QED
          BY <4>1
      <3>2. edges[j] \in Elements(edges)
        BY <1>3, <3>1 DEF Elements
      <3> QED
        BY <1>2, <1>4, <2>2, <3>1, <3>2
    <2> QED
      BY <2>1, <2>2
  <1>6. Laid(u, nodes, edges, a, b)
    BY <1>3, <1>4, <1>5 DEF Laid
  <1> QED
    BY <1>0, <1>1, <1>6, Zenon

LEMMA SequenceWalked ==
    ASSUME NEW o, Decoded(o)
    PROVE  Walked(Sequence(o.nodes, o.edges), o.nodes, o.edges,
                  Len(o.nodes) + Len(o.edges))
  <1>0. PICK nodes, edges : nodes = o.nodes /\ edges = o.edges
    OBVIOUS
  <1>1. PICK u, a, b, n, s :
           /\ a = Len(nodes) /\ b = Len(edges) /\ n = a + b
           /\ u = Together(nodes, edges) /\ s = Sorted(u)
    OBVIOUS
  <1>2. /\ a \in Nat /\ b \in Nat /\ n \in Nat /\ DOMAIN u = 1..n
        /\ \A i \in 1..a : u[i].isNode /\ u[i].it = nodes[i]
        /\ \A i \in 1..b : ~u[a+i].isNode /\ u[a+i].it = edges[i]
        /\ \A i \in 1..n : u[i].it.sequenceId \in Int
        /\ DOMAIN nodes = 1..a /\ DOMAIN edges = 1..b
    <2>1. Laid(u, nodes, edges, a, b)
      BY <1>0, <1>1, DecodedTogether, Zenon
    <2>2. n \in Nat
      BY <1>1, <2>1 DEF Laid
    <2> QED
      BY <1>1, <2>1, <2>2, Zenon DEF Laid
  <1>3. /\ DOMAIN s = 1..n
        /\ \A i \in 1..n : Rank(u, i) \in 1..n /\ s[Rank(u, i)] = u[i]
        /\ \A m \in 1..n : \E i \in 1..n : s[m] = u[i]
    <2>1. /\ DOMAIN s = 1..n
          /\ \A i \in 1..n : s[Rank(u, i)] = u[i]
          /\ \A m \in 1..n : \E i \in 1..n : Rank(u, i) = m /\ s[m] = u[i]
      <3>1. /\ DOMAIN Sorted(u) = 1..n
            /\ \A i \in 1..n : Sorted(u)[Rank(u, i)] = u[i]
            /\ \A m \in 1..n : \E i \in 1..n : Rank(u, i) = m /\ Sorted(u)[m] = u[i]
        <4>1. n \in Nat /\ DOMAIN u = 1..n /\ \A i \in 1..n : u[i].it.sequenceId \in Int
          BY <1>2
        <4> QED
          BY ONLY <4>1, SortedPermutes
      <3> QED
        BY <1>1, <3>1, Zenon
    <2>2. \A i \in 1..n : Rank(u, i) \in 1..n
      BY <1>2, RankIsPlace
    <2> QED
      BY <2>1, <2>2
  <1>4. Len(s) = n
    BY <1>2, <1>3
  <1>5. ASSUME NEW x \in Elements(nodes)
        PROVE  \E m \in 1..n : s[m].isNode /\ s[m].it = x
    <2>1. PICK i \in 1..a : x = nodes[i]
      BY <1>2 DEF Elements
    <2>2. i \in 1..n
      BY <1>1, <1>2
    <2>3. Rank(u, i) \in 1..n /\ s[Rank(u, i)] = u[i]
      BY <1>3, <2>2, Zenon
    <2>4. s[Rank(u, i)].isNode /\ s[Rank(u, i)].it = x
      BY <1>2, <2>1, <2>3, Zenon
    <2> QED
      BY <2>3, <2>4, Zenon
  <1>6. ASSUME NEW x \in Elements(edges)
        PROVE  \E m \in 1..n : ~s[m].isNode /\ s[m].it = x
    <2>1. PICK i \in 1..b : x = edges[i]
      BY <1>2 DEF Elements
    <2>2. a + i \in 1..n
      BY <1>1, <1>2
    <2>3. Rank(u, a+i) \in 1..n /\ s[Rank(u, a+i)] = u[a+i]
      BY <1>3, <2>2, Zenon
    <2>4. ~s[Rank(u, a+i)].isNode /\ s[Rank(u, a+i)].it = x
      BY <1>2, <2>1, <2>3, Zenon
    <2> QED
      BY <2>3, <2>4, Zenon
  <1>7. ASSUME NEW m \in 1..n
        PROVE  /\ s[m].isNode => s[m].it \in Elements(nodes)
               /\ ~s[m].isNode => s[m].it \in Elements(edges)
    <2>1. PICK i \in 1..n : s[m] = u[i]
      BY <1>3
    <2>2. CASE i \in 1..a
      <3>1. nodes[i] \in Elements(nodes)
        BY <1>2, <2>2, Zenon DEF Elements
      <3> QED
        BY <1>2, <2>1, <2>2, <3>1, Zenon
    <2>3. CASE i \notin 1..a
      <3>1. PICK j \in 1..b : i = a + j
        <4>1. i - a \in 1..b /\ i = a + (i - a)
          BY <1>1, <1>2, <2>3
        <4> QED
          BY <4>1
      <3>2. edges[j] \in Elements(edges)
        BY <1>2, <3>1, Zenon DEF Elements
      <3> QED
        BY <1>2, <2>1, <3>1, <3>2, Zenon
    <2> QED
      BY <2>2, <2>3
  <1>8. Walked(s, nodes, edges, n)
    BY <1>3, <1>4, <1>5, <1>6, <1>7, Zenon DEF Walked
  <1>9. s = Sequence(nodes, edges)
    BY <1>1, Zenon DEF Sequence
  <1> QED
    BY <1>0, <1>1, <1>8, <1>9, Zenon

\* The walk of an order with k edges that alternates from first on.
Alternating(s, k, first) ==
    /\ DOMAIN s = 1 .. 2 * k + 1 /\ Len(s) = 2 * k + 1
    /\ \A m \in 1 .. 2 * k + 1 :
          /\ s[m].isNode <=> m % 2 = 1
          /\ s[m].it.sequenceId = first + m - 1

\* As many nodes as odd places.
LEMMA NodesCount ==
    ASSUME NEW o, Decoded(o), NEW k \in Nat, NEW first,
           Len(o.nodes) + Len(o.edges) = 2 * k + 1,
           Alternating(Sequence(o.nodes, o.edges), k, first)
    PROVE  Len(o.nodes) = k + 1 /\ Len(o.edges) = k
  <1>0. PICK nodes, edges : nodes = o.nodes /\ edges = o.edges
    OBVIOUS
  <1>1. PICK u, a, b, n, s :
           /\ a = Len(nodes) /\ b = Len(edges) /\ n = 2 * k + 1
           /\ u = Together(nodes, edges) /\ s = Sorted(u)
    OBVIOUS
  <1>2. /\ a \in Nat /\ b \in Nat /\ n \in Nat /\ n = a + b /\ DOMAIN u = 1..n
        /\ \A i \in 1..n : u[i].it.sequenceId \in Int
        /\ \A i \in 1..n : u[i].isNode <=> i <= a
    <2>1. Laid(u, nodes, edges, a, b)
      BY <1>0, <1>1, DecodedTogether, Zenon
    <2>2. n = a + b
      BY <1>0, <1>1, Zenon
    <2>3. n \in Nat
      BY <1>1
    <2> QED
      BY <2>1, <2>2, <2>3, Zenon DEF Laid
  <1>3. \A m \in 1..n : s[m].isNode <=> m % 2 = 1
    <2>1. Alternating(s, k, first)
      BY <1>0, <1>1, Zenon DEF Sequence
    <2> QED
      BY <1>1, <2>1, Zenon DEF Alternating
  <1>4. /\ \A i \in 1..n : Rank(u, i) \in 1..n
        /\ \A i, j \in 1..n : Rank(u, i) = Rank(u, j) => i = j
        /\ \A m \in 1..n : \E i \in 1..n : Rank(u, i) = m
    BY <1>2, RankIsPlace
  <1>5. \A i \in 1..n : s[Rank(u, i)] = u[i]
    <2>1. \A i \in 1..n : Sorted(u)[Rank(u, i)] = u[i]
      BY <1>2, SortedPermutes
    <2> QED
      BY <1>1, <2>1, Zenon
  <1>6. \A i \in 1..n : i <= a <=> Rank(u, i) % 2 = 1
    BY <1>2, <1>3, <1>4, <1>5, Zenon
  <1> DEFINE half == [i \in 1..a |-> (Rank(u, i) + 1) \div 2]
  <1>7. ASSUME NEW i \in 1..a
        PROVE  half[i] \in 1..k+1 /\ Rank(u, i) = 2 * half[i] - 1
    <2>1. i \in 1..n /\ i <= a
      BY <1>2
    <2>2. PICK r \in 1..n : r = Rank(u, i) /\ r % 2 = 1
      BY <1>4, <1>6, <2>1
    <2>3. half[i] = (r + 1) \div 2
      BY <2>2
    <2> HIDE DEF half
    <2>4. r % 2 = 1 /\ r = 2 * (r \div 2) + (r % 2) /\ r \div 2 \in Int
      BY <2>2
    <2>5. PICK h \in Int : r = 2 * h + 1
      BY <2>4
    <2>6. half[i] = h + 1
      <3>1. (2 * (h + 1)) \div 2 = h + 1
        OBVIOUS
      <3> QED
        BY <2>3, <2>5, <3>1
    <2>7. h \in 0..k
      BY <1>1, <2>2, <2>5
    <2> QED
      BY <2>2, <2>5, <2>6, <2>7
  <1>8. half \in [1..a -> 1..k+1]
    BY <1>7
  <1>9. \A i, j \in 1..a : half[i] = half[j] => i = j
    <2> SUFFICES ASSUME NEW i \in 1..a, NEW j \in 1..a, half[i] = half[j]
                 PROVE  i = j
      OBVIOUS
    <2> HIDE DEF half
    <2>1. Rank(u, i) = Rank(u, j)
      BY <1>7
    <2> QED
      BY <1>2, <1>4, <2>1
  <1>10. ASSUME NEW h \in 1..k+1 PROVE \E i \in 1..a : half[i] = h
    <2>1. 2 * h - 1 \in 1..n /\ (2 * h - 1) % 2 = 1
      BY <1>1
    <2>2. PICK i \in 1..n : Rank(u, i) = 2 * h - 1
      BY <1>4, <2>1
    <2>3. i \in 1..a
      BY <1>2, <1>6, <2>1, <2>2
    <2>4. half[i] \in 1..k+1 /\ 2 * h - 1 = 2 * half[i] - 1
      BY <1>7, <2>2, <2>3
    <2> HIDE DEF half
    <2>5. half[i] = h
      BY <2>4
    <2> QED
      BY <2>3, <2>5
  <1> HIDE DEF half
  <1>11. half \in Bijection(1..a, 1..k+1)
    BY <1>8, <1>9, <1>10, Zenon DEF Bijection, Injection, Surjection, IsInjective
  <1>12. Cardinality(1..a) = Cardinality(1..k+1)
    <2>1. IsFiniteSet(1..a)
      BY <1>2, FiniteInterval
    <2>2. ExistsBijection(1..a, 1..k+1)
      BY <1>11 DEF ExistsBijection
    <2> QED
      BY <2>1, <2>2, FS_Bijection
  <1>13. Cardinality(1..a) = a /\ Cardinality(1..k+1) = k + 1
    <2>1. k + 1 \in Nat
      OBVIOUS
    <2> QED
      BY <1>2, <2>1, FiniteInterval
  <1>14. a = k + 1 /\ b = k
    BY <1>1, <1>2, <1>12, <1>13
  <1> QED
    BY <1>0, <1>1, <1>14, Zenon

\* An order that passes the first two tests of the walk alternates.
LEMMA FitAlternates ==
    ASSUME NEW s, NEW n \in Nat \ {0}, DOMAIN s = 1..n, Len(s) = n,
           \A m \in 1..n : s[m].it.sequenceId \in Int,
           SequenceIdsFit(s), Alternates(s)
    PROVE  \E k \in Nat : n = 2 * k + 1
              /\ Alternating(s, k, s[1].it.sequenceId)
              /\ s[1].it.sequenceId % 2 = 0 /\ s[1].isNode
  <1> DEFINE id == [m \in 1..n |-> s[m].it.sequenceId]
  <1>1. id \in [1..n -> Int] /\ \A m \in 1..n : id[m] = s[m].it.sequenceId
    OBVIOUS
  <1>2. \A m \in 1..n : m > 1 => m - 1 \in 1..n /\ id[m] = id[m-1] + 1
    <2> SUFFICES ASSUME NEW m \in 1..n, m > 1
                 PROVE  m - 1 \in 1..n /\ id[m] = id[m-1] + 1
      OBVIOUS
    <2>1. m - 1 \in 1..n
      OBVIOUS
    <2>2. s[m].it.sequenceId = s[m-1].it.sequenceId + 1
      BY DEF SequenceIdsFit
    <2> QED
      BY <2>1, <2>2
  <1> HIDE DEF id
  <1> DEFINE first == id[1]
             G == {m \in Nat : m \in 1..n => id[m] = first + m - 1}
  <1>3. 0..n \subseteq G
    <2>1. 0 \in G
      OBVIOUS
    <2>2. ASSUME NEW m \in 1..n, m - 1 \in G PROVE m \in G
      <3>1. CASE m = 1
        BY <1>1, <3>1
      <3>2. CASE m > 1
        <4>1. m - 1 \in 1..n /\ id[m] = id[m-1] + 1 /\ id[m-1] = first + (m - 1) - 1
          BY <1>2, <2>2, <3>2
        <4>2. first \in Int
          BY <1>1
        <4>3. id[m] = first + m - 1
          BY <4>1, <4>2
        <4> QED
          BY <4>3
      <3> QED
        BY <3>1, <3>2
    <2> HIDE DEF G
    <2> QED
      BY <2>1, <2>2, Induction
  <1>4. \A m \in 1..n : id[m] = first + m - 1
    BY <1>3
  <1>5. first \in Int /\ first = s[1].it.sequenceId
    BY <1>1
  <1> HIDE DEF G, first
  <1>6. \A m \in 1..n : s[m].isNode <=> id[m] % 2 = 0
    BY <1>1, Zenon DEF SequenceIdsFit
  <1>7. 1 \in 1..n /\ n \in 1..n
    OBVIOUS
  <1>8. s[1].isNode /\ s[n].isNode
    BY <1>7, Zenon DEF Alternates
  <1>9. first % 2 = 0
    <2>1. id[1] = first
      BY <1>4, <1>5, <1>7
    <2> QED
      BY <1>6, <1>7, <1>8, <2>1, Zenon
  <1>10. n % 2 = 1
    <2>1. id[n] % 2 = 0 /\ id[n] = first + n - 1
      BY <1>4, <1>6, <1>7, <1>8, Zenon
    <2>2. (first + n - 1) % 2 = 0
      BY <2>1, Zenon
    <2> QED
      BY <1>5, <1>9, <2>2
  <1>11. PICK k \in Nat : n = 2 * k + 1
    <2>1. n % 2 = 1 /\ n = 2 * (n \div 2) + (n % 2) /\ n \div 2 \in Int
      BY <1>10
    <2>2. PICK k \in Int : n = 2 * k + 1
      BY <2>1
    <2> QED
      BY <2>2
  <1>12. ASSUME NEW m \in 1..n
         PROVE  /\ s[m].isNode <=> m % 2 = 1
                /\ s[m].it.sequenceId = first + m - 1
    <2>1. s[m].it.sequenceId = first + m - 1 /\ id[m] = first + m - 1
      BY <1>1, <1>4, Zenon
    <2>2. (first + m - 1) % 2 = 0 <=> m % 2 = 1
      <3>1. first = 2 * (first \div 2) + (first % 2) /\ first \div 2 \in Int
        BY <1>5
      <3>2. PICK h \in Int : first = 2 * h
        BY <1>9, <3>1
      <3>3. m \in Int
        OBVIOUS
      <3> QED
        BY <3>2, <3>3
    <2> QED
      BY <1>6, <2>1, <2>2, Zenon
  <1>13. Alternating(s, k, first)
    BY <1>11, <1>12, Zenon DEF Alternating
  <1> QED
    BY <1>5, <1>8, <1>9, <1>11, <1>13, Zenon

\* Which is what the rules say of the sequenceIds.
LEMMA AlternatingNumbered ==
    ASSUME NEW o, Decoded(o), NEW k \in Nat, NEW first \in Int,
           Len(o.nodes) = k + 1, Len(o.edges) = k,
           Alternating(Sequence(o.nodes, o.edges), k, first)
    PROVE  Numbered(o, first)
  <1>0. PICK nodes, edges, s : nodes = o.nodes /\ edges = o.edges
                               /\ s = Sequence(nodes, edges)
    OBVIOUS
  <1> DEFINE n == 2 * k + 1
  <1>1. /\ \A x \in Elements(nodes) : \E m \in 1..n : s[m].isNode /\ s[m].it = x
        /\ \A x \in Elements(edges) : \E m \in 1..n : ~s[m].isNode /\ s[m].it = x
        /\ \A m \in 1..n : /\ s[m].isNode => s[m].it \in Elements(nodes)
                           /\ ~s[m].isNode => s[m].it \in Elements(edges)
    <2>1. Walked(s, nodes, edges, Len(nodes) + Len(edges))
      BY <1>0, SequenceWalked, Zenon
    <2>2. Len(nodes) = k + 1 /\ Len(edges) = k
      BY <1>0, Zenon
    <2>3. Len(nodes) + Len(edges) = n
      BY <2>2
    <2> HIDE DEF n
    <2> QED
      BY <2>1, <2>3, Zenon DEF Walked
  <1>2. \A m \in 1..n : /\ s[m].isNode <=> m % 2 = 1
                        /\ s[m].it.sequenceId = first + m - 1
    BY <1>0, Zenon DEF Alternating
  <1>3. ASSUME NEW x \in Elements(nodes)
        PROVE  x.sequenceId \in {first + 2 * j : j \in 0..k}
    <2>0. PICK m \in 1..n : s[m].isNode /\ s[m].it = x
      BY <1>1
    <2>1. m % 2 = 1 /\ x.sequenceId = first + m - 1
      BY <1>2, <2>0, Zenon
    <2>2. PICK i \in 1..k+1 : m = 2 * i - 1
      <3>1. \/ \E i \in 1..k+1 : m = 2 * i - 1 /\ m % 2 = 1
            \/ \E i \in 1..k : m = 2 * i /\ m % 2 = 0
        BY OddOrEven
      <3> QED
        BY <2>1, <3>1
    <2>3. i - 1 \in 0..k /\ first + m - 1 = first + 2 * (i - 1)
      BY <2>2
    <2> QED
      BY <2>1, <2>3
  <1>4. ASSUME NEW x \in Elements(edges)
        PROVE  x.sequenceId \in {first + 2 * j - 1 : j \in 1..k}
    <2>0. PICK m \in 1..n : ~s[m].isNode /\ s[m].it = x
      BY <1>1
    <2>1. ~(m % 2 = 1) /\ x.sequenceId = first + m - 1
      BY <1>2, <2>0, Zenon
    <2>2. PICK i \in 1..k : m = 2 * i
      <3>1. \/ \E i \in 1..k+1 : m = 2 * i - 1 /\ m % 2 = 1
            \/ \E i \in 1..k : m = 2 * i /\ m % 2 = 0
        BY OddOrEven
      <3> QED
        BY <2>1, <3>1
    <2> QED
      BY <2>1, <2>2
  <1>5. ASSUME NEW j \in 0..k
        PROVE  \E x \in Elements(nodes) : x.sequenceId = first + 2 * j
    <2>1. 2 * j + 1 \in 1..n /\ (2 * j + 1) % 2 = 1
          /\ first + (2 * j + 1) - 1 = first + 2 * j
      OBVIOUS
    <2> HIDE DEF n
    <2>2. s[2 * j + 1].it \in Elements(nodes)
          /\ s[2 * j + 1].it.sequenceId = first + 2 * j
      BY <1>1, <1>2, <2>1, Zenon
    <2> QED
      BY <2>2, Zenon
  <1>6. ASSUME NEW j \in 1..k
        PROVE  \E x \in Elements(edges) : x.sequenceId = first + 2 * j - 1
    <2>1. 2 * j \in 1..n /\ ~((2 * j) % 2 = 1)
      OBVIOUS
    <2> HIDE DEF n
    <2>2. s[2 * j].it \in Elements(edges)
          /\ s[2 * j].it.sequenceId = first + 2 * j - 1
      BY <1>1, <1>2, <2>1, Zenon
    <2> QED
      BY <2>2, Zenon
  <1>7. {x.sequenceId : x \in Elements(nodes)} = {first + 2 * j : j \in 0..k}
    BY <1>3, <1>5
  <1>8. {x.sequenceId : x \in Elements(edges)} = {first + 2 * j - 1 : j \in 1..k}
    BY <1>4, <1>6
  <1>9. Len(nodes) = Len(edges) + 1 /\ Len(edges) = k
    BY <1>0
  <1> QED
    BY <1>0, <1>7, <1>8, <1>9, Zenon DEF Numbered

\* Conversely, sequenceIds that follow the rules tell the places.
LEMMA NumberedAlternates ==
    ASSUME NEW o, Decoded(o), NEW first \in Int, Numbered(o, first)
    PROVE  \E k \in Nat :
              /\ Len(o.nodes) = k + 1 /\ Len(o.edges) = k
              /\ Alternating(Sequence(o.nodes, o.edges), k, first)
  <1>0. PICK nodes, edges : nodes = o.nodes /\ edges = o.edges
    OBVIOUS
  <1>1. PICK u, a, k, n, s :
           /\ a = Len(nodes) /\ k = Len(edges) /\ n = 2 * k + 1
           /\ u = Together(nodes, edges) /\ s = Sorted(u)
    OBVIOUS
  <1>2. /\ a = k + 1
        /\ {x.sequenceId : x \in Elements(nodes)} = {first + 2 * j : j \in 0..k}
        /\ {x.sequenceId : x \in Elements(edges)} = {first + 2 * j - 1 : j \in 1..k}
    BY <1>0, <1>1, Zenon DEF Numbered
  <1>3. Laid(u, nodes, edges, a, k)
    BY <1>0, <1>1, DecodedTogether, Zenon
  <1>4. /\ k \in Nat /\ n \in Nat /\ a = k + 1 /\ a + k = n
    <2>1. k \in Nat
      BY <1>3 DEF Laid
    <2>2. a = k + 1 /\ n = 2 * k + 1
      BY <1>1, <1>2
    <2> QED
      BY <2>1, <2>2
  <1>5. /\ DOMAIN u = 1..n /\ DOMAIN nodes = 1..a /\ DOMAIN edges = 1..k
        /\ \A i \in 1..a : u[i].isNode /\ u[i].it = nodes[i]
        /\ \A i \in 1..k : ~u[a+i].isNode /\ u[a+i].it = edges[i]
        /\ \A i \in 1..n : u[i].it.sequenceId \in Int
        /\ \A i \in 1..n : u[i].isNode <=> i <= a
    BY <1>3, <1>4, Zenon DEF Laid
  <1>6. ASSUME NEW i \in 1..a
        PROVE  \E j \in 0..k : u[i].it.sequenceId = first + 2 * j
    <2>1. nodes[i] \in Elements(nodes)
      BY <1>5, Zenon DEF Elements
    <2>2. nodes[i].sequenceId \in {x.sequenceId : x \in Elements(nodes)}
      BY <2>1
    <2>3. PICK j \in 0..k : nodes[i].sequenceId = first + 2 * j
      BY <1>2, <2>2
    <2> QED
      BY <1>5, <2>3, Zenon
  <1>7. ASSUME NEW i \in 1..k
        PROVE  \E j \in 1..k : u[a+i].it.sequenceId = first + 2 * j - 1
    <2>1. edges[i] \in Elements(edges)
      BY <1>5, Zenon DEF Elements
    <2>2. edges[i].sequenceId \in {x.sequenceId : x \in Elements(edges)}
      BY <2>1
    <2>3. PICK j \in 1..k : edges[i].sequenceId = first + 2 * j - 1
      BY <1>2, <2>2
    <2> QED
      BY <1>5, <2>3, Zenon
  <1>8. ASSUME NEW i \in 1..n
        PROVE  /\ u[i].it.sequenceId - first + 1 \in 1..n
               /\ u[i].isNode <=> (u[i].it.sequenceId - first + 1) % 2 = 1
    <2>1. CASE i <= a
      <3>1. i \in 1..a
        BY <1>4, <2>1
      <3>2. PICK j \in 0..k : u[i].it.sequenceId = first + 2 * j
        BY <1>6, <3>1
      <3>3. (first + 2 * j) - first + 1 \in 1..n
            /\ ((first + 2 * j) - first + 1) % 2 = 1
        BY <1>1, <1>4
      <3> QED
        BY <1>5, <2>1, <3>2, <3>3, Zenon
    <2>2. CASE ~(i <= a)
      <3>1. i - a \in 1..k /\ i = a + (i - a)
        BY <1>4, <2>2
      <3>2. PICK j \in 1..k : u[i].it.sequenceId = first + 2 * j - 1
        BY <1>7, <3>1
      <3>3. (first + 2 * j - 1) - first + 1 \in 1..n
            /\ ~(((first + 2 * j - 1) - first + 1) % 2 = 1)
        BY <1>1, <1>4
      <3> QED
        BY <1>5, <2>2, <3>2, <3>3, Zenon
    <2> QED
      BY <2>1, <2>2
  <1>9. ASSUME NEW m \in 1..n
        PROVE  \E i \in 1..n : u[i].it.sequenceId = first + m - 1
    <2>1. \/ \E i \in 1..k+1 : m = 2 * i - 1 /\ m % 2 = 1
          \/ \E i \in 1..k : m = 2 * i /\ m % 2 = 0
      BY <1>1, <1>4, OddOrEven
    <2>2. ASSUME NEW j \in 1..k+1, m = 2 * j - 1
          PROVE  \E i \in 1..n : u[i].it.sequenceId = first + m - 1
      <3>1. j - 1 \in 0..k /\ first + m - 1 = first + 2 * (j - 1)
        BY <1>4, <2>2
      <3>2. first + m - 1 \in {x.sequenceId : x \in Elements(nodes)}
        BY <1>2, <3>1
      <3>3. PICK i \in 1..a : nodes[i].sequenceId = first + m - 1
        BY <1>5, <3>2 DEF Elements
      <3>4. i \in 1..n
        BY <1>1, <1>4
      <3> QED
        BY <1>5, <3>3, <3>4, Zenon
    <2>3. ASSUME NEW j \in 1..k, m = 2 * j
          PROVE  \E i \in 1..n : u[i].it.sequenceId = first + m - 1
      <3>1. first + m - 1 = first + 2 * j - 1
        BY <1>4, <2>3
      <3>2. first + m - 1 \in {x.sequenceId : x \in Elements(edges)}
        BY <1>2, <3>1
      <3>3. PICK i \in 1..k : edges[i].sequenceId = first + m - 1
        BY <1>5, <3>2 DEF Elements
      <3>4. a + i \in 1..n
        BY <1>1, <1>4
      <3> QED
        BY <1>5, <3>3, <3>4, Zenon
    <2> QED
      BY <2>1, <2>2, <2>3
  <1>10. \A i \in 1..n : Rank(u, i) = u[i].it.sequenceId - first + 1
    <2>1. \A i \in 1..n : u[i].it.sequenceId - first + 1 \in 1..n
      BY <1>8
    <2>2. n \in Nat /\ DOMAIN u = 1..n /\ first \in Int
          /\ \A i \in 1..n : u[i].it.sequenceId \in Int
      BY <1>4, <1>5
    <2> QED
      BY ONLY <1>9, <2>1, <2>2, SortedCounts
  <1>11. /\ DOMAIN s = 1..n
         /\ \A m \in 1..n : \E i \in 1..n : Rank(u, i) = m /\ s[m] = u[i]
    <2>1. n \in Nat /\ DOMAIN u = 1..n /\ \A i \in 1..n : u[i].it.sequenceId \in Int
      BY <1>4, <1>5
    <2>2. /\ DOMAIN Sorted(u) = 1..n
          /\ \A m \in 1..n : \E i \in 1..n : Rank(u, i) = m /\ Sorted(u)[m] = u[i]
      BY ONLY <2>1, SortedPermutes
    <2> QED
      BY <1>1, <2>2, Zenon
  <1>12. Len(s) = n
    BY <1>4, <1>11
  <1>13. ASSUME NEW m \in 1..n
         PROVE  /\ s[m].isNode <=> m % 2 = 1
                /\ s[m].it.sequenceId = first + m - 1
    <2>1. PICK i \in 1..n : Rank(u, i) = m /\ s[m] = u[i]
      BY <1>11
    <2>2. PICK q \in Int : q = u[i].it.sequenceId
      BY <1>5
    <2>3. m = q - first + 1
      BY <1>10, <2>1, <2>2, Zenon
    <2>4. q = first + m - 1
      BY <2>3
    <2> QED
      BY <1>8, <2>1, <2>2, <2>3, <2>4, Zenon
  <1>14. Alternating(s, k, first)
    BY <1>1, <1>11, <1>12, <1>13, Zenon DEF Alternating
  <1>15. s = Sequence(nodes, edges)
    BY <1>1, Zenon DEF Sequence
  <1> QED
    BY <1>0, <1>1, <1>4, <1>14, <1>15, Zenon

LEMMA AlternatingFits ==
    ASSUME NEW s, NEW k \in Nat, NEW first \in Int, first % 2 = 0,
           Alternating(s, k, first)
    PROVE  SequenceIdsFit(s) /\ Alternates(s)
  <1>1. /\ DOMAIN s = 1 .. 2 * k + 1 /\ Len(s) = 2 * k + 1
        /\ \A m \in 1 .. 2 * k + 1 :
              /\ s[m].isNode <=> m % 2 = 1
              /\ s[m].it.sequenceId = first + m - 1
    BY Zenon DEF Alternating
  <1>2. ASSUME NEW m \in 1 .. 2 * k + 1
        PROVE  /\ m > 1 => s[m].it.sequenceId = s[m-1].it.sequenceId + 1
               /\ s[m].isNode <=> s[m].it.sequenceId % 2 = 0
    <2>1. m > 1 => s[m].it.sequenceId = s[m-1].it.sequenceId + 1
      <3>1. m > 1 => m - 1 \in 1 .. 2 * k + 1
        OBVIOUS
      <3> QED
        BY <1>1, <3>1
    <2>2. m % 2 = 1 <=> (first + m - 1) % 2 = 0
      <3>1. PICK h \in Int : first = 2 * h
        <4>1. first = 2 * (first \div 2) + (first % 2) /\ first \div 2 \in Int
          OBVIOUS
        <4> QED
          BY <4>1
      <3>2. m \in Int
        OBVIOUS
      <3> QED
        BY <3>1, <3>2
    <2> QED
      BY <1>1, <2>1, <2>2, Zenon
  <1>3. ASSUME NEW i \in 1 .. 2 * k + 1, i \in {1, 2 * k + 1}
        PROVE  s[i].isNode
    <2>1. i % 2 = 1
      BY <1>3
    <2> QED
      BY <1>1, <2>1, Zenon
  <1>4. ASSUME NEW i \in 1 .. 2 * k + 1, i > 1
        PROVE  ~(s[i].isNode /\ s[i-1].isNode)
    <2>1. i - 1 \in 1 .. 2 * k + 1 /\ ~(i % 2 = 1 /\ (i - 1) % 2 = 1)
      BY <1>4
    <2> QED
      BY <1>1, <2>1, Zenon
  <1>5. SequenceIdsFit(s)
    BY <1>1, <1>2, Zenon DEF SequenceIdsFit
  <1>6. Alternates(s)
    BY <1>1, <1>3, <1>4, Zenon DEF Alternates
  <1> QED
    BY <1>5, <1>6

\* The elements and where the walk meets them.
Meets(s, nodes, edges, k, first) ==
    /\ \A x \in Elements(nodes) : \E m \in 1 .. 2 * k + 1 :
          s[m].isNode /\ s[m].it = x /\ x.sequenceId = first + m - 1
    /\ \A x \in Elements(edges) : \E m \in 1 .. 2 * k + 1 :
          ~s[m].isNode /\ s[m].it = x /\ x.sequenceId = first + m - 1

LEMMA MeetsAll ==
    ASSUME NEW s, NEW nodes, NEW edges, NEW k \in Nat, NEW first \in Int,
           Alternating(s, k, first), Walked(s, nodes, edges, 2 * k + 1)
    PROVE  Meets(s, nodes, edges, k, first)
  <1>1. \A m \in 1 .. 2 * k + 1 : s[m].it.sequenceId = first + m - 1
    BY Zenon DEF Alternating
  <1>2. ASSUME NEW x \in Elements(nodes)
        PROVE  \E m \in 1 .. 2 * k + 1 :
                 s[m].isNode /\ s[m].it = x /\ x.sequenceId = first + m - 1
    <2>1. PICK m \in 1 .. 2 * k + 1 : s[m].isNode /\ s[m].it = x
      BY Zenon DEF Walked
    <2> QED
      BY <1>1, <2>1, Zenon
  <1>3. ASSUME NEW x \in Elements(edges)
        PROVE  \E m \in 1 .. 2 * k + 1 :
                 ~s[m].isNode /\ s[m].it = x /\ x.sequenceId = first + m - 1
    <2>1. PICK m \in 1 .. 2 * k + 1 : ~s[m].isNode /\ s[m].it = x
      BY Zenon DEF Walked
    <2> QED
      BY <1>1, <2>1, Zenon
  <1> QED
    BY <1>2, <1>3, Zenon DEF Meets

LEMMA AlternatingBase ==
    ASSUME NEW s, NEW nodes, NEW edges, NEW k \in Nat, NEW first \in Int,
           Alternating(s, k, first), Walked(s, nodes, edges, 2 * k + 1)
    PROVE  ReleasedFirst(s) <=> BaseFirst(Elements(nodes) \union Elements(edges))
  <1>0. /\ \A x \in Elements(nodes) : \E m \in 1 .. 2 * k + 1 :
              s[m].isNode /\ s[m].it = x /\ x.sequenceId = first + m - 1
        /\ \A x \in Elements(edges) : \E m \in 1 .. 2 * k + 1 :
              ~s[m].isNode /\ s[m].it = x /\ x.sequenceId = first + m - 1
    <2>1. Meets(s, nodes, edges, k, first)
      BY MeetsAll
    <2> QED
      BY <2>1, Zenon DEF Meets
  <1> DEFINE All == Elements(nodes) \union Elements(edges)
             n == 2 * k + 1
  <1>1. /\ DOMAIN s = 1..n /\ \A m \in 1..n : s[m].it \in All
    <2>1. \A m \in 1..n : /\ s[m].isNode => s[m].it \in Elements(nodes)
                          /\ ~s[m].isNode => s[m].it \in Elements(edges)
      BY Zenon DEF Walked
    <2>2. DOMAIN s = 1..n
      BY Zenon DEF Walked
    <2> QED
      BY <2>1, <2>2
  <1>2. ASSUME NEW x \in All
        PROVE  \E m \in 1..n : s[m].it = x /\ x.sequenceId = first + m - 1
    BY <1>0
  <1>3. \A m \in 1..n : s[m].it.sequenceId = first + m - 1
    BY Zenon DEF Alternating
  <1>4. \A i, j \in 1..n : i < j <=> first + i - 1 < first + j - 1
    OBVIOUS
  <1> HIDE DEF All, n
  <1>5. ASSUME ReleasedFirst(s), NEW x \in All, NEW y \in All,
               x.sequenceId < y.sequenceId, y.released
        PROVE  x.released
    <2>1. PICK i \in 1..n : s[i].it = x /\ x.sequenceId = first + i - 1
      BY <1>2
    <2>2. PICK j \in 1..n : s[j].it = y /\ y.sequenceId = first + j - 1
      BY <1>2
    <2>3. i < j
      BY <1>4, <1>5, <2>1, <2>2, Zenon
    <2> QED
      BY <1>1, <1>5, <2>1, <2>2, <2>3, Zenon DEF ReleasedFirst
  <1>6. ASSUME BaseFirst(All), NEW i \in 1..n, NEW j \in 1..n, i < j,
               s[j].it.released
        PROVE  s[i].it.released
    <2>0. s[i].it.sequenceId = first + i - 1 /\ s[j].it.sequenceId = first + j - 1
      BY <1>3
    <2>1. s[i].it.sequenceId < s[j].it.sequenceId
      BY <1>4, <1>6, <2>0
    <2> QED
      BY <1>1, <1>6, <2>1, Zenon DEF BaseFirst
  <1>7. ReleasedFirst(s) => BaseFirst(All)
    BY <1>5, Zenon DEF BaseFirst
  <1>8. BaseFirst(All) => ReleasedFirst(s)
    BY <1>1, <1>6, Zenon DEF ReleasedFirst
  <1> QED
    BY <1>7, <1>8, Zenon DEF All

LEMMA AlternatingJoins ==
    ASSUME NEW s, NEW nodes, NEW edges, NEW k \in Nat, NEW first \in Int,
           Alternating(s, k, first), Walked(s, nodes, edges, 2 * k + 1)
    PROVE  EdgesJoin(s) <=> Joined(Elements(nodes), Elements(edges))
  <1>0. /\ \A x \in Elements(nodes) : \E m \in 1 .. 2 * k + 1 :
              s[m].isNode /\ s[m].it = x /\ x.sequenceId = first + m - 1
        /\ \A x \in Elements(edges) : \E m \in 1 .. 2 * k + 1 :
              ~s[m].isNode /\ s[m].it = x /\ x.sequenceId = first + m - 1
    <2>1. Meets(s, nodes, edges, k, first)
      BY MeetsAll
    <2> QED
      BY <2>1, Zenon DEF Meets
  <1> DEFINE n == 2 * k + 1
  <1>1. /\ DOMAIN s = 1..n /\ Len(s) = n
        /\ \A m \in 1..n : /\ s[m].isNode => s[m].it \in Elements(nodes)
                           /\ ~s[m].isNode => s[m].it \in Elements(edges)
        /\ \A m \in 1..n : s[m].isNode <=> m % 2 = 1
        /\ \A m \in 1..n : s[m].it.sequenceId = first + m - 1
    BY Zenon DEF Walked, Alternating
  <1>2. ASSUME NEW m \in 1..n, ~s[m].isNode
        PROVE  /\ m > 1 /\ m < n /\ m - 1 \in 1..n /\ m + 1 \in 1..n
               /\ s[m-1].isNode /\ s[m+1].isNode
               /\ s[m-1].it.sequenceId = s[m].it.sequenceId - 1
               /\ s[m+1].it.sequenceId = s[m].it.sequenceId + 1
    <2>1. ~(m % 2 = 1)
      BY <1>1, <1>2, Zenon
    <2>2. m > 1 /\ m < n /\ m - 1 \in 1..n /\ m + 1 \in 1..n
          /\ (m - 1) % 2 = 1 /\ (m + 1) % 2 = 1
      BY <2>1
    <2>3. /\ s[m].it.sequenceId = first + m - 1
          /\ s[m-1].it.sequenceId = first + (m - 1) - 1
          /\ s[m+1].it.sequenceId = first + (m + 1) - 1
      <3> HIDE DEF n
      <3> QED
        BY <1>1, <2>2, Zenon
    <2>4. s[m-1].isNode /\ s[m+1].isNode
      <3> HIDE DEF n
      <3> QED
        BY <1>1, <2>2, Zenon
    <2> QED
      BY <2>2, <2>3, <2>4
  <1>3. ASSUME EdgesJoin(s), NEW e \in Elements(edges)
        PROVE  \E x, y \in Elements(nodes) :
                  /\ x.sequenceId = e.sequenceId - 1 /\ x.nodeId = e.startNodeId
                  /\ y.sequenceId = e.sequenceId + 1 /\ y.nodeId = e.endNodeId
                  /\ e.released => x.released /\ y.released
    <2>1. PICK m \in 1..n : ~s[m].isNode /\ s[m].it = e
      BY <1>0
    <2> HIDE DEF n
    <2>2. s[m-1].it \in Elements(nodes) /\ s[m+1].it \in Elements(nodes)
      BY <1>1, <1>2, <2>1, Zenon
    <2>3. /\ s[m-1].it.nodeId = e.startNodeId /\ s[m+1].it.nodeId = e.endNodeId
          /\ e.released => s[m-1].it.released /\ s[m+1].it.released
      BY <1>1, <1>3, <2>1, Zenon DEF EdgesJoin
    <2>4. /\ s[m-1].it.sequenceId = e.sequenceId - 1
          /\ s[m+1].it.sequenceId = e.sequenceId + 1
      BY <1>2, <2>1, Zenon
    <2> QED
      BY <2>2, <2>3, <2>4, Zenon
  <1>4. ASSUME Joined(Elements(nodes), Elements(edges)), NEW m \in 1..n,
               ~s[m].isNode
        PROVE  /\ m > 1 /\ m < n
               /\ s[m-1].isNode /\ s[m-1].it.nodeId = s[m].it.startNodeId
               /\ s[m+1].isNode /\ s[m+1].it.nodeId = s[m].it.endNodeId
               /\ s[m].it.released => s[m-1].it.released /\ s[m+1].it.released
    <2>1. s[m].it \in Elements(edges)
      <3> HIDE DEF n
      <3> QED
        BY <1>1, <1>4, Zenon
    <2>2. PICK x \in Elements(nodes), y \in Elements(nodes) :
             /\ x.sequenceId = s[m].it.sequenceId - 1
             /\ x.nodeId = s[m].it.startNodeId
             /\ y.sequenceId = s[m].it.sequenceId + 1
             /\ y.nodeId = s[m].it.endNodeId
             /\ s[m].it.released => x.released /\ y.released
      BY <1>4, <2>1, Zenon DEF Joined
    <2>3. PICK p \in 1..n : s[p].it = x /\ x.sequenceId = first + p - 1
      BY <1>0
    <2>4. PICK q \in 1..n : s[q].it = y /\ y.sequenceId = first + q - 1
      BY <1>0
    <2>5. s[m].it.sequenceId = first + m - 1
      BY <1>1
    <2>6. p = m - 1 /\ q = m + 1
      BY <2>2, <2>3, <2>4, <2>5
    <2> HIDE DEF n
    <2>7. m > 1 /\ m < n /\ s[m-1].isNode /\ s[m+1].isNode
      BY <1>2, <1>4, Zenon
    <2>8. s[m-1].it = x /\ s[m+1].it = y
      BY <2>3, <2>4, <2>6, Zenon
    <2> QED
      BY <2>2, <2>7, <2>8, Zenon
  <1> HIDE DEF n
  <1>5. EdgesJoin(s) => Joined(Elements(nodes), Elements(edges))
    BY <1>3, Zenon DEF Joined
  <1>6. Joined(Elements(nodes), Elements(edges)) => EdgesJoin(s)
    BY <1>1, <1>4, Zenon DEF EdgesJoin
  <1> QED
    BY <1>5, <1>6

\* ValidateOrder returns nil for the orders that follow the rules, in whatever
\* order their arrays are, and besides them only for the one with no element
\* (order.go:18-145): for orders of every length, and with every mistake.
THEOREM ValidatorIsExact ==
    ASSUME NEW o, Decoded(o)
    PROVE  ValidateOrder(o) <=> Empty(o) \/ FollowsTheRules(o)
  <1>0. PICK nodes, edges : nodes = o.nodes /\ edges = o.edges
    OBVIOUS
  <1>1. PICK s, n, a, b : /\ s = Sequence(nodes, edges)
                          /\ a = Len(nodes) /\ b = Len(edges) /\ n = a + b
    OBVIOUS
  <1>2. ValidateOrder(o) <=>
           SequenceIdsFit(s) /\ ReleasedFirst(s) /\ Alternates(s) /\ EdgesJoin(s)
    BY <1>0, <1>1, Zenon DEF ValidateOrder, SortedSequences, Sequence
  <1>3. /\ a \in Nat /\ b \in Nat /\ DOMAIN nodes = 1..a /\ DOMAIN edges = 1..b
        /\ nodes \in Seq(Elements(nodes)) /\ edges \in Seq(Elements(edges))
        /\ \A x \in Elements(nodes) \union Elements(edges) : x.sequenceId \in Int
    <2>1. /\ nodes \in Seq(Elements(nodes)) /\ edges \in Seq(Elements(edges))
          /\ \A x \in Elements(nodes) \union Elements(edges) : x.sequenceId \in Int
      BY <1>0, Zenon DEF Decoded
    <2> QED
      BY <1>1, <2>1
  <1>4. Walked(s, nodes, edges, n)
    BY <1>0, <1>1, SequenceWalked, Zenon
  <1>5. /\ DOMAIN s = 1..n /\ Len(s) = n
        /\ \A m \in 1..n : s[m].it.sequenceId \in Int
    BY <1>3, <1>4, Zenon DEF Walked
  <1>6. CASE n = 0
    <2>1. nodes = <<>> /\ edges = <<>>
      BY <1>1, <1>3, <1>6
    <2>2. 1..n = {}
      BY <1>6
    <2>3. SequenceIdsFit(s) /\ ReleasedFirst(s) /\ Alternates(s) /\ EdgesJoin(s)
      BY <1>5, <2>2, Zenon
         DEF SequenceIdsFit, ReleasedFirst, Alternates, EdgesJoin
    <2> QED
      BY <1>0, <1>2, <2>1, <2>3, Zenon DEF Empty
  <1>7. CASE n # 0
    <2>1. ~Empty(o)
      <3>1. CASE nodes # <<>>
        BY <1>0, <3>1, Zenon DEF Empty
      <3>2. CASE edges # <<>>
        BY <1>0, <3>2, Zenon DEF Empty
      <3> QED
        BY <1>1, <1>7, <3>1, <3>2
    <2>2. n \in Nat \ {0}
      BY <1>1, <1>3, <1>7
    <2> DEFINE Fits(k, first) == /\ first % 2 = 0
                                 /\ Alternating(s, k, first) /\ n = 2 * k + 1
    <2>3. ASSUME NEW k \in Nat, NEW first \in Int, Fits(k, first)
          PROVE  /\ SequenceIdsFit(s) /\ Alternates(s)
                 /\ ReleasedFirst(s)
                       <=> BaseFirst(Elements(nodes) \union Elements(edges))
                 /\ EdgesJoin(s) <=> Joined(Elements(nodes), Elements(edges))
      <3>1. Walked(s, nodes, edges, 2 * k + 1)
        BY <1>4, <2>3
      <3> QED
        BY <2>3, <3>1, AlternatingFits, AlternatingBase, AlternatingJoins
    <2>4. ASSUME SequenceIdsFit(s), Alternates(s)
          PROVE  \E k \in Nat : \E first \in {x.sequenceId : x \in Elements(nodes)} :
                    first \in Int /\ Fits(k, first) /\ Numbered(o, first)
      <3>1. PICK k \in Nat : /\ n = 2 * k + 1
                             /\ Alternating(s, k, s[1].it.sequenceId)
                             /\ s[1].it.sequenceId % 2 = 0 /\ s[1].isNode
        BY <1>5, <2>2, <2>4, FitAlternates
      <3>2. PICK first \in Int : first = s[1].it.sequenceId
        BY <1>5, <2>2
      <3>3. s[1].it \in Elements(nodes)
        <4>1. 1 \in 1..n
          BY <2>2
        <4> QED
          BY <1>4, <3>1, <4>1, Zenon DEF Walked
      <3>4. Alternating(s, k, first) /\ Fits(k, first)
        BY <3>1, <3>2, Zenon
      <3>5. Len(o.nodes) = k + 1 /\ Len(o.edges) = k
        <4>1. Len(o.nodes) + Len(o.edges) = 2 * k + 1
          BY <1>0, <1>1, <3>1, Zenon
        <4>2. Alternating(Sequence(o.nodes, o.edges), k, first)
          BY <1>0, <1>1, <3>4, Zenon
        <4> QED
          BY <4>1, <4>2, NodesCount
      <3>6. Numbered(o, first)
        <4>1. Alternating(Sequence(o.nodes, o.edges), k, first)
          BY <1>0, <1>1, <3>4, Zenon
        <4> QED
          BY <3>5, <4>1, AlternatingNumbered
      <3> HIDE DEF Fits
      <3> QED
        BY <3>2, <3>3, <3>4, <3>6
    <2>5. ASSUME NEW first \in {x.sequenceId : x \in Elements(nodes)},
                 first % 2 = 0, Numbered(o, first)
          PROVE  first \in Int /\ \E k \in Nat : Fits(k, first)
      <3>1. first \in Int
        BY <1>3
      <3>2. PICK k \in Nat :
               /\ Len(o.nodes) = k + 1 /\ Len(o.edges) = k
               /\ Alternating(Sequence(o.nodes, o.edges), k, first)
        BY <2>5, <3>1, NumberedAlternates
      <3>3. a = k + 1 /\ b = k
        BY <1>0, <1>1, <3>2, Zenon
      <3>4. n = 2 * k + 1
        BY <1>1, <3>3
      <3>5. Alternating(s, k, first)
        BY <1>0, <1>1, <3>2, Zenon
      <3> QED
        BY <2>5, <3>1, <3>4, <3>5
    <2>6. FollowsTheRules(o) <=>
             /\ \E first \in {x.sequenceId : x \in Elements(nodes)} :
                   first % 2 = 0 /\ Numbered(o, first)
             /\ Joined(Elements(nodes), Elements(edges))
             /\ BaseFirst(Elements(nodes) \union Elements(edges))
      BY <1>0, Zenon DEF FollowsTheRules
    <2>7. ASSUME NEW k, NEW first, Fits(k, first) PROVE first % 2 = 0
      BY <2>7
    <2> HIDE DEF Fits
    <2>8. ValidateOrder(o) => FollowsTheRules(o)
      BY <1>2, <2>3, <2>4, <2>6, <2>7, Zenon
    <2>9. FollowsTheRules(o) => ValidateOrder(o)
      BY <1>2, <2>3, <2>5, <2>6, Zenon
    <2> QED
      BY <2>1, <2>8, <2>9
  <1> QED
    BY <1>6, <1>7

=============================================================================
