------------------------ MODULE GraphVersionsProofs ------------------------
(***************************************************************************)
(* What every version of a workspace's graph promises, for every registry, *)
(* catalog, workspace, request and length of history.                      *)
(***************************************************************************)
EXTENDS GraphVersions, FiniteSetTheorems, TLAPS

-----------------------------------------------------------------------------
(* Induction, over sets of numbers: the provers cannot instantiate an      *)
(* operator.                                                               *)

LEMMA LeastNatural ==
    ASSUME NEW S \in SUBSET Nat, S # {}
    PROVE  \E n \in S : \A m \in S : n <= m
<1> DEFINE T == {0 .. n : n \in S}
           R == StrictSubsetOrdering(Nat)
           F == FiniteSubsetsOf(Nat)
<1>1. T \subseteq F
  <2> SUFFICES ASSUME NEW n \in S PROVE 0 .. n \in F
    OBVIOUS
  <2>1. IsFiniteSet(0 .. n)
    BY FS_Interval
  <2> QED
    BY <2>1 DEF FiniteSubsetsOf
<1>2. T # {}
  OBVIOUS
<1>3. \E x \in T : \A y \in T : <<y, x>> \notin R
  <2>1. IsWellFoundedOn(R, F)
    BY FS_StrictSubsetOrderingWellFounded
  <2> HIDE DEF T, R, F
  <2> QED
    BY <1>1, <1>2, <2>1, WFMin, Zenon
<1>4. PICK n \in S : \A m \in S : <<0 .. m, 0 .. n>> \notin R
  BY <1>3
<1>5. ASSUME NEW m \in S, m < n PROVE FALSE
  <2>1. n \in 0 .. n /\ n \notin 0 .. m /\ 0 .. m \subseteq 0 .. n
    BY <1>5
  <2>2. <<0 .. m, 0 .. n>> \in R
    BY <2>1 DEF StrictSubsetOrdering
  <2> QED
    BY <1>4, <2>2
<1> QED
  BY <1>5

LEMMA Induction ==
    ASSUME NEW S \in SUBSET Nat, 0 \in S, \A n \in S : n + 1 \in S
    PROVE  S = Nat
<1> SUFFICES ASSUME Nat \ S # {} PROVE FALSE
  OBVIOUS
<1>1. PICK n \in Nat \ S : \A m \in Nat \ S : n <= m
  BY LeastNatural
<1>2. n - 1 \in S
  BY <1>1
<1> QED
  BY <1>2

-----------------------------------------------------------------------------
(* Operations, one after the other.                                        *)

Applied(f, base, ops) ==
    f = [i \in 0 .. Len(ops) |-> IF i = 0 THEN Done(base) ELSE AndThen(f[i - 1], ops[i])]

\* apply_ops leaves a trace: what the operations so far have made of the graph.
LEMMA AppliedTrace ==
    ASSUME NEW base, NEW T, NEW ops \in Seq(T)
    PROVE  \E f : Applied(f, base, ops) /\ ApplyOps(base, ops) = f[Len(ops)]
<1> DEFINE n == Len(ops)
           Is(k, f) == f = [i \in 0 .. k |-> IF i = 0 THEN Done(base) ELSE AndThen(f[i - 1], ops[i])]
           S == {k \in Nat : \E f : Is(k, f)}
           after == CHOOSE f : Is(n, f)
<1>1. S = Nat
  <2>1. 0 \in S
    <3> DEFINE f == [i \in 0 .. 0 |-> Done(base)]
    <3>1. \A i \in 0 .. 0 : i = 0
      OBVIOUS
    <3>2. Is(0, f)
      BY <3>1
    <3> QED
      BY <3>2
  <2>2. ASSUME NEW k \in S PROVE k + 1 \in S
    <3>1. PICK f : Is(k, f)
      BY <2>2
    <3> DEFINE g == [i \in 0 .. k + 1 |-> IF i = k + 1 THEN AndThen(f[k], ops[k + 1]) ELSE f[i]]
    <3>2. k \in Nat
      BY <2>2
    <3>3. \A i \in 0 .. k + 1 : g[i] = IF i = 0 THEN Done(base) ELSE AndThen(g[i - 1], ops[i])
      <4> SUFFICES ASSUME NEW i \in 0 .. k + 1
                   PROVE  g[i] = IF i = 0 THEN Done(base) ELSE AndThen(g[i - 1], ops[i])
        OBVIOUS
      <4>1. CASE i = k + 1
        BY <4>1, <3>2
      <4>2. CASE i # k + 1
        <5>1. i \in 0 .. k /\ (i # 0 => i - 1 \in 0 .. k /\ i - 1 # k + 1)
          BY <4>2, <3>2
        <5>2. g[i] = f[i] /\ (i # 0 => g[i - 1] = f[i - 1])
          BY <4>2, <5>1, <3>2
        <5>3. f[i] = IF i = 0 THEN Done(base) ELSE AndThen(f[i - 1], ops[i])
          BY <3>1, <5>1
        <5> QED
          BY <5>2, <5>3
      <4> QED
        BY <4>1, <4>2
    <3> HIDE DEF g
    <3>4. g = [i \in 0 .. k + 1 |-> g[i]]
      BY DEF g
    <3>5. Is(k + 1, g)
      BY <3>3, <3>4, Zenon
    <3>6. \E h : Is(k + 1, h)
      BY <3>5, Zenon
    <3> HIDE DEF Is
    <3> QED
      BY <3>6, <3>2
  <2> HIDE DEF S
  <2>3. S \in SUBSET Nat
    BY DEF S
  <2> QED
    BY <2>1, <2>2, <2>3, Induction
<1>2. \E f : Is(n, f)
  BY <1>1
<1>3. Is(n, after)
  BY <1>2, Zenon
<1>4. ApplyOps(base, ops) = after[n]
  BY Zenon DEF ApplyOps
<1> QED
  BY <1>3, <1>4, Zenon DEF Applied

LEMMA AppliedStart ==
    ASSUME NEW base, NEW T, NEW ops \in Seq(T), NEW f, Applied(f, base, ops)
    PROVE  f[0] = Done(base)
<1>1. 0 \in 0 .. Len(ops)
  OBVIOUS
<1> QED
  BY <1>1 DEF Applied

LEMMA AppliedStep ==
    ASSUME NEW base, NEW T, NEW ops \in Seq(T), NEW f, Applied(f, base, ops),
           NEW k \in Nat, k + 1 <= Len(ops)
    PROVE  f[k + 1] = AndThen(f[k], ops[k + 1])
<1>1. k + 1 \in 0 .. Len(ops) /\ k + 1 # 0 /\ (k + 1) - 1 = k
  OBVIOUS
<1> QED
  BY <1>1 DEF Applied

\* What is true of an accepted operation, and of one that is refused.
LEMMA AndThenCases ==
    ASSUME NEW result, NEW o
    PROVE  \/ /\ IsFound(result) /\ Accepts(result.graph, o)
              /\ AndThen(result, o) = Done(Edited(result.graph, o))
              /\ IsFound(AndThen(result, o)) /\ AndThen(result, o).graph = Edited(result.graph, o)
           \/ ~IsFound(AndThen(result, o)) /\ (IsFound(result) => ~Accepts(result.graph, o))
  BY DEF AndThen, ApplyOp, Done, IsFound, Refusal

\* A result is the graph, or an error.
LEMMA AppliedResults ==
    ASSUME NEW base, NEW T, NEW ops \in Seq(T), NEW f, Applied(f, base, ops)
    PROVE  \A k \in 0 .. Len(ops) : IsFound(f[k]) => f[k] = Done(f[k].graph)
<1> DEFINE n == Len(ops)
           S == {k \in Nat : k <= n => (IsFound(f[k]) => f[k] = Done(f[k].graph))}
<1>0. /\ f[0] = Done(base)
      /\ \A k \in Nat : k + 1 <= n => f[k + 1] = AndThen(f[k], ops[k + 1])
  BY AppliedStart, AppliedStep
<1>1. S = Nat
  <2>1. 0 \in S
    BY <1>0 DEF Done
  <2>2. ASSUME NEW k \in S PROVE k + 1 \in S
    <3> SUFFICES ASSUME k + 1 <= n, IsFound(f[k + 1]) PROVE f[k + 1] = Done(f[k + 1].graph)
      OBVIOUS
    <3>1. f[k + 1] = AndThen(f[k], ops[k + 1])
      BY <1>0
    <3>2. f[k + 1] = Done(Edited(f[k].graph, ops[k + 1]))
      BY <3>1, AndThenCases
    <3> QED
      BY <3>2 DEF Done
  <2> HIDE DEF S
  <2>3. S \in SUBSET Nat
    BY DEF S
  <2> QED
    BY <2>1, <2>2, <2>3, Induction
<1> QED
  BY <1>1

\* Operations on the result of operations.
LEMMA AppliedInTurn ==
    ASSUME NEW base, NEW T, NEW a \in Seq(T), NEW b \in Seq(T), IsFound(ApplyOps(base, a))
    PROVE  ApplyOps(base, a \o b) = ApplyOps(ApplyOps(base, a).graph, b)
<1> DEFINE m == Len(a)
           n == Len(b)
<1>0. PICK c : c \in Seq(T) /\ c = a \o b
  <2>1. a \o b \in Seq(T)
    OBVIOUS
  <2> QED
    BY <2>1, Zenon
<1>1. /\ m \in Nat /\ n \in Nat /\ Len(c) = m + n
      /\ \A i \in 1 .. m : c[i] = a[i]
      /\ \A i \in 1 .. n : c[m + i] = b[i]
  BY <1>0
<1>2. PICK f : Applied(f, base, c) /\ ApplyOps(base, c) = f[m + n]
  <2>1. \E f : Applied(f, base, c) /\ ApplyOps(base, c) = f[Len(c)]
    BY <1>0, AppliedTrace
  <2> QED
    BY <1>1, <2>1
<1>3. PICK g : Applied(g, base, a) /\ ApplyOps(base, a) = g[m]
  BY <1>1, AppliedTrace
<1>4. PICK h : Applied(h, g[m].graph, b) /\ ApplyOps(g[m].graph, b) = h[n]
  BY <1>1, AppliedTrace
<1>5. /\ f[0] = Done(base)
      /\ \A k \in Nat : k + 1 <= m + n => f[k + 1] = AndThen(f[k], c[k + 1])
  <2>1. /\ f[0] = Done(base)
        /\ \A k \in Nat : k + 1 <= Len(c) => f[k + 1] = AndThen(f[k], c[k + 1])
    BY <1>0, <1>2, AppliedStart, AppliedStep
  <2> QED
    BY <1>1, <2>1
<1>6. /\ g[0] = Done(base)
      /\ \A k \in Nat : k + 1 <= m => g[k + 1] = AndThen(g[k], a[k + 1])
  BY <1>1, <1>3, AppliedStart, AppliedStep
<1>7. /\ h[0] = Done(g[m].graph)
      /\ \A k \in Nat : k + 1 <= n => h[k + 1] = AndThen(h[k], b[k + 1])
  BY <1>1, <1>4, AppliedStart, AppliedStep
<1>8. g[m] = Done(g[m].graph)
  <2>1. m \in 0 .. Len(a)
    BY <1>1
  <2> QED
    BY <2>1, <1>3, <1>1, AppliedResults
<1> HIDE DEF m, n
<1>9. f[m] = g[m]
  <2> DEFINE S == {k \in Nat : k <= m => f[k] = g[k]}
  <2>1. 0 \in S
    BY <1>5, <1>6
  <2>2. ASSUME NEW k \in S PROVE k + 1 \in S
    <3> SUFFICES ASSUME k + 1 <= m PROVE f[k + 1] = g[k + 1]
      OBVIOUS
    <3>1. k \in Nat /\ k <= m /\ k + 1 \in 1 .. m /\ k + 1 <= m + n
      BY <1>1
    <3>2. f[k] = g[k] /\ c[k + 1] = a[k + 1]
      BY <3>1, <1>1
    <3> QED
      BY <3>1, <3>2, <1>5, <1>6
  <2>3. S \in SUBSET Nat
    OBVIOUS
  <2>4. S = Nat
    <3> HIDE DEF S
    <3> QED
      BY <2>1, <2>2, <2>3, Induction
  <2> QED
    BY <1>1, <2>4
<1>10. f[m + n] = h[n]
  <2> DEFINE S == {k \in Nat : k <= n => f[m + k] = h[k]}
  <2>1. 0 \in S
    BY <1>1, <1>7, <1>8, <1>9
  <2>2. ASSUME NEW k \in S PROVE k + 1 \in S
    <3> SUFFICES ASSUME k + 1 <= n PROVE f[m + (k + 1)] = h[k + 1]
      OBVIOUS
    <3>1. /\ k \in Nat /\ k <= n /\ k + 1 \in 1 .. n /\ m + k \in Nat
          /\ (m + k) + 1 <= m + n /\ (m + k) + 1 = m + (k + 1)
      BY <1>1
    <3>2. f[m + k] = h[k] /\ c[m + (k + 1)] = b[k + 1]
      BY <3>1, <1>1
    <3>3. f[(m + k) + 1] = AndThen(f[m + k], c[(m + k) + 1])
      BY <3>1, <1>5
    <3>4. h[k + 1] = AndThen(h[k], b[k + 1])
      BY <3>1, <1>7
    <3> QED
      BY <3>1, <3>2, <3>3, <3>4
  <2>3. S \in SUBSET Nat
    OBVIOUS
  <2>4. S = Nat
    <3> HIDE DEF S
    <3> QED
      BY <2>1, <2>2, <2>3, Induction
  <2>5. n \in S
    BY <1>1, <2>4
  <2> QED
    BY <1>1, <2>5
<1> QED
  BY <1>0, <1>2, <1>3, <1>4, <1>10 DEF m, n

LEMMA NothingApplied ==
    ASSUME NEW base
    PROVE  ApplyOps(base, <<>>) = Done(base)
<1>1. PICK f : Applied(f, base, <<>>) /\ ApplyOps(base, <<>>) = f[0]
  <2>1. <<>> \in Seq({})
    OBVIOUS
  <2>2. Len(<<>>) = 0
    OBVIOUS
  <2> QED
    BY <2>1, <2>2, AppliedTrace
<1> QED
  <2>1. <<>> \in Seq({})
    OBVIOUS
  <2> QED
    BY <1>1, <2>1, AppliedStart, AppliedStep


LEMMA AppendedElements ==
    ASSUME NEW T, NEW seq \in Seq(T), NEW x
    PROVE  Elements(Append(seq, x)) = Elements(seq) \cup {x}
<1>1. /\ DOMAIN seq = 1 .. Len(seq) /\ Len(seq) \in Nat
      /\ DOMAIN Append(seq, x) = 1 .. Len(seq) + 1
      /\ \A i \in 1 .. Len(seq) : Append(seq, x)[i] = seq[i]
      /\ Append(seq, x)[Len(seq) + 1] = x
  OBVIOUS
<1> QED
  BY <1>1 DEF Elements

LEMMA IsItsElements ==
    ASSUME NEW T, NEW seq \in Seq(T)
    PROVE  seq \in Seq(Elements(seq))
<1>1. /\ Len(seq) \in Nat /\ DOMAIN seq = 1 .. Len(seq)
      /\ seq = [i \in 1 .. Len(seq) |-> seq[i]]
  OBVIOUS
<1>2. \A i \in 1 .. Len(seq) : seq[i] \in Elements(seq)
  BY <1>1 DEF Elements
<1> QED
  BY <1>1, <1>2

\* Among goes through the sequence and leaves a trace too.
Retained(f, seq, set) ==
    f = [i \in 0 .. Len(seq) |-> IF i = 0 THEN <<>>
                            ELSE IF seq[i] \in set THEN Append(f[i - 1], seq[i]) ELSE f[i - 1]]

LEMMA AmongTrace ==
    ASSUME NEW T, NEW seq \in Seq(T), NEW set
    PROVE  \E f : Retained(f, seq, set) /\ Among(seq, set) = f[Len(seq)]
<1> DEFINE n == Len(seq)
           Is(k, f) == f = [i \in 0 .. k |-> IF i = 0 THEN <<>>
                                              ELSE IF seq[i] \in set THEN Append(f[i - 1], seq[i]) ELSE f[i - 1]]
           S == {k \in Nat : \E f : Is(k, f)}
           after == CHOOSE f : Is(n, f)
<1>1. S = Nat
  <2>1. 0 \in S
    <3> DEFINE f == [i \in 0 .. 0 |-> <<>>]
    <3>1. \A i \in 0 .. 0 : i = 0
      OBVIOUS
    <3>2. Is(0, f)
      BY <3>1
    <3> QED
      BY <3>2
  <2>2. ASSUME NEW k \in S PROVE k + 1 \in S
    <3>1. PICK f : Is(k, f)
      BY <2>2
    <3> DEFINE last == IF seq[(k + 1)] \in set THEN Append(f[k], seq[(k + 1)]) ELSE f[k]
               g == [i \in 0 .. k + 1 |-> IF i = k + 1 THEN last ELSE f[i]]
    <3>2. k \in Nat
      BY <2>2
    <3>3. \A i \in 0 .. k + 1 : g[i] = IF i = 0 THEN <<>>
                                     ELSE IF seq[i] \in set THEN Append(g[i - 1], seq[i]) ELSE g[i - 1]
      <4> SUFFICES ASSUME NEW i \in 0 .. k + 1
                   PROVE  g[i] = IF i = 0 THEN <<>>
                                 ELSE IF seq[i] \in set THEN Append(g[i - 1], seq[i]) ELSE g[i - 1]
        OBVIOUS
      <4>1. CASE i = k + 1
        <5>1. i # 0 /\ i - 1 = k /\ k \in 0 .. k + 1 /\ k # k + 1
          BY <4>1, <3>2
        <5>2. g[i] = last /\ g[i - 1] = f[k]
          <6> HIDE DEF last
          <6> QED
            BY <4>1, <5>1
        <5> HIDE DEF g
        <5> QED
          BY <4>1, <5>1, <5>2
      <4>2. CASE i # k + 1
        <5>1. i \in 0 .. k /\ (i # 0 => i - 1 \in 0 .. k /\ i - 1 # k + 1)
          BY <4>2, <3>2
        <5>2. g[i] = f[i] /\ (i # 0 => g[i - 1] = f[i - 1])
          <6> HIDE DEF last
          <6> QED
            BY <4>2, <5>1, <3>2
        <5>3. f[i] = IF i = 0 THEN <<>>
                     ELSE IF seq[i] \in set THEN Append(f[i - 1], seq[i]) ELSE f[i - 1]
          BY <3>1, <5>1
        <5> HIDE DEF g
        <5> QED
          BY <5>2, <5>3
      <4> QED
        BY <4>1, <4>2
    <3> HIDE DEF g
    <3>4. g = [i \in 0 .. k + 1 |-> g[i]]
      BY DEF g
    <3>5. Is(k + 1, g)
      BY <3>3, <3>4, Zenon
    <3>6. \E h : Is(k + 1, h)
      BY <3>5, Zenon
    <3> HIDE DEF Is
    <3> QED
      BY <3>6, <3>2
  <2> HIDE DEF S
  <2>3. S \in SUBSET Nat
    BY DEF S
  <2> QED
    BY <2>1, <2>2, <2>3, Induction
<1>2. \E f : Is(n, f)
  BY <1>1
<1>3. Is(n, after)
  BY <1>2, Zenon
<1>4. Among(seq, set) = after[Len(seq)]
  BY Zenon DEF Among
<1> QED
  BY <1>3, <1>4, Zenon DEF Retained

LEMMA AmongMembers ==
    ASSUME NEW T, NEW seq \in Seq(T), NEW set
    PROVE  /\ Among(seq, set) \in Seq(T)
           /\ Elements(Among(seq, set)) = Elements(seq) \cap set
<1> DEFINE n == Len(seq)
<1>1. PICK f : Retained(f, seq, set) /\ Among(seq, set) = f[n]
  BY AmongTrace
<1>2. n \in Nat /\ DOMAIN seq = 1 .. n /\ \A i \in 1 .. n : seq[i] \in T
  OBVIOUS
<1>3. f[0] = <<>>
  <2>1. 0 \in 0 .. n
    BY <1>2
  <2> QED
    BY <1>1, <2>1 DEF Retained
<1>4. ASSUME NEW k \in Nat, k + 1 <= n
      PROVE  f[k + 1] = IF seq[k + 1] \in set THEN Append(f[k], seq[k + 1]) ELSE f[k]
  <2>1. k + 1 \in 0 .. n /\ k + 1 # 0 /\ (k + 1) - 1 = k
    BY <1>2, <1>4
  <2> QED
    BY <1>1, <2>1 DEF Retained
<1> DEFINE before(k) == {seq[i] : i \in 1 .. k}
           S == {k \in Nat : k <= n => f[k] \in Seq(T) /\ Elements(f[k]) = before(k) \cap set}
<1>5. S = Nat
  <2>1. 0 \in S
    <3>1. Elements(<<>>) = {} /\ <<>> \in Seq(T)
      BY DEF Elements
    <3>2. before(0) = {}
      OBVIOUS
    <3> HIDE DEF before
    <3> QED
      BY <1>3, <3>1, <3>2
  <2>2. ASSUME NEW k \in S PROVE k + 1 \in S
    <3> SUFFICES ASSUME k + 1 <= n
                 PROVE  f[k + 1] \in Seq(T) /\ Elements(f[k + 1]) = before(k + 1) \cap set
      OBVIOUS
    <3>1. k \in Nat /\ k <= n /\ k + 1 \in 1 .. n
      BY <1>2
    <3>2. f[k] \in Seq(T) /\ Elements(f[k]) = before(k) \cap set
      BY <3>1
    <3>3. before(k + 1) = before(k) \cup {seq[k + 1]}
      <4>1. 1 .. k + 1 = (1 .. k) \cup {k + 1}
        BY <3>1
      <4> QED
        BY <4>1
    <3>4. CASE seq[k + 1] \in set
      <4>1. f[k + 1] = Append(f[k], seq[k + 1]) /\ seq[k + 1] \in T
        BY <3>1, <3>4, <1>2, <1>4
      <4>2. Elements(Append(f[k], seq[k + 1])) = Elements(f[k]) \cup {seq[k + 1]}
        BY <3>2, <4>1, AppendedElements
      <4> QED
        BY <3>2, <3>3, <3>4, <4>1, <4>2
    <3>5. CASE seq[k + 1] \notin set
      BY <3>1, <3>2, <3>3, <3>5, <1>4
    <3> QED
      BY <3>4, <3>5
  <2> HIDE DEF S
  <2>3. S \in SUBSET Nat
    BY DEF S
  <2> QED
    BY <2>1, <2>2, <2>3, Induction
<1>6. f[n] \in Seq(T) /\ Elements(f[n]) = before(n) \cap set
  <2>1. n \in S
    BY <1>2, <1>5
  <2> QED
    BY <1>2, <2>1
<1>7. before(n) = Elements(seq)
  BY <1>2 DEF Elements
<1> QED
  BY <1>1, <1>6, <1>7


Named(o) == IF o.op \in {"add_edge", "remove_edge"} THEN {o.edge.from[1], o.edge.to[1]} ELSE {o.id}

\* What each operation makes of a graph.
LEMMA EditedCases ==
    ASSUME NEW g, NEW o, o.op \in Kinds
    PROVE  \/ o.op = "add_node" /\ Edited(g, o) = WithNode(g, o.id, o.node)
           \/ o.op = "remove_node" /\ Edited(g, o) = WithoutNode(g, o.id)
           \/ o.op = "set_param"
              /\ Edited(g, o) = WithNode(g, o.id,
                     WithParams(g.nodes[o.id], g.nodes[o.id].params \cup {o.key}))
           \/ o.op = "add_edge" /\ Edited(g, o) = WithEdges(g, Append(g.edges, o.edge))
           \/ o.op = "remove_edge"
              /\ Edited(g, o) = WithEdges(g, Among(g.edges, Elements(g.edges) \ {o.edge}))
           \/ o.op = "set_semantics"
              /\ Edited(g, o) = WithNode(g, o.id, WithSem(g.nodes[o.id], o.sem))
           \/ o.op = "spawn_node" /\ Edited(g, o) = SpawnDerived(g, o)
<1>1. CASE o.op = "add_node"
  BY <1>1 DEF Edited
<1>2. CASE o.op = "remove_node"
  BY <1>2 DEF Edited
<1>3. CASE o.op = "set_param"
  BY <1>3 DEF Edited
<1>4. CASE o.op = "add_edge"
  BY <1>4 DEF Edited
<1>5. CASE o.op = "remove_edge"
  BY <1>5 DEF Edited
<1>6. CASE o.op = "set_semantics"
  BY <1>6 DEF Edited
<1>7. CASE o.op = "spawn_node"
  BY <1>7 DEF Edited
<1> QED
  BY <1>1, <1>2, <1>3, <1>4, <1>5, <1>6, <1>7 DEF Kinds

\* The parts of a graph with another node, with one less, or with other edges.
LEMMA WithNodeParts ==
    ASSUME NEW g, NEW id, NEW node
    PROVE  /\ WithNode(g, id, node).rev = g.rev
           /\ WithNode(g, id, node).edges = g.edges
           /\ Ids(WithNode(g, id, node)) = Ids(g) \cup {id}
           /\ WithNode(g, id, node).nodes[id] = node
           /\ \A x \in Ids(g) \ {id} : WithNode(g, id, node).nodes[x] = g.nodes[x]
  BY DEF WithNode, Ids

LEMMA WithEdgesParts ==
    ASSUME NEW g, NEW edges
    PROVE  /\ WithEdges(g, edges).rev = g.rev
           /\ WithEdges(g, edges).edges = edges
           /\ Ids(WithEdges(g, edges)) = Ids(g)
           /\ WithEdges(g, edges).nodes = g.nodes
  BY DEF WithEdges, Ids

LEMMA WithoutNodeParts ==
    ASSUME NEW g, NEW id
    PROVE  /\ WithoutNode(g, id).rev = g.rev
           /\ Ids(WithoutNode(g, id)) = Ids(g) \ {id}
           /\ \A x \in Ids(g) \ {id} : WithoutNode(g, id).nodes[x] = g.nodes[x]
           /\ WithoutNode(g, id).edges = Among(g.edges, Apart(g, id))
  BY DEF WithoutNode, Ids

\* An operation leaves the revision and the nodes it does not name as they are.
LEMMA EditedUnnamed ==
    ASSUME NEW g, NEW o, o.op \in Kinds, NEW id, id \notin Named(o)
    PROVE  /\ Edited(g, o).rev = g.rev
           /\ id \in Ids(Edited(g, o)) <=> id \in Ids(g)
           /\ id \in Ids(g) => Edited(g, o).nodes[id] = g.nodes[id]
<1> USE EditedCases
<1>1. CASE o.op = "add_node"
  <2>1. Edited(g, o) = WithNode(g, o.id, o.node) /\ id # o.id
    BY <1>1 DEF Named
  <2> QED
    BY <2>1, WithNodeParts
<1>2. CASE o.op = "remove_node"
  <2>1. Edited(g, o) = WithoutNode(g, o.id) /\ id # o.id
    BY <1>2 DEF Named
  <2> QED
    BY <2>1, WithoutNodeParts
<1>3. CASE o.op = "set_param"
  <2>1. id # o.id /\ \E node : Edited(g, o) = WithNode(g, o.id, node)
    BY <1>3 DEF Named
  <2> QED
    BY <2>1, WithNodeParts
<1>4. CASE o.op = "set_semantics"
  <2>1. id # o.id /\ \E node : Edited(g, o) = WithNode(g, o.id, node)
    BY <1>4 DEF Named
  <2> QED
    BY <2>1, WithNodeParts
<1>5. CASE o.op \in {"add_edge", "remove_edge"}
  <2>1. \E edges : Edited(g, o) = WithEdges(g, edges)
    BY <1>5
  <2> QED
    BY <2>1, WithEdgesParts
<1>6. CASE o.op = "spawn_node"
  <2>1. id # o.id /\ Edited(g, o) = SpawnDerived(g, o)
    BY <1>6 DEF Named
  <2>2. \E edges : SpawnDerived(g, o) = WithNode(WithEdges(g, edges), o.id, o.node)
    BY DEF SpawnDerived
  <2> QED
    BY <2>1, <2>2, WithNodeParts, WithEdgesParts
<1> QED
  BY <1>1, <1>2, <1>3, <1>4, <1>5, <1>6 DEF Kinds

\* The list of edges with one more, or with only some of them.
LEMMA EdgeLists ==
    ASSUME NEW T, NEW seq \in Seq(T)
    PROVE  /\ \A x : Append(seq, x) \in Seq(Elements(Append(seq, x)))
           /\ \A set : Among(seq, set) \in Seq(Elements(Among(seq, set)))
<1>1. ASSUME NEW x PROVE Append(seq, x) \in Seq(Elements(Append(seq, x)))
  <2>1. Append(seq, x) \in Seq(T \cup {x})
    OBVIOUS
  <2> QED
    BY <2>1, IsItsElements
<1>2. ASSUME NEW set PROVE Among(seq, set) \in Seq(Elements(Among(seq, set)))
  <2>1. Among(seq, set) \in Seq(T)
    BY AmongMembers
  <2> QED
    BY <2>1, IsItsElements
<1> QED
  BY <1>1, <1>2

\* An accepted operation keeps the graph's shape.
LEMMA EditedShape ==
    ASSUME NEW g, GraphShape(g), NEW o, IsOp(o), Accepts(g, o)
    PROVE  GraphShape(Edited(g, o))
<1> DEFINE h == Edited(g, o)
<1> HIDE DEF h
<1>0. /\ o.op \in Kinds
      /\ IsFiniteSet(Ids(g)) /\ Ids(g) \subseteq Nat /\ g.edges \in Seq(Elements(g.edges))
      /\ \A x : Append(g.edges, x) \in Seq(Elements(Append(g.edges, x)))
      /\ \A set : Among(g.edges, set) \in Seq(Elements(Among(g.edges, set)))
  BY EdgeLists DEF IsOp, GraphShape
<1>1. CASE o.op \in {"add_node", "set_param", "set_semantics"}
  <2>1. o.id \in Nat
    <3>1. CASE o.op = "add_node"
      BY <3>1 DEF IsOp
    <3>2. CASE o.op \in {"set_param", "set_semantics"}
      BY <3>2, <1>0 DEF Accepts
    <3> QED
      BY <1>1, <3>1, <3>2
  <2>2. \E node : h = WithNode(g, o.id, node)
    BY <1>0, <1>1, EditedCases DEF h
  <2>3. Ids(h) = Ids(g) \cup {o.id} /\ h.edges = g.edges
    BY <2>2, WithNodeParts
  <2>4. IsFiniteSet(Ids(h))
    BY <1>0, <2>3, FS_AddElement
  <2>5. GraphShape(h)
    BY <1>0, <2>1, <2>3, <2>4 DEF GraphShape
  <2> QED
    BY <2>5 DEF h
<1>2. CASE o.op = "remove_node"
  <2>1. h = WithoutNode(g, o.id)
    BY <1>0, <1>2, EditedCases DEF h
  <2>2. Ids(h) = Ids(g) \ {o.id} /\ \E set : h.edges = Among(g.edges, set)
    BY <2>1, WithoutNodeParts
  <2>3. IsFiniteSet(Ids(h))
    BY <1>0, <2>2, FS_Subset
  <2>4. h.edges \in Seq(Elements(h.edges))
    BY <1>0, <2>2
  <2>5. GraphShape(h)
    BY <1>0, <2>2, <2>3, <2>4 DEF GraphShape
  <2> QED
    BY <2>5 DEF h
<1>3. CASE o.op = "add_edge"
  <2>1. h = WithEdges(g, Append(g.edges, o.edge))
    BY <1>0, <1>3, EditedCases DEF h
  <2>2. Ids(h) = Ids(g) /\ h.edges = Append(g.edges, o.edge)
    BY <2>1, WithEdgesParts
  <2>3. GraphShape(h)
    BY <1>0, <2>2 DEF GraphShape
  <2> QED
    BY <2>3 DEF h
<1>4. CASE o.op = "remove_edge"
  <2>1. \E set : h = WithEdges(g, Among(g.edges, set))
    BY <1>0, <1>4, EditedCases DEF h
  <2>2. Ids(h) = Ids(g) /\ \E set : h.edges = Among(g.edges, set)
    BY <2>1, WithEdgesParts
  <2>3. GraphShape(h)
    BY <1>0, <2>2 DEF GraphShape
  <2> QED
    BY <2>3 DEF h
<1>5. CASE o.op = "spawn_node"
  <2>1. o.id \in Nat
    BY <1>5 DEF IsOp
  <2>2. h = SpawnDerived(g, o)
    BY <1>0, <1>5, EditedCases DEF h
  <2>3. \E x : SpawnDerived(g, o) = WithNode(WithEdges(g, Append(g.edges, x)), o.id, o.node)
    BY DEF SpawnDerived
  <2>4. PICK x : h = WithNode(WithEdges(g, Append(g.edges, x)), o.id, o.node)
    BY <2>2, <2>3
  <2>5. Ids(h) = Ids(g) \cup {o.id} /\ h.edges = Append(g.edges, x)
    <3> DEFINE w == WithEdges(g, Append(g.edges, x))
    <3>1. Ids(w) = Ids(g) /\ w.edges = Append(g.edges, x)
      BY WithEdgesParts
    <3>2. h = WithNode(w, o.id, o.node)
      BY <2>4
    <3> HIDE DEF w
    <3> QED
      BY <3>1, <3>2, WithNodeParts
  <2>6. IsFiniteSet(Ids(h))
    BY <1>0, <2>5, FS_AddElement
  <2>7. GraphShape(h)
    BY <1>0, <2>1, <2>5, <2>6 DEF GraphShape
  <2> QED
    BY <2>7 DEF h
<1> QED
  BY <1>0, <1>1, <1>2, <1>3, <1>4, <1>5 DEF Kinds

\* A list of operations that are all accepted keeps the graph's shape.
LEMMA AppliedShape ==
    ASSUME NEW base, GraphShape(base), NEW T, NEW ops \in Seq(T),
           \A i \in 1 .. Len(ops) : IsOp(ops[i]), IsFound(ApplyOps(base, ops))
    PROVE  GraphShape(ApplyOps(base, ops).graph)
<1> DEFINE n == Len(ops)
<1>1. PICK f : Applied(f, base, ops) /\ ApplyOps(base, ops) = f[n]
  BY AppliedTrace
<1> DEFINE S == {k \in Nat : k <= n => (IsFound(f[k]) => GraphShape(f[k].graph))}
<1>2. S = Nat
  <2>1. 0 \in S
    <3>1. f[0].graph = base
      <4>1. f[0] = Done(base)
        BY <1>1, AppliedStart
      <4> QED
        BY <4>1 DEF Done
    <3> QED
      BY <3>1
  <2>2. ASSUME NEW k \in S PROVE k + 1 \in S
    <3> SUFFICES ASSUME k + 1 <= n, IsFound(f[k + 1]) PROVE GraphShape(f[k + 1].graph)
      OBVIOUS
    <3>1. k \in Nat /\ k <= n /\ k + 1 \in 1 .. n
      OBVIOUS
    <3>2. f[k + 1] = AndThen(f[k], ops[k + 1])
      BY <1>1, <3>1, AppliedStep
    <3>3. /\ IsFound(f[k]) /\ Accepts(f[k].graph, ops[k + 1])
          /\ f[k + 1].graph = Edited(f[k].graph, ops[k + 1])
      BY <3>2, AndThenCases
    <3>4. GraphShape(f[k].graph) /\ IsOp(ops[k + 1])
      BY <3>1, <3>3
    <3> QED
      BY <3>3, <3>4, EditedShape
  <2> HIDE DEF S
  <2>3. S \in SUBSET Nat
    BY DEF S
  <2> QED
    BY <2>1, <2>2, <2>3, Induction
<1>3. n \in S /\ n <= n
  BY <1>2
<1> QED
  BY <1>1, <1>3

\* It leaves the revision and every node it does not name as they are.
LEMMA AppliedUnnamed ==
    ASSUME NEW base, NEW T, NEW ops \in Seq(T),
           \A i \in 1 .. Len(ops) : ops[i].op \in Kinds, IsFound(ApplyOps(base, ops)),
           NEW id, id \notin NamedBy(ops)
    PROVE  /\ ApplyOps(base, ops).graph.rev = base.rev
           /\ id \in Ids(ApplyOps(base, ops).graph) <=> id \in Ids(base)
           /\ id \in Ids(base) => ApplyOps(base, ops).graph.nodes[id] = base.nodes[id]
<1> DEFINE n == Len(ops)
<1>1. PICK f : Applied(f, base, ops) /\ ApplyOps(base, ops) = f[n]
  BY AppliedTrace
<1>2. ASSUME NEW i \in 1 .. n PROVE id \notin Named(ops[i])
  <2>1. ops[i] \in Elements(ops)
    BY DEF Elements
  <2> QED
    BY <2>1 DEF NamedBy, Named
<1> DEFINE Same(g) == /\ g.rev = base.rev
                      /\ id \in Ids(g) <=> id \in Ids(base)
                      /\ id \in Ids(base) => g.nodes[id] = base.nodes[id]
           S == {k \in Nat : k <= n => (IsFound(f[k]) => Same(f[k].graph))}
<1>3. S = Nat
  <2>1. 0 \in S
    <3>1. f[0].graph = base
      <4>1. f[0] = Done(base)
        BY <1>1, AppliedStart
      <4> QED
        BY <4>1 DEF Done
    <3> QED
      BY <3>1
  <2>2. ASSUME NEW k \in S PROVE k + 1 \in S
    <3> SUFFICES ASSUME k + 1 <= n, IsFound(f[k + 1]) PROVE Same(f[k + 1].graph)
      OBVIOUS
    <3>1. k \in Nat /\ k <= n /\ k + 1 \in 1 .. n
      OBVIOUS
    <3>2. f[k + 1] = AndThen(f[k], ops[k + 1])
      BY <1>1, <3>1, AppliedStep
    <3>3. /\ IsFound(f[k])
          /\ f[k + 1].graph = Edited(f[k].graph, ops[k + 1])
      BY <3>2, AndThenCases
    <3>4. Same(f[k].graph)
      BY <3>1, <3>3
    <3>5. ops[k + 1].op \in Kinds /\ id \notin Named(ops[k + 1])
      BY <3>1, <1>2
    <3>6. PICK g : g = f[k].graph
      OBVIOUS
    <3>7. /\ Edited(g, ops[k + 1]).rev = g.rev
          /\ id \in Ids(Edited(g, ops[k + 1])) <=> id \in Ids(g)
          /\ id \in Ids(g) => Edited(g, ops[k + 1]).nodes[id] = g.nodes[id]
      BY <3>5, EditedUnnamed
    <3> QED
      BY <3>3, <3>4, <3>6, <3>7
  <2> HIDE DEF S
  <2>3. S \in SUBSET Nat
    BY DEF S
  <2> QED
    BY <2>1, <2>2, <2>3, Induction
<1>4. n \in S /\ n <= n
  BY <1>3
<1> QED
  BY <1>1, <1>4

\* prepare_ops leaves a trace of the same kind.
PreparedBy(f, base, ops, rev) ==
    f = [i \in 0 .. Len(ops) |-> IF i = 0 THEN Done(base)
                            ELSE AndThenPrepared(f[i - 1], ops[i], rev)]

LEMMA PreparedTrace ==
    ASSUME NEW base, NEW T, NEW ops \in Seq(T), NEW rev
    PROVE  \E f : PreparedBy(f, base, ops, rev) /\ PreparedOps(base, ops, rev) = f[Len(ops)]
<1> DEFINE n == Len(ops)
           Is(k, f) == f = [i \in 0 .. k |-> IF i = 0 THEN Done(base)
                                              ELSE AndThenPrepared(f[i - 1], ops[i], rev)]
           S == {k \in Nat : \E f : Is(k, f)}
           after == CHOOSE f : Is(n, f)
<1>1. S = Nat
  <2>1. 0 \in S
    <3> DEFINE f == [i \in 0 .. 0 |-> Done(base)]
    <3>1. \A i \in 0 .. 0 : i = 0
      OBVIOUS
    <3>2. Is(0, f)
      BY <3>1
    <3> QED
      BY <3>2
  <2>2. ASSUME NEW k \in S PROVE k + 1 \in S
    <3>1. PICK f : Is(k, f)
      BY <2>2
    <3> DEFINE last == AndThenPrepared(f[k], ops[(k + 1)], rev)
               g == [i \in 0 .. k + 1 |-> IF i = k + 1 THEN last ELSE f[i]]
    <3>2. k \in Nat
      BY <2>2
    <3>3. \A i \in 0 .. k + 1 : g[i] = IF i = 0 THEN Done(base)
                                     ELSE AndThenPrepared(g[i - 1], ops[i], rev)
      <4> SUFFICES ASSUME NEW i \in 0 .. k + 1
                   PROVE  g[i] = IF i = 0 THEN Done(base)
                                 ELSE AndThenPrepared(g[i - 1], ops[i], rev)
        OBVIOUS
      <4>1. CASE i = k + 1
        <5>1. i # 0 /\ i - 1 = k /\ k \in 0 .. k + 1 /\ k # k + 1
          BY <4>1, <3>2
        <5>2. g[i] = last /\ g[i - 1] = f[k]
          <6> HIDE DEF last
          <6> QED
            BY <4>1, <5>1
        <5> HIDE DEF g
        <5> QED
          BY <4>1, <5>1, <5>2
      <4>2. CASE i # k + 1
        <5>1. i \in 0 .. k /\ (i # 0 => i - 1 \in 0 .. k /\ i - 1 # k + 1)
          BY <4>2, <3>2
        <5>2. g[i] = f[i] /\ (i # 0 => g[i - 1] = f[i - 1])
          <6> HIDE DEF last
          <6> QED
            BY <4>2, <5>1, <3>2
        <5>3. f[i] = IF i = 0 THEN Done(base)
                     ELSE AndThenPrepared(f[i - 1], ops[i], rev)
          BY <3>1, <5>1
        <5> HIDE DEF g
        <5> QED
          BY <5>2, <5>3
      <4> QED
        BY <4>1, <4>2
    <3> HIDE DEF g
    <3>4. g = [i \in 0 .. k + 1 |-> g[i]]
      BY DEF g
    <3>5. Is(k + 1, g)
      BY <3>3, <3>4, Zenon
    <3>6. \E h : Is(k + 1, h)
      BY <3>5, Zenon
    <3> HIDE DEF Is
    <3> QED
      BY <3>6, <3>2
  <2> HIDE DEF S
  <2>3. S \in SUBSET Nat
    BY DEF S
  <2> QED
    BY <2>1, <2>2, <2>3, Induction
<1>2. \E f : Is(n, f)
  BY <1>1
<1>3. Is(n, after)
  BY <1>2, Zenon
<1>4. PreparedOps(base, ops, rev) = after[Len(ops)]
  BY Zenon DEF PreparedOps
<1> QED
  BY <1>3, <1>4, Zenon DEF PreparedBy

\* So does the translation of a plan.
TranslatedBy(f, base, plan, preference, up) ==
    f = [i \in 0 .. Len(plan) |-> IF i = 0 THEN [preview |-> base, ops |-> <<>>]
                            ELSE AfterEdit(f[i - 1], plan[i], preference, up)]

LEMMA TranslatedTrace ==
    ASSUME NEW base, NEW T, NEW plan \in Seq(T), NEW preference, NEW up
    PROVE  \E f : TranslatedBy(f, base, plan, preference, up) /\ TranslatePlan(base, plan, preference, up) = f[Len(plan)]
<1> DEFINE n == Len(plan)
           Is(k, f) == f = [i \in 0 .. k |-> IF i = 0 THEN [preview |-> base, ops |-> <<>>]
                                              ELSE AfterEdit(f[i - 1], plan[i], preference, up)]
           S == {k \in Nat : \E f : Is(k, f)}
           after == CHOOSE f : Is(n, f)
<1>1. S = Nat
  <2>1. 0 \in S
    <3> DEFINE f == [i \in 0 .. 0 |-> [preview |-> base, ops |-> <<>>]]
    <3>1. \A i \in 0 .. 0 : i = 0
      OBVIOUS
    <3>2. Is(0, f)
      BY <3>1
    <3> QED
      BY <3>2
  <2>2. ASSUME NEW k \in S PROVE k + 1 \in S
    <3>1. PICK f : Is(k, f)
      BY <2>2
    <3> DEFINE last == AfterEdit(f[k], plan[(k + 1)], preference, up)
               g == [i \in 0 .. k + 1 |-> IF i = k + 1 THEN last ELSE f[i]]
    <3>2. k \in Nat
      BY <2>2
    <3>3. \A i \in 0 .. k + 1 : g[i] = IF i = 0 THEN [preview |-> base, ops |-> <<>>]
                                     ELSE AfterEdit(g[i - 1], plan[i], preference, up)
      <4> SUFFICES ASSUME NEW i \in 0 .. k + 1
                   PROVE  g[i] = IF i = 0 THEN [preview |-> base, ops |-> <<>>]
                                 ELSE AfterEdit(g[i - 1], plan[i], preference, up)
        OBVIOUS
      <4>1. CASE i = k + 1
        <5>1. i # 0 /\ i - 1 = k /\ k \in 0 .. k + 1 /\ k # k + 1
          BY <4>1, <3>2
        <5>2. g[i] = last /\ g[i - 1] = f[k]
          <6> HIDE DEF last
          <6> QED
            BY <4>1, <5>1
        <5> HIDE DEF g
        <5> QED
          BY <4>1, <5>1, <5>2
      <4>2. CASE i # k + 1
        <5>1. i \in 0 .. k /\ (i # 0 => i - 1 \in 0 .. k /\ i - 1 # k + 1)
          BY <4>2, <3>2
        <5>2. g[i] = f[i] /\ (i # 0 => g[i - 1] = f[i - 1])
          <6> HIDE DEF last
          <6> QED
            BY <4>2, <5>1, <3>2
        <5>3. f[i] = IF i = 0 THEN [preview |-> base, ops |-> <<>>]
                     ELSE AfterEdit(f[i - 1], plan[i], preference, up)
          BY <3>1, <5>1
        <5> HIDE DEF g
        <5> QED
          BY <5>2, <5>3
      <4> QED
        BY <4>1, <4>2
    <3> HIDE DEF g
    <3>4. g = [i \in 0 .. k + 1 |-> g[i]]
      BY DEF g
    <3>5. Is(k + 1, g)
      BY <3>3, <3>4, Zenon
    <3>6. \E h : Is(k + 1, h)
      BY <3>5, Zenon
    <3> HIDE DEF Is
    <3> QED
      BY <3>6, <3>2
  <2> HIDE DEF S
  <2>3. S \in SUBSET Nat
    BY DEF S
  <2> QED
    BY <2>1, <2>2, <2>3, Induction
<1>2. \E f : Is(n, f)
  BY <1>1
<1>3. Is(n, after)
  BY <1>2, Zenon
<1>4. TranslatePlan(base, plan, preference, up) = after[Len(plan)]
  BY Zenon DEF TranslatePlan
<1> QED
  BY <1>3, <1>4, Zenon DEF TranslatedBy


\* The sequence of a finite set: each member once.
LEMMA ListedOnce ==
    ASSUME NEW S, IsFiniteSet(S)
    PROVE  /\ SetToSeq(S) \in Seq(S)
           /\ Len(SetToSeq(S)) = Cardinality(S) /\ Cardinality(S) \in Nat
           /\ Elements(SetToSeq(S)) = S
           /\ \A i, j \in 1 .. Cardinality(S) : SetToSeq(S)[i] = SetToSeq(S)[j] => i = j
<1> DEFINE n == Cardinality(S)
           f == SetToSeq(S)
<1>1. n \in Nat /\ ExistsBijection(1 .. n, S)
  BY FS_CardinalityType
<1>2. \E g \in [1 .. n -> S] : IsInjective(g)
  BY <1>1 DEF ExistsBijection, Bijection, Injection, IsInjective
<1>3. f \in [1 .. n -> S] /\ IsInjective(f)
  BY <1>2 DEF SetToSeq
<1> HIDE DEF f
<1>4. DOMAIN f = 1 .. n /\ f \in Seq(S) /\ Len(f) = n
  BY <1>1, <1>3
<1>5. \A i, j \in 1 .. n : f[i] = f[j] => i = j
  BY <1>3, <1>4 DEF IsInjective
<1>6. Elements(f) = S
  <2>1. f \in Injection(1 .. n, S)
    BY <1>3, <1>5 DEF Injection, IsInjective
  <2>2. Cardinality(1 .. n) = Cardinality(S)
    BY <1>1, FS_Interval
  <2>3. f \in Surjection(1 .. n, S)
    BY <2>1, <2>2, FS_Injection
  <2> QED
    BY <1>4, <2>3 DEF Surjection, Elements
<1> QED
  BY <1>1, <1>4, <1>5, <1>6 DEF f

LEMMA PreparedStart ==
    ASSUME NEW base, NEW T, NEW ops \in Seq(T), NEW rev, NEW f, PreparedBy(f, base, ops, rev)
    PROVE  f[0] = Done(base)
<1>1. 0 \in 0 .. Len(ops)
  OBVIOUS
<1> QED
  BY <1>1 DEF PreparedBy

LEMMA PreparedStep ==
    ASSUME NEW base, NEW T, NEW ops \in Seq(T), NEW rev, NEW f, PreparedBy(f, base, ops, rev),
           NEW k \in Nat, k + 1 <= Len(ops)
    PROVE  f[k + 1] = AndThenPrepared(f[k], ops[k + 1], rev)
<1>1. k + 1 \in 0 .. Len(ops) /\ k + 1 # 0 /\ (k + 1) - 1 = k
  OBVIOUS
<1> QED
  BY <1>1 DEF PreparedBy

LEMMA TranslatedStart ==
    ASSUME NEW base, NEW T, NEW plan \in Seq(T), NEW preference, NEW up, NEW f,
           TranslatedBy(f, base, plan, preference, up)
    PROVE  f[0] = [preview |-> base, ops |-> <<>>]
<1>1. 0 \in 0 .. Len(plan)
  OBVIOUS
<1> QED
  BY <1>1 DEF TranslatedBy

LEMMA TranslatedStep ==
    ASSUME NEW base, NEW T, NEW plan \in Seq(T), NEW preference, NEW up, NEW f,
           TranslatedBy(f, base, plan, preference, up), NEW k \in Nat, k + 1 <= Len(plan)
    PROVE  f[k + 1] = AfterEdit(f[k], plan[k + 1], preference, up)
<1>1. k + 1 \in 0 .. Len(plan) /\ k + 1 # 0 /\ (k + 1) - 1 = k
  OBVIOUS
<1> QED
  BY <1>1 DEF TranslatedBy


\* A migration touches neither the edges nor which nodes there are.
LEMMA MigratedShape ==
    ASSUME NEW g, GraphShape(g), NEW connector, NEW rev, MigrateV1(g, connector, rev) # Refused
    PROVE  GraphShape(MigrateV1(g, connector, rev))
<1> DEFINE h == MigrateV1(g, connector, rev)
<1>1. Ids(h) = Ids(g) /\ h.edges = g.edges
  BY DEF MigrateV1, Ids
<1> HIDE DEF h
<1>2. GraphShape(h)
  BY <1>1 DEF GraphShape
<1> QED
  BY <1>2 DEF h

LEMMA AndThenPreparedCases ==
    ASSUME NEW result, NEW o, NEW rev, IsFound(AndThenPrepared(result, o, rev)),
           NEW g, g = Prepared(result.graph, o, rev)
    PROVE  /\ IsFound(result) /\ g # Refused
           /\ Accepts(g, o)
           /\ AndThenPrepared(result, o, rev).graph = Edited(g, o)
<1>1. IsFound(result) /\ AndThenPrepared(result, o, rev) = AppliedIfReady(g, o)
  BY DEF AndThenPrepared
<1>2. g # Refused /\ AppliedIfReady(g, o) = ApplyOp(g, o)
  BY <1>1 DEF AppliedIfReady, IsFound, Refusal
<1>3. Accepts(g, o) /\ ApplyOp(g, o) = Done(Edited(g, o))
  BY <1>1, <1>2 DEF ApplyOp, IsFound, Refusal
<1> QED
  BY <1>1, <1>2, <1>3 DEF Done

\* What the workbench's operations make of a graph keeps its shape, and leaves the
\* nodes they do not name alone when the graph has its revision.
LEMMA PreparedGraph ==
    ASSUME NEW base, GraphShape(base), NEW T, NEW ops \in Seq(T), NEW rev,
           \A i \in 1 .. Len(ops) : IsOp(ops[i]), IsFound(PreparedOps(base, ops, rev))
    PROVE  GraphShape(PreparedOps(base, ops, rev).graph)
<1> DEFINE n == Len(ops)
<1>1. PICK f : PreparedBy(f, base, ops, rev) /\ PreparedOps(base, ops, rev) = f[n]
  BY PreparedTrace
<1> DEFINE S == {k \in Nat : k <= n => (IsFound(f[k]) => GraphShape(f[k].graph))}
<1>2. S = Nat
  <2>1. 0 \in S
    <3>1. f[0].graph = base
      <4>1. f[0] = Done(base)
        BY <1>1, PreparedStart
      <4> QED
        BY <4>1 DEF Done
    <3> QED
      BY <3>1
  <2>2. ASSUME NEW k \in S PROVE k + 1 \in S
    <3> SUFFICES ASSUME k + 1 <= n, IsFound(f[k + 1]) PROVE GraphShape(f[k + 1].graph)
      OBVIOUS
    <3>1. k \in Nat /\ k <= n /\ k + 1 \in 1 .. n
      OBVIOUS
    <3>2. f[k + 1] = AndThenPrepared(f[k], ops[k + 1], rev)
      BY <1>1, <3>1, PreparedStep
    <3>3. PICK g : g = Prepared(f[k].graph, ops[k + 1], rev)
      OBVIOUS
    <3>4. /\ IsFound(f[k]) /\ g # Refused /\ Accepts(g, ops[k + 1])
          /\ f[k + 1].graph = Edited(g, ops[k + 1])
      BY <3>2, <3>3, AndThenPreparedCases
    <3>5. GraphShape(f[k].graph) /\ IsOp(ops[k + 1])
      BY <3>1, <3>4
    <3>6. GraphShape(g)
      BY <3>3, <3>4, <3>5, MigratedShape DEF Prepared
    <3> QED
      BY <3>4, <3>5, <3>6, EditedShape
  <2> HIDE DEF S
  <2>3. S \in SUBSET Nat
    BY DEF S
  <2> QED
    BY <2>1, <2>2, <2>3, Induction
<1>3. n \in S /\ n <= n
  BY <1>2
<1> QED
  BY <1>1, <1>3

LEMMA PreparedUnnamed ==
    ASSUME NEW base, base.rev # NoRevision, NEW T, NEW ops \in Seq(T), NEW rev,
           \A i \in 1 .. Len(ops) : ops[i].op \in Kinds, IsFound(PreparedOps(base, ops, rev)),
           NEW id, id \notin NamedBy(ops)
    PROVE  /\ PreparedOps(base, ops, rev).graph.rev = base.rev
           /\ id \in Ids(PreparedOps(base, ops, rev).graph) <=> id \in Ids(base)
           /\ id \in Ids(base) => PreparedOps(base, ops, rev).graph.nodes[id] = base.nodes[id]
<1> DEFINE n == Len(ops)
<1>1. PICK f : PreparedBy(f, base, ops, rev) /\ PreparedOps(base, ops, rev) = f[n]
  BY PreparedTrace
<1>2. ASSUME NEW i \in 1 .. n PROVE id \notin Named(ops[i])
  <2>1. ops[i] \in Elements(ops)
    BY DEF Elements
  <2> QED
    BY <2>1 DEF NamedBy, Named
<1> DEFINE Same(g) == /\ g.rev = base.rev
                      /\ id \in Ids(g) <=> id \in Ids(base)
                      /\ id \in Ids(base) => g.nodes[id] = base.nodes[id]
           S == {k \in Nat : k <= n => (IsFound(f[k]) => Same(f[k].graph))}
<1>3. S = Nat
  <2>1. 0 \in S
    <3>1. f[0].graph = base
      <4>1. f[0] = Done(base)
        BY <1>1, PreparedStart
      <4> QED
        BY <4>1 DEF Done
    <3> QED
      BY <3>1
  <2>2. ASSUME NEW k \in S PROVE k + 1 \in S
    <3> SUFFICES ASSUME k + 1 <= n, IsFound(f[k + 1]) PROVE Same(f[k + 1].graph)
      OBVIOUS
    <3>1. k \in Nat /\ k <= n /\ k + 1 \in 1 .. n
      OBVIOUS
    <3>2. f[k + 1] = AndThenPrepared(f[k], ops[k + 1], rev)
      BY <1>1, <3>1, PreparedStep
    <3>3. PICK g : g = Prepared(f[k].graph, ops[k + 1], rev)
      OBVIOUS
    <3>4. IsFound(f[k]) /\ f[k + 1].graph = Edited(g, ops[k + 1])
      BY <3>2, <3>3, AndThenPreparedCases
    <3>5. Same(f[k].graph)
      BY <3>1, <3>4
    <3>6. g = f[k].graph
      BY <3>3, <3>5 DEF Prepared
    <3>7. ops[k + 1].op \in Kinds /\ id \notin Named(ops[k + 1])
      BY <3>1, <1>2
    <3>8. /\ Edited(g, ops[k + 1]).rev = g.rev
          /\ id \in Ids(Edited(g, ops[k + 1])) <=> id \in Ids(g)
          /\ id \in Ids(g) => Edited(g, ops[k + 1]).nodes[id] = g.nodes[id]
      BY <3>7, EditedUnnamed
    <3> QED
      BY <3>4, <3>5, <3>6, <3>8
  <2> HIDE DEF S
  <2>3. S \in SUBSET Nat
    BY DEF S
  <2> QED
    BY <2>1, <2>2, <2>3, Induction
<1>4. n \in S /\ n <= n
  BY <1>3
<1> QED
  BY <1>1, <1>4

-----------------------------------------------------------------------------
(* The agent's edits.                                                      *)

\* The node runs nothing, or what it is pinned to was found for the preference.
PinnedFor(node, preference, up) ==
    LET capability == CapabilityOf(node)
    IN  \/ capability = None
        \/ \E query : LET result == Resolve(capability, query, preference, up)
                      IN  IsFound(result) /\ node.sem = Pinned(capability, result.binding)

\* What an edit may be translated to.
IsTranslation(o, preference, up) ==
    /\ o.op \in {"add_node", "remove_node", "set_param", "add_edge", "remove_edge"}
    /\ o.op = "add_node" => o.id \in Nat /\ PinnedFor(o.node, preference, up)

LEMMA AddedNodePinned ==
    ASSUME NEW o, NEW preference, NEW up, AddedNode(o, preference, up) # Refused
    PROVE  PinnedFor(AddedNode(o, preference, up), preference, up)
<1>1. o.type \in Types
  BY DEF AddedNode
<1>2. CASE Registry[o.type].capability = None
  BY <1>1, <1>2 DEF AddedNode, PinnedFor, CapabilityOf
<1>3. CASE Registry[o.type].capability # None
  <2> DEFINE result == Resolve(Registry[o.type].capability, o.query, preference, up)
             node == AddedNode(o, preference, up)
  <2>1. node = NodeRunning(o, result)
    BY <1>1, <1>3 DEF AddedNode
  <2>2. IsFound(result)
    BY <2>1 DEF NodeRunning
  <2>3. node.type = o.type /\ node.sem = Pinned(Registry[o.type].capability, result.binding)
    BY <2>1, <2>2 DEF NodeRunning
  <2> HIDE DEF node
  <2>4. PinnedFor(node, preference, up)
    BY <2>2, <2>3 DEF PinnedFor, CapabilityOf
  <2> QED
    BY <2>4 DEF node
<1> QED
  BY <1>2, <1>3

LEMMA Translations ==
    ASSUME NEW g, NEW o, IsEdit(o), NEW preference, NEW up,
           NEW ops, ops = TranslateOp(g, o, preference, up), ops # Refused
    PROVE  /\ ops \in Seq(Elements(ops))
           /\ \A i \in 1 .. Len(ops) : IsTranslation(ops[i], preference, up)
<1>1. ASSUME NEW p, IsTranslation(p, preference, up), ops = <<p>>
      PROVE  /\ ops \in Seq(Elements(ops))
             /\ \A i \in 1 .. Len(ops) : IsTranslation(ops[i], preference, up)
  <2>1. ops \in Seq({p}) /\ Len(ops) = 1 /\ ops[1] = p
    BY <1>1
  <2>2. ops \in Seq(Elements(ops))
    BY <2>1, IsItsElements
  <2>3. \A i \in 1 .. Len(ops) : i = 1
    BY <2>1
  <2> QED
    BY <1>1, <2>1, <2>2, <2>3
<1>2. CASE o.edit = "add_node"
  <2> DEFINE node == AddedNode(o, preference, up)
             p == [op |-> "add_node", id |-> o.id, node |-> node]
  <2>1. ops = AddNodeOps(o, node)
    BY <1>2 DEF TranslateOp
  <2>2. node # Refused /\ ops = <<p>>
    BY <2>1 DEF AddNodeOps
  <2>3. PinnedFor(node, preference, up)
    BY <2>2, AddedNodePinned
  <2>4. o.id \in Nat
    BY <1>2 DEF IsEdit
  <2> HIDE DEF node
  <2>5. IsTranslation(p, preference, up)
    BY <2>3, <2>4 DEF IsTranslation
  <2> QED
    BY <1>1, <2>2, <2>5
<1>3. CASE o.edit = "update_node"
  <2> DEFINE P == {[op |-> "set_param", id |-> o.id, key |-> k] : k \in o.params}
  <2>1. ops = SetToSeq(P)
    BY <1>3 DEF TranslateOp
  <2>2. IsFiniteSet(P)
    <3>1. IsFiniteSet(o.params)
      BY <1>3 DEF IsEdit
    <3> DEFINE op == [k \in o.params |-> [op |-> "set_param", id |-> o.id, key |-> k]]
    <3>2. op \in Surjection(o.params, P)
      BY DEF Surjection
    <3> QED
      BY <3>1, <3>2, FS_Surjection
  <2>3. ops \in Seq(P)
    BY <2>1, <2>2, ListedOnce
  <2>4. \A p \in P : IsTranslation(p, preference, up)
    BY DEF IsTranslation
  <2>5. \A i \in 1 .. Len(ops) : ops[i] \in P
    BY <2>3
  <2> HIDE DEF P
  <2> QED
    BY <2>3, <2>4, <2>5, IsItsElements
<1>4. CASE o.edit = "remove_node"
  <2> DEFINE p == [op |-> "remove_node", id |-> o.id]
  <2>1. ops = <<p>>
    BY <1>4 DEF TranslateOp
  <2>2. IsTranslation(p, preference, up)
    BY DEF IsTranslation
  <2> HIDE DEF p
  <2> QED
    BY <1>1, <2>1, <2>2
<1>5. ASSUME NEW kind \in {"add_edge", "remove_edge"}, NEW edge, ops = EdgeOps(kind, edge)
      PROVE  /\ ops \in Seq(Elements(ops))
             /\ \A i \in 1 .. Len(ops) : IsTranslation(ops[i], preference, up)
  <2> DEFINE p == [op |-> kind, edge |-> edge]
  <2>1. ops = <<p>>
    BY <1>5 DEF EdgeOps
  <2>2. IsTranslation(p, preference, up)
    BY DEF IsTranslation
  <2> HIDE DEF p
  <2> QED
    BY <1>1, <2>1, <2>2
<1>6. CASE o.edit = "connect"
  <2>1. ops = EdgeOps("add_edge", TypedEdge(g, o))
    BY <1>6 DEF TranslateOp
  <2> QED
    BY <1>5, <2>1
<1>7. CASE o.edit = "disconnect"
  <2> DEFINE edge == First(g.edges, LAMBDA e : e.from = o.from /\ e.to = o.to)
  <2>1. ops = EdgeOps("remove_edge", edge)
    BY <1>7 DEF TranslateOp
  <2> HIDE DEF edge
  <2> QED
    BY <1>5, <2>1
<1> QED
  BY <1>2, <1>3, <1>4, <1>6, <1>7 DEF IsEdit, EditKinds

LEMMA FoundIsDone ==
    ASSUME NEW base, NEW T, NEW ops \in Seq(T), IsFound(ApplyOps(base, ops))
    PROVE  ApplyOps(base, ops) = Done(ApplyOps(base, ops).graph)
<1>1. PICK f : Applied(f, base, ops) /\ ApplyOps(base, ops) = f[Len(ops)]
  BY AppliedTrace
<1>2. Len(ops) \in 0 .. Len(ops)
  OBVIOUS
<1> QED
  BY <1>1, <1>2, AppliedResults

\* One list after the other.
LEMMA Joined ==
    ASSUME NEW a, a \in Seq(Elements(a)), NEW b, b \in Seq(Elements(b))
    PROVE  /\ \E T : a \in Seq(T) /\ b \in Seq(T)
           /\ a \o b \in Seq(Elements(a \o b))
<1> DEFINE T == Elements(a) \cup Elements(b)
<1>1. a \in Seq(T) /\ b \in Seq(T) /\ a \o b \in Seq(T)
  OBVIOUS
<1>2. a \o b \in Seq(Elements(a \o b))
  BY <1>1, IsItsElements
<1>3. \E U : a \in Seq(U) /\ b \in Seq(U)
  <2> HIDE DEF T
  <2> QED
    BY <1>1, Zenon
<1> QED
  BY <1>2, <1>3

LEMMA JoinedItems ==
    ASSUME NEW a, a \in Seq(Elements(a)), NEW b, b \in Seq(Elements(b)),
           NEW i \in 1 .. Len(a \o b)
    PROVE  \/ \E j \in 1 .. Len(a) : (a \o b)[i] = a[j]
           \/ \E j \in 1 .. Len(b) : (a \o b)[i] = b[j]
<1>1. /\ Len(a) \in Nat /\ Len(b) \in Nat /\ Len(a \o b) = Len(a) + Len(b)
      /\ (a \o b)[i] = IF i <= Len(a) THEN a[i] ELSE b[i - Len(a)]
  <2>1. PICK T : a \in Seq(T) /\ b \in Seq(T)
    BY Joined
  <2> QED
    BY <2>1
<1>2. CASE i <= Len(a)
  BY <1>1, <1>2
<1>3. CASE i > Len(a)
  <2>1. i - Len(a) \in 1 .. Len(b)
    BY <1>1, <1>3
  <2> QED
    BY <1>1, <1>3, <2>1
<1> QED
  BY <1>1, <1>2, <1>3

\* The preview of a compiled edit is what its operations make of the graph.
LEMMA CompiledEdit ==
    ASSUME NEW base, NEW T, NEW plan \in Seq(T), \A i \in 1 .. Len(plan) : IsEdit(plan[i]),
           NEW preference, NEW up,
           NEW compiled, compiled = CompileCanvasEdit(base, plan, preference, up),
           compiled # Refused
    PROVE  /\ compiled.ops \in Seq(Elements(compiled.ops))
           /\ \A i \in 1 .. Len(compiled.ops) : IsTranslation(compiled.ops[i], preference, up)
           /\ ApplyOps(base, compiled.ops) = Done(compiled.preview)
<1> DEFINE n == Len(plan)
           Good(acc) == /\ acc.ops \in Seq(Elements(acc.ops))
                        /\ \A i \in 1 .. Len(acc.ops) : IsTranslation(acc.ops[i], preference, up)
                        /\ ApplyOps(base, acc.ops) = Done(acc.preview)
<1>1. compiled = TranslatePlan(base, plan, preference, up)
  BY DEF CompileCanvasEdit, WithFittingParams
<1>2. PICK f : TranslatedBy(f, base, plan, preference, up) /\ compiled = f[n]
  BY <1>1, TranslatedTrace
<1>s. ASSUME NEW k \in Nat, k + 1 <= Len(plan)
      PROVE  f[k + 1] = AfterEdit(f[k], plan[k + 1], preference, up)
  <2>1. k + 1 \in 0 .. Len(plan) /\ k + 1 # 0 /\ (k + 1) - 1 = k
    BY <1>s
  <2>2. f = [i \in 0 .. Len(plan) |-> IF i = 0 THEN [preview |-> base, ops |-> <<>>]
                                     ELSE AfterEdit(f[i - 1], plan[i], preference, up)]
    BY <1>2 DEF TranslatedBy
  <2>3. f[k + 1] = IF k + 1 = 0 THEN [preview |-> base, ops |-> <<>>]
                   ELSE AfterEdit(f[(k + 1) - 1], plan[k + 1], preference, up)
    BY <2>1, <2>2
  <2> QED
    BY <2>1, <2>3
<1> DEFINE S == {k \in Nat : k <= n => (f[k] # Refused => Good(f[k]))}
<1>3. 0 \in S
  <2>1. f[0] = [preview |-> base, ops |-> <<>>]
    BY <1>2, TranslatedStart
  <2>2. f[0].preview = base /\ f[0].ops = <<>>
    BY <2>1
  <2>3. <<>> \in Seq(Elements(<<>>)) /\ Len(<<>>) = 0
    OBVIOUS
  <2>4. Good(f[0])
    BY <2>2, <2>3, NothingApplied
  <2> HIDE DEF Good
  <2> QED
    BY <2>4
<1>4. ASSUME NEW k \in S PROVE k + 1 \in S
  <2> SUFFICES ASSUME k + 1 <= n, f[k + 1] # Refused PROVE Good(f[k + 1])
    OBVIOUS
  <2>1. k \in Nat /\ k <= n /\ k + 1 \in 1 .. n
    OBVIOUS
  <2>2. f[k + 1] = AfterEdit(f[k], plan[k + 1], preference, up)
    <3>1. k \in Nat /\ k + 1 <= Len(plan)
      BY <2>1
    <3> QED
      BY <1>s, <3>1
  <2>3. PICK acc : acc = f[k]
    OBVIOUS
  <2>4. PICK ops : ops = TranslateOp(acc.preview, plan[k + 1], preference, up)
    OBVIOUS
  <2>5. PICK result : result = ApplyOps(acc.preview, ops)
    OBVIOUS
  <2>6. /\ acc # Refused /\ ops # Refused /\ IsFound(result)
        /\ f[k + 1] = [preview |-> result.graph, ops |-> acc.ops \o ops]
    BY <2>2, <2>3, <2>4, <2>5 DEF AfterEdit, Translated, Extended
  <2>7. Good(acc)
    BY <2>1, <2>3, <2>6
  <2>8. /\ ops \in Seq(Elements(ops))
        /\ \A i \in 1 .. Len(ops) : IsTranslation(ops[i], preference, up)
    BY <2>1, <2>4, <2>6, Translations
  <2>9. PICK joined : joined = acc.ops \o ops
    OBVIOUS
  <2>10. /\ joined \in Seq(Elements(joined))
         /\ \A i \in 1 .. Len(joined) : IsTranslation(joined[i], preference, up)
         /\ \E U : acc.ops \in Seq(U) /\ ops \in Seq(U)
    <3>1. PICK a : a = acc.ops
      OBVIOUS
    <3>2. a \in Seq(Elements(a)) /\ \A i \in 1 .. Len(a) : IsTranslation(a[i], preference, up)
      BY <2>7, <3>1
    <3>3. /\ \E U : a \in Seq(U) /\ ops \in Seq(U)
          /\ joined \in Seq(Elements(joined))
      BY <2>8, <2>9, <3>1, <3>2, Joined
    <3>4. ASSUME NEW i \in 1 .. Len(joined) PROVE IsTranslation(joined[i], preference, up)
      <4>1. \/ \E j \in 1 .. Len(a) : joined[i] = a[j]
            \/ \E j \in 1 .. Len(ops) : joined[i] = ops[j]
        <5>1. joined = a \o ops /\ i \in 1 .. Len(a \o ops)
          BY <2>9, <3>1
        <5>2. \/ \E j \in 1 .. Len(a) : (a \o ops)[i] = a[j]
              \/ \E j \in 1 .. Len(ops) : (a \o ops)[i] = ops[j]
          BY <2>8, <3>2, <5>1, JoinedItems
        <5> QED
          BY <5>1, <5>2
      <4> QED
        BY <2>8, <3>2, <4>1
    <3> QED
      BY <3>1, <3>3, <3>4
  <2>11. ApplyOps(base, joined) = Done(result.graph)
    <3>1. ApplyOps(base, acc.ops) = Done(acc.preview)
      BY <2>7
    <3>2. IsFound(ApplyOps(base, acc.ops)) /\ ApplyOps(base, acc.ops).graph = acc.preview
      BY <3>1 DEF IsFound, Done
    <3>3. ApplyOps(base, joined) = ApplyOps(acc.preview, ops)
      BY <2>9, <2>10, <3>2, AppliedInTurn
    <3>4. result = Done(result.graph)
      BY <2>5, <2>6, <2>8, FoundIsDone
    <3> QED
      BY <2>5, <3>3, <3>4
  <2>12. f[k + 1].ops = joined /\ f[k + 1].preview = result.graph
    BY <2>6, <2>9
  <2> QED
    BY <2>10, <2>11, <2>12
<1>5. S = Nat
  <2> HIDE DEF S
  <2>1. S \in SUBSET Nat
    BY DEF S
  <2> QED
    BY <1>3, <1>4, <2>1, Induction
<1>6. n \in S /\ n <= n
  BY <1>5
<1>7. Good(f[n])
  <2> HIDE DEF Good
  <2> QED
    BY <1>2, <1>6
<1> QED
  BY <1>2, <1>7

-----------------------------------------------------------------------------
(* The history.                                                            *)

\* Every version is a graph with a sidecar that fits it.
WellKept ==
    /\ versions \in Seq(Elements(versions)) /\ Len(versions) >= 1
    /\ \A i \in 1 .. Len(versions) :
           GraphShape(versions[i].graph) /\ SidecarFits(versions[i].graph, versions[i].sidecar)

LEMMA CurrentIsKept ==
    ASSUME WellKept
    PROVE  /\ Len(versions) \in Nat /\ Len(versions) \in 1 .. Len(versions)
           /\ Current = versions[Len(versions)]
           /\ GraphShape(Current.graph) /\ SidecarFits(Current.graph, Current.sidecar)
<1>1. Len(versions) \in Nat /\ Len(versions) \in 1 .. Len(versions)
  BY DEF WellKept
<1>2. GraphShape(versions[Len(versions)].graph)
      /\ SidecarFits(versions[Len(versions)].graph, versions[Len(versions)].sidecar)
  BY <1>1 DEF WellKept
<1> QED
  BY <1>1, <1>2 DEF Current

\* A commit adds its version and touches no other.
LEMMA Committed ==
    ASSUME WellKept, NEW g, NEW sidecar, NEW by, Commit(g, sidecar, by)
    PROVE  /\ Len(versions') = Len(versions) + 1
           /\ \A i \in 1 .. Len(versions) : versions'[i] = versions[i]
           /\ Current'.graph = g /\ Current'.sidecar = sidecar /\ Current'.by = by
           /\ versions' \in Seq(Elements(versions'))
           /\ Current' = versions'[Len(versions')]
<1> DEFINE v == [graph |-> g, sidecar |-> sidecar, by |-> by]
<1>1. versions' = Append(versions, v) /\ versions \in Seq(Elements(versions))
  BY DEF Commit, WellKept
<1>2. v.graph = g /\ v.sidecar = sidecar /\ v.by = by
  OBVIOUS
<1> HIDE DEF v
<1>3. /\ Len(Append(versions, v)) = Len(versions) + 1
      /\ \A i \in 1 .. Len(versions) : Append(versions, v)[i] = versions[i]
      /\ Append(versions, v)[Len(versions) + 1] = v
      /\ Append(versions, v) \in Seq(Elements(Append(versions, v)))
  BY <1>1, EdgeLists
<1> QED
  BY <1>1, <1>2, <1>3 DEF Current

LEMMA CommitKeeps ==
    ASSUME WellKept, NEW g, NEW sidecar, NEW by, Commit(g, sidecar, by),
           GraphShape(g), SidecarFits(g, sidecar)
    PROVE  WellKept'
<1>1. /\ Len(versions') = Len(versions) + 1
      /\ \A i \in 1 .. Len(versions) : versions'[i] = versions[i]
      /\ versions' \in Seq(Elements(versions'))
      /\ versions'[Len(versions')].graph = g /\ versions'[Len(versions')].sidecar = sidecar
  BY Committed
<1>2. Len(versions) \in Nat /\ Len(versions) >= 1
  BY CurrentIsKept
<1>3. ASSUME NEW i \in 1 .. Len(versions')
      PROVE  GraphShape(versions'[i].graph)
             /\ SidecarFits(versions'[i].graph, versions'[i].sidecar)
  <2>1. CASE i = Len(versions')
    BY <1>1, <2>1
  <2>2. CASE i # Len(versions')
    <3>1. i \in 1 .. Len(versions)
      BY <1>1, <1>2, <2>2
    <3>2. GraphShape(versions[i].graph) /\ SidecarFits(versions[i].graph, versions[i].sidecar)
      BY <3>1 DEF WellKept
    <3> QED
      BY <1>1, <3>1, <3>2
  <2> QED
    BY <2>1, <2>2
<1> QED
  BY <1>1, <1>2, <1>3 DEF WellKept, GraphShape, SidecarFits, Embedded, Ids

\* An index that is derived anew fits its graph.
LEMMA DerivedFits ==
    ASSUME NEW sidecar, NEW g, NEW rev, DeriveSemantics(sidecar, g, rev) # Refused
    PROVE  SidecarFits(g, DeriveSemantics(sidecar, g, rev))
<1> SUFFICES ASSUME g.rev # NoRevision
             PROVE  DOMAIN DeriveSemantics(sidecar, g, rev) \subseteq Embedded(g)
  BY DEF SidecarFits
<1> DEFINE kept == IF sidecar = None THEN None
                   ELSE [id \in DOMAIN sidecar \cap Ids(g) |-> sidecar[id]]
<1>1. DeriveSemantics(sidecar, g, rev) = IndexOf(g, rev)
  <2>1. ~Unmigrated(g, kept) /\ CanonicalSemanticsGraph(g, kept, rev) = g
    BY DEF Unmigrated, CanonicalSemanticsGraph
  <2> QED
    BY <2>1 DEF DeriveSemantics
<1>2. IndexOf(g, rev) = CollectedSemantics(g)
  BY <1>1 DEF IndexOf
<1> QED
  BY <1>1, <1>2 DEF CollectedSemantics

LEMMA CollectedFits ==
    ASSUME NEW g
    PROVE  SidecarFits(g, CollectedSemantics(g)) /\ DOMAIN CollectedSemantics(g) = Embedded(g)
  BY DEF SidecarFits, CollectedSemantics

\* What each request commits.
AgentMade(g, ops, connector, up) ==
    /\ Readiness(connector, up)
    /\ ops \in Seq(Elements(ops))
    /\ \A i \in 1 .. Len(ops) : IsTranslation(ops[i], connector, up)
    /\ ApplyOps(Current.graph, ops) = Done(g) /\ Valid(g)
    /\ Commit(g, CollectedSemantics(g), By("agent", connector, NamedBy(ops)))

LEMMA AgentEditMakes ==
    ASSUME NEW plan \in AgentPlans, NEW connector, NEW up, AgentEdit(plan, connector, up)
    PROVE  \E g, ops : AgentMade(g, ops, connector, up)
<1>1. PICK base : base = Current.graph
  OBVIOUS
<1>2. PICK compiled : /\ compiled = CompileCanvasEdit(base, plan, connector, up)
                      /\ compiled # Refused
                      /\ \E after \in {ApplyProposal(base, compiled.ops)} \ {Refused} :
                             Commit(after, CollectedSemantics(compiled.preview),
                                    By("agent", connector, NamedBy(compiled.ops)))
  BY <1>1 DEF AgentEdit
<1>3. PICK g : /\ g = ApplyProposal(base, compiled.ops) /\ g # Refused
               /\ Commit(g, CollectedSemantics(compiled.preview),
                         By("agent", connector, NamedBy(compiled.ops)))
  BY <1>2
<1>4. plan \in Seq(Elements(plan)) /\ \A i \in 1 .. Len(plan) : IsEdit(plan[i])
  BY RequestsParse
<1>5. /\ compiled.ops \in Seq(Elements(compiled.ops))
      /\ \A i \in 1 .. Len(compiled.ops) : IsTranslation(compiled.ops[i], connector, up)
      /\ ApplyOps(base, compiled.ops) = Done(compiled.preview)
  BY <1>2, <1>4, CompiledEdit
<1>6. g = compiled.preview /\ Valid(g)
  BY <1>3, <1>5 DEF ApplyProposal, Done
<1>7. Readiness(connector, up)
  BY DEF AgentEdit
<1>8. AgentMade(g, compiled.ops, connector, up)
  BY <1>1, <1>3, <1>5, <1>6, <1>7 DEF AgentMade
<1> QED
  BY <1>8

ManualMade(g, sidecar, ops) ==
    /\ ops \in Seq(Elements(ops)) /\ \A i \in 1 .. Len(ops) : IsOp(ops[i])
    /\ IsFound(PreparedOps(Current.graph, ops, revision))
    /\ g = PreparedOps(Current.graph, ops, revision).graph
    /\ Valid(g) /\ SidecarFits(g, sidecar)
    /\ Commit(g, sidecar, By("manual", None, NamedBy(ops)))

LEMMA ManualOpsMakes ==
    ASSUME NEW ops \in OpRequests, ManualOps(ops)
    PROVE  \E g, sidecar : ManualMade(g, sidecar, ops)
<1>1. PICK result : result = PrepareOps(Current.graph, ops, revision)
  OBVIOUS
<1>2. PICK sidecar : /\ IsFound(result)
                     /\ sidecar = DeriveSemantics(Current.sidecar, result.graph, revision)
                     /\ sidecar # Refused /\ Valid(result.graph)
                     /\ Commit(result.graph, sidecar, By("manual", None, NamedBy(ops)))
  BY <1>1 DEF ManualOps
<1>3. result = PreparedOps(Current.graph, ops, revision)
  BY <1>1, <1>2 DEF PrepareOps, IsFound, Refusal
<1>4. ops \in Seq(Elements(ops)) /\ \A i \in 1 .. Len(ops) : IsOp(ops[i])
  BY RequestsParse
<1>5. SidecarFits(result.graph, sidecar)
  BY <1>2, DerivedFits
<1>6. ManualMade(result.graph, sidecar, ops)
  BY <1>2, <1>3, <1>4, <1>5 DEF ManualMade
<1> QED
  BY <1>6

LEMMA MigrateMakes ==
    ASSUME WellKept, NEW connector, Migrate(connector)
    PROVE  \E g : /\ Current.graph.rev = NoRevision
                  /\ GraphShape(g) /\ Valid(g)
                  /\ Commit(g, CollectedSemantics(g), By("migration", connector, {}))
<1>1. PICK g : /\ g = MigrateV1(Current.graph, connector, revision) /\ g # Refused
               /\ ValidSemantics(g, revision)
               /\ Commit(g, CollectedSemantics(g), By("migration", connector, {}))
  BY DEF Migrate
<1>2. GraphShape(g)
  BY <1>1, CurrentIsKept, MigratedShape
<1>3. Valid(g)
  BY <1>1 DEF ValidSemantics
<1>4. Current.graph.rev = NoRevision
  BY DEF Migrate, Unmigrated
<1> QED
  BY <1>1, <1>2, <1>3, <1>4

LEMMA RestoreMakes ==
    ASSUME WellKept, NEW i \in 1 .. (Len(versions) - 1), Restore(i)
    PROVE  \E sidecar : /\ GraphShape(versions[i].graph) /\ SidecarFits(versions[i].graph, sidecar)
                        /\ Commit(versions[i].graph, sidecar,
                                  By("restore", None, Ids(versions[i].graph)))
<1>1. PICK sidecar : /\ sidecar = DeriveSemantics(versions[i].sidecar, versions[i].graph, revision)
                     /\ sidecar # Refused
                     /\ Commit(versions[i].graph, sidecar,
                               By("restore", None, Ids(versions[i].graph)))
  BY DEF Restore
<1>2. SidecarFits(versions[i].graph, sidecar)
  BY <1>1, DerivedFits
<1>3. i \in 1 .. Len(versions)
  BY CurrentIsKept
<1>4. GraphShape(versions[i].graph)
  BY <1>3 DEF WellKept
<1> QED
  BY <1>1, <1>2, <1>4

\* An agent's version is a graph.
LEMMA AgentMadeShape ==
    ASSUME WellKept, NEW g, NEW ops, NEW connector, NEW up, AgentMade(g, ops, connector, up)
    PROVE  GraphShape(g)
<1>1. PICK base : base = Current.graph
  OBVIOUS
<1>2. /\ GraphShape(base) /\ ops \in Seq(Elements(ops))
      /\ ApplyOps(base, ops) = Done(g)
      /\ \A i \in 1 .. Len(ops) : IsOp(ops[i])
  BY <1>1, CurrentIsKept DEF AgentMade, IsTranslation, IsOp, Kinds
<1>3. IsFound(ApplyOps(base, ops)) /\ ApplyOps(base, ops).graph = g
  BY <1>2 DEF IsFound, Done
<1> QED
  BY <1>2, <1>3, AppliedShape

\* Every step keeps the history well.
LEMMA WellKeptNext ==
    ASSUME WellKept, [Next]_vars
    PROVE  WellKept'
<1>1. CASE UNCHANGED versions
  BY <1>1 DEF WellKept
<1>2. ASSUME NEW plan \in AgentPlans, NEW connector, NEW up, AgentEdit(plan, connector, up)
      PROVE  WellKept'
  <2>1. PICK g, ops : AgentMade(g, ops, connector, up)
    BY <1>2, AgentEditMakes
  <2>2. Commit(g, CollectedSemantics(g), By("agent", connector, NamedBy(ops)))
    BY <2>1 DEF AgentMade
  <2> QED
    BY <2>1, <2>2, AgentMadeShape, CollectedFits, CommitKeeps
<1>3. ASSUME NEW ops \in OpRequests, ManualOps(ops) PROVE WellKept'
  <2>1. PICK g, sidecar : ManualMade(g, sidecar, ops)
    BY <1>3, ManualOpsMakes
  <2>2. GraphShape(g)
    BY <2>1, CurrentIsKept, PreparedGraph DEF ManualMade
  <2> QED
    BY <2>1, <2>2, CommitKeeps DEF ManualMade
<1>4. ASSUME NEW connector, Migrate(connector) PROVE WellKept'
  <2>1. PICK g : GraphShape(g) /\ Commit(g, CollectedSemantics(g), By("migration", connector, {}))
    BY <1>4, MigrateMakes
  <2> QED
    BY <2>1, CollectedFits, CommitKeeps
<1>5. ASSUME NEW i \in 1 .. (Len(versions) - 1), Restore(i) PROVE WellKept'
  BY <1>5, RestoreMakes, CommitKeeps
<1>6. ASSUME NEW intent, NEW up, Compile(intent, up) PROVE WellKept'
  BY <1>1, <1>6 DEF Compile
<1>7. CASE Release
  BY <1>1, <1>7 DEF Release
<1> QED
  BY <1>1, <1>2, <1>3, <1>4, <1>5, <1>6, <1>7 DEF Next, vars

LEMMA WellKeptInit ==
    ASSUME Init
    PROVE  WellKept
<1>1. PICK s \in StartGraphs :
          versions = <<[graph |-> s.graph, sidecar |-> s.sidecar, by |-> By("start", None, {})]>>
  BY DEF Init
<1> DEFINE v == [graph |-> s.graph, sidecar |-> s.sidecar, by |-> By("start", None, {})]
<1>2. v.graph = s.graph /\ v.sidecar = s.sidecar
  OBVIOUS
<1> HIDE DEF v
<1>3. versions \in Seq({v}) /\ Len(versions) = 1 /\ versions[1] = v
  BY <1>1 DEF v
<1>4. versions \in Seq(Elements(versions))
  BY <1>3, IsItsElements
<1>5. GraphShape(s.graph) /\ SidecarFits(s.graph, s.sidecar)
  BY RequestsParse
<1>6. \A i \in 1 .. Len(versions) : i = 1
  BY <1>3
<1> QED
  BY <1>2, <1>3, <1>4, <1>5, <1>6 DEF WellKept

-----------------------------------------------------------------------------
(* Pins.                                                                   *)

\* A graph with its revision says itself what its nodes run on.
LEMMA PinsAreEmbedded ==
    ASSUME NEW version, SidecarFits(version.graph, version.sidecar),
           version.graph.rev # NoRevision,
           NEW id, IsPinned(EntryOf(VersionSemantics(version), id))
    PROVE  /\ id \in Embedded(version.graph)
           /\ EntryOf(VersionSemantics(version), id) = version.graph.nodes[id].sem
<1>1. CASE Embedded(version.graph) = {}
  <2>1. \/ version.sidecar # None /\ VersionSemantics(version) = version.sidecar
        \/ version.sidecar = None /\ VersionSemantics(version) = <<>>
    BY <1>1 DEF VersionSemantics
  <2>2. version.sidecar # None => DOMAIN version.sidecar = {}
    BY <1>1 DEF SidecarFits
  <2>3. DOMAIN VersionSemantics(version) = {}
    <3>1. DOMAIN <<>> = {}
      OBVIOUS
    <3> QED
      BY <2>1, <2>2, <3>1
  <2> QED
    BY <2>3 DEF EntryOf, IsPinned
<1>2. CASE Embedded(version.graph) # {}
  <2>1. VersionSemantics(version) = CollectedSemantics(version.graph)
    BY <1>2 DEF VersionSemantics
  <2>2. id \in DOMAIN CollectedSemantics(version.graph)
    BY <2>1 DEF EntryOf, IsPinned
  <2> QED
    BY <2>1, <2>2 DEF EntryOf, CollectedSemantics
<1> QED
  BY <1>1, <1>2

LEMMA EmbeddedEntry ==
    ASSUME NEW version, NEW id \in Embedded(version.graph)
    PROVE  EntryOf(VersionSemantics(version), id) = version.graph.nodes[id].sem
  BY DEF EntryOf, VersionSemantics, CollectedSemantics

LEMMA UntouchedPins ==
    ASSUME NEW before, SidecarFits(before.graph, before.sidecar), before.graph.rev # NoRevision,
           NEW after,
           \A id \in Ids(before.graph) \cap Ids(after.graph) :
               id \notin after.by.named => after.graph.nodes[id] = before.graph.nodes[id]
    PROVE  KeepsPins(before, after)
<1> SUFFICES ASSUME NEW id \in Ids(before.graph) \cap Ids(after.graph),
                    IsPinned(EntryOf(VersionSemantics(before), id)), id \notin after.by.named
             PROVE  EntryOf(VersionSemantics(after), id) = EntryOf(VersionSemantics(before), id)
  BY DEF KeepsPins
<1>1. /\ id \in Embedded(before.graph)
      /\ EntryOf(VersionSemantics(before), id) = before.graph.nodes[id].sem
  BY PinsAreEmbedded
<1>2. after.graph.nodes[id] = before.graph.nodes[id]
  OBVIOUS
<1>3. id \in Embedded(after.graph)
  BY <1>1, <1>2 DEF Embedded
<1> QED
  BY <1>1, <1>2, <1>3, EmbeddedEntry

LEMMA PinsSurviveStep ==
    ASSUME WellKept, [Next]_vars, NewVersion, Current.graph.rev # NoRevision
    PROVE  KeepsPins(Current, versions'[Len(versions')])
<1> DEFINE base == Current.graph
<1>1. /\ GraphShape(base) /\ SidecarFits(base, Current.sidecar)
      /\ ~UNCHANGED versions
  BY CurrentIsKept DEF NewVersion
<1>2. ASSUME NEW plan \in AgentPlans, NEW connector, NEW up, AgentEdit(plan, connector, up)
      PROVE  KeepsPins(Current, versions'[Len(versions')])
  <2>0. PICK newest : newest = versions'[Len(versions')]
    OBVIOUS
  <2>1. PICK g, ops : AgentMade(g, ops, connector, up)
    BY <1>2, AgentEditMakes
  <2>2. newest.graph = g /\ newest.by.named = NamedBy(ops)
    <3>1. Commit(g, CollectedSemantics(g), By("agent", connector, NamedBy(ops)))
      BY <2>1 DEF AgentMade
    <3> QED
      BY <2>0, <3>1, Committed DEF By
  <2>3. /\ ops \in Seq(Elements(ops)) /\ \A i \in 1 .. Len(ops) : ops[i].op \in Kinds
        /\ IsFound(ApplyOps(base, ops)) /\ ApplyOps(base, ops).graph = g
    BY <2>1 DEF AgentMade, IsTranslation, Kinds, IsFound, Done
  <2>4. ASSUME NEW id \in Ids(base) \cap Ids(g), id \notin NamedBy(ops)
        PROVE  g.nodes[id] = base.nodes[id]
    BY <2>3, <2>4, AppliedUnnamed
  <2> QED
    BY <1>1, <2>0, <2>2, <2>4, UntouchedPins
<1>3. ASSUME NEW ops \in OpRequests, ManualOps(ops) PROVE KeepsPins(Current, versions'[Len(versions')])
  <2>0. PICK newest : newest = versions'[Len(versions')]
    OBVIOUS
  <2>1. PICK g, sidecar : ManualMade(g, sidecar, ops)
    BY <1>3, ManualOpsMakes
  <2>2. newest.graph = g /\ newest.by.named = NamedBy(ops)
    <3>1. Commit(g, sidecar, By("manual", None, NamedBy(ops)))
      BY <2>1 DEF ManualMade
    <3> QED
      BY <2>0, <3>1, Committed DEF By
  <2>3. /\ ops \in Seq(Elements(ops)) /\ \A i \in 1 .. Len(ops) : ops[i].op \in Kinds
        /\ IsFound(PreparedOps(base, ops, revision)) /\ PreparedOps(base, ops, revision).graph = g
    BY <2>1 DEF ManualMade, IsOp
  <2>4. ASSUME NEW id \in Ids(base) \cap Ids(g), id \notin NamedBy(ops)
        PROVE  g.nodes[id] = base.nodes[id]
    BY <2>3, <2>4, PreparedUnnamed
  <2> QED
    BY <1>1, <2>0, <2>2, <2>4, UntouchedPins
<1>4. ASSUME NEW connector, Migrate(connector) PROVE KeepsPins(Current, versions'[Len(versions')])
  BY <1>4, MigrateMakes
<1>5. ASSUME NEW i \in 1 .. (Len(versions) - 1), Restore(i) PROVE KeepsPins(Current, versions'[Len(versions')])
  <2>0. PICK newest : newest = versions'[Len(versions')]
    OBVIOUS
  <2>1. PICK sidecar : Commit(versions[i].graph, sidecar,
                              By("restore", None, Ids(versions[i].graph)))
    BY <1>5, RestoreMakes
  <2>2. newest.by.named = Ids(newest.graph)
    BY <2>0, <2>1, Committed DEF By
  <2> QED
    BY <2>0, <2>2 DEF KeepsPins
<1>6. ASSUME NEW intent, NEW up, Compile(intent, up) PROVE KeepsPins(Current, versions'[Len(versions')])
  BY <1>1, <1>6 DEF Compile
<1>7. CASE Release
  BY <1>1, <1>7 DEF Release
<1>8. CASE UNCHANGED vars
  BY <1>1, <1>8 DEF vars
<1> QED
  BY <1>2, <1>3, <1>4, <1>5, <1>6, <1>7, <1>8 DEF Next

LEMMA HistoryIsWellKept == Spec => []WellKept
<1> QED
  BY WellKeptInit, WellKeptNext, PTL DEF Spec

\* Once a graph carries a catalog revision, ops, canvas edits and migrations keep the
\* pins of the nodes they do not name (ops_routes.rs prepare_ops, canvas_edit.rs
\* compile_canvas_edit).
THEOREM MigratedPinsAreKept == Spec => MigratedPinsSurvive
<1>1. ASSUME WellKept, [Next]_vars
      PROVE  [(NewVersion /\ Current.graph.rev # NoRevision)
                  => KeepsPins(Current, versions'[Len(versions')])]_vars
  BY <1>1, PinsSurviveStep
<1> QED
  BY <1>1, HistoryIsWellKept, PTL DEF Spec, MigratedPinsSurvive

-----------------------------------------------------------------------------
(* The order of the nodes.                                                 *)

\* The steps of Kahn's algorithm.
OrderedBy(f, graph) ==
    f = [i \in 0 .. Cardinality(Ids(graph)) |-> IF i = 0 THEN Unordered(graph)
                            ELSE Popped(graph, f[i - 1])]

LEMMA OrderedTrace ==
    ASSUME NEW graph, IsFiniteSet(Ids(graph))
    PROVE  \E f : OrderedBy(f, graph) /\ TopologicalOrder(graph) = f[Cardinality(Ids(graph))].order
<1>0. Cardinality(Ids(graph)) \in Nat
  BY FS_CardinalityType
<1> DEFINE n == Cardinality(Ids(graph))
           Is(k, f) == f = [i \in 0 .. k |-> IF i = 0 THEN Unordered(graph)
                                              ELSE Popped(graph, f[i - 1])]
           S == {k \in Nat : \E f : Is(k, f)}
           after == CHOOSE f : Is(n, f)
<1>1. S = Nat
  <2>1. 0 \in S
    <3> DEFINE f == [i \in 0 .. 0 |-> Unordered(graph)]
    <3>1. \A i \in 0 .. 0 : i = 0
      OBVIOUS
    <3>2. Is(0, f)
      BY <3>1
    <3> QED
      BY <3>2
  <2>2. ASSUME NEW k \in S PROVE k + 1 \in S
    <3>1. PICK f : Is(k, f)
      BY <2>2
    <3> DEFINE last == Popped(graph, f[k])
               g == [i \in 0 .. k + 1 |-> IF i = k + 1 THEN last ELSE f[i]]
    <3>2. k \in Nat
      BY <2>2
    <3>3. \A i \in 0 .. k + 1 : g[i] = IF i = 0 THEN Unordered(graph)
                                     ELSE Popped(graph, g[i - 1])
      <4> SUFFICES ASSUME NEW i \in 0 .. k + 1
                   PROVE  g[i] = IF i = 0 THEN Unordered(graph)
                                 ELSE Popped(graph, g[i - 1])
        OBVIOUS
      <4>1. CASE i = k + 1
        <5>1. i # 0 /\ i - 1 = k /\ k \in 0 .. k + 1 /\ k # k + 1
          BY <4>1, <3>2
        <5>2. g[i] = last /\ g[i - 1] = f[k]
          <6> HIDE DEF last
          <6> QED
            BY <4>1, <5>1
        <5> HIDE DEF g
        <5> QED
          BY <4>1, <5>1, <5>2
      <4>2. CASE i # k + 1
        <5>1. i \in 0 .. k /\ (i # 0 => i - 1 \in 0 .. k /\ i - 1 # k + 1)
          BY <4>2, <3>2
        <5>2. g[i] = f[i] /\ (i # 0 => g[i - 1] = f[i - 1])
          <6> HIDE DEF last
          <6> QED
            BY <4>2, <5>1, <3>2
        <5>3. f[i] = IF i = 0 THEN Unordered(graph)
                     ELSE Popped(graph, f[i - 1])
          BY <3>1, <5>1
        <5> HIDE DEF g
        <5> QED
          BY <5>2, <5>3
      <4> QED
        BY <4>1, <4>2
    <3> HIDE DEF g
    <3>4. g = [i \in 0 .. k + 1 |-> g[i]]
      BY DEF g
    <3>5. Is(k + 1, g)
      BY <3>3, <3>4, Zenon
    <3>6. \E h : Is(k + 1, h)
      BY <3>5, Zenon
    <3> HIDE DEF Is
    <3> QED
      BY <3>6, <3>2
  <2> HIDE DEF S
  <2>3. S \in SUBSET Nat
    BY DEF S
  <2> QED
    BY <2>1, <2>2, <2>3, Induction
<1>2. \E f : Is(n, f)
  BY <1>0, <1>1
<1>3. Is(n, after)
  BY <1>2, Zenon
<1>4. TopologicalOrder(graph) = after[Cardinality(Ids(graph))].order
  BY Zenon DEF TopologicalOrder
<1> QED
  BY <1>3, <1>4, Zenon DEF OrderedBy

LEMMA EdgesInAreFinite ==
    ASSUME NEW g, GraphShape(g), NEW id
    PROVE  IsFiniteSet(Into(g, id)) /\ Into(g, id) \subseteq DOMAIN g.edges
<1>1. DOMAIN g.edges = 1 .. Len(g.edges) /\ Len(g.edges) \in Nat
  BY DEF GraphShape
<1>2. IsFiniteSet(DOMAIN g.edges)
  BY <1>1, FS_Interval
<1>3. Into(g, id) \in SUBSET DOMAIN g.edges
  BY DEF Into
<1> QED
  BY <1>2, <1>3, FS_Subset

LEMMA SmallestIsMember ==
    ASSUME NEW S \in SUBSET Nat, S # {}
    PROVE  Smallest(S) \in S
<1>1. \E x \in S : \A y \in S : x <= y
  BY LeastNatural
<1> QED
  BY <1>1 DEF Smallest

\* The edges into a node whose sources are still to come.
Rest(g, x, order) == {k \in Into(g, x) : g.edges[k].from[1] \notin Elements(order)}

\* What the algorithm knows at every step: the order so far lists each node once, after
\* its sources; the counts are of the edges to come; the ready nodes have none.
SoFar(g, s) ==
    /\ s.order \in Seq(Ids(g))
    /\ \A i, j \in 1 .. Len(s.order) : s.order[i] = s.order[j] => i = j
    /\ \A i \in 1 .. Len(s.order) : \A x \in Sources(g, s.order[i]) :
           \E j \in 1 .. (i - 1) : s.order[j] = x
    /\ \A x \in Ids(g) : s.incoming[x] = Cardinality(Rest(g, x, s.order))
    /\ s.ready = {x \in Ids(g) \ Elements(s.order) : Rest(g, x, s.order) = {}}

LEMMA SoFarUnordered ==
    ASSUME NEW g, GraphShape(g)
    PROVE  SoFar(g, Unordered(g))
<1> DEFINE s == Unordered(g)
<1>1. /\ s.order = <<>>
      /\ s.incoming = [id \in Ids(g) |-> Cardinality(Into(g, id))]
      /\ s.ready = {id \in Ids(g) : Into(g, id) = {}}
  BY DEF Unordered
<1> HIDE DEF s
<1>2. s.order \in Seq(Ids(g)) /\ Len(s.order) = 0 /\ Elements(s.order) = {}
  BY <1>1 DEF Elements
<1>3. \A x \in Ids(g) : Rest(g, x, s.order) = Into(g, x)
  BY <1>2 DEF Rest
<1>4. SoFar(g, s)
  BY <1>1, <1>2, <1>3 DEF SoFar
<1> QED
  BY <1>4 DEF s

LEMMA RestOfMore ==
    ASSUME NEW g, GraphShape(g), NEW order \in Seq(Ids(g)), NEW id, id \notin Elements(order),
           NEW x
    PROVE  /\ Rest(g, x, Append(order, id)) = Rest(g, x, order) \ Between(g, id, x)
           /\ Between(g, id, x) \subseteq Rest(g, x, order)
           /\ IsFiniteSet(Rest(g, x, order)) /\ IsFiniteSet(Between(g, id, x))
           /\ Cardinality(Rest(g, x, order)) \in Nat /\ Cardinality(Between(g, id, x)) \in Nat
           /\ Cardinality(Rest(g, x, Append(order, id)))
                  = Cardinality(Rest(g, x, order)) - Cardinality(Between(g, id, x))
<1>1. Elements(Append(order, id)) = Elements(order) \cup {id}
  BY AppendedElements
<1>2. /\ Rest(g, x, Append(order, id)) = Rest(g, x, order) \ Between(g, id, x)
      /\ Between(g, id, x) \subseteq Rest(g, x, order)
  BY <1>1 DEF Rest, Between
<1>3. IsFiniteSet(Rest(g, x, order))
  <2>1. Rest(g, x, order) \in SUBSET Into(g, x)
    BY DEF Rest
  <2> QED
    BY <2>1, EdgesInAreFinite, FS_Subset
<1>4. IsFiniteSet(Between(g, id, x))
  BY <1>2, <1>3, FS_Subset
<1>5. Rest(g, x, order) \cap Between(g, id, x) = Between(g, id, x)
  BY <1>2
<1> QED
  BY <1>2, <1>3, <1>4, <1>5, FS_Difference, FS_CardinalityType

LEMMA SoFarPlaced ==
    ASSUME NEW g, GraphShape(g), NEW s, SoFar(g, s), NEW id \in s.ready
    PROVE  SoFar(g, WithPlaced(g, s, id))
<1> DEFINE t == WithPlaced(g, s, id)
<1>1. PICK order : order = s.order
  OBVIOUS
<1>2. /\ t.order = Append(order, id)
      /\ t.incoming = [x \in Ids(g) |-> s.incoming[x] - Cardinality(Between(g, id, x))]
      /\ t.ready = (s.ready \ {id})
                   \cup {x \in Ids(g) : /\ Between(g, id, x) # {}
                                        /\ s.incoming[x] = Cardinality(Between(g, id, x))}
  BY <1>1 DEF WithPlaced
<1> HIDE DEF t
<1>3. /\ order \in Seq(Ids(g)) /\ Len(order) \in Nat
      /\ id \in Ids(g) /\ id \notin Elements(order) /\ Rest(g, id, order) = {}
  BY <1>1 DEF SoFar
<1>4. PICK more : more = Append(order, id)
  OBVIOUS
<1>5. /\ more \in Seq(Ids(g)) /\ Len(more) = Len(order) + 1
      /\ \A i \in 1 .. Len(order) : more[i] = order[i]
      /\ more[Len(order) + 1] = id
      /\ Elements(more) = Elements(order) \cup {id}
      /\ DOMAIN order = 1 .. Len(order)
  BY <1>3, <1>4, AppendedElements
<1>6. ASSUME NEW x
      PROVE  /\ Rest(g, x, more) = Rest(g, x, order) \ Between(g, id, x)
             /\ Between(g, id, x) \subseteq Rest(g, x, order)
             /\ IsFiniteSet(Rest(g, x, order)) /\ IsFiniteSet(Between(g, id, x))
             /\ Cardinality(Rest(g, x, order)) \in Nat /\ Cardinality(Between(g, id, x)) \in Nat
             /\ Cardinality(Rest(g, x, more))
                    = Cardinality(Rest(g, x, order)) - Cardinality(Between(g, id, x))
  BY <1>3, <1>4, RestOfMore
<1>7. ASSUME NEW i \in 1 .. Len(more), NEW j \in 1 .. Len(more), more[i] = more[j] PROVE i = j
  <2>1. \A k \in 1 .. Len(order) : order[k] \in Elements(order)
    BY <1>5 DEF Elements
  <2>2. \A k, n \in 1 .. Len(order) : order[k] = order[n] => k = n
    BY <1>1 DEF SoFar
  <2>3. \A k \in 1 .. Len(more) : k \in 1 .. Len(order) \/ k = Len(order) + 1
    BY <1>3, <1>5
  <2> QED
    BY <1>3, <1>5, <1>7, <2>1, <2>2, <2>3
<1>8. ASSUME NEW i \in 1 .. Len(more), NEW x \in Sources(g, more[i])
      PROVE  \E j \in 1 .. (i - 1) : more[j] = x
  <2>1. CASE i = Len(order) + 1
    <3>1. PICK k \in Into(g, id) : x = g.edges[k].from[1]
      BY <1>5, <2>1 DEF Sources
    <3>2. x \in Elements(order)
      BY <1>3, <3>1 DEF Rest
    <3>3. PICK j \in 1 .. Len(order) : order[j] = x
      BY <1>5, <3>2 DEF Elements
    <3>4. j \in 1 .. (i - 1) /\ more[j] = x
      BY <1>3, <1>5, <2>1, <3>3
    <3> QED
      BY <3>4
  <2>2. CASE i # Len(order) + 1
    <3>1. i \in 1 .. Len(order) /\ more[i] = order[i]
      BY <1>3, <1>5, <2>2
    <3>2. PICK j \in 1 .. (i - 1) : order[j] = x
      BY <1>1, <3>1 DEF SoFar
    <3>3. j \in 1 .. Len(order)
      BY <1>3, <3>1
    <3> QED
      BY <1>5, <3>2, <3>3
  <2> QED
    BY <2>1, <2>2
<1>9. \A x \in Ids(g) : t.incoming[x] = Cardinality(Rest(g, x, more))
  <2>1. \A x \in Ids(g) : s.incoming[x] = Cardinality(Rest(g, x, order))
    BY <1>1 DEF SoFar
  <2> QED
    BY <1>2, <1>6, <2>1
<1>10. t.ready = {x \in Ids(g) \ Elements(more) : Rest(g, x, more) = {}}
  <2>1. \A x \in Ids(g) : s.incoming[x] = Cardinality(Rest(g, x, order))
    BY <1>1 DEF SoFar
  <2>2. s.ready = {x \in Ids(g) \ Elements(order) : Rest(g, x, order) = {}}
    BY <1>1 DEF SoFar
  <2>3. ASSUME NEW x \in Elements(order) PROVE Between(g, id, x) = {}
    <3>1. PICK i \in 1 .. Len(order) : x = order[i]
      BY <1>5 DEF Elements
    <3>2. \A y \in Sources(g, x) : y \in Elements(order)
      <4> SUFFICES ASSUME NEW y \in Sources(g, x) PROVE y \in Elements(order)
        OBVIOUS
      <4>1. PICK j \in 1 .. (i - 1) : order[j] = y
        BY <1>1, <3>1 DEF SoFar
      <4>2. j \in 1 .. Len(order)
        BY <1>3, <3>1
      <4> QED
        BY <1>5, <4>1, <4>2 DEF Elements
    <3>3. Rest(g, x, order) = {}
      BY <3>2 DEF Rest, Sources
    <3> QED
      BY <1>6, <3>3
  <2>4. Between(g, id, id) = {}
    BY <1>3, <1>6
  <2>5. ASSUME NEW x \in Ids(g)
        PROVE  s.incoming[x] = Cardinality(Between(g, id, x)) <=> Rest(g, x, more) = {}
    <3>1. IsFiniteSet(Rest(g, x, more))
      BY <1>6, FS_Difference
    <3>2. Cardinality(Rest(g, x, more)) = 0 <=> Rest(g, x, more) = {}
      BY <3>1, FS_EmptySet
    <3>3. s.incoming[x] = Cardinality(Rest(g, x, order))
      BY <2>1
    <3> QED
      BY <1>6, <3>2, <3>3
  <2>6. ASSUME NEW x \in Ids(g)
        PROVE  x \in t.ready <=> x \notin Elements(more) /\ Rest(g, x, more) = {}
    <3>1. x \in t.ready <=> \/ x \notin Elements(order) /\ Rest(g, x, order) = {} /\ x # id
                            \/ Between(g, id, x) # {} /\ Rest(g, x, more) = {}
      BY <1>2, <2>2, <2>5
    <3>2. Rest(g, x, more) = Rest(g, x, order) \ Between(g, id, x)
      BY <1>6
    <3>3. Between(g, id, x) # {} => x \notin Elements(more)
      BY <1>5, <2>3, <2>4
    <3>4. x \in Elements(more) <=> x \in Elements(order) \/ x = id
      BY <1>5
    <3>5. CASE Between(g, id, x) = {}
      BY <3>1, <3>2, <3>4, <3>5
    <3>6. CASE Between(g, id, x) # {}
      <4>1. x \notin Elements(more) /\ Between(g, id, x) \subseteq Rest(g, x, order)
        BY <1>6, <3>3, <3>6
      <4>2. Rest(g, x, order) # {}
        BY <3>6, <4>1
      <4> QED
        BY <3>1, <3>6, <4>1, <4>2
    <3> QED
      BY <3>5, <3>6
  <2>7. t.ready \subseteq Ids(g)
    BY <1>2, <2>2
  <2> QED
    BY <2>6, <2>7
<1>11. SoFar(g, t)
  <2>1. t.order = more
    BY <1>2, <1>4
  <2>2. t.order \in Seq(Ids(g))
    BY <1>5, <2>1
  <2>3. \A i, j \in 1 .. Len(t.order) : t.order[i] = t.order[j] => i = j
    BY <1>7, <2>1
  <2>4. \A i \in 1 .. Len(t.order) : \A x \in Sources(g, t.order[i]) :
            \E j \in 1 .. (i - 1) : t.order[j] = x
    BY <1>8, <2>1
  <2>5. \A x \in Ids(g) : t.incoming[x] = Cardinality(Rest(g, x, t.order))
    BY <1>9, <2>1
  <2>6. t.ready = {x \in Ids(g) \ Elements(t.order) : Rest(g, x, t.order) = {}}
    BY <1>10, <2>1
  <2> QED
    BY <2>2, <2>3, <2>4, <2>5, <2>6, Zenon DEF SoFar
<1> QED
  BY <1>11 DEF t

\* The order lists nodes once each, after everything that feeds them.
IsOrder(g, order) ==
    /\ order \in Seq(Ids(g))
    /\ \A i, j \in 1 .. Len(order) : order[i] = order[j] => i = j
    /\ \A i \in 1 .. Len(order) : \A x \in Sources(g, order[i]) :
           \E j \in 1 .. (i - 1) : order[j] = x

LEMMA TopologicalOrderIsOrder ==
    ASSUME NEW g, GraphShape(g)
    PROVE  IsOrder(g, TopologicalOrder(g))
<1> DEFINE n == Cardinality(Ids(g))
<1>1. IsFiniteSet(Ids(g)) /\ Ids(g) \subseteq Nat /\ n \in Nat
  BY FS_CardinalityType DEF GraphShape
<1>2. PICK f : OrderedBy(f, g) /\ TopologicalOrder(g) = f[n].order
  BY <1>1, OrderedTrace
<1>3. f[0] = Unordered(g)
  <2>1. 0 \in 0 .. n
    BY <1>1
  <2> QED
    BY <1>2, <2>1 DEF OrderedBy
<1>4. ASSUME NEW k \in Nat, k + 1 <= n PROVE f[k + 1] = Popped(g, f[k])
  <2>1. k + 1 \in 0 .. n /\ k + 1 # 0 /\ (k + 1) - 1 = k
    BY <1>1, <1>4
  <2> QED
    BY <1>2, <2>1 DEF OrderedBy
<1> HIDE DEF n
<1> DEFINE S == {k \in Nat : k <= n => SoFar(g, f[k])}
<1>5. S = Nat
  <2>1. 0 \in S
    BY <1>3, SoFarUnordered
  <2>2. ASSUME NEW k \in S PROVE k + 1 \in S
    <3> SUFFICES ASSUME k + 1 <= n PROVE SoFar(g, f[k + 1])
      OBVIOUS
    <3>1. k \in Nat /\ k <= n
      BY <1>1
    <3>2. SoFar(g, f[k])
      BY <3>1
    <3>3. f[k + 1] = Popped(g, f[k])
      BY <1>4, <3>1
    <3>4. CASE f[k].ready = {}
      BY <3>2, <3>3, <3>4 DEF Popped
    <3>5. CASE f[k].ready # {}
      <4>1. f[k + 1] = WithPlaced(g, f[k], Smallest(f[k].ready))
        BY <3>3, <3>5 DEF Popped
      <4>2. f[k].ready \in SUBSET Nat
        BY <1>1, <3>2 DEF SoFar
      <4>3. Smallest(f[k].ready) \in f[k].ready
        BY <3>5, <4>2, SmallestIsMember
      <4> QED
        BY <3>2, <4>1, <4>3, SoFarPlaced
    <3> QED
      BY <3>4, <3>5
  <2> HIDE DEF S
  <2>3. S \in SUBSET Nat
    BY DEF S
  <2> QED
    BY <2>1, <2>2, <2>3, Induction
<1>6. SoFar(g, f[n])
  BY <1>1, <1>5
<1>7. IsOrder(g, f[n].order)
  BY <1>6, Zenon DEF SoFar, IsOrder
<1> QED
  BY <1>2, <1>7

\* As many as there are nodes are all of them.
LEMMA WholeOrder ==
    ASSUME NEW g, GraphShape(g), ~HasCycle(g)
    PROVE  /\ IsOrder(g, TopologicalOrder(g))
           /\ Len(TopologicalOrder(g)) = Cardinality(Ids(g))
           /\ Elements(TopologicalOrder(g)) = Ids(g)
<1>1. PICK order : order = TopologicalOrder(g)
  OBVIOUS
<1>2. IsOrder(g, order) /\ Len(order) = Cardinality(Ids(g)) /\ IsFiniteSet(Ids(g))
  BY <1>1, TopologicalOrderIsOrder DEF HasCycle, GraphShape
<1>3. order \in Injection(1 .. Len(order), Ids(g))
  BY <1>2 DEF IsOrder, Injection, IsInjective
<1>4. Len(order) \in Nat /\ Cardinality(1 .. Len(order)) = Len(order)
  BY <1>2, FS_Interval DEF IsOrder
<1>5. order \in Surjection(1 .. Len(order), Ids(g))
  BY <1>2, <1>3, <1>4, FS_Injection
<1>6. Elements(order) = Ids(g)
  BY <1>2, <1>5 DEF IsOrder, Elements, Surjection
<1> QED
  BY <1>1, <1>2, <1>6

LEMMA OrderedIsAcyclic ==
    ASSUME NEW g, GraphShape(g), ~HasCycle(g)
    PROVE  Acyclic(g)
<1>1. PICK order : order = TopologicalOrder(g)
  OBVIOUS
<1>2. IsOrder(g, order) /\ Elements(order) = Ids(g)
  BY <1>1, WholeOrder
<1> SUFFICES ASSUME NEW set, set \subseteq Ids(g), set # {}
             PROVE  \E id \in set : Sources(g, id) \cap set = {}
  <2>1. \A set \in (SUBSET Ids(g)) \ {{}} : set \subseteq Ids(g) /\ set # {}
    OBVIOUS
  <2> QED
    BY <2>1, Zenon DEF Acyclic
<1> DEFINE places == {i \in 1 .. Len(order) : order[i] \in set}
<1>4. Len(order) \in Nat /\ DOMAIN order = 1 .. Len(order)
  BY <1>2 DEF IsOrder
<1>5. places # {}
  <2>1. PICK x \in set : x \in Elements(order)
    <3>1. set # {} /\ set \subseteq Ids(g)
      OBVIOUS
    <3> QED
      BY <1>2, <3>1
  <2> QED
    BY <1>4, <2>1 DEF Elements
<1>6. PICK i \in places : \A j \in places : i <= j
  <2>1. places \in SUBSET Nat
    OBVIOUS
  <2> HIDE DEF places
  <2> QED
    BY <1>5, <2>1, LeastNatural
<1>7. ASSUME NEW x \in Sources(g, order[i]), x \in set PROVE FALSE
  <2>1. PICK j \in 1 .. (i - 1) : order[j] = x
    BY <1>2, <1>6, <1>7 DEF IsOrder
  <2>2. j \in places /\ j < i
    BY <1>4, <1>6, <1>7, <2>1
  <2> QED
    BY <1>4, <1>6, <2>2
<1> QED
  BY <1>6, <1>7

-----------------------------------------------------------------------------
(* Sound graphs.                                                           *)

LEMMA NamedPort ==
    ASSUME NEW type \in Types, NEW p \in Elements(Registry[type].inputs)
    PROVE  InputPort(type, p.name) = p
<1>1. PICK inputs : inputs = Registry[type].inputs
  OBVIOUS
<1>2. /\ inputs \in Seq(Elements(inputs))
      /\ \A i, j \in DOMAIN inputs : inputs[i].name = inputs[j].name => i = j
  BY <1>1, InputPortsAreNamed
<1>3. PICK n \in DOMAIN inputs : p = inputs[n]
  BY <1>1 DEF Elements
<1> DEFINE hits == {i \in DOMAIN inputs : inputs[i].name = p.name}
           least == CHOOSE i \in hits : \A j \in hits : i <= j
<1>4. hits = {n}
  BY <1>2, <1>3
<1>5. n \in Nat
  BY <1>2, <1>3
<1>6. \E i \in hits : \A j \in hits : i <= j
  BY <1>4, <1>5
<1>7. least \in hits
  <2> HIDE DEF hits
  <2> QED
    BY <1>6
<1>8. InputPort(type, p.name) = inputs[least]
  BY <1>1, <1>4 DEF InputPort, First
<1> QED
  BY <1>3, <1>4, <1>7, <1>8

\* What validate_graph asks of a graph of known nodes.
LEMMA ValidParts ==
    ASSUME NEW g, Valid(g)
    PROVE  /\ \A id \in Ids(g) : Known(g.nodes[id]) /\ NodeFits(g, id)
           /\ \A e \in Elements(g.edges) : e.from[1] \in Ids(g) /\ e.to[1] \in Ids(g)
           /\ \A i, j \in DOMAIN g.edges :
                  i < j /\ g.edges[i].to = g.edges[j].to
                      => InputPort(g.nodes[g.edges[i].to[1]].type, g.edges[i].to[2]).many
           /\ ~HasCycle(g)
<1>1. /\ \A id \in Ids(g) : Known(g.nodes[id]) /\ NodeFits(g, id)
      /\ \A e \in Elements(g.edges) : e.from[1] \in Ids(g) /\ e.to[1] \in Ids(g)
      /\ ~HasCycle(g)
  BY DEF Valid, ValidFor
<1>2. ~\E i, j \in DOMAIN g.edges :
            /\ i < j
            /\ Known(g.nodes[g.edges[i].from[1]]) /\ Known(g.nodes[g.edges[i].to[1]])
            /\ Known(g.nodes[g.edges[j].from[1]]) /\ Known(g.nodes[g.edges[j].to[1]])
            /\ g.edges[i].to = g.edges[j].to
            /\ ~InputPort(g.nodes[g.edges[i].to[1]].type, g.edges[i].to[2]).many
  BY DEF Valid, ValidFor, OneInputTwice
<1>3. \A i \in DOMAIN g.edges :
          Known(g.nodes[g.edges[i].from[1]]) /\ Known(g.nodes[g.edges[i].to[1]])
  BY <1>1 DEF Elements
<1> QED
  BY <1>1, <1>2, <1>3

Sound(g) ==
    /\ \A id \in Ids(g) :
           /\ Known(g.nodes[id])
           /\ \A p \in Elements(Registry[g.nodes[id].type].inputs) :
                  /\ p.required => p.name \in Wired(g, id) \cup g.nodes[id].params
                  /\ p.many \/ \A k, n \in Into(g, id) :
                         g.edges[k].to = g.edges[n].to /\ g.edges[k].to[2] = p.name => k = n
    /\ \A e \in Elements(g.edges) : {e.from[1], e.to[1]} \subseteq Ids(g)
    /\ Acyclic(g)

LEMMA ValidIsSound ==
    ASSUME NEW g, GraphShape(g), Valid(g)
    PROVE  Sound(g)
<1>1. /\ \A id \in Ids(g) : Known(g.nodes[id]) /\ NodeFits(g, id)
      /\ \A e \in Elements(g.edges) : e.from[1] \in Ids(g) /\ e.to[1] \in Ids(g)
      /\ \A i, j \in DOMAIN g.edges :
             i < j /\ g.edges[i].to = g.edges[j].to
                 => InputPort(g.nodes[g.edges[i].to[1]].type, g.edges[i].to[2]).many
      /\ ~HasCycle(g)
  BY ValidParts
<1>2. Acyclic(g)
  BY <1>1, OrderedIsAcyclic
<1>3. ASSUME NEW id \in Ids(g), NEW p \in Elements(Registry[g.nodes[id].type].inputs), p.required
      PROVE  p.name \in Wired(g, id) \cup g.nodes[id].params
  BY <1>1, <1>3 DEF NodeFits
<1>4. ASSUME NEW id \in Ids(g), NEW p \in Elements(Registry[g.nodes[id].type].inputs), ~p.many,
             NEW k \in Into(g, id), NEW n \in Into(g, id),
             g.edges[k].to = g.edges[n].to, g.edges[k].to[2] = p.name
      PROVE  k = n
  <2>1. k \in DOMAIN g.edges /\ n \in DOMAIN g.edges /\ g.edges[k].to[1] = id
    BY DEF Into
  <2>2. k \in Nat /\ n \in Nat
    BY <2>1 DEF GraphShape
  <2>3. g.nodes[id].type \in Types
    BY <1>1 DEF Known
  <2>4. InputPort(g.nodes[id].type, p.name) = p
    BY <2>3, NamedPort
  <2>5. ~(k < n) /\ ~(n < k)
    BY <1>1, <1>4, <2>1, <2>4
  <2> QED
    BY <2>2, <2>5
<1>5. \A e \in Elements(g.edges) : {e.from[1], e.to[1]} \subseteq Ids(g)
  BY <1>1
<1>6. ASSUME NEW id \in Ids(g), NEW p \in Elements(Registry[g.nodes[id].type].inputs)
      PROVE  p.many \/ \A k, n \in Into(g, id) :
                 g.edges[k].to = g.edges[n].to /\ g.edges[k].to[2] = p.name => k = n
  BY <1>4
<1> QED
  BY <1>1, <1>2, <1>3, <1>5, <1>6 DEF Sound

\* A version is the first, one whose graph the history already had, or a valid one.
Inherited ==
    \/ Current.by.kind = "start"
    \/ \E j \in 1 .. (Len(versions) - 1) : versions[j].graph = Current.graph
ValidOrInherited == Inherited \/ Valid(Current.graph)

LEMMA ValidOrInheritedInit ==
    ASSUME Init
    PROVE  ValidOrInherited
<1>1. PICK s \in StartGraphs :
          versions = <<[graph |-> s.graph, sidecar |-> s.sidecar, by |-> By("start", None, {})]>>
  BY DEF Init
<1>2. Current.by.kind = "start"
  BY <1>1 DEF Current, By
<1> QED
  BY <1>2 DEF ValidOrInherited, Inherited

LEMMA ValidOrInheritedNext ==
    ASSUME WellKept, ValidOrInherited, [Next]_vars
    PROVE  ValidOrInherited'
<1>1. CASE UNCHANGED versions
  BY <1>1 DEF ValidOrInherited, Inherited, Current
<1>v. ASSUME NEW g, NEW sidecar, NEW by, Commit(g, sidecar, by), Valid(g)
      PROVE  ValidOrInherited'
  <2>1. Current'.graph = g
    BY <1>v, Committed
  <2>2. (Valid(Current.graph))' <=> Valid(Current'.graph)
    BY DEF Valid
  <2> QED
    BY <1>v, <2>1, <2>2 DEF ValidOrInherited
<1>2. ASSUME NEW plan \in AgentPlans, NEW connector, NEW up, AgentEdit(plan, connector, up)
      PROVE  ValidOrInherited'
  BY <1>2, <1>v, AgentEditMakes DEF AgentMade
<1>3. ASSUME NEW ops \in OpRequests, ManualOps(ops) PROVE ValidOrInherited'
  BY <1>3, <1>v, ManualOpsMakes DEF ManualMade
<1>4. ASSUME NEW connector, Migrate(connector) PROVE ValidOrInherited'
  BY <1>4, <1>v, MigrateMakes
<1>5. ASSUME NEW i \in 1 .. (Len(versions) - 1), Restore(i) PROVE ValidOrInherited'
  <2>1. PICK sidecar, by : Commit(versions[i].graph, sidecar, by)
    BY <1>5, RestoreMakes
  <2>2. /\ Len(versions') = Len(versions) + 1
        /\ \A k \in 1 .. Len(versions) : versions'[k] = versions[k]
        /\ Current'.graph = versions[i].graph
    BY <2>1, Committed
  <2>3. i \in 1 .. (Len(versions') - 1) /\ i \in 1 .. Len(versions)
    BY <2>2, CurrentIsKept
  <2>4. versions'[i].graph = Current'.graph
    BY <2>2, <2>3
  <2> QED
    BY <2>3, <2>4 DEF ValidOrInherited, Inherited
<1>6. ASSUME NEW intent, NEW up, Compile(intent, up) PROVE ValidOrInherited'
  BY <1>1, <1>6 DEF Compile
<1>7. CASE Release
  BY <1>1, <1>7 DEF Release
<1> QED
  BY <1>1, <1>2, <1>3, <1>4, <1>5, <1>6, <1>7 DEF Next, vars

\* Whatever the agent, the workbench, a migration or a restore makes of a workspace's
\* graph can be executed, unless the workspace began with less or the history already
\* had it (validate_graph_inner, on the way to every commit).
THEOREM EveryVersionIsSound == Spec => []VersionsAreSound
<1>1. ASSUME WellKept, ValidOrInherited PROVE VersionsAreSound
  <2>1. CASE Inherited
    BY <2>1 DEF VersionsAreSound, Inherited
  <2>2. CASE Valid(Current.graph)
    <3>1. Sound(Current.graph)
      BY <1>1, <2>2, CurrentIsKept, ValidIsSound
    <3> QED
      BY <3>1 DEF VersionsAreSound, Sound
  <2> QED
    BY <1>1, <2>1, <2>2 DEF ValidOrInherited
<1> QED
  BY <1>1, HistoryIsWellKept, ValidOrInheritedInit, ValidOrInheritedNext, PTL DEF Spec

-----------------------------------------------------------------------------
(* Plans.                                                                  *)

LEMMA PlanParts ==
    ASSUME NEW g, GraphShape(g), ~HasCycle(g)
    PROVE  LET plan == CompilePlan(g)
           IN  /\ Len(plan) = Cardinality(Ids(g)) /\ Len(plan) \in Nat
               /\ DOMAIN plan = 1 .. Len(plan)
               /\ \A k \in 1 .. Len(plan) : plan[k].node = TopologicalOrder(g)[k]
               /\ \A k \in 1 .. Len(plan) : plan[k].capability
                                                = CapabilityOf(g.nodes[TopologicalOrder(g)[k]])
               /\ {plan[k].node : k \in DOMAIN plan} = Ids(g)
               /\ \A k \in 1 .. Len(plan) :
                      {i.source[1] : i \in plan[k].inputs} = Sources(g, plan[k].node)
<1>1. PICK order : order = TopologicalOrder(g)
  OBVIOUS
<1>2. /\ IsOrder(g, order) /\ Len(order) = Cardinality(Ids(g)) /\ Elements(order) = Ids(g)
  BY <1>1, WholeOrder
<1>3. Len(order) \in Nat /\ DOMAIN order = 1 .. Len(order)
  BY <1>2 DEF IsOrder
<1> DEFINE Wires(k) == {[port |-> g.edges[n].to[2], source |-> g.edges[n].from] : n \in Into(g, order[k])}
           Step(k) == [node |-> order[k], capability |-> CapabilityOf(g.nodes[order[k]]),
                       inputs |-> Wires(k)]
<1>4. PICK plan : plan = CompilePlan(g)
  OBVIOUS
<1>5. plan = [k \in DOMAIN order |-> Step(k)]
  BY <1>1, <1>4 DEF CompilePlan
<1>6. \A k : /\ Step(k).node = order[k] /\ Step(k).capability = CapabilityOf(g.nodes[order[k]])
             /\ Step(k).inputs = Wires(k)
  OBVIOUS
<1>7. ASSUME NEW k PROVE {i.source[1] : i \in Wires(k)} = Sources(g, order[k])
  <2> DEFINE wire(n) == [port |-> g.edges[n].to[2], source |-> g.edges[n].from]
  <2>1. \A n : wire(n).source = g.edges[n].from
    OBVIOUS
  <2>2. Wires(k) = {wire(n) : n \in Into(g, order[k])}
    OBVIOUS
  <2> HIDE DEF wire, Wires
  <2> QED
    BY <2>1, <2>2 DEF Sources
<1> HIDE DEF Step, Wires
<1>8. Len(plan) = Len(order) /\ DOMAIN plan = 1 .. Len(plan)
  BY <1>3, <1>5
<1>9. ASSUME NEW k \in 1 .. Len(plan)
      PROVE  /\ plan[k].node = order[k] /\ plan[k].capability = CapabilityOf(g.nodes[order[k]])
             /\ plan[k].inputs = Wires(k)
  BY <1>3, <1>5, <1>6, <1>8
<1>10. {plan[k].node : k \in DOMAIN plan} = Ids(g)
  BY <1>2, <1>3, <1>8, <1>9 DEF Elements
<1>11. ASSUME NEW k \in 1 .. Len(plan)
       PROVE  {i.source[1] : i \in plan[k].inputs} = Sources(g, plan[k].node)
  BY <1>7, <1>9
<1> QED
  BY <1>1, <1>2, <1>3, <1>4, <1>8, <1>9, <1>10, <1>11

\* A plan lists its nodes after everything that feeds them.
LEMMA PlanFollows ==
    ASSUME NEW g, GraphShape(g), Valid(g)
    PROVE  LET plan == CompilePlan(g)
           IN  /\ {plan[k].node : k \in DOMAIN plan} = Ids(g)
               /\ Len(plan) = Cardinality(Ids(g))
               /\ \A k \in DOMAIN plan :
                      /\ Cardinality({plan[j].node : j \in Upstream(plan, k)})
                             = Cardinality(Sources(g, plan[k].node))
                      /\ \A j \in Upstream(plan, k) : j < k /\ k \in Downstream(plan, j)
<1>1. PICK plan : plan = CompilePlan(g)
  OBVIOUS
<1>2. PICK order : order = TopologicalOrder(g)
  OBVIOUS
<1>3. ~HasCycle(g)
  BY ValidParts
<1>4. IsOrder(g, order)
  BY <1>2, <1>3, WholeOrder
<1>5. /\ Len(plan) = Cardinality(Ids(g)) /\ Len(plan) \in Nat
      /\ DOMAIN plan = 1 .. Len(plan)
      /\ \A k \in 1 .. Len(plan) : plan[k].node = order[k]
      /\ {plan[k].node : k \in DOMAIN plan} = Ids(g)
  BY <1>1, <1>2, <1>3, PlanParts
<1>6. \A k \in 1 .. Len(plan) : {i.source[1] : i \in plan[k].inputs} = Sources(g, plan[k].node)
  BY <1>1, <1>3, PlanParts
<1>7. Len(order) = Len(plan)
  BY <1>2, <1>3, <1>5, WholeOrder
<1>8. ASSUME NEW k \in DOMAIN plan
      PROVE  /\ \A j : j \in Upstream(plan, k)
                           <=> j \in DOMAIN plan /\ plan[j].node \in Sources(g, plan[k].node)
             /\ \A x \in Sources(g, plan[k].node) : \E j \in 1 .. (k - 1) : plan[j].node = x
  <2>1. \A j : j \in Upstream(plan, k)
                   <=> j \in DOMAIN plan /\ plan[j].node \in {i.source[1] : i \in plan[k].inputs}
    BY DEF Upstream
  <2>2. ASSUME NEW x \in Sources(g, order[k]) PROVE \E j \in 1 .. (k - 1) : order[j] = x
    BY <1>4, <1>5, <1>7, <2>2 DEF IsOrder
  <2>3. \A j \in 1 .. (k - 1) : j \in 1 .. Len(plan)
    BY <1>5
  <2> QED
    BY <1>5, <1>6, <2>1, <2>2, <2>3
<1>9. ASSUME NEW k \in DOMAIN plan
      PROVE  {plan[j].node : j \in Upstream(plan, k)} = Sources(g, plan[k].node)
  <2>1. \A j \in 1 .. (k - 1) : j \in DOMAIN plan
    BY <1>5
  <2> QED
    BY <1>8, <2>1
<1>10. ASSUME NEW k \in DOMAIN plan, NEW j \in Upstream(plan, k)
       PROVE  j < k /\ k \in Downstream(plan, j)
  <2>1. j \in DOMAIN plan
    BY <1>8
  <2>2. PICK i \in 1 .. (k - 1) : plan[i].node = plan[j].node
    BY <1>8
  <2>3. i \in 1 .. Len(plan) /\ i < k /\ order[i] = order[j]
    BY <1>5, <2>1, <2>2
  <2>4. i = j
    BY <1>4, <1>5, <1>7, <2>1, <2>3 DEF IsOrder
  <2> QED
    BY <2>3, <2>4 DEF Downstream
<1> QED
  BY <1>1, <1>5, <1>9, <1>10

\* The plan of a version lists every node once, after everything that feeds it, and no
\* step waits for one that comes later or is not there (compile_plan and step_dag.rs).
THEOREM EveryPlanFollows == Spec => []PlansFollowTheEdges
<1>1. ASSUME WellKept PROVE PlansFollowTheEdges
  BY <1>1, CurrentIsKept, PlanFollows DEF PlansFollowTheEdges
<1> QED
  BY <1>1, HistoryIsWellKept, PTL

-----------------------------------------------------------------------------
(* The resolver.                                                           *)

LEMMA Refusals ==
    ASSUME NEW b
    PROVE  /\ IsFound(Found(b)) /\ Found(b).binding = b
           /\ \A code \in {"BINDING_UNAVAILABLE", "BINDING_AMBIGUOUS", "BINDING_NOT_FOUND",
                           "MODEL_NOT_FOUND", "MODEL_AMBIGUOUS", "CAPABILITY_NOT_FOUND",
                           "PINNED_MODEL_MISMATCH"} : ~IsFound(Refusal(code))
  BY DEF IsFound, Found, Refusal

Defaults(available) == {b \in available : IsDefault(b)}

LEMMA Available ==
    ASSUME NEW available
    PROVE  \/ available = {} /\ ~IsFound(SelectAvailable(available))
           \/ /\ Defaults(available) # {} /\ available # {}
              /\ \E b \in Defaults(available) : SelectAvailable(available) = Found(b)
           \/ /\ Defaults(available) = {} /\ available # {} /\ Cardinality(available) = 1
              /\ \E b \in available : SelectAvailable(available) = Found(b)
           \/ /\ Defaults(available) = {} /\ available # {} /\ Cardinality(available) # 1
              /\ ~IsFound(SelectAvailable(available))
<1> DEFINE default == {b \in available : IsDefault(b)}
<1>1. default = Defaults(available) /\ default \subseteq available
  BY DEF Defaults
<1>2. SelectAvailable(available)
          = CASE available = {} -> Refusal("BINDING_UNAVAILABLE")
              [] default # {} -> Found(CHOOSE b \in default : TRUE)
              [] default = {} /\ Cardinality(available) = 1 -> Found(CHOOSE b \in available : TRUE)
              [] OTHER -> Refusal("BINDING_AMBIGUOUS")
  BY DEF SelectAvailable
<1>3. PICK a : a = CHOOSE b \in default : TRUE
  OBVIOUS
<1>4. PICK c : c = CHOOSE b \in available : TRUE
  OBVIOUS
<1>5. (default # {} => a \in default) /\ (available # {} => c \in available)
  BY <1>3, <1>4
<1>6. SelectAvailable(available)
          = CASE available = {} -> Refusal("BINDING_UNAVAILABLE")
              [] default # {} -> Found(a)
              [] default = {} /\ Cardinality(available) = 1 -> Found(c)
              [] OTHER -> Refusal("BINDING_AMBIGUOUS")
  BY <1>2, <1>3, <1>4, Zenon
<1> HIDE DEF default
<1>7. CASE available = {}
  <2>1. default = {} /\ Cardinality(available) = 0
    BY <1>1, <1>7, FS_EmptySet
  <2> QED
    BY <1>6, <1>7, <2>1, Refusals
<1>8. CASE available # {} /\ default # {}
  BY <1>1, <1>5, <1>6, <1>8
<1>9. CASE available # {} /\ default = {} /\ Cardinality(available) = 1
  BY <1>1, <1>5, <1>6, <1>9
<1>10. CASE available # {} /\ default = {} /\ Cardinality(available) # 1
  BY <1>1, <1>6, <1>10, Refusals
<1> QED
  BY <1>7, <1>8, <1>9, <1>10

\* The bindings of a model for a capability on a connector.
Offers(capability, model, connector) ==
    {b \in Bindings : b.capability = capability /\ b.model = model /\ b.connector = connector}

Alone(connector) == {connector}

\* Which of the candidates on one connector are available does not depend on the others.
LEMMA AvailableThere ==
    ASSUME NEW connector, NEW up, connector \in up, NEW b, b.connector = connector
    PROVE  BindingAvailable(b, up) <=> BindingAvailable(b, Alone(connector))
  BY DEF BindingAvailable, Alone

\* A model's own id, on one connector.
LEMMA ByItsId ==
    ASSUME NEW capability \in Capabilities, NEW b \in Bindings, NEW connector, connector # None
    PROVE  Resolve(capability, b.model, connector, Alone(connector))
               = SelectUnique(Offers(capability, b.model, connector), Alone(connector))
<1>1. b.model \in Queries /\ Matches[b.model] = {b.model} /\ b.model # None
  BY IdsAreUnambiguous, NoneIsNothing
<1>2. Cardinality({b.model}) = 1
  BY FS_Singleton
<1>3. (CHOOSE m \in {b.model} : TRUE) = b.model
  OBVIOUS
<1>4. Resolve(capability, b.model, connector, Alone(connector))
          = ResolvePinned(capability, b.model, connector, Alone(connector))
  BY <1>1 DEF Resolve
<1>5. Preferred({x \in Bindings : x.capability = capability /\ x.model = b.model}, connector)
          = Offers(capability, b.model, connector)
  BY DEF Preferred, Offers
<1>6. Matches[b.model] # {} /\ ~(Cardinality(Matches[b.model]) > 1)
  BY <1>1, <1>2
<1>7. ResolvePinned(capability, b.model, connector, Alone(connector))
          = SelectUnique(Preferred({x \in Bindings : x.capability = capability /\ x.model = b.model},
                                   connector), Alone(connector))
  BY <1>1, <1>3, <1>6 DEF ResolvePinned
<1> QED
  BY <1>4, <1>5, <1>7

\* What is found for a connector that is up, by a model's name.
LEMMA FoundByName ==
    ASSUME NEW capability, NEW query, query # None, NEW connector, connector # None,
           NEW up, connector \in up,
           NEW found, found = Resolve(capability, query, connector, up), IsFound(found)
    PROVE  /\ found.binding \in Bindings /\ capability \in Capabilities
           /\ found = SelectUnique(Offers(capability, found.binding.model, connector), Alone(connector))
<1>0. PICK b : b = found.binding
  OBVIOUS
<1>1. /\ capability \in Capabilities
      /\ found = ResolvePinned(capability, query, connector, up)
  BY Refusals DEF Resolve
<1>2. PICK model : model = CHOOSE m \in Matches[query] : TRUE
  OBVIOUS
<1>3. PICK offers : offers = Offers(capability, model, connector)
  OBVIOUS
<1>4. Preferred({x \in Bindings : x.capability = capability /\ x.model = model}, connector) = offers
  BY <1>3 DEF Preferred, Offers
<1>5. found = SelectUnique(offers, up)
  BY <1>1, <1>2, <1>4, Refusals DEF ResolvePinned
<1>6. PICK available : available = {x \in offers : BindingAvailable(x, up)}
  OBVIOUS
<1>7. available = {x \in offers : BindingAvailable(x, Alone(connector))}
  BY <1>3, <1>6, AvailableThere DEF Offers
<1>8. /\ SelectUnique(offers, up) = SelectUnique(offers, Alone(connector))
      /\ SelectUnique(offers, up) = SelectAvailable(available)
  BY <1>5, <1>6, <1>7, Refusals DEF SelectUnique
<1>9. b \in available
  <2>1. \E x \in available : found = Found(x)
    BY <1>5, <1>8, Available DEF Defaults
  <2> QED
    BY <1>0, <2>1, Refusals
<1>10. b \in Bindings /\ b.model = model
  BY <1>3, <1>6, <1>9 DEF Offers
<1> QED
  BY <1>0, <1>1, <1>3, <1>5, <1>8, <1>10

\* What is found for a connector that is up, by the policy.
LEMMA FoundByPolicy ==
    ASSUME NEW capability, NEW connector, connector # None,
           NEW up, connector \in up,
           NEW found, found = Resolve(capability, None, connector, up), IsFound(found),
           NEW b, b = found.binding
    PROVE  /\ b \in Offers(capability, b.model, connector) /\ capability \in Capabilities
           /\ BindingAvailable(b, Alone(connector))
           /\ IsDefault(b) \/ (Offers(capability, b.model, connector) = Alone(b) /\ ~IsDefault(b))
<1>1. /\ capability \in Capabilities
      /\ found = ResolvePolicy(capability, connector, up)
  BY Refusals DEF Resolve
<1>2. PICK candidates : candidates = Preferred({x \in Bindings : x.capability = capability}, connector)
  OBVIOUS
<1>3. candidates = {x \in Bindings : x.capability = capability /\ x.connector = connector}
  BY <1>2 DEF Preferred
<1>4. PICK chosen : chosen = PolicyAmong(candidates, connector)
  OBVIOUS
<1>5. ResolvePolicy(capability, connector, up) = IfAvailable(candidates, chosen, up)
  BY <1>2, <1>4 DEF ResolvePolicy
<1>6. candidates # {} /\ chosen # {}
  BY <1>1, <1>5, Refusals DEF IfAvailable
<1>7. b = (CHOOSE x \in chosen : TRUE) /\ BindingAvailable(b, up)
  BY <1>1, <1>5, <1>6, Refusals DEF IfAvailable
<1>8. b \in chosen
  BY <1>6, <1>7
<1>9. \/ chosen = Defaults(candidates)
      \/ chosen = candidates /\ Cardinality(candidates) = 1 /\ Defaults(candidates) = {}
  BY <1>4, <1>6 DEF PolicyAmong, Defaults
<1>10. b \in candidates
  BY <1>8, <1>9 DEF Defaults
<1>11. b \in Offers(capability, b.model, connector) /\ BindingAvailable(b, Alone(connector))
  BY <1>3, <1>7, <1>10, AvailableThere DEF Offers
<1>12. Offers(capability, b.model, connector) \subseteq candidates
  BY <1>3 DEF Offers
<1>13. CASE Cardinality(candidates) = 1 /\ Defaults(candidates) = {}
  <2>1. IsFiniteSet(candidates)
    <3>1. candidates \in SUBSET Bindings
      BY <1>3
    <3> QED
      BY <3>1, CatalogIsFinite, FS_Subset
  <2>2. candidates = {b}
    BY <1>10, <1>13, <2>1, FS_Singleton
  <2>3. ~IsDefault(b)
    BY <1>10, <1>13 DEF Defaults
  <2> QED
    BY <1>1, <1>11, <1>12, <2>2, <2>3 DEF Alone
<1>14. CASE chosen = Defaults(candidates)
  BY <1>1, <1>8, <1>11, <1>14 DEF Defaults
<1> QED
  BY <1>9, <1>13, <1>14

\* What is found for a connector that is up is found again by its model's id, on that
\* connector alone.
LEMMA FoundAgain ==
    ASSUME NEW capability, NEW query, NEW connector, connector # None,
           NEW up, connector \in up,
           NEW found, found = Resolve(capability, query, connector, up), IsFound(found),
           NEW b, b = found.binding,
           NEW again, again = Resolve(capability, b.model, connector, Alone(connector))
    PROVE  /\ b \in Bindings /\ capability \in Capabilities
           /\ IsFound(again) /\ again.binding.id = b.id /\ again.binding.model = b.model
<1>1. CASE query # None
  <2>1. /\ b \in Bindings /\ capability \in Capabilities
        /\ found = SelectUnique(Offers(capability, b.model, connector), Alone(connector))
    BY <1>1, FoundByName
  <2>2. again = SelectUnique(Offers(capability, b.model, connector), Alone(connector))
    BY <2>1, ByItsId
  <2>3. again = found
    BY <2>1, <2>2
  <2> QED
    BY <2>1, <2>3
<1>2. CASE query = None
  <2>1. PICK offers : offers = Offers(capability, b.model, connector)
    OBVIOUS
  <2>2. /\ b \in offers /\ capability \in Capabilities
        /\ BindingAvailable(b, Alone(connector))
        /\ IsDefault(b) \/ (offers = Alone(b) /\ ~IsDefault(b))
    BY <1>2, <2>1, FoundByPolicy
  <2>3. b \in Bindings /\ b.capability = capability
    BY <2>1, <2>2 DEF Offers
  <2>4. PICK available : available = {x \in offers : BindingAvailable(x, Alone(connector))}
    OBVIOUS
  <2>5. b \in available
    BY <2>2, <2>4
  <2>6. again = SelectAvailable(available)
    <3>1. again = SelectUnique(offers, Alone(connector))
      BY <2>1, <2>2, <2>3, ByItsId
    <3>2. offers # {}
      BY <2>2
    <3> QED
      BY <2>4, <3>1, <3>2 DEF SelectUnique
  <2>7. CASE IsDefault(b)
    <3>1. b \in Defaults(available)
      BY <2>5, <2>7 DEF Defaults
    <3>s. Defaults(available) # {} /\ available # {}
      BY <2>5, <3>1
    <3>2. PICK d \in Defaults(available) : SelectAvailable(available) = Found(d)
      BY <3>s, Available
    <3>3. again = Found(d) /\ d \in Defaults(available)
      BY <2>6, <3>2
    <3>4. d.capability = capability /\ d.model = b.model /\ IsDefault(d)
      BY <2>1, <2>4, <3>3 DEF Defaults, Offers
    <3>5. d.id = b.id
      BY <2>3, <2>7, <3>4 DEF IsDefault
    <3> QED
      BY <2>2, <2>3, <3>3, <3>4, <3>5, Refusals
  <2>8. CASE offers = Alone(b) /\ ~IsDefault(b)
    <3>1. available = {b}
      BY <2>4, <2>5, <2>8 DEF Alone
    <3>2. Defaults(available) = {} /\ Cardinality(available) = 1
      BY <2>8, <3>1, FS_Singleton DEF Defaults
    <3>3. \E x \in available : SelectAvailable(available) = Found(x)
      BY <2>5, <3>2, Available
    <3>4. again = Found(b)
      BY <2>6, <3>1, <3>3
    <3> QED
      BY <2>2, <2>3, <3>4, Refusals
  <2> QED
    BY <2>2, <2>7, <2>8
<1> QED
  BY <1>1, <1>2

\* A run on the connector resolves the entry the agent made for it.
LEMMA PinResolves ==
    ASSUME NEW node, NEW connector, connector # None, NEW up, connector \in up,
           PinnedFor(node, connector, up), CapabilityOf(node) # None
    PROVE  /\ node.sem # None /\ IsPinned(node.sem)
           /\ IsFound(ResolveStepBinding(CapabilityOf(node), connector, node.sem))
           /\ ResolveStepBinding(CapabilityOf(node), connector, node.sem).binding.id
                  = node.sem.binding
<1>1. PICK capability : capability = CapabilityOf(node)
  OBVIOUS
<1>2. PICK query, found : /\ found = Resolve(capability, query, connector, up)
                          /\ IsFound(found)
                          /\ node.sem = Pinned(capability, found.binding)
  BY <1>1 DEF PinnedFor
<1>3. PICK b : b = found.binding
  OBVIOUS
<1>4. PICK again : again = Resolve(capability, b.model, connector, Alone(connector))
  OBVIOUS
<1>5. /\ b \in Bindings /\ capability \in Capabilities
      /\ IsFound(again) /\ again.binding.id = b.id /\ again.binding.model = b.model
  BY <1>2, <1>3, <1>4, FoundAgain
<1>6. PICK entry : entry = node.sem
  OBVIOUS
<1>7. /\ entry = Pinned(capability, b)
      /\ entry.kind = "pinned" /\ entry.model = b.model /\ entry.binding = b.id
  BY <1>2, <1>3, <1>6 DEF Pinned
<1>8. entry # None
  BY <1>5, <1>7, NoneIsNothing DEF Pinned
<1>9. IsPinned(entry)
  BY <1>7, <1>8 DEF IsPinned
<1>10. ResolveStepBinding(capability, connector, entry) = again
  BY <1>4, <1>5, <1>7, <1>9 DEF ResolveStepBinding, Alone
<1> QED
  BY <1>1, <1>5, <1>6, <1>7, <1>8, <1>9, <1>10

-----------------------------------------------------------------------------
(* What the agent pins.                                                    *)

\* A translated operation leaves pinned what was, and adds only pinned nodes.
NewPinned(g, base, preference, up) ==
    \A id \in Ids(g) : id \notin Ids(base) => PinnedFor(g.nodes[id], preference, up)

LEMMA EditedPinned ==
    ASSUME NEW g, NEW base, NEW preference, NEW up, NewPinned(g, base, preference, up),
           NEW o, IsTranslation(o, preference, up), Accepts(g, o)
    PROVE  NewPinned(Edited(g, o), base, preference, up)
<1> DEFINE h == Edited(g, o)
<1> HIDE DEF h
<1>0. o.op \in Kinds
  BY DEF IsTranslation, Kinds
<1> SUFFICES ASSUME NEW id \in Ids(h), id \notin Ids(base) PROVE PinnedFor(h.nodes[id], preference, up)
  BY DEF NewPinned, h
<1>1. CASE o.op = "add_node"
  <2>1. h = WithNode(g, o.id, o.node) /\ PinnedFor(o.node, preference, up)
    BY <1>0, <1>1, EditedCases DEF h, IsTranslation
  <2>2. /\ Ids(h) = Ids(g) \cup {o.id} /\ h.nodes[o.id] = o.node
        /\ \A x \in Ids(g) \ {o.id} : h.nodes[x] = g.nodes[x]
    BY <2>1, WithNodeParts
  <2>3. CASE id = o.id
    BY <2>1, <2>2, <2>3
  <2>4. CASE id # o.id
    <3>1. id \in Ids(g) /\ h.nodes[id] = g.nodes[id]
      BY <2>2, <2>4
    <3> QED
      BY <3>1 DEF NewPinned
  <2> QED
    BY <2>3, <2>4
<1>2. CASE o.op = "set_param"
  <2>1. PICK node : node = WithParams(g.nodes[o.id], g.nodes[o.id].params \cup {o.key})
    OBVIOUS
  <2>2. node.type = g.nodes[o.id].type /\ node.sem = g.nodes[o.id].sem
    BY <2>1 DEF WithParams
  <2>3. h = WithNode(g, o.id, node)
    BY <1>0, <1>2, <2>1, EditedCases DEF h
  <2>4. /\ Ids(h) = Ids(g) \cup {o.id} /\ h.nodes[o.id] = node
        /\ \A x \in Ids(g) \ {o.id} : h.nodes[x] = g.nodes[x]
    BY <2>3, WithNodeParts
  <2>5. o.id \in Ids(g)
    BY <1>2 DEF Accepts
  <2>6. id \in Ids(g) /\ PinnedFor(g.nodes[id], preference, up)
    BY <2>4, <2>5 DEF NewPinned
  <2>7. h.nodes[id].type = g.nodes[id].type /\ h.nodes[id].sem = g.nodes[id].sem
    BY <2>2, <2>4, <2>6
  <2> QED
    BY <2>6, <2>7 DEF PinnedFor, CapabilityOf
<1>3. CASE o.op = "remove_node"
  <2>1. h = WithoutNode(g, o.id)
    BY <1>0, <1>3, EditedCases DEF h
  <2>2. id \in Ids(g) /\ h.nodes[id] = g.nodes[id]
    BY <2>1, WithoutNodeParts
  <2> QED
    BY <2>2 DEF NewPinned
<1>4. CASE o.op \in {"add_edge", "remove_edge"}
  <2>1. \E edges : h = WithEdges(g, edges)
    BY <1>0, <1>4, EditedCases DEF h
  <2>2. id \in Ids(g) /\ h.nodes[id] = g.nodes[id]
    BY <2>1, WithEdgesParts
  <2> QED
    BY <2>2 DEF NewPinned
<1> QED
  BY <1>1, <1>2, <1>3, <1>4 DEF IsTranslation

LEMMA AppliedPinned ==
    ASSUME NEW base, NEW preference, NEW up, NEW T, NEW ops \in Seq(T),
           \A i \in 1 .. Len(ops) : IsTranslation(ops[i], preference, up),
           IsFound(ApplyOps(base, ops))
    PROVE  NewPinned(ApplyOps(base, ops).graph, base, preference, up)
<1> DEFINE n == Len(ops)
<1>1. PICK f : Applied(f, base, ops) /\ ApplyOps(base, ops) = f[n]
  BY AppliedTrace
<1> DEFINE S == {k \in Nat : k <= n => (IsFound(f[k]) => NewPinned(f[k].graph, base, preference, up))}
<1>2. S = Nat
  <2>1. 0 \in S
    <3>1. f[0].graph = base
      <4>1. f[0] = Done(base)
        BY <1>1, AppliedStart
      <4> QED
        BY <4>1 DEF Done
    <3>2. NewPinned(base, base, preference, up)
      BY DEF NewPinned
    <3> QED
      BY <3>1, <3>2
  <2>2. ASSUME NEW k \in S PROVE k + 1 \in S
    <3> SUFFICES ASSUME k + 1 <= n, IsFound(f[k + 1])
                 PROVE  NewPinned(f[k + 1].graph, base, preference, up)
      OBVIOUS
    <3>1. k \in Nat /\ k <= n /\ k + 1 \in 1 .. n
      OBVIOUS
    <3>2. f[k + 1] = AndThen(f[k], ops[k + 1])
      BY <1>1, <3>1, AppliedStep
    <3>3. /\ IsFound(f[k]) /\ Accepts(f[k].graph, ops[k + 1])
          /\ f[k + 1].graph = Edited(f[k].graph, ops[k + 1])
      BY <3>2, AndThenCases
    <3>4. NewPinned(f[k].graph, base, preference, up) /\ IsTranslation(ops[k + 1], preference, up)
      BY <3>1, <3>3
    <3> QED
      BY <3>3, <3>4, EditedPinned
  <2> HIDE DEF S
  <2>3. S \in SUBSET Nat
    BY DEF S
  <2> QED
    BY <2>1, <2>2, <2>3, Induction
<1>3. n \in S /\ n <= n
  BY <1>2
<1> QED
  BY <1>1, <1>3

\* What the agent made for a connector is valid, and new nodes are pinned for it.
AgentsArePinned ==
    (Current.by.kind = "agent" /\ Current.by.connector # None) =>
        /\ Valid(Current.graph)
        /\ \E up : /\ Current.by.connector \in up
                   /\ NewPinned(Current.graph, versions[Len(versions) - 1].graph,
                                Current.by.connector, up)

LEMMA AgentsArePinnedInit ==
    ASSUME Init
    PROVE  AgentsArePinned
<1>1. PICK s \in StartGraphs :
          versions = <<[graph |-> s.graph, sidecar |-> s.sidecar, by |-> By("start", None, {})]>>
  BY DEF Init
<1>2. Current.by.kind = "start"
  BY <1>1 DEF Current, By
<1> QED
  BY <1>2 DEF AgentsArePinned

LEMMA AgentsArePinnedNext ==
    ASSUME WellKept, AgentsArePinned, [Next]_vars
    PROVE  AgentsArePinned'
<1>1. CASE UNCHANGED versions
  BY <1>1 DEF AgentsArePinned, Current
<1>k. ASSUME NEW g, NEW sidecar, NEW by, Commit(g, sidecar, by), by.kind # "agent"
      PROVE  AgentsArePinned'
  <2>1. Current'.by = by
    BY <1>k, Committed
  <2> QED
    BY <1>k, <2>1 DEF AgentsArePinned
<1>b. \A kind, connector, named : By(kind, connector, named).kind = kind
                                  /\ By(kind, connector, named).connector = connector
  BY DEF By
<1>2. ASSUME NEW plan \in AgentPlans, NEW connector, NEW up, AgentEdit(plan, connector, up)
      PROVE  AgentsArePinned'
  <2>1. PICK g, ops : AgentMade(g, ops, connector, up)
    BY <1>2, AgentEditMakes
  <2>2. Commit(g, CollectedSemantics(g), By("agent", connector, NamedBy(ops)))
    BY <2>1 DEF AgentMade
  <2>3. /\ Len(versions') = Len(versions) + 1
        /\ \A i \in 1 .. Len(versions) : versions'[i] = versions[i]
        /\ Current'.graph = g /\ Current'.by.connector = connector
    BY <1>b, <2>2, Committed
  <2>4. versions'[Len(versions') - 1].graph = Current.graph
    <3>1. Len(versions') - 1 = Len(versions) /\ Len(versions) \in 1 .. Len(versions)
      BY <2>3, CurrentIsKept
    <3> QED
      BY <2>3, <3>1 DEF Current
  <2>5. /\ ops \in Seq(Elements(ops)) /\ \A i \in 1 .. Len(ops) : IsTranslation(ops[i], connector, up)
        /\ IsFound(ApplyOps(Current.graph, ops)) /\ ApplyOps(Current.graph, ops).graph = g
        /\ Valid(g) /\ Readiness(connector, up)
    BY <2>1 DEF AgentMade, IsFound, Done
  <2>6. NewPinned(g, Current.graph, connector, up)
    BY <2>5, AppliedPinned
  <2>7. connector # None => connector \in up
    BY <2>5 DEF Readiness
  <2> QED
    BY <2>3, <2>4, <2>5, <2>6, <2>7 DEF AgentsArePinned
<1>3. ASSUME NEW ops \in OpRequests, ManualOps(ops) PROVE AgentsArePinned'
  BY <1>3, <1>k, <1>b, ManualOpsMakes DEF ManualMade
<1>4. ASSUME NEW connector, Migrate(connector) PROVE AgentsArePinned'
  BY <1>4, <1>k, <1>b, MigrateMakes
<1>5. ASSUME NEW i \in 1 .. (Len(versions) - 1), Restore(i) PROVE AgentsArePinned'
  BY <1>5, <1>k, <1>b, RestoreMakes
<1>6. ASSUME NEW intent, NEW up, Compile(intent, up) PROVE AgentsArePinned'
  BY <1>1, <1>6 DEF Compile
<1>7. CASE Release
  BY <1>1, <1>7 DEF Release
<1> QED
  BY <1>1, <1>2, <1>3, <1>4, <1>5, <1>6, <1>7 DEF Next, vars

\* The plan's step of a node that is pinned for the connector.
LEMMA StepResolves ==
    ASSUME NEW version, NEW id \in Ids(version.graph), NEW connector, connector # None,
           NEW up, connector \in up, PinnedFor(version.graph.nodes[id], connector, up),
           NEW step, step.node = id, step.capability = CapabilityOf(version.graph.nodes[id]),
           step.capability # None
    PROVE  LET semantics == VersionSemantics(version)
               entry == EntryOf(semantics, id)
           IN  /\ IsFound(ResolvedStep(step, connector, semantics))
               /\ IsPinned(entry)
               /\ ResolvedStep(step, connector, semantics).binding.id = entry.binding
<1>1. PICK node : node = version.graph.nodes[id]
  OBVIOUS
<1>2. /\ node.sem # None /\ IsPinned(node.sem)
      /\ IsFound(ResolveStepBinding(CapabilityOf(node), connector, node.sem))
      /\ ResolveStepBinding(CapabilityOf(node), connector, node.sem).binding.id
             = node.sem.binding
  BY <1>1, PinResolves
<1>3. id \in Embedded(version.graph)
  BY <1>1, <1>2 DEF Embedded
<1>4. EntryOf(VersionSemantics(version), id) = node.sem
  BY <1>1, <1>3, EmbeddedEntry
<1> QED
  BY <1>1, <1>2, <1>4 DEF ResolvedStep

\* Whatever the agent pins for the selected connector, a run on that connector resolves
\* to the same binding, whichever connectors were up when it was pinned
\* (canvas_edit.rs resolve_semantics, resolved.rs attach_resolved_bindings).
THEOREM EveryAgentPinRuns == Spec => []AgentPinsRun
<1>1. ASSUME WellKept, AgentsArePinned PROVE AgentPinsRun
  <2>1. SUFFICES ASSUME Current.by.kind = "agent", Current.by.connector # None
        PROVE  LET new == Ids(Current.graph) \ Ids(versions[Len(versions) - 1].graph)
                   plan == CompilePlan(Current.graph)
                   steps == [k \in {j \in DOMAIN plan : plan[j].node \in new} |-> plan[k]]
                   semantics == VersionSemantics(Current)
                   frozen == AttachResolvedBindings(steps, Current.by.connector, semantics)
               IN  /\ Resolvable(steps, Current.by.connector, semantics)
                   /\ \A k \in DOMAIN frozen :
                          LET entry == EntryOf(semantics, steps[k].node)
                          IN  IsPinned(entry) /\ frozen[k].id = entry.binding
    BY DEF AgentPinsRun
  <2>2. PICK c : c = Current.by.connector
    OBVIOUS
  <2>3. PICK g : g = Current.graph
    OBVIOUS
  <2>4. PICK before : before = versions[Len(versions) - 1].graph
    OBVIOUS
  <2>5. PICK up : c \in up /\ NewPinned(g, before, c, up)
    BY <1>1, <2>1, <2>2, <2>3, <2>4 DEF AgentsArePinned
  <2>6. Valid(g) /\ GraphShape(g) /\ c # None
    BY <1>1, <2>1, <2>2, <2>3, CurrentIsKept DEF AgentsArePinned
  <2>7. PICK plan : plan = CompilePlan(g)
    OBVIOUS
  <2>8. /\ DOMAIN plan = 1 .. Len(plan)
        /\ \A k \in 1 .. Len(plan) : plan[k].capability = CapabilityOf(g.nodes[plan[k].node])
        /\ \A k \in 1 .. Len(plan) : plan[k].node \in Ids(g)
    <3>1. ~HasCycle(g)
      BY <2>6, ValidParts
    <3>2. /\ DOMAIN plan = 1 .. Len(plan)
          /\ \A k \in 1 .. Len(plan) : plan[k].node = TopologicalOrder(g)[k]
          /\ \A k \in 1 .. Len(plan) : plan[k].capability
                                           = CapabilityOf(g.nodes[TopologicalOrder(g)[k]])
          /\ {plan[k].node : k \in DOMAIN plan} = Ids(g)
      BY <2>6, <2>7, <3>1, PlanParts
    <3> QED
      BY <3>2
  <2> DEFINE new == Ids(g) \ Ids(before)
             steps == [k \in {j \in DOMAIN plan : plan[j].node \in new} |-> plan[k]]
             semantics == VersionSemantics(Current)
             frozen == AttachResolvedBindings(steps, c, semantics)
  <2>9. ASSUME NEW k \in Executable(steps)
        PROVE  LET entry == EntryOf(semantics, steps[k].node)
               IN  /\ IsFound(ResolvedStep(steps[k], c, semantics))
                   /\ IsPinned(entry)
                   /\ ResolvedStep(steps[k], c, semantics).binding.id = entry.binding
    <3>1. k \in DOMAIN plan /\ plan[k].node \in new /\ steps[k] = plan[k] /\ steps[k].capability # None
      BY DEF Executable
    <3>2. PICK id : id = plan[k].node
      OBVIOUS
    <3>3. PICK step : step = plan[k]
      OBVIOUS
    <3>4. /\ id \in Ids(g) /\ PinnedFor(g.nodes[id], c, up)
          /\ step.node = id /\ step.capability = CapabilityOf(g.nodes[id]) /\ step.capability # None
      BY <2>5, <2>8, <3>1, <3>2, <3>3 DEF NewPinned
    <3>5. /\ IsFound(ResolvedStep(step, c, semantics))
          /\ IsPinned(EntryOf(semantics, id))
          /\ ResolvedStep(step, c, semantics).binding.id = EntryOf(semantics, id).binding
      BY <2>3, <2>5, <2>6, <3>4, StepResolves
    <3> HIDE DEF steps, semantics
    <3> QED
      BY <3>1, <3>2, <3>3, <3>5
  <2> HIDE DEF steps, semantics
  <2>10. Resolvable(steps, c, semantics)
    BY <2>9 DEF Resolvable
  <2>11. frozen = [k \in Executable(steps) |-> ResolvedStep(steps[k], c, semantics).binding]
    BY <2>10 DEF AttachResolvedBindings
  <2>12. ASSUME NEW k \in DOMAIN frozen
         PROVE  LET entry == EntryOf(semantics, steps[k].node)
                IN  IsPinned(entry) /\ frozen[k].id = entry.binding
    <3>1. k \in Executable(steps) /\ frozen[k] = ResolvedStep(steps[k], c, semantics).binding
      BY <2>11
    <3> QED
      BY <2>9, <3>1
  <2> QED
    BY <2>2, <2>3, <2>4, <2>7, <2>10, <2>12, SMTT(30) DEF steps, semantics
<1> QED
  BY <1>1, HistoryIsWellKept, AgentsArePinnedInit, AgentsArePinnedNext, PTL DEF Spec

-----------------------------------------------------------------------------
(* The compiler's target.                                                  *)

\* The stages, one after the other.
BuiltBy(f, intent, preference, up, rev) ==
    f = [i \in 0 .. Len(intent.stages) |-> IF i = 0 THEN [rev |-> rev, nodes |-> <<>>, edges |-> <<>>]
                            ELSE AndThenBuilt(f[i - 1], intent, intent.stages[i], preference, up)]

LEMMA BuiltTrace ==
    ASSUME NEW intent, NEW T, intent.stages \in Seq(T), NEW preference, NEW up, NEW rev
    PROVE  \E f : BuiltBy(f, intent, preference, up, rev) /\ BuiltStages(intent, preference, up, rev) = f[Len(intent.stages)]
<1>0. Len(intent.stages) \in Nat
  OBVIOUS
<1> DEFINE n == Len(intent.stages)
           Is(k, f) == f = [i \in 0 .. k |-> IF i = 0 THEN [rev |-> rev, nodes |-> <<>>, edges |-> <<>>]
                                              ELSE AndThenBuilt(f[i - 1], intent, intent.stages[i], preference, up)]
           S == {k \in Nat : \E f : Is(k, f)}
           after == CHOOSE f : Is(n, f)
<1>1. S = Nat
  <2>1. 0 \in S
    <3> DEFINE f == [i \in 0 .. 0 |-> [rev |-> rev, nodes |-> <<>>, edges |-> <<>>]]
    <3>1. \A i \in 0 .. 0 : i = 0
      OBVIOUS
    <3>2. Is(0, f)
      BY <3>1
    <3> QED
      BY <3>2
  <2>2. ASSUME NEW k \in S PROVE k + 1 \in S
    <3>1. PICK f : Is(k, f)
      BY <2>2
    <3> DEFINE last == AndThenBuilt(f[k], intent, intent.stages[(k + 1)], preference, up)
               g == [i \in 0 .. k + 1 |-> IF i = k + 1 THEN last ELSE f[i]]
    <3>2. k \in Nat
      BY <2>2
    <3>3. \A i \in 0 .. k + 1 : g[i] = IF i = 0 THEN [rev |-> rev, nodes |-> <<>>, edges |-> <<>>]
                                     ELSE AndThenBuilt(g[i - 1], intent, intent.stages[i], preference, up)
      <4> SUFFICES ASSUME NEW i \in 0 .. k + 1
                   PROVE  g[i] = IF i = 0 THEN [rev |-> rev, nodes |-> <<>>, edges |-> <<>>]
                                 ELSE AndThenBuilt(g[i - 1], intent, intent.stages[i], preference, up)
        OBVIOUS
      <4>1. CASE i = k + 1
        <5>1. i # 0 /\ i - 1 = k /\ k \in 0 .. k + 1 /\ k # k + 1
          <6> HIDE DEF last, g, Is, S
          <6> QED
            BY <4>1, <3>2
        <5>2. g[i] = last /\ g[i - 1] = f[k]
          <6> HIDE DEF last
          <6> QED
            BY <4>1, <5>1
        <5> HIDE DEF g
        <5> QED
          BY <4>1, <5>1, <5>2
      <4>2. CASE i # k + 1
        <5>1. i \in 0 .. k /\ (i # 0 => i - 1 \in 0 .. k /\ i - 1 # k + 1)
          BY <4>2, <3>2
        <5>2. g[i] = f[i] /\ (i # 0 => g[i - 1] = f[i - 1])
          <6> HIDE DEF last
          <6> QED
            BY <4>2, <5>1, <3>2
        <5>3. f[i] = IF i = 0 THEN [rev |-> rev, nodes |-> <<>>, edges |-> <<>>]
                     ELSE AndThenBuilt(f[i - 1], intent, intent.stages[i], preference, up)
          BY <3>1, <5>1
        <5> HIDE DEF g
        <5> QED
          BY <5>2, <5>3
      <4> QED
        BY <4>1, <4>2
    <3> HIDE DEF g
    <3>4. g = [i \in 0 .. k + 1 |-> g[i]]
      BY DEF g
    <3>5. Is(k + 1, g)
      BY <3>3, <3>4, Zenon
    <3>6. \E h : Is(k + 1, h)
      BY <3>5, Zenon
    <3> HIDE DEF Is
    <3> QED
      BY <3>6, <3>2
  <2> HIDE DEF S
  <2>3. S \in SUBSET Nat
    BY DEF S
  <2> QED
    BY <2>1, <2>2, <2>3, Induction
<1>2. \E f : Is(n, f)
  BY <1>0, <1>1
<1>3. Is(n, after)
  BY <1>2, Zenon
<1>4. BuiltStages(intent, preference, up, rev) = after[Len(intent.stages)]
  BY Zenon DEF BuiltStages
<1> QED
  BY <1>3, <1>4, Zenon DEF BuiltBy

\* What is found is a binding of the catalog.
LEMMA FoundIsBinding ==
    ASSUME NEW capability, NEW query, NEW preference, NEW up,
           NEW found, found = Resolve(capability, query, preference, up), IsFound(found)
    PROVE  found.binding \in Bindings /\ capability \in Capabilities
<1>1. capability \in Capabilities
  BY Refusals DEF Resolve
<1>2. CASE query # None
  <2>1. found = ResolvePinned(capability, query, preference, up)
    BY <1>1, <1>2 DEF Resolve
  <2>2. PICK pair : /\ pair = {b \in Bindings : b.capability = capability
                                              /\ b.model = CHOOSE m \in Matches[query] : TRUE}
                    /\ pair \subseteq Bindings
    OBVIOUS
  <2>3. PICK offers : offers = Preferred(pair, preference) /\ offers \subseteq Bindings
    BY <2>2 DEF Preferred
  <2>4. found = SelectUnique(offers, up)
    BY <2>1, <2>2, <2>3, Refusals DEF ResolvePinned
  <2>5. PICK available : available = {b \in offers : BindingAvailable(b, up)}
    OBVIOUS
  <2>6. found = SelectAvailable(available) /\ available \subseteq Bindings
    BY <2>3, <2>4, <2>5, Refusals DEF SelectUnique
  <2>7. \E b \in available : found = Found(b)
    BY <2>6, Available DEF Defaults
  <2> QED
    BY <1>1, <2>6, <2>7, Refusals
<1>3. CASE query = None
  <2>1. found = ResolvePolicy(capability, preference, up)
    BY <1>1, <1>3 DEF Resolve
  <2>2. PICK candidates : /\ candidates = Preferred({b \in Bindings : b.capability = capability}, preference)
                          /\ candidates \subseteq Bindings
    BY DEF Preferred
  <2>3. PICK chosen : chosen = PolicyAmong(candidates, preference) /\ chosen \subseteq candidates
    BY DEF PolicyAmong
  <2>4. found = IfAvailable(candidates, chosen, up)
    BY <2>1, <2>2, <2>3 DEF ResolvePolicy
  <2>5. candidates # {} /\ chosen # {}
    BY <2>4, Refusals DEF IfAvailable
  <2>6. PICK b : b = CHOOSE x \in chosen : TRUE
    OBVIOUS
  <2>7. b \in chosen /\ found = Found(b)
    BY <2>4, <2>5, <2>6, Refusals DEF IfAvailable
  <2> QED
    BY <1>1, <2>2, <2>3, <2>7, Refusals
<1> QED
  BY <1>2, <1>3

LEMMA TypeForCapability ==
    ASSUME NEW capability \in Capabilities
    PROVE  TypeFor(capability) \in Types
<1>1. \E t \in Types : Registry[t].capability = capability
  BY DEF Capabilities
<1> QED
  BY <1>1 DEF TypeFor

\* Graphs whose nodes have finitely many parameters.
TargetShape(g) == GraphShape(g) /\ \A id \in Ids(g) : IsFiniteSet(g.nodes[id].params)

\* A list with another one behind it.
LEMMA Lengthened ==
    ASSUME NEW a, NEW S, a \in Seq(S), NEW b, NEW T, b \in Seq(T)
    PROVE  a \o b \in Seq(Elements(a \o b))
<1> DEFINE U == S \cup T
<1>1. a \o b \in Seq(U)
  OBVIOUS
<1> QED
  BY <1>1, IsItsElements

LEMMA WithStageShape ==
    ASSUME NEW g, TargetShape(g), NEW stage, NEW type, type = TypeFor(stage.capability), type \in Types,
           stage.id \in Nat, InputNodeOf[stage.id] \in Nat,
           NEW entry, NEW W, NEW wires \in Seq(W), NEW wired, NEW literal, IsFiniteSet(literal),
           NEW params, IsFiniteSet(params),
           NEW h, h = WithStage(g, stage, entry, wires, wired, literal, params), h # Refused
    PROVE  TargetShape(h)
<1>1. PICK node : /\ node.type = type
                  /\ node.params = params \cup (Registry[type].required \cap (wired \cup literal))
                  /\ node = [type |-> type,
                             params |-> params \cup (Registry[type].required \cap (wired \cup literal)),
                             model |-> None, sem |-> entry]
  OBVIOUS
<1>2. PICK text : /\ text.params = {"text"}
                  /\ text = [type |-> "input.text", params |-> {"text"}, model |-> None, sem |-> None]
  OBVIOUS
<1>3. PICK input : input = InputNodeOf[stage.id]
  OBVIOUS
<1> DEFINE Texts == {[from |-> <<input, "text">>, to |-> <<stage.id, name>>, type |-> "text"] :
                        name \in literal}
<1>4. PICK textEdges : textEdges = SetToSeq(Texts)
  OBVIOUS
<1>5. PICK w : w = IF literal = {} THEN g ELSE WithNode(g, input, text)
  OBVIOUS
<1>6. h = WithNode(WithEdges(w, g.edges \o wires \o textEdges), stage.id, node)
  BY <1>1, <1>2, <1>3, <1>4, <1>5 DEF WithStage
<1>7. IsFiniteSet(Texts)
  <2> DEFINE textOf == [name \in literal |-> [from |-> <<input, "text">>, to |-> <<stage.id, name>>,
                                              type |-> "text"]]
  <2>1. textOf \in Surjection(literal, Texts)
    BY DEF Surjection
  <2> QED
    BY <2>1, FS_Surjection
<1>8. textEdges \in Seq(Texts)
  BY <1>4, <1>7, ListedOnce
<1> HIDE DEF Texts
<1>9. IsFiniteSet(node.params)
  <2>1. IsFiniteSet(Registry[type].required)
    BY CatalogIsFinite
  <2>2. IsFiniteSet(Registry[type].required \cap (wired \cup literal))
    BY <2>1, FS_Intersection
  <2> QED
    BY <1>1, <2>2, FS_Union
<1>10. IsFiniteSet(text.params)
  BY <1>2, FS_Singleton
<1>11. TargetShape(w)
  <2>1. CASE literal = {}
    BY <1>5, <2>1
  <2>2. CASE literal # {}
    <3>1. w = WithNode(g, input, text)
      BY <1>5, <2>2
    <3>2. /\ Ids(w) = Ids(g) \cup {input} /\ w.edges = g.edges /\ w.nodes[input] = text
          /\ \A x \in Ids(g) \ {input} : w.nodes[x] = g.nodes[x]
      BY <3>1, WithNodeParts
    <3>3. IsFiniteSet(Ids(w))
      BY <3>2, FS_AddElement DEF TargetShape, GraphShape
    <3>4. GraphShape(w)
      BY <1>3, <3>2, <3>3 DEF TargetShape, GraphShape
    <3>5. \A x \in Ids(w) : IsFiniteSet(w.nodes[x].params)
      BY <1>10, <3>2 DEF TargetShape
    <3> QED
      BY <3>4, <3>5 DEF TargetShape
  <2> QED
    BY <2>1, <2>2
<1>12. PICK edges : edges = g.edges \o wires \o textEdges
  OBVIOUS
<1>13. edges \in Seq(Elements(edges))
  <2>1. g.edges \in Seq(Elements(g.edges))
    BY DEF TargetShape, GraphShape
  <2>2. PICK first : first = g.edges \o wires
    OBVIOUS
  <2>3. first \in Seq(Elements(first))
    BY <2>1, <2>2, Lengthened
  <2> QED
    BY <1>8, <1>12, <2>2, <2>3, Lengthened
<1>14. PICK v : v = WithEdges(w, edges)
  OBVIOUS
<1>15. Ids(v) = Ids(w) /\ v.edges = edges /\ v.nodes = w.nodes
  BY <1>14, WithEdgesParts
<1>16. h = WithNode(v, stage.id, node)
  BY <1>6, <1>12, <1>14
<1>17. /\ Ids(h) = Ids(w) \cup {stage.id} /\ h.edges = edges /\ h.nodes[stage.id] = node
       /\ \A x \in Ids(w) \ {stage.id} : h.nodes[x] = w.nodes[x]
  BY <1>15, <1>16, WithNodeParts
<1>18. IsFiniteSet(Ids(h))
  <2>1. IsFiniteSet(Ids(w))
    BY <1>11 DEF TargetShape, GraphShape
  <2>2. IsFiniteSet(Ids(w) \cup {stage.id})
    BY <2>1, FS_AddElement
  <2> QED
    BY <1>17, <2>2
<1>19. GraphShape(h)
  BY <1>11, <1>13, <1>17, <1>18 DEF TargetShape, GraphShape
<1>20. \A x \in Ids(h) : IsFiniteSet(h.nodes[x].params)
  BY <1>9, <1>11, <1>17 DEF TargetShape
<1> QED
  BY <1>19, <1>20 DEF TargetShape

LEMMA LiteralsAreFinite ==
    ASSUME NEW type \in Types, NEW wired, NEW given
    PROVE  IsFiniteSet(LiteralInputs(type, wired, given))
<1> DEFINE inputs == Registry[type].inputs
           named == [p \in Elements(inputs) |-> p.name]
           names == {p.name : p \in Elements(inputs)}
<1>1. inputs \in Seq(Elements(inputs))
  BY InputPortsAreNamed
<1>2. IsFiniteSet(Elements(inputs))
  <2>1. DOMAIN inputs = 1 .. Len(inputs) /\ Len(inputs) \in Nat
    BY <1>1
  <2>2. IsFiniteSet(DOMAIN inputs)
    BY <2>1, FS_Interval
  <2> DEFINE at == [i \in DOMAIN inputs |-> inputs[i]]
  <2>3. at \in Surjection(DOMAIN inputs, Elements(inputs))
    BY DEF Surjection, Elements
  <2> QED
    BY <2>2, <2>3, FS_Surjection
<1>3. IsFiniteSet(names)
  <2>1. named \in Surjection(Elements(inputs), names)
    BY DEF Surjection
  <2> QED
    BY <1>2, <2>1, FS_Surjection
<1>4. LiteralInputs(type, wired, given) \in SUBSET names
  BY DEF LiteralInputs, RequiredInputs
<1> QED
  BY <1>3, <1>4, FS_Subset

LEMMA BuiltShape ==
    ASSUME NEW g, TargetShape(g), NEW intent, NEW stage, IsStage(stage), NEW preference, NEW up,
           NEW h, h = AndThenBuilt(g, intent, stage, preference, up), h # Refused
    PROVE  TargetShape(h)
<1>1. PICK wires : wires = [k \in DOMAIN stage.from |-> StageWire(intent, stage, stage.from[k])]
  OBVIOUS
<1>2. PICK found : found = Resolve(stage.capability, stage.query, preference, up)
  OBVIOUS
<1>3. h = ResolvedStage(g, stage, found, wires)
  BY <1>1, <1>2 DEF AndThenBuilt, BuildStage
<1>4. PICK wired : wired = {x.to[2] : x \in Elements(wires)}
  OBVIOUS
<1>5. IsFound(found) /\ h = WiredStage(g, stage, found.binding, wires, wired)
  BY <1>3, <1>4 DEF ResolvedStage
<1>6. PICK b : b = found.binding
  OBVIOUS
<1>7. b \in Bindings /\ stage.capability \in Capabilities
  BY <1>2, <1>5, <1>6, FoundIsBinding
<1>8. PICK type : type = TypeFor(stage.capability) /\ type \in Types
  BY <1>7, TypeForCapability
<1>9. PICK given : given = stage.params \cup b.defaults
  OBVIOUS
<1>10. PICK literal : literal = LiteralInputs(type, wired, given)
  OBVIOUS
<1>11. PICK entry : entry = IF stage.query # None THEN Pinned(stage.capability, b)
                            ELSE Policy(stage.capability)
  OBVIOUS
<1>12. h = WithStage(g, stage, entry, wires, wired, literal, given \ literal)
  BY <1>5, <1>6, <1>8, <1>9, <1>10, <1>11 DEF WiredStage
<1>13. IsFiniteSet(given)
  BY <1>7, <1>9, CatalogIsFinite, FS_Union DEF IsStage
<1>14. IsFiniteSet(given \ literal)
  BY <1>13, FS_Difference
<1>15. IsFiniteSet(literal)
  BY <1>8, <1>10, LiteralsAreFinite
<1>16. wires \in Seq(Elements(wires))
  <2>1. DOMAIN wires = 1 .. Len(stage.from) /\ Len(stage.from) \in Nat
    BY <1>1 DEF IsStage
  <2>2. wires = [k \in 1 .. Len(stage.from) |-> wires[k]]
    BY <1>1, <2>1
  <2>3. \A k \in 1 .. Len(stage.from) : wires[k] \in Elements(wires)
    BY <2>1 DEF Elements
  <2> QED
    BY <2>1, <2>2, <2>3
<1>17. stage.id \in Nat /\ InputNodeOf[stage.id] \in Nat
  BY DEF IsStage
<1> QED
  BY <1>8, <1>12, <1>14, <1>15, <1>16, <1>17, WithStageShape

\* What the compiler builds is a graph, and valid.
LEMMA BuiltTarget ==
    ASSUME NEW intent \in Intents, NEW preference, NEW up, NEW rev,
           NEW target, target = Build(intent, preference, up, rev), target # Refused
    PROVE  TargetShape(target) /\ Valid(target)
<1> DEFINE n == Len(intent.stages)
<1>1. intent.stages \in Seq(Elements(intent.stages)) /\ \A i \in 1 .. n : IsStage(intent.stages[i])
  BY RequestsParse
<1>2. n \in Nat
  BY <1>1
<1>3. PICK f : BuiltBy(f, intent, preference, up, rev) /\ BuiltStages(intent, preference, up, rev) = f[n]
  BY <1>1, BuiltTrace
<1>4. target = f[n] /\ Valid(target)
  BY <1>3 DEF Build, IfSemantic, ValidSemantics
<1>5. f[0] = [rev |-> rev, nodes |-> <<>>, edges |-> <<>>]
  <2>1. 0 \in 0 .. n
    BY <1>2
  <2> QED
    BY <1>3, <2>1 DEF BuiltBy
<1>6. ASSUME NEW k \in Nat, k + 1 <= n
      PROVE  f[k + 1] = AndThenBuilt(f[k], intent, intent.stages[k + 1], preference, up)
  <2>1. k + 1 \in 0 .. n /\ k + 1 # 0 /\ (k + 1) - 1 = k
    BY <1>2, <1>6
  <2>2. f = [i \in 0 .. n |-> IF i = 0 THEN [rev |-> rev, nodes |-> <<>>, edges |-> <<>>]
                              ELSE AndThenBuilt(f[i - 1], intent, intent.stages[i], preference, up)]
    BY <1>3 DEF BuiltBy
  <2>3. f[k + 1] = IF k + 1 = 0 THEN [rev |-> rev, nodes |-> <<>>, edges |-> <<>>]
                   ELSE AndThenBuilt(f[(k + 1) - 1], intent, intent.stages[k + 1], preference, up)
    BY <2>1, <2>2
  <2> QED
    BY <2>1, <2>3
<1> HIDE DEF n
<1> DEFINE S == {k \in Nat : k <= n => (f[k] # Refused => TargetShape(f[k]))}
<1>7. S = Nat
  <2>1. 0 \in S
    <3>1. PICK g : g = [rev |-> rev, nodes |-> <<>>, edges |-> <<>>]
      OBVIOUS
    <3>2. g.nodes = <<>> /\ g.edges = <<>>
      BY <3>1
    <3>3. DOMAIN <<>> = {} /\ <<>> \in Seq({})
      OBVIOUS
    <3>4. Ids(g) = {} /\ IsFiniteSet({})
      BY <3>2, <3>3, FS_EmptySet DEF Ids
    <3>5. g.edges \in Seq(Elements(g.edges))
      BY <3>2, <3>3, IsItsElements
    <3>6. TargetShape(g)
      BY <3>4, <3>5 DEF TargetShape, GraphShape
    <3> QED
      BY <1>5, <3>1, <3>6
  <2>2. ASSUME NEW k \in S PROVE k + 1 \in S
    <3> SUFFICES ASSUME k + 1 <= n, f[k + 1] # Refused PROVE TargetShape(f[k + 1])
      OBVIOUS
    <3>1. k \in Nat /\ k <= n /\ k + 1 \in 1 .. n
      BY <1>2
    <3>2. PICK stage : stage = intent.stages[k + 1]
      OBVIOUS
    <3>3. f[k + 1] = AndThenBuilt(f[k], intent, stage, preference, up) /\ IsStage(stage)
      BY <1>1, <1>6, <3>1, <3>2 DEF n
    <3>4. f[k] # Refused
      BY <3>3 DEF AndThenBuilt
    <3>5. TargetShape(f[k])
      BY <3>1, <3>4
    <3> QED
      BY <3>3, <3>5, BuiltShape
  <2> HIDE DEF S
  <2>3. S \in SUBSET Nat
    BY DEF S
  <2> QED
    BY <2>1, <2>2, <2>3, Induction
<1> QED
  BY <1>2, <1>4, <1>7

-----------------------------------------------------------------------------
(* The operations of a proposal, list by list.                             *)

\* An operation that is accepted.
LEMMA Accepted ==
    ASSUME NEW base, NEW T, NEW ops \in Seq(T), NEW f, Applied(f, base, ops),
           NEW k \in Nat, k + 1 <= Len(ops), IsFound(f[k]), Accepts(f[k].graph, ops[k + 1])
    PROVE  IsFound(f[k + 1]) /\ f[k + 1].graph = Edited(f[k].graph, ops[k + 1])
<1>1. f[k + 1] = AndThen(f[k], ops[k + 1])
  BY AppliedStep
<1> QED
  BY <1>1, AndThenCases

\* A list whose length is the number of its members names each of them once.
LEMMA NotDoubled ==
    ASSUME NEW T, NEW seq \in Seq(T), Cardinality(Elements(seq)) = Len(seq)
    PROVE  \A i, j \in 1 .. Len(seq) : seq[i] = seq[j] => i = j
<1> DEFINE n == Len(seq)
           at == [i \in 1 .. n |-> seq[i]]
<1>1. n \in Nat /\ DOMAIN seq = 1 .. n
  OBVIOUS
<1>2. at \in Surjection(1 .. n, Elements(seq))
  BY <1>1 DEF Surjection, Elements
<1>3. IsFiniteSet(1 .. n) /\ Cardinality(1 .. n) = n
  <2> HIDE DEF n
  <2>1. IsFiniteSet(1 .. n) /\ Cardinality(1 .. n) = IF 1 > n THEN 0 ELSE n - 1 + 1
    BY <1>1, FS_Interval
  <2> QED
    BY <1>1, <2>1
<1>4. at \in Injection(1 .. n, Elements(seq))
  BY <1>2, <1>3, FS_Surjection
<1>5. \A i, j \in 1 .. n : at[i] = at[j] => i = j
  BY <1>4 DEF Injection, IsInjective
<1> QED
  BY <1>5

\* What is retained of such a list names each of its members once, too.
LEMMA AmongOnce ==
    ASSUME NEW T, NEW seq \in Seq(T), \A i, j \in 1 .. Len(seq) : seq[i] = seq[j] => i = j,
           NEW set
    PROVE  \A i, j \in 1 .. Len(Among(seq, set)) :
               Among(seq, set)[i] = Among(seq, set)[j] => i = j
<1> DEFINE n == Len(seq)
<1>1. PICK f : Retained(f, seq, set) /\ Among(seq, set) = f[n]
  BY AmongTrace
<1>2. n \in Nat /\ DOMAIN seq = 1 .. n /\ \A i \in 1 .. n : seq[i] \in T
  OBVIOUS
<1>3. f[0] = <<>>
  <2>1. 0 \in 0 .. n
    BY <1>2
  <2> QED
    BY <1>1, <2>1 DEF Retained
<1>4. ASSUME NEW k \in Nat, k + 1 <= n
      PROVE  f[k + 1] = IF seq[k + 1] \in set THEN Append(f[k], seq[k + 1]) ELSE f[k]
  <2>1. k + 1 \in 0 .. n /\ k + 1 # 0 /\ (k + 1) - 1 = k
    BY <1>2, <1>4
  <2> QED
    BY <1>1, <2>1 DEF Retained
<1> DEFINE Once(s) == \A i, j \in 1 .. Len(s) : s[i] = s[j] => i = j
           Before(s, k) == \A i \in 1 .. Len(s) : \E j \in 1 .. k : s[i] = seq[j]
           S == {k \in Nat : k <= n => f[k] \in Seq(T) /\ Once(f[k]) /\ Before(f[k], k)}
<1>5. S = Nat
  <2>1. 0 \in S
    <3>1. <<>> \in Seq(T) /\ Len(<<>>) = 0
      OBVIOUS
    <3>2. Once(<<>>) /\ Before(<<>>, 0)
      BY <3>1
    <3> HIDE DEF Once, Before
    <3> QED
      BY <1>3, <3>1, <3>2
  <2>2. ASSUME NEW k \in S PROVE k + 1 \in S
    <3> SUFFICES ASSUME k + 1 <= n
                 PROVE  f[k + 1] \in Seq(T) /\ Once(f[k + 1]) /\ Before(f[k + 1], k + 1)
      OBVIOUS
    <3>1. k \in Nat /\ k <= n /\ k + 1 \in 1 .. n
      BY <1>2
    <3>2. PICK s \in Seq(T) : s = f[k]
      BY <3>1
    <3>3. Once(s) /\ Before(s, k)
      BY <3>1, <3>2
    <3>4. CASE seq[k + 1] \in set
      <4>1. PICK r : r = Append(s, seq[k + 1])
        OBVIOUS
      <4>2. f[k + 1] = r /\ seq[k + 1] \in T
        BY <3>1, <3>2, <3>4, <4>1, <1>2, <1>4
      <4>3. /\ r \in Seq(T) /\ Len(s) \in Nat /\ Len(r) = Len(s) + 1
            /\ \A i \in 1 .. Len(s) : r[i] = s[i]
            /\ r[Len(s) + 1] = seq[k + 1]
        BY <4>1, <4>2
      <4>4. Before(r, k + 1)
        <5> SUFFICES ASSUME NEW i \in 1 .. Len(r) PROVE \E j \in 1 .. k + 1 : r[i] = seq[j]
          OBVIOUS
        <5>1. CASE i = Len(s) + 1
          BY <3>1, <4>3, <5>1
        <5>2. CASE i # Len(s) + 1
          <6>1. i \in 1 .. Len(s)
            BY <4>3, <5>2
          <6>2. PICK j \in 1 .. k : s[i] = seq[j]
            BY <3>3, <6>1
          <6>3. j \in 1 .. k + 1
            BY <3>1
          <6> QED
            BY <4>3, <6>1, <6>2, <6>3
        <5> QED
          BY <5>1, <5>2
      <4>5. \A i \in 1 .. Len(s) : r[i] # seq[k + 1]
        <5> SUFFICES ASSUME NEW i \in 1 .. Len(s) PROVE r[i] # seq[k + 1]
          OBVIOUS
        <5>1. PICK j \in 1 .. k : s[i] = seq[j]
          BY <3>3
        <5>2. j \in 1 .. n /\ j # k + 1
          BY <3>1, <1>2
        <5> QED
          BY <3>1, <4>3, <5>1, <5>2
      <4>6. Once(r)
        <5> SUFFICES ASSUME NEW i \in 1 .. Len(r), NEW j \in 1 .. Len(r), r[i] = r[j]
                     PROVE  i = j
          OBVIOUS
        <5>0. 1 .. Len(r) = (1 .. Len(s)) \cup {Len(s) + 1}
          BY <4>3
        <5>1. CASE i \in 1 .. Len(s) /\ j \in 1 .. Len(s)
          <6>1. s[i] = s[j]
            <7> HIDE DEF S
            <7> QED
              BY <4>3, <5>1
          <6>2. \A x, y \in 1 .. Len(s) : s[x] = s[y] => x = y
            BY <3>3
          <6> HIDE DEF S
          <6> QED
            BY <5>1, <6>1, <6>2
        <5>2. CASE i \in 1 .. Len(s) /\ j \notin 1 .. Len(s)
          <6>1. j = Len(s) + 1
            BY <5>2, <5>0
          <6> QED
            BY <4>3, <4>5, <5>2, <6>1
        <5>3. CASE i \notin 1 .. Len(s) /\ j \in 1 .. Len(s)
          <6>1. i = Len(s) + 1
            BY <5>3, <5>0
          <6> QED
            BY <4>3, <4>5, <5>3, <6>1
        <5>4. CASE i \notin 1 .. Len(s) /\ j \notin 1 .. Len(s)
          BY <4>3, <5>4
        <5> QED
          BY <5>1, <5>2, <5>3, <5>4
      <4> HIDE DEF Once, Before
      <4> QED
        BY <4>2, <4>3, <4>4, <4>6
    <3>5. CASE seq[k + 1] \notin set
      <4>1. f[k + 1] = s
        BY <3>1, <3>2, <3>5, <1>4
      <4>2. Before(s, k + 1)
        <5>1. \A j \in 1 .. k : j \in 1 .. k + 1
          BY <3>1
        <5> QED
          BY <3>3, <5>1
      <4> HIDE DEF Once, Before
      <4> QED
        BY <3>3, <4>1, <4>2
    <3> QED
      BY <3>4, <3>5
  <2> HIDE DEF S
  <2>3. S \in SUBSET Nat
    BY DEF S
  <2> QED
    BY <2>1, <2>2, <2>3, Induction
<1>6. n \in S
  BY <1>2, <1>5
<1>7. Once(f[n])
  BY <1>2, <1>6
<1> QED
  BY <1>1, <1>7

\* A graph with the same nodes, and one with the same edges.
SameNodes(h, base, edges) ==
    /\ Ids(h) = Ids(base) /\ h.nodes = base.nodes
    /\ h.edges \in Seq(Elements(h.edges)) /\ Elements(h.edges) = edges
SameEdges(h, base, ids) ==
    /\ Ids(h) = ids /\ \A x \in ids : h.nodes[x] = base.nodes[x]
    /\ h.edges \in Seq(Elements(h.edges)) /\ Elements(h.edges) = Elements(base.edges)

\* remove_edge for each edge of a list that names each once.
LEMMA EdgesRemoved ==
    ASSUME NEW base, base.edges \in Seq(Elements(base.edges)),
           NEW T, NEW gone \in Seq(T), \A i, j \in 1 .. Len(gone) : gone[i] = gone[j] => i = j,
           \A i \in 1 .. Len(gone) : gone[i] \in Elements(base.edges),
           NEW ops, ops = [k \in DOMAIN gone |-> [op |-> "remove_edge", edge |-> gone[k]]]
    PROVE  \E h : ApplyOps(base, ops) = Done(h) /\ SameNodes(h, base, Elements(base.edges) \ Elements(gone))
<1> DEFINE n == Len(gone)
<1>1. /\ n \in Nat /\ DOMAIN gone = 1 .. n /\ DOMAIN ops = 1 .. n
      /\ \A i \in 1 .. n : ops[i].op = "remove_edge" /\ ops[i].edge = gone[i]
  OBVIOUS
<1>2. ops \in Seq(Elements(ops)) /\ Len(ops) = n
  <2>1. ops = [k \in 1 .. n |-> ops[k]] /\ \A k \in 1 .. n : ops[k] \in Elements(ops)
    BY <1>1 DEF Elements
  <2> QED
    BY <1>1, <2>1
<1>3. PICK f : Applied(f, base, ops) /\ ApplyOps(base, ops) = f[n]
  <2>1. \E f : Applied(f, base, ops) /\ ApplyOps(base, ops) = f[Len(ops)]
    <3> HIDE DEF n
    <3> QED
      BY <1>2, AppliedTrace
  <2> QED
    BY <1>2, <2>1
<1> DEFINE done(k) == {gone[i] : i \in 1 .. k}
           Fits(h, k) == /\ Ids(h) = Ids(base) /\ h.nodes = base.nodes
                         /\ h.edges \in Seq(Elements(h.edges))
                         /\ Elements(h.edges) = Elements(base.edges) \ done(k)
           S == {k \in Nat : k <= n => IsFound(f[k]) /\ Fits(f[k].graph, k)}
<1>4. S = Nat
  <2>1. 0 \in S
    <3>1. f[0] = Done(base)
      BY <1>2, <1>3, AppliedStart
    <3>2. IsFound(f[0]) /\ f[0].graph = base
      BY <3>1 DEF IsFound, Done
    <3>3. done(0) = {}
      OBVIOUS
    <3> QED
      BY <3>2, <3>3
  <2>2. ASSUME NEW k \in S PROVE k + 1 \in S
    <3> SUFFICES ASSUME k + 1 <= n PROVE IsFound(f[k + 1]) /\ Fits(f[k + 1].graph, k + 1)
      OBVIOUS
    <3>1. k \in Nat /\ k <= n /\ k + 1 \in 1 .. n
      BY <1>1
    <3>2. PICK g : g = f[k].graph
      OBVIOUS
    <3>3. IsFound(f[k]) /\ Fits(g, k)
      BY <3>1, <3>2
    <3>4. PICK o : o = ops[k + 1]
      OBVIOUS
    <3>5. o.op = "remove_edge" /\ o.edge = gone[k + 1]
      BY <1>1, <3>1, <3>4
    <3>6. gone[k + 1] \notin done(k)
      <4> SUFFICES ASSUME NEW i \in 1 .. k, gone[i] = gone[k + 1] PROVE FALSE
        OBVIOUS
      <4>1. i \in 1 .. n /\ i # k + 1
        BY <3>1, <1>1
      <4> QED
        BY <3>1, <4>1
    <3>7. o.edge \in Elements(g.edges)
      BY <3>1, <3>3, <3>5, <3>6
    <3>8. Accepts(g, o) /\ o.op \in Kinds
      BY <3>5, <3>7 DEF Accepts, Kinds
    <3>9. IsFound(f[k + 1]) /\ f[k + 1].graph = Edited(g, o)
      <4>1. /\ ops \in Seq(Elements(ops)) /\ Applied(f, base, ops) /\ k \in Nat
            /\ k + 1 <= Len(ops) /\ IsFound(f[k]) /\ Accepts(f[k].graph, ops[k + 1])
        BY <1>2, <1>3, <3>1, <3>2, <3>3, <3>4, <3>8
      <4> HIDE DEF n, Fits, S
      <4> QED
        BY <3>2, <3>4, <4>1, Accepted
    <3>10. PICK edges : edges = Among(g.edges, Elements(g.edges) \ {o.edge})
      OBVIOUS
    <3>11. Edited(g, o) = WithEdges(g, edges)
      BY <3>5, <3>8, <3>10, EditedCases
    <3>12. PICK h : h = f[k + 1].graph
      OBVIOUS
    <3>13. Ids(h) = Ids(g) /\ h.nodes = g.nodes /\ h.edges = edges
      BY <3>9, <3>11, <3>12, WithEdgesParts
    <3>14. /\ edges \in Seq(Elements(g.edges))
           /\ Elements(edges) = Elements(g.edges) \cap (Elements(g.edges) \ {o.edge})
      <4>1. g.edges \in Seq(Elements(g.edges))
        BY <3>3
      <4> HIDE DEF n, Fits, S
      <4> QED
        BY <3>10, <4>1, AmongMembers
    <3>15. edges \in Seq(Elements(edges))
      BY <3>14, IsItsElements
    <3>16. done(k + 1) = done(k) \cup {gone[k + 1]}
      <4>1. 1 .. k + 1 = (1 .. k) \cup {k + 1}
        BY <3>1
      <4> QED
        BY <4>1
    <3>17. Fits(h, k + 1)
      <4>1. Ids(h) = Ids(base) /\ h.nodes = base.nodes
        BY <3>3, <3>13
      <4>2. Elements(h.edges) = Elements(base.edges) \ done(k + 1)
        <5> HIDE DEF done
        <5> QED
          BY <3>3, <3>5, <3>13, <3>14, <3>16
      <4> QED
        BY <3>13, <3>15, <4>1, <4>2
    <3> HIDE DEF Fits
    <3> QED
      BY <3>9, <3>12, <3>17
  <2> HIDE DEF S
  <2>3. S \in SUBSET Nat
    BY DEF S
  <2> QED
    BY <2>1, <2>2, <2>3, Induction
<1>5. n \in S
  BY <1>1, <1>4
<1>6. PICK h : h = f[n].graph
  OBVIOUS
<1>7. IsFound(f[n]) /\ Fits(h, n)
  BY <1>1, <1>5, <1>6
<1>8. ApplyOps(base, ops) = Done(h)
  <2>1. n \in 0 .. Len(ops)
    BY <1>1, <1>2
  <2>2. \A k \in 0 .. Len(ops) : IsFound(f[k]) => f[k] = Done(f[k].graph)
    <3> HIDE DEF n, Fits, S
    <3> QED
      BY <1>2, <1>3, AppliedResults
  <2> HIDE DEF n, Fits, S
  <2> QED
    BY <1>2, <1>3, <1>6, <1>7, <2>1, <2>2
<1>9. done(n) = Elements(gone)
  BY <1>1 DEF Elements
<1>10. SameNodes(h, base, Elements(base.edges) \ Elements(gone))
  BY <1>7, <1>9 DEF SameNodes
<1> QED
  BY <1>8, <1>10

\* remove_node for each node of a list that names each once: edges stay that end at none.
LEMMA NodesRemoved ==
    ASSUME NEW base, base.edges \in Seq(Elements(base.edges)),
           NEW T, NEW gone \in Seq(T), \A i, j \in 1 .. Len(gone) : gone[i] = gone[j] => i = j,
           \A i \in 1 .. Len(gone) : gone[i] \in Ids(base),
           \A e \in Elements(base.edges) : \A i \in 1 .. Len(gone) :
               gone[i] # e.from[1] /\ gone[i] # e.to[1],
           NEW ops, ops = [k \in DOMAIN gone |-> [op |-> "remove_node", id |-> gone[k]]]
    PROVE  \E h : ApplyOps(base, ops) = Done(h) /\ SameEdges(h, base, Ids(base) \ Elements(gone))
<1> DEFINE n == Len(gone)
<1>1. /\ n \in Nat /\ DOMAIN gone = 1 .. n /\ DOMAIN ops = 1 .. n
      /\ \A i \in 1 .. n : ops[i].op = "remove_node" /\ ops[i].id = gone[i]
  OBVIOUS
<1>2. ops \in Seq(Elements(ops)) /\ Len(ops) = n
  <2>1. ops = [k \in 1 .. n |-> ops[k]] /\ \A k \in 1 .. n : ops[k] \in Elements(ops)
    BY <1>1 DEF Elements
  <2> QED
    BY <1>1, <2>1
<1>3. PICK f : Applied(f, base, ops) /\ ApplyOps(base, ops) = f[n]
  <2>1. \E f : Applied(f, base, ops) /\ ApplyOps(base, ops) = f[Len(ops)]
    <3> HIDE DEF n
    <3> QED
      BY <1>2, AppliedTrace
  <2> QED
    BY <1>2, <2>1
<1> DEFINE done(k) == {gone[i] : i \in 1 .. k}
           Fits(h, k) == /\ Ids(h) = Ids(base) \ done(k)
                         /\ \A x \in Ids(h) : h.nodes[x] = base.nodes[x]
                         /\ h.edges \in Seq(Elements(h.edges))
                         /\ Elements(h.edges) = Elements(base.edges)
           S == {k \in Nat : k <= n => IsFound(f[k]) /\ Fits(f[k].graph, k)}
<1>4. S = Nat
  <2>1. 0 \in S
    <3>1. f[0] = Done(base)
      BY <1>2, <1>3, AppliedStart
    <3>2. IsFound(f[0]) /\ f[0].graph = base
      BY <3>1 DEF IsFound, Done
    <3>3. done(0) = {}
      OBVIOUS
    <3> QED
      BY <3>2, <3>3
  <2>2. ASSUME NEW k \in S PROVE k + 1 \in S
    <3> SUFFICES ASSUME k + 1 <= n PROVE IsFound(f[k + 1]) /\ Fits(f[k + 1].graph, k + 1)
      OBVIOUS
    <3>1. k \in Nat /\ k <= n /\ k + 1 \in 1 .. n
      BY <1>1
    <3>2. PICK g : g = f[k].graph
      OBVIOUS
    <3>3. IsFound(f[k]) /\ Fits(g, k)
      BY <3>1, <3>2
    <3>4. PICK o : o = ops[k + 1]
      OBVIOUS
    <3>5. o.op = "remove_node" /\ o.id = gone[k + 1]
      BY <1>1, <3>1, <3>4
    <3>6. gone[k + 1] \notin done(k)
      <4> SUFFICES ASSUME NEW i \in 1 .. k, gone[i] = gone[k + 1] PROVE FALSE
        OBVIOUS
      <4>1. i \in 1 .. n /\ i # k + 1
        BY <3>1, <1>1
      <4> QED
        BY <3>1, <4>1
    <3>7. o.id \in Ids(g)
      BY <3>1, <3>3, <3>5, <3>6
    <3>8. Accepts(g, o) /\ o.op \in Kinds
      BY <3>5, <3>7 DEF Accepts, Kinds
    <3>9. IsFound(f[k + 1]) /\ f[k + 1].graph = Edited(g, o)
      <4>1. /\ ops \in Seq(Elements(ops)) /\ Applied(f, base, ops) /\ k \in Nat
            /\ k + 1 <= Len(ops) /\ IsFound(f[k]) /\ Accepts(f[k].graph, ops[k + 1])
        BY <1>2, <1>3, <3>1, <3>2, <3>3, <3>4, <3>8
      <4> HIDE DEF n, Fits, S
      <4> QED
        BY <3>2, <3>4, <4>1, Accepted
    <3>10. Edited(g, o) = WithoutNode(g, o.id)
      BY <3>5, <3>8, EditedCases
    <3>11. PICK h : h = f[k + 1].graph
      OBVIOUS
    <3>12. PICK edges : edges = Among(g.edges, Apart(g, o.id))
      OBVIOUS
    <3>13. /\ Ids(h) = Ids(g) \ {o.id} /\ h.edges = edges
           /\ \A x \in Ids(g) \ {o.id} : h.nodes[x] = g.nodes[x]
      BY <3>9, <3>10, <3>11, <3>12, WithoutNodeParts
    <3>14. edges \in Seq(Elements(g.edges)) /\ Elements(edges) = Elements(g.edges) \cap Apart(g, o.id)
      <4>1. g.edges \in Seq(Elements(g.edges))
        BY <3>3
      <4> HIDE DEF n, Fits, S
      <4> QED
        BY <3>12, <4>1, AmongMembers
    <3>15. edges \in Seq(Elements(edges))
      BY <3>14, IsItsElements
    <3>16. Elements(g.edges) \subseteq Apart(g, o.id)
      <4> SUFFICES ASSUME NEW e \in Elements(g.edges) PROVE e \in Apart(g, o.id)
        OBVIOUS
      <4>1. e \in Elements(base.edges)
        BY <3>3
      <4>2. o.id # e.from[1] /\ o.id # e.to[1]
        BY <3>1, <3>5, <4>1
      <4> QED
        BY <4>2 DEF Apart
    <3>17. done(k + 1) = done(k) \cup {gone[k + 1]}
      <4>1. 1 .. k + 1 = (1 .. k) \cup {k + 1}
        BY <3>1
      <4> QED
        BY <4>1
    <3>18. Fits(h, k + 1)
      <4>1. Ids(h) = Ids(base) \ done(k + 1)
        <5> HIDE DEF done
        <5> QED
          BY <3>3, <3>5, <3>13, <3>17
      <4>2. \A x \in Ids(h) : h.nodes[x] = base.nodes[x]
        BY <3>3, <3>13
      <4>3. Elements(h.edges) = Elements(base.edges)
        BY <3>3, <3>13, <3>14, <3>16
      <4> QED
        BY <3>13, <3>15, <4>1, <4>2, <4>3
    <3> HIDE DEF Fits
    <3> QED
      BY <3>9, <3>11, <3>18
  <2> HIDE DEF S
  <2>3. S \in SUBSET Nat
    BY DEF S
  <2> QED
    BY <2>1, <2>2, <2>3, Induction
<1>5. n \in S
  BY <1>1, <1>4
<1>6. PICK h : h = f[n].graph
  OBVIOUS
<1>7. IsFound(f[n]) /\ Fits(h, n)
  BY <1>1, <1>5, <1>6
<1>8. ApplyOps(base, ops) = Done(h)
  <2>1. n \in 0 .. Len(ops)
    BY <1>1, <1>2
  <2>2. \A k \in 0 .. Len(ops) : IsFound(f[k]) => f[k] = Done(f[k].graph)
    <3> HIDE DEF n, Fits, S
    <3> QED
      BY <1>2, <1>3, AppliedResults
  <2> HIDE DEF n, Fits, S
  <2> QED
    BY <1>2, <1>3, <1>6, <1>7, <2>1, <2>2
<1>9. done(n) = Elements(gone)
  BY <1>1 DEF Elements
<1>10. SameEdges(h, base, Ids(base) \ Elements(gone))
  BY <1>7, <1>9 DEF SameEdges
<1> QED
  BY <1>8, <1>10

\* add_edge for each edge of a list.
LEMMA EdgesAdded ==
    ASSUME NEW base, base.edges \in Seq(Elements(base.edges)),
           NEW T, NEW added \in Seq(T),
           NEW ops, ops = [k \in DOMAIN added |-> [op |-> "add_edge", edge |-> added[k]]]
    PROVE  \E h : ApplyOps(base, ops) = Done(h) /\ SameNodes(h, base, Elements(base.edges) \cup Elements(added))
<1> DEFINE n == Len(added)
<1>1. /\ n \in Nat /\ DOMAIN added = 1 .. n /\ DOMAIN ops = 1 .. n
      /\ \A i \in 1 .. n : ops[i].op = "add_edge" /\ ops[i].edge = added[i]
  OBVIOUS
<1>2. ops \in Seq(Elements(ops)) /\ Len(ops) = n
  <2>1. ops = [k \in 1 .. n |-> ops[k]] /\ \A k \in 1 .. n : ops[k] \in Elements(ops)
    BY <1>1 DEF Elements
  <2> QED
    BY <1>1, <2>1
<1>3. PICK f : Applied(f, base, ops) /\ ApplyOps(base, ops) = f[n]
  <2>1. \E f : Applied(f, base, ops) /\ ApplyOps(base, ops) = f[Len(ops)]
    <3> HIDE DEF n
    <3> QED
      BY <1>2, AppliedTrace
  <2> QED
    BY <1>2, <2>1
<1> DEFINE done(k) == {added[i] : i \in 1 .. k}
           Fits(h, k) == /\ Ids(h) = Ids(base) /\ h.nodes = base.nodes
                         /\ h.edges \in Seq(Elements(h.edges))
                         /\ Elements(h.edges) = Elements(base.edges) \cup done(k)
           S == {k \in Nat : k <= n => IsFound(f[k]) /\ Fits(f[k].graph, k)}
<1>4. S = Nat
  <2>1. 0 \in S
    <3>1. f[0] = Done(base)
      BY <1>2, <1>3, AppliedStart
    <3>2. IsFound(f[0]) /\ f[0].graph = base
      BY <3>1 DEF IsFound, Done
    <3>3. done(0) = {}
      OBVIOUS
    <3> QED
      BY <3>2, <3>3
  <2>2. ASSUME NEW k \in S PROVE k + 1 \in S
    <3> SUFFICES ASSUME k + 1 <= n PROVE IsFound(f[k + 1]) /\ Fits(f[k + 1].graph, k + 1)
      OBVIOUS
    <3>1. k \in Nat /\ k <= n /\ k + 1 \in 1 .. n
      BY <1>1
    <3>2. PICK g : g = f[k].graph
      OBVIOUS
    <3>3. IsFound(f[k]) /\ Fits(g, k)
      BY <3>1, <3>2
    <3>4. PICK o : o = ops[k + 1]
      OBVIOUS
    <3>5. o.op = "add_edge" /\ o.edge = added[k + 1]
      BY <1>1, <3>1, <3>4
    <3>6. Accepts(g, o) /\ o.op \in Kinds
      BY <3>5 DEF Accepts, Kinds
    <3>7. IsFound(f[k + 1]) /\ f[k + 1].graph = Edited(g, o)
      <4>1. /\ ops \in Seq(Elements(ops)) /\ Applied(f, base, ops) /\ k \in Nat
            /\ k + 1 <= Len(ops) /\ IsFound(f[k]) /\ Accepts(f[k].graph, ops[k + 1])
        BY <1>2, <1>3, <3>1, <3>2, <3>3, <3>4, <3>6
      <4> HIDE DEF n, Fits, S
      <4> QED
        BY <3>2, <3>4, <4>1, Accepted
    <3>8. PICK edges : edges = Append(g.edges, o.edge)
      OBVIOUS
    <3>9. Edited(g, o) = WithEdges(g, edges)
      BY <3>5, <3>6, <3>8, EditedCases
    <3>10. PICK h : h = f[k + 1].graph
      OBVIOUS
    <3>11. Ids(h) = Ids(g) /\ h.nodes = g.nodes /\ h.edges = edges
      BY <3>7, <3>9, <3>10, WithEdgesParts
    <3>12. Elements(edges) = Elements(g.edges) \cup {o.edge}
      BY <3>3, <3>8, AppendedElements
    <3>13. edges \in Seq(Elements(edges))
      <4>1. edges \in Seq(Elements(g.edges) \cup {o.edge})
        BY <3>3, <3>8
      <4> QED
        BY <4>1, IsItsElements
    <3>14. done(k + 1) = done(k) \cup {added[k + 1]}
      <4>1. 1 .. k + 1 = (1 .. k) \cup {k + 1}
        BY <3>1
      <4> QED
        BY <4>1
    <3>15. Fits(h, k + 1)
      <4>1. Ids(h) = Ids(base) /\ h.nodes = base.nodes
        BY <3>3, <3>11
      <4>2. Elements(h.edges) = Elements(base.edges) \cup done(k + 1)
        <5> HIDE DEF done
        <5> QED
          BY <3>3, <3>5, <3>11, <3>12, <3>14
      <4> QED
        BY <3>11, <3>13, <4>1, <4>2
    <3> HIDE DEF Fits
    <3> QED
      BY <3>7, <3>10, <3>15
  <2> HIDE DEF S
  <2>3. S \in SUBSET Nat
    BY DEF S
  <2> QED
    BY <2>1, <2>2, <2>3, Induction
<1>5. n \in S
  BY <1>1, <1>4
<1>6. PICK h : h = f[n].graph
  OBVIOUS
<1>7. IsFound(f[n]) /\ Fits(h, n)
  BY <1>1, <1>5, <1>6
<1>8. ApplyOps(base, ops) = Done(h)
  <2>1. n \in 0 .. Len(ops)
    BY <1>1, <1>2
  <2>2. \A k \in 0 .. Len(ops) : IsFound(f[k]) => f[k] = Done(f[k].graph)
    <3> HIDE DEF n, Fits, S
    <3> QED
      BY <1>2, <1>3, AppliedResults
  <2> HIDE DEF n, Fits, S
  <2> QED
    BY <1>2, <1>3, <1>6, <1>7, <2>1, <2>2
<1>9. done(n) = Elements(added)
  BY <1>1 DEF Elements
<1>10. SameNodes(h, base, Elements(base.edges) \cup Elements(added))
  BY <1>7, <1>9 DEF SameNodes
<1> QED
  BY <1>8, <1>10

\* What a node has to have of the one it is compared with.
Meets(node, wanted) ==
    node.type = wanted.type /\ node.sem = wanted.sem /\ wanted.params \subseteq node.params

\* set_param for each of finitely many keys.
ParamOps(id, keys) == {[op |-> "set_param", id |-> id, key |-> k] : k \in keys}

\* A graph that differs in one node, which has more parameters.
HasParams(h, base, id, keys) ==
    /\ Ids(h) = Ids(base) /\ h.edges = base.edges
    /\ \A x \in Ids(base) \ {id} : h.nodes[x] = base.nodes[x]
    /\ h.nodes[id].type = base.nodes[id].type /\ h.nodes[id].sem = base.nodes[id].sem
    /\ base.nodes[id].params \cup keys \subseteq h.nodes[id].params

LEMMA ParamsSet ==
    ASSUME NEW base, NEW id \in Ids(base), NEW keys, IsFiniteSet(keys),
           NEW ops, ops = SetToSeq(ParamOps(id, keys))
    PROVE  /\ ops \in Seq(Elements(ops))
           /\ \E h : ApplyOps(base, ops) = Done(h) /\ HasParams(h, base, id, keys)
<1> DEFINE Sets == ParamOps(id, keys)
           n == Len(ops)
<1>1. IsFiniteSet(Sets)
  <2> DEFINE setOf == [k \in keys |-> [op |-> "set_param", id |-> id, key |-> k]]
  <2>1. setOf \in Surjection(keys, Sets)
    BY DEF Surjection, ParamOps
  <2> QED
    BY <2>1, FS_Surjection
<1>2. /\ \A o \in Sets : o.op = "set_param" /\ o.id = id
      /\ \A k \in keys : \E o \in Sets : o.key = k
  <2>1. \A o \in Sets : o.op = "set_param" /\ o.id = id
    BY DEF ParamOps
  <2>2. ASSUME NEW k \in keys PROVE \E o \in Sets : o.key = k
    <3>1. PICK o : o = [op |-> "set_param", id |-> id, key |-> k]
      OBVIOUS
    <3>2. o \in Sets /\ o.key = k
      BY <3>1 DEF ParamOps
    <3> QED
      BY <3>2
  <2> QED
    BY <2>1, <2>2
<1>3. ops = SetToSeq(Sets)
  OBVIOUS
<1> HIDE DEF Sets
<1>4. ops \in Seq(Sets) /\ Elements(ops) = Sets
  BY <1>1, <1>3, ListedOnce
<1>5. /\ n \in Nat /\ DOMAIN ops = 1 .. n
      /\ \A i \in 1 .. n : ops[i].op = "set_param" /\ ops[i].id = id
      /\ \A k \in keys : \E i \in 1 .. n : ops[i].key = k
  <2>1. n \in Nat /\ DOMAIN ops = 1 .. n
    BY <1>4
  <2>2. \A i \in 1 .. n : ops[i] \in Sets
    BY <1>4
  <2>3. \A k \in keys : \E i \in 1 .. n : ops[i].key = k
    <3> SUFFICES ASSUME NEW k \in keys PROVE \E i \in 1 .. n : ops[i].key = k
      OBVIOUS
    <3>1. PICK o \in Sets : o.key = k
      BY <1>2
    <3>2. PICK i \in DOMAIN ops : ops[i] = o
      BY <1>4 DEF Elements
    <3> QED
      BY <2>1, <3>1, <3>2
  <2> QED
    BY <1>2, <2>1, <2>2, <2>3
<1>6. PICK f : Applied(f, base, ops) /\ ApplyOps(base, ops) = f[n]
  BY <1>4, AppliedTrace
<1> DEFINE Fits(h, k) == /\ Ids(h) = Ids(base) /\ h.edges = base.edges
                         /\ \A x \in Ids(base) \ {id} : h.nodes[x] = base.nodes[x]
                         /\ h.nodes[id].type = base.nodes[id].type
                         /\ h.nodes[id].sem = base.nodes[id].sem
                         /\ base.nodes[id].params \subseteq h.nodes[id].params
                         /\ \A i \in 1 .. k : ops[i].key \in h.nodes[id].params
           S == {k \in Nat : k <= n => IsFound(f[k]) /\ Fits(f[k].graph, k)}
<1>7. S = Nat
  <2>1. 0 \in S
    <3>1. f[0] = Done(base)
      BY <1>4, <1>6, AppliedStart
    <3>2. IsFound(f[0]) /\ f[0].graph = base
      BY <3>1 DEF IsFound, Done
    <3> QED
      BY <3>2
  <2>2. ASSUME NEW k \in S PROVE k + 1 \in S
    <3> SUFFICES ASSUME k + 1 <= n PROVE IsFound(f[k + 1]) /\ Fits(f[k + 1].graph, k + 1)
      OBVIOUS
    <3>1. k \in Nat /\ k <= n /\ k + 1 \in 1 .. n
      BY <1>5
    <3>2. PICK g : g = f[k].graph
      OBVIOUS
    <3>3. IsFound(f[k]) /\ Fits(g, k)
      BY <3>1, <3>2
    <3>4. PICK o : o = ops[k + 1]
      OBVIOUS
    <3>5. o.op = "set_param" /\ o.id = id
      BY <1>5, <3>1, <3>4
    <3>6. Accepts(g, o) /\ o.op \in Kinds
      BY <3>3, <3>5 DEF Accepts, Kinds
    <3>7. IsFound(f[k + 1]) /\ f[k + 1].graph = Edited(g, o)
      <4>1. /\ ops \in Seq(Elements(ops)) /\ Applied(f, base, ops) /\ k \in Nat
            /\ k + 1 <= Len(ops) /\ IsFound(f[k]) /\ Accepts(f[k].graph, ops[k + 1])
        BY <1>4, <1>6, <3>1, <3>2, <3>3, <3>4, <3>6
      <4> HIDE DEF n, Fits, S
      <4> QED
        BY <3>2, <3>4, <4>1, Accepted
    <3>8. PICK node : node = WithParams(g.nodes[id], g.nodes[id].params \cup {o.key})
      OBVIOUS
    <3>9. /\ node.type = g.nodes[id].type /\ node.sem = g.nodes[id].sem
          /\ node.params = g.nodes[id].params \cup {o.key}
      BY <3>8 DEF WithParams
    <3>10. Edited(g, o) = WithNode(g, id, node)
      BY <3>5, <3>6, <3>8, EditedCases
    <3>11. PICK h : h = f[k + 1].graph
      OBVIOUS
    <3>12. /\ Ids(h) = Ids(g) \cup {id} /\ h.edges = g.edges /\ h.nodes[id] = node
           /\ \A x \in Ids(g) \ {id} : h.nodes[x] = g.nodes[x]
      BY <3>7, <3>10, <3>11, WithNodeParts
    <3>13. \A i \in 1 .. k + 1 : ops[i].key \in h.nodes[id].params
      <4> SUFFICES ASSUME NEW i \in 1 .. k + 1 PROVE ops[i].key \in h.nodes[id].params
        OBVIOUS
      <4>1. CASE i = k + 1
        BY <3>4, <3>9, <3>12, <4>1
      <4>2. CASE i # k + 1
        <5>1. i \in 1 .. k
          BY <3>1, <4>2
        <5> QED
          BY <3>3, <3>9, <3>12, <5>1
      <4> QED
        BY <4>1, <4>2
    <3>14. Fits(h, k + 1)
      BY <3>3, <3>9, <3>12, <3>13
    <3> HIDE DEF Fits
    <3> QED
      BY <3>7, <3>11, <3>14
  <2> HIDE DEF S
  <2>3. S \in SUBSET Nat
    BY DEF S
  <2> QED
    BY <2>1, <2>2, <2>3, Induction
<1>8. n \in S
  BY <1>5, <1>7
<1>9. PICK h : h = f[n].graph
  OBVIOUS
<1>10. IsFound(f[n]) /\ Fits(h, n)
  BY <1>5, <1>8, <1>9
<1>11. ApplyOps(base, ops) = Done(h)
  <2>1. n \in 0 .. Len(ops)
    BY <1>5
  <2>2. \A k \in 0 .. Len(ops) : IsFound(f[k]) => f[k] = Done(f[k].graph)
    <3> HIDE DEF n, Fits, S
    <3> QED
      BY <1>4, <1>6, AppliedResults
  <2> HIDE DEF n, Fits, S
  <2> QED
    BY <1>4, <1>6, <1>9, <1>10, <2>1, <2>2
<1>12. base.nodes[id].params \cup keys \subseteq h.nodes[id].params
  BY <1>5, <1>10
<1>13. HasParams(h, base, id, keys)
  BY <1>10, <1>12 DEF HasParams
<1>14. ops \in Seq(Elements(ops))
  BY <1>4
<1> QED
  BY <1>11, <1>13, <1>14

\* One operation that is accepted.
LEMMA OneApplied ==
    ASSUME NEW base, NEW o, Accepts(base, o)
    PROVE  ApplyOps(base, <<o>>) = Done(Edited(base, o))
<1>1. <<o>> \in Seq({o}) /\ Len(<<o>>) = 1 /\ <<o>>[1] = o
  OBVIOUS
<1>2. PICK f : Applied(f, base, <<o>>) /\ ApplyOps(base, <<o>>) = f[1]
  <2>1. \E f : Applied(f, base, <<o>>) /\ ApplyOps(base, <<o>>) = f[Len(<<o>>)]
    BY <1>1, AppliedTrace
  <2> QED
    BY <1>1, <2>1
<1>3. f[0] = Done(base)
  BY <1>1, <1>2, AppliedStart
<1>4. f[0 + 1] = AndThen(f[0], <<o>>[0 + 1])
  <2>1. PICK ops : ops = <<o>>
    OBVIOUS
  <2>2. ops \in Seq({o}) /\ Applied(f, base, ops) /\ 0 \in Nat /\ 0 + 1 <= Len(ops)
    BY <1>1, <1>2, <2>1
  <2>3. f[0 + 1] = AndThen(f[0], ops[0 + 1])
    BY <2>2, AppliedStep
  <2> QED
    BY <2>1, <2>3
<1>5. 0 + 1 = 1
  OBVIOUS
<1>6. f[1] = AndThen(Done(base), o)
  BY <1>1, <1>3, <1>4, <1>5
<1> QED
  BY <1>2, <1>6 DEF AndThen, ApplyOp, Done, IsFound

\* A graph in which one node is made or brought up to the target's.
NodeMade(h, g, target, id) ==
    /\ Ids(h) = Ids(g) \cup {id} /\ h.edges = g.edges
    /\ \A x \in Ids(g) \ {id} : h.nodes[x] = g.nodes[x]
    /\ Meets(h.nodes[id], target.nodes[id])

\* The operations for one node: it is added, or it keeps its type.
LEMMA NodeDone ==
    ASSUME NEW g, NEW current, NEW target, NEW id \in Ids(target),
           IsFiniteSet(target.nodes[id].params),
           id \in Ids(current) =>
               /\ id \in Ids(g) /\ g.nodes[id] = current.nodes[id]
               /\ current.nodes[id].type = target.nodes[id].type,
           id \notin Ids(current) => id \notin Ids(g),
           NEW ops, ops = NodeDiff(current, target, id)
    PROVE  /\ ops \in Seq(Elements(ops))
           /\ \E h : ApplyOps(g, ops) = Done(h) /\ NodeMade(h, g, target, id)
<1>1. PICK node : node = target.nodes[id]
  OBVIOUS
<1>2. CASE id \notin Ids(current)
  <2>1. PICK o : o = [op |-> "add_node", id |-> id, node |-> node]
    OBVIOUS
  <2>2. ops = <<o>>
    BY <1>1, <1>2, <2>1 DEF NodeDiff
  <2>3. o.op = "add_node" /\ o.id = id /\ o.node = node
    BY <2>1
  <2>4. Accepts(g, o) /\ o.op \in Kinds
    BY <1>2, <2>3 DEF Accepts, Kinds
  <2>5. Edited(g, o) = WithNode(g, id, node)
    BY <2>3, <2>4, EditedCases
  <2>6. PICK h : h = WithNode(g, id, node)
    OBVIOUS
  <2>7. ApplyOps(g, ops) = Done(h)
    BY <2>2, <2>4, <2>5, <2>6, OneApplied
  <2>8. /\ Ids(h) = Ids(g) \cup {id} /\ h.edges = g.edges /\ h.nodes[id] = node
        /\ \A x \in Ids(g) \ {id} : h.nodes[x] = g.nodes[x]
    BY <2>6, WithNodeParts
  <2>9. Meets(h.nodes[id], target.nodes[id])
    BY <1>1, <2>8 DEF Meets
  <2>10. ops \in Seq(Elements(ops))
    <3>1. <<o>> \in Seq({o})
      OBVIOUS
    <3> QED
      BY <2>2, <3>1, IsItsElements
  <2>11. NodeMade(h, g, target, id)
    BY <2>8, <2>9 DEF NodeMade
  <2> QED
    BY <2>7, <2>10, <2>11
<1>3. CASE id \in Ids(current)
  <2>1. PICK was : was = current.nodes[id]
    OBVIOUS
  <2>2. id \in Ids(g) /\ g.nodes[id] = was /\ was.type = node.type
    BY <1>1, <1>3, <2>1
  <2>3. PICK keys : keys = node.params \ was.params
    OBVIOUS
  <2>4. IsFiniteSet(keys)
    BY <1>1, <2>3, FS_Difference
  <2>5. PICK params : params = SetToSeq(ParamOps(id, keys))
    OBVIOUS
  <2>6. PICK sem : sem = IF was.sem = node.sem THEN <<>>
                         ELSE <<[op |-> "set_semantics", id |-> id, sem |-> node.sem]>>
    OBVIOUS
  <2>7. ops = params \o sem
    BY <1>1, <1>3, <2>1, <2>2, <2>3, <2>5, <2>6 DEF NodeDiff, ParamOps
  <2>8. params \in Seq(Elements(params))
    BY <2>2, <2>4, <2>5, ParamsSet
  <2>9. PICK h : ApplyOps(g, params) = Done(h) /\ HasParams(h, g, id, keys)
    BY <2>2, <2>4, <2>5, ParamsSet
  <2>10. /\ Ids(h) = Ids(g) /\ h.edges = g.edges
         /\ \A x \in Ids(g) \ {id} : h.nodes[x] = g.nodes[x]
         /\ h.nodes[id].type = node.type /\ h.nodes[id].sem = was.sem
         /\ node.params \subseteq h.nodes[id].params
    BY <2>2, <2>3, <2>9 DEF HasParams
  <2>11. CASE was.sem = node.sem
    <3>1. ops = params
      BY <2>6, <2>7, <2>8, <2>11
    <3>2. Meets(h.nodes[id], target.nodes[id])
      BY <1>1, <2>10, <2>11 DEF Meets
    <3>3. Ids(h) = Ids(g) \cup {id}
      BY <2>2, <2>10
    <3>4. NodeMade(h, g, target, id)
      BY <2>10, <3>2, <3>3 DEF NodeMade
    <3> QED
      BY <2>8, <2>9, <3>1, <3>4
  <2>12. CASE was.sem # node.sem
    <3>1. PICK o : o = [op |-> "set_semantics", id |-> id, sem |-> node.sem]
      OBVIOUS
    <3>2. sem = <<o>> /\ o.op = "set_semantics" /\ o.id = id /\ o.sem = node.sem
      BY <2>6, <2>12, <3>1
    <3>3. Accepts(h, o) /\ o.op \in Kinds
      BY <2>2, <2>10, <3>2 DEF Accepts, Kinds
    <3>4. PICK last : last = WithSem(h.nodes[id], node.sem)
      OBVIOUS
    <3>5. /\ last.type = h.nodes[id].type /\ last.sem = node.sem
          /\ last.params = h.nodes[id].params
      BY <3>4 DEF WithSem
    <3>6. Edited(h, o) = WithNode(h, id, last)
      BY <3>2, <3>3, <3>4, EditedCases
    <3>7. PICK r : r = WithNode(h, id, last)
      OBVIOUS
    <3>8. /\ Ids(r) = Ids(h) \cup {id} /\ r.edges = h.edges /\ r.nodes[id] = last
          /\ \A x \in Ids(h) \ {id} : r.nodes[x] = h.nodes[x]
      BY <3>7, WithNodeParts
    <3>9. ApplyOps(h, sem) = Done(r)
      BY <3>2, <3>3, <3>6, <3>7, OneApplied
    <3>10. PICK T : T = Elements(params) \cup {o}
      OBVIOUS
    <3>11. params \in Seq(T) /\ sem \in Seq(T)
      <4>1. <<o>> \in Seq(T)
        BY <3>10
      <4>2. params \in Seq(T)
        BY <2>8, <3>10
      <4> QED
        BY <3>2, <4>1, <4>2
    <3>12. IsFound(ApplyOps(g, params)) /\ ApplyOps(g, params).graph = h
      BY <2>9 DEF IsFound, Done
    <3>13. ApplyOps(g, ops) = Done(r)
      BY <2>7, <3>9, <3>11, <3>12, AppliedInTurn
    <3>14. ops \in Seq(Elements(ops))
      <4>1. ops \in Seq(T)
        BY <2>7, <3>11
      <4> QED
        BY <4>1, IsItsElements
    <3>15. Meets(r.nodes[id], target.nodes[id])
      BY <1>1, <2>10, <3>5, <3>8 DEF Meets
    <3>16. /\ Ids(r) = Ids(g) \cup {id} /\ r.edges = g.edges
           /\ \A x \in Ids(g) \ {id} : r.nodes[x] = g.nodes[x]
      BY <2>2, <2>10, <3>8
    <3>17. NodeMade(r, g, target, id)
      BY <3>15, <3>16 DEF NodeMade
    <3> QED
      BY <3>13, <3>14, <3>17
  <2> QED
    BY <2>11, <2>12
<1> QED
  BY <1>2, <1>3

\* Sequences one behind the other.
Flattened(f, seqs) ==
    f = [i \in 1 .. Len(seqs) |-> IF i = 1 THEN seqs[i] ELSE f[i - 1] \o seqs[i]]

LEMMA FlattenTrace ==
    ASSUME NEW T, NEW seqs \in Seq(T), Len(seqs) # 0
    PROVE  \E f : Flattened(f, seqs) /\ FlattenSeq(seqs) = f[Len(seqs)]
<1> DEFINE n == Len(seqs)
           Is(k, f) == f = [i \in 1 .. k |-> IF i = 1 THEN seqs[i] ELSE f[i - 1] \o seqs[i]]
           S == {k \in Nat : \E f : Is(k, f)}
           after == CHOOSE f : Is(n, f)
<1>1. S = Nat
  <2>1. 0 \in S
    <3> DEFINE f == [i \in 1 .. 0 |-> i]
    <3>1. \A i \in 1 .. 0 : FALSE
      OBVIOUS
    <3>2. Is(0, f)
      BY <3>1
    <3> QED
      BY <3>2
  <2>2. ASSUME NEW k \in S PROVE k + 1 \in S
    <3>1. PICK f : Is(k, f)
      BY <2>2
    <3> DEFINE last == IF k = 0 THEN seqs[k + 1] ELSE f[k] \o seqs[k + 1]
               g == [i \in 1 .. k + 1 |-> IF i = k + 1 THEN last ELSE f[i]]
    <3>2. k \in Nat
      BY <2>2
    <3>3. \A i \in 1 .. k + 1 : g[i] = IF i = 1 THEN seqs[i] ELSE g[i - 1] \o seqs[i]
      <4> SUFFICES ASSUME NEW i \in 1 .. k + 1
                   PROVE  g[i] = IF i = 1 THEN seqs[i] ELSE g[i - 1] \o seqs[i]
        OBVIOUS
      <4>1. CASE i = k + 1
        <5>1. i - 1 = k /\ (i = 1 <=> k = 0) /\ (k # 0 => k \in 1 .. k + 1) /\ k # k + 1
          BY <4>1, <3>2
        <5>2. g[i] = last /\ (k # 0 => g[i - 1] = f[k])
          <6> HIDE DEF last
          <6> QED
            BY <4>1, <5>1
        <5> HIDE DEF g
        <5> QED
          BY <4>1, <5>1, <5>2
      <4>2. CASE i # k + 1
        <5>1. i \in 1 .. k /\ (i # 1 => i - 1 \in 1 .. k /\ i - 1 # k + 1)
          BY <4>2, <3>2
        <5>2. g[i] = f[i] /\ (i # 1 => g[i - 1] = f[i - 1])
          <6> HIDE DEF last
          <6> QED
            BY <4>2, <5>1, <3>2
        <5>3. f[i] = IF i = 1 THEN seqs[i] ELSE f[i - 1] \o seqs[i]
          BY <3>1, <5>1
        <5> HIDE DEF g
        <5> QED
          BY <5>2, <5>3
      <4> QED
        BY <4>1, <4>2
    <3> HIDE DEF g
    <3>4. g = [i \in 1 .. k + 1 |-> g[i]]
      BY DEF g
    <3>5. Is(k + 1, g)
      BY <3>3, <3>4, Zenon
    <3>6. \E h : Is(k + 1, h)
      BY <3>5, Zenon
    <3> HIDE DEF Is
    <3> QED
      BY <3>6, <3>2
  <2> HIDE DEF S
  <2>3. S \in SUBSET Nat
    BY DEF S
  <2> QED
    BY <2>1, <2>2, <2>3, Induction
<1>2. \E f : Is(n, f)
  <2>1. n \in Nat
    OBVIOUS
  <2> QED
    BY <1>1, <2>1
<1>3. Is(n, after)
  BY <1>2, Zenon
<1>4. FlattenSeq(seqs) = after[Len(seqs)]
  BY Zenon DEF FlattenSeq
<1> QED
  BY <1>3, <1>4, Zenon DEF Flattened

\* A graph with the target's nodes.
NodesMade(h, base, target) ==
    /\ Ids(h) = Ids(target) /\ h.edges = base.edges
    /\ \A id \in Ids(target) : Meets(h.nodes[id], target.nodes[id])

\* The operations for every node of the target.
\* Before them: the nodes that stay are as they were, and of the target's types.
Staying(base, current, target) ==
    /\ Ids(base) = Ids(current) \cap Ids(target)
    /\ \A id \in Ids(base) : /\ base.nodes[id] = current.nodes[id]
                             /\ current.nodes[id].type = target.nodes[id].type
    /\ \A id \in Ids(target) : IsFiniteSet(target.nodes[id].params)
Parts(kept, current, target) == [k \in DOMAIN kept |-> NodeDiff(current, target, kept[k])]

LEMMA NodesDone ==
    ASSUME NEW base, NEW current, NEW target, Staying(base, current, target),
           NEW kept \in Seq(Ids(target)), Elements(kept) = Ids(target),
           \A i, j \in 1 .. Len(kept) : kept[i] = kept[j] => i = j,
           NEW parts, parts = Parts(kept, current, target),
           NEW ops, ops = FlattenSeq(parts)
    PROVE  /\ ops \in Seq(Elements(ops))
           /\ \E h : ApplyOps(base, ops) = Done(h) /\ NodesMade(h, base, target)
<1>0. /\ Ids(base) = Ids(current) \cap Ids(target)
      /\ \A id \in Ids(base) : /\ base.nodes[id] = current.nodes[id]
                               /\ current.nodes[id].type = target.nodes[id].type
      /\ \A id \in Ids(target) : IsFiniteSet(target.nodes[id].params)
      /\ parts = [k \in DOMAIN kept |-> NodeDiff(current, target, kept[k])]
  BY DEF Staying, Parts
<1> DEFINE n == Len(kept)
<1>1. /\ n \in Nat /\ DOMAIN kept = 1 .. n /\ DOMAIN parts = 1 .. n
      /\ \A i \in 1 .. n : /\ parts[i] = NodeDiff(current, target, kept[i])
                           /\ kept[i] \in Ids(target)
  BY <1>0
<1>2. parts \in Seq(Elements(parts)) /\ Len(parts) = n
  <2>1. parts = [k \in 1 .. n |-> parts[k]] /\ \A k \in 1 .. n : parts[k] \in Elements(parts)
    BY <1>0, <1>1 DEF Elements
  <2> QED
    BY <1>1, <2>1
<1> DEFINE done(k) == {kept[i] : i \in 1 .. k}
           Fits(h, k) == /\ Ids(h) = Ids(base) \cup done(k) /\ h.edges = base.edges
                         /\ \A x \in done(k) : Meets(h.nodes[x], target.nodes[x])
                         /\ \A x \in Ids(base) \ done(k) : h.nodes[x] = base.nodes[x]
           U == UNION {Elements(p) : p \in Elements(parts)}
           Makes(s, k) == s \in Seq(U) /\ \E h : ApplyOps(base, s) = Done(h) /\ Fits(h, k)
\* The operations of the next node.
<1>3. ASSUME NEW k \in Nat, k + 1 <= n, NEW g, Fits(g, k)
      PROVE  /\ parts[k + 1] \in Seq(U)
             /\ \E h : ApplyOps(g, parts[k + 1]) = Done(h) /\ Fits(h, k + 1)
  <2>1. k + 1 \in 1 .. n
    BY <1>1, <1>3
  <2>2. PICK id \in Ids(target) : id = kept[k + 1]
    BY <1>1, <2>1
  <2>3. id \notin done(k)
    <3> SUFFICES ASSUME NEW i \in 1 .. k, kept[i] = id PROVE FALSE
      OBVIOUS
    <3>1. i \in 1 .. n /\ i # k + 1
      BY <1>1, <1>3
    <3> QED
      BY <2>1, <2>2, <3>1
  <2>4. PICK s : s = parts[k + 1]
    OBVIOUS
  <2>5. s = NodeDiff(current, target, id)
    BY <1>1, <2>1, <2>2, <2>4
  <2>6. id \in Ids(current) => /\ id \in Ids(g) /\ g.nodes[id] = current.nodes[id]
                               /\ current.nodes[id].type = target.nodes[id].type
    <3> HIDE DEF done
    <3> QED
      BY <1>0, <1>3, <2>3
  <2>7. id \notin Ids(current) => id \notin Ids(g)
    <3> HIDE DEF done
    <3> QED
      BY <1>0, <1>3, <2>3
  <2>8. /\ s \in Seq(Elements(s))
        /\ \E h : ApplyOps(g, s) = Done(h) /\ NodeMade(h, g, target, id)
    <3>1. IsFiniteSet(target.nodes[id].params)
      BY <1>0
    <3> HIDE DEF Fits
    <3> QED
      BY <2>5, <2>6, <2>7, <3>1, NodeDone
  <2>9. PICK h : /\ ApplyOps(g, s) = Done(h)
                 /\ Ids(h) = Ids(g) \cup {id} /\ h.edges = g.edges
                 /\ \A x \in Ids(g) \ {id} : h.nodes[x] = g.nodes[x]
                 /\ Meets(h.nodes[id], target.nodes[id])
    BY <2>8 DEF NodeMade
  <2>10. done(k + 1) = done(k) \cup {id}
    <3>1. 1 .. k + 1 = (1 .. k) \cup {k + 1}
      BY <1>3
    <3> QED
      BY <2>2, <3>1
  <2>11. Fits(h, k + 1)
    <3> HIDE DEF done
    <3>1. Ids(h) = Ids(base) \cup done(k + 1) /\ h.edges = base.edges
      BY <1>3, <2>9, <2>10
    <3>2. \A x \in done(k + 1) : Meets(h.nodes[x], target.nodes[x])
      <4> SUFFICES ASSUME NEW x \in done(k + 1) PROVE Meets(h.nodes[x], target.nodes[x])
        OBVIOUS
      <4>1. CASE x = id
        BY <2>9, <4>1
      <4>2. CASE x # id
        <5>1. x \in done(k) /\ x \in Ids(g) \ {id}
          BY <1>3, <2>10, <4>2
        <5> QED
          BY <1>3, <2>9, <5>1
      <4> QED
        BY <4>1, <4>2
    <3>3. \A x \in Ids(base) \ done(k + 1) : h.nodes[x] = base.nodes[x]
      BY <1>3, <2>9, <2>10
    <3> QED
      BY <3>1, <3>2, <3>3
  <2>12. s \in Seq(U)
    <3>1. s \in Elements(parts)
      BY <1>1, <2>1, <2>4 DEF Elements
    <3>2. Elements(s) \subseteq U
      BY <3>1
    <3> HIDE DEF U
    <3> QED
      BY <2>8, <3>2
  <2> HIDE DEF Fits, U
  <2> QED
    BY <2>4, <2>9, <2>11, <2>12
<1>4. Fits(base, 0)
  <2>1. done(0) = {}
    OBVIOUS
  <2> HIDE DEF done
  <2> QED
    BY <2>1
<1>5. Makes(ops, n)
  <2>1. CASE n = 0
    <3>1. ops = parts /\ parts = <<>>
      BY <1>2, <2>1 DEF FlattenSeq
    <3>2. ApplyOps(base, <<>>) = Done(base)
      BY NothingApplied
    <3>3. <<>> \in Seq(U)
      OBVIOUS
    <3> HIDE DEF Fits, U
    <3> QED
      BY <1>4, <2>1, <3>1, <3>2, <3>3
  <2>2. CASE n # 0
    <3>1. PICK f : Flattened(f, parts) /\ ops = f[n]
      <4>1. Len(parts) # 0
        BY <1>2, <2>2
      <4>2. \E f : Flattened(f, parts) /\ FlattenSeq(parts) = f[Len(parts)]
        BY <1>2, <4>1, FlattenTrace
      <4> QED
        BY <1>2, <4>2
    <3>2. f[1] = parts[1]
      <4>1. 1 \in 1 .. Len(parts)
        BY <1>1, <1>2, <2>2
      <4> QED
        BY <3>1, <4>1 DEF Flattened
    <3>3. ASSUME NEW k \in Nat, k # 0, k + 1 <= n
          PROVE  f[k + 1] = f[k] \o parts[k + 1]
      <4>1. k + 1 \in 1 .. Len(parts) /\ k + 1 # 1 /\ (k + 1) - 1 = k
        BY <1>1, <1>2, <3>3
      <4>2. f = [i \in 1 .. Len(parts) |-> IF i = 1 THEN parts[i] ELSE f[i - 1] \o parts[i]]
        BY <3>1 DEF Flattened
      <4> HIDE DEF Fits, U, n
      <4>3. f[k + 1] = IF k + 1 = 1 THEN parts[k + 1] ELSE f[(k + 1) - 1] \o parts[k + 1]
        BY <4>1, <4>2
      <4> QED
        BY <4>1, <4>3
    <3> DEFINE S == {k \in Nat : k + 1 <= n => Makes(f[k + 1], k + 1)}
    <3>4. S = Nat
      <4>1. 0 \in S
        <5> SUFFICES ASSUME 0 + 1 <= n PROVE Makes(f[0 + 1], 0 + 1)
          OBVIOUS
        <5>1. 0 + 1 = 1 /\ 0 \in Nat
          OBVIOUS
        <5> HIDE DEF Fits, U
        <5>2. /\ parts[0 + 1] \in Seq(U)
              /\ \E h : ApplyOps(base, parts[0 + 1]) = Done(h) /\ Fits(h, 0 + 1)
          BY <1>3, <1>4, <5>1
        <5> QED
          BY <3>2, <5>1, <5>2
      <4>2. ASSUME NEW k \in S PROVE k + 1 \in S
        <5>0. k \in Nat /\ k + 1 \in Nat
          OBVIOUS
        <5> SUFFICES ASSUME (k + 1) + 1 <= n PROVE Makes(f[(k + 1) + 1], (k + 1) + 1)
          <6> HIDE DEF Makes
          <6> QED
            BY <5>0
        <5>1. k \in Nat /\ k + 1 <= n /\ k + 1 \in Nat /\ k + 1 # 0
          BY <1>1
        <5>2. PICK m \in Nat : m = k + 1 /\ m # 0
          BY <5>1
        <5>3. Makes(f[m], m) /\ m + 1 <= n
          BY <5>1, <5>2
        <5>4. PICK s : s = f[m] /\ s \in Seq(U)
          BY <5>3
        <5> HIDE DEF Fits, U
        <5>5. PICK g : ApplyOps(base, s) = Done(g) /\ Fits(g, m)
          BY <5>3, <5>4
        <5>6. PICK p : p = parts[m + 1]
          OBVIOUS
        <5>7. p \in Seq(U) /\ \E h : ApplyOps(g, p) = Done(h) /\ Fits(h, m + 1)
          BY <1>3, <5>2, <5>3, <5>5, <5>6
        <5>8. PICK h : ApplyOps(g, p) = Done(h) /\ Fits(h, m + 1)
          BY <5>7
        <5>9. f[m + 1] = s \o p
          BY <3>3, <5>2, <5>3, <5>4, <5>6
        <5>10. IsFound(ApplyOps(base, s)) /\ ApplyOps(base, s).graph = g
          BY <5>5 DEF IsFound, Done
        <5>11. ApplyOps(base, s \o p) = Done(h)
          BY <5>4, <5>7, <5>8, <5>10, AppliedInTurn
        <5>12. s \o p \in Seq(U)
          BY <5>4, <5>7
        <5>13. Makes(f[m + 1], m + 1)
          BY <5>8, <5>9, <5>11, <5>12
        <5> QED
          BY <5>2, <5>13
      <4> HIDE DEF S
      <4>3. S \in SUBSET Nat
        BY DEF S
      <4> QED
        BY <4>1, <4>2, <4>3, Induction
    <3>5. n - 1 \in Nat /\ (n - 1) + 1 = n
      BY <1>1, <2>2
    <3>6. n - 1 \in S
      BY <3>4, <3>5
    <3> HIDE DEF Makes
    <3> QED
      BY <1>1, <3>1, <3>5, <3>6
  <2> QED
    BY <2>1, <2>2
<1>6. done(n) = Ids(target)
  BY <1>1 DEF Elements
<1>7. ops \in Seq(Elements(ops))
  BY <1>5, IsItsElements
<1>8. PICK h : ApplyOps(base, ops) = Done(h) /\ Fits(h, n)
  BY <1>5
<1>9. NodesMade(h, base, target)
  BY <1>0, <1>6, <1>8 DEF NodesMade
<1> QED
  BY <1>7, <1>8, <1>9

\* Two lists of operations.
LEMMA BothApplied ==
    ASSUME NEW base, NEW T, NEW a \in Seq(T), NEW b \in Seq(T),
           NEW g, ApplyOps(base, a) = Done(g), NEW h, ApplyOps(g, b) = Done(h)
    PROVE  ApplyOps(base, a \o b) = Done(h)
<1>1. IsFound(ApplyOps(base, a)) /\ ApplyOps(base, a).graph = g
  BY DEF IsFound, Done
<1> QED
  BY <1>1, AppliedInTurn

\* Operations of one kind for a list, for each of its members.
LEMMA OpsForEach ==
    ASSUME NEW T, NEW list \in Seq(T), NEW ops, DOMAIN ops = DOMAIN list,
           ops = [k \in DOMAIN ops |-> ops[k]]
    PROVE  ops \in Seq(Elements(ops))
<1>1. DOMAIN ops = 1 .. Len(list) /\ Len(list) \in Nat
  OBVIOUS
<1>2. \A k \in 1 .. Len(list) : ops[k] \in Elements(ops)
  BY <1>1 DEF Elements
<1> QED
  BY <1>1, <1>2

\* The difference of two graphs makes the second of the first.
LEMMA DiffConverges ==
    ASSUME NEW current, NEW target, GraphShape(current), TargetShape(target), Valid(target),
           \A id \in Ids(target) \cap Ids(current) :
               current.nodes[id].type = target.nodes[id].type,
           Cardinality(Elements(current.edges)) = Len(current.edges),
           NEW ops, ops = ProposalDiff(current, target)
    PROVE  \E h : /\ ApplyOps(current, ops) = Done(h)
                  /\ Ids(h) = Ids(target)
                  /\ Elements(h.edges) = Elements(target.edges)
                  /\ \A id \in Ids(target) : Meets(h.nodes[id], target.nodes[id])
<1> DEFINE CE == Elements(current.edges)
           TE == Elements(target.edges)
<1>1. PICK removed : removed = Among(current.edges, CE \ TE)
  OBVIOUS
<1>2. PICK added : added = Among(target.edges, TE \ CE)
  OBVIOUS
<1>3. PICK gone : gone = SetToSeq(Ids(current) \ Ids(target))
  OBVIOUS
<1>4. PICK kept : kept = SetToSeq(Ids(target))
  OBVIOUS
<1>5. PICK a : a = [k \in DOMAIN removed |-> [op |-> "remove_edge", edge |-> removed[k]]]
  OBVIOUS
<1>6. PICK b : b = [k \in DOMAIN gone |-> [op |-> "remove_node", id |-> gone[k]]]
  OBVIOUS
<1>7. PICK parts : parts = Parts(kept, current, target)
  OBVIOUS
<1>8. PICK c : c = FlattenSeq(parts)
  OBVIOUS
<1>9. PICK d : d = [k \in DOMAIN added |-> [op |-> "add_edge", edge |-> added[k]]]
  OBVIOUS
<1>10. ops = a \o b \o c \o d
  BY <1>1, <1>2, <1>3, <1>4, <1>5, <1>6, <1>7, <1>8, <1>9 DEF ProposalDiff, Parts
<1>11. /\ current.edges \in Seq(CE) /\ target.edges \in Seq(TE)
       /\ IsFiniteSet(Ids(current)) /\ IsFiniteSet(Ids(target))
       /\ \A id \in Ids(target) : IsFiniteSet(target.nodes[id].params)
  BY DEF TargetShape, GraphShape
<1>12. /\ removed \in Seq(CE) /\ Elements(removed) = CE \cap (CE \ TE)
       /\ added \in Seq(TE) /\ Elements(added) = TE \cap (TE \ CE)
  BY <1>1, <1>2, <1>11, AmongMembers
<1>13. \A i, j \in 1 .. Len(removed) : removed[i] = removed[j] => i = j
  <2>1. \A i, j \in 1 .. Len(current.edges) : current.edges[i] = current.edges[j] => i = j
    BY <1>11, NotDoubled
  <2> QED
    BY <1>1, <1>11, <2>1, AmongOnce
<1>14. IsFiniteSet(Ids(current) \ Ids(target))
  BY <1>11, FS_Difference
<1>15. /\ gone \in Seq(Ids(current) \ Ids(target))
       /\ Elements(gone) = Ids(current) \ Ids(target)
       /\ \A i, j \in 1 .. Len(gone) : gone[i] = gone[j] => i = j
  BY <1>3, <1>14, ListedOnce
<1>16. /\ kept \in Seq(Ids(target)) /\ Elements(kept) = Ids(target)
       /\ \A i, j \in 1 .. Len(kept) : kept[i] = kept[j] => i = j
  BY <1>4, <1>11, ListedOnce
<1>17. a \in Seq(Elements(a)) /\ b \in Seq(Elements(b)) /\ d \in Seq(Elements(d))
  BY <1>5, <1>6, <1>9, <1>12, <1>15, OpsForEach
\* The edges the target does not have go first.
<1>18. PICK g1 : /\ ApplyOps(current, a) = Done(g1)
                 /\ Ids(g1) = Ids(current) /\ g1.nodes = current.nodes
                 /\ g1.edges \in Seq(Elements(g1.edges))
                 /\ Elements(g1.edges) = CE \cap TE
  <2>1. \A i \in 1 .. Len(removed) : removed[i] \in Elements(current.edges)
    BY <1>12
  <2>2. PICK h : /\ ApplyOps(current, a) = Done(h)
                 /\ SameNodes(h, current, Elements(current.edges) \ Elements(removed))
    BY <1>5, <1>11, <1>12, <1>13, <2>1, EdgesRemoved
  <2>3. CE \ Elements(removed) = CE \cap TE
    BY <1>12
  <2> QED
    BY <2>2, <2>3 DEF SameNodes
\* Then its own nodes: what is left ends at nodes of the target.
<1>19. PICK g2 : /\ ApplyOps(g1, b) = Done(g2)
                 /\ Ids(g2) = Ids(current) \cap Ids(target)
                 /\ \A x \in Ids(g2) : g2.nodes[x] = current.nodes[x]
                 /\ g2.edges \in Seq(Elements(g2.edges))
                 /\ Elements(g2.edges) = CE \cap TE
  <2>1. \A e \in TE : e.from[1] \in Ids(target) /\ e.to[1] \in Ids(target)
    BY ValidParts
  <2>2. \A i \in 1 .. Len(gone) : gone[i] \in Ids(current) /\ gone[i] \notin Ids(target)
    BY <1>15
  <2>3. \A e \in Elements(g1.edges) : \A i \in 1 .. Len(gone) :
            gone[i] # e.from[1] /\ gone[i] # e.to[1]
    BY <1>18, <2>1, <2>2
  <2>4. \A i \in 1 .. Len(gone) : gone[i] \in Ids(g1)
    BY <1>18, <2>2
  <2>5. PICK h : ApplyOps(g1, b) = Done(h) /\ SameEdges(h, g1, Ids(g1) \ Elements(gone))
    BY <1>6, <1>15, <1>18, <2>3, <2>4, NodesRemoved
  <2>6. Ids(g1) \ Elements(gone) = Ids(current) \cap Ids(target)
    BY <1>15, <1>18
  <2> QED
    BY <1>18, <2>5, <2>6 DEF SameEdges
\* Then each node of the target is made or brought up to it.
<1>20. c \in Seq(Elements(c))
       /\ \E h : ApplyOps(g2, c) = Done(h) /\ NodesMade(h, g2, target)
  <2>1. \A id \in Ids(g2) : /\ g2.nodes[id] = current.nodes[id]
                            /\ current.nodes[id].type = target.nodes[id].type
    BY <1>19
  <2>2. Ids(g2) = Ids(current) \cap Ids(target)
    BY <1>19
  <2>3. \A id \in Ids(target) : IsFiniteSet(target.nodes[id].params)
    BY <1>11
  <2>4. Staying(g2, current, target)
    BY <2>1, <2>2, <2>3 DEF Staying
  <2> QED
    BY <1>7, <1>8, <1>16, <2>4, NodesDone
<1>21. PICK g3 : /\ ApplyOps(g2, c) = Done(g3)
                 /\ Ids(g3) = Ids(target) /\ g3.edges = g2.edges
                 /\ \A id \in Ids(target) : Meets(g3.nodes[id], target.nodes[id])
  BY <1>20 DEF NodesMade
\* Its new edges come last.
<1>22. PICK g4 : /\ ApplyOps(g3, d) = Done(g4)
                 /\ Ids(g4) = Ids(target) /\ g4.nodes = g3.nodes
                 /\ Elements(g4.edges) = TE
  <2>1. g3.edges \in Seq(Elements(g3.edges))
    BY <1>19, <1>21
  <2>2. PICK h : /\ ApplyOps(g3, d) = Done(h)
                 /\ SameNodes(h, g3, Elements(g3.edges) \cup Elements(added))
    BY <1>9, <1>12, <2>1, EdgesAdded
  <2>3. Elements(g3.edges) \cup Elements(added) = TE
    BY <1>12, <1>19, <1>21
  <2> QED
    BY <1>21, <2>2, <2>3 DEF SameNodes
<1>23. ApplyOps(current, ops) = Done(g4)
  <2>1. PICK ab : ab = a \o b
    OBVIOUS
  <2>2. PICK abc : abc = ab \o c
    OBVIOUS
  <2>3. PICK T : a \in Seq(T) /\ b \in Seq(T) /\ c \in Seq(T) /\ d \in Seq(T)
    <3>1. PICK T : T = Elements(a) \cup Elements(b) \cup Elements(c) \cup Elements(d)
      OBVIOUS
    <3>2. /\ Elements(a) \subseteq T /\ Elements(b) \subseteq T
          /\ Elements(c) \subseteq T /\ Elements(d) \subseteq T
      BY <3>1
    <3>3. a \in Seq(T) /\ b \in Seq(T) /\ c \in Seq(T) /\ d \in Seq(T)
      BY <1>17, <1>20, <3>2
    <3> QED
      BY <3>3
  <2>4. ab \in Seq(T) /\ abc \in Seq(T)
    BY <2>1, <2>2, <2>3
  <2>5. ApplyOps(current, ab) = Done(g2)
    BY <1>18, <1>19, <2>1, <2>3, BothApplied
  <2>6. ApplyOps(current, abc) = Done(g3)
    BY <1>21, <2>2, <2>3, <2>4, <2>5, BothApplied
  <2>7. ApplyOps(current, abc \o d) = Done(g4)
    BY <1>22, <2>3, <2>4, <2>6, BothApplied
  <2> QED
    BY <1>10, <2>1, <2>2, <2>7
<1> QED
  BY <1>21, <1>22, <1>23

\* What the last answer is about.
ProposalFits ==
    proposal # None =>
        /\ GraphShape(proposal.base)
        /\ TargetShape(proposal.target) /\ Valid(proposal.target)
        /\ proposal.ops = ProposalDiff(proposal.base, proposal.target)

LEMMA ProposalFitsNext ==
    ASSUME WellKept, ProposalFits, [Next]_vars
    PROVE  ProposalFits'
<1>1. CASE UNCHANGED vars \/ proposal' = None \/ proposal' = proposal
  BY <1>1 DEF ProposalFits, vars
<1>2. ASSUME NEW intent \in Intents, NEW up, Compile(intent, up)
      PROVE  ProposalFits'
  <2>1. PICK answer : /\ answer = CompileIntent(intent, Current.graph, None, up, revision)
                      /\ answer # Refused
                      /\ proposal' = [intent |-> intent, base |-> answer.base,
                                      target |-> answer.target, ops |-> answer.ops]
    BY <1>2 DEF Compile
  <2>2. PICK target : target = IF IntentFits(intent) THEN Build(intent, None, up, revision)
                               ELSE Refused
    OBVIOUS
  <2>3. answer = Answer(Current.graph, target)
    BY <2>1, <2>2 DEF CompileIntent
  <2>4. /\ target # Refused
        /\ answer = [base |-> Current.graph, target |-> target,
                     ops |-> ProposalDiff(Current.graph, target)]
    BY <2>1, <2>3 DEF Answer
  <2>5. target = Build(intent, None, up, revision)
    BY <2>2, <2>4
  <2>6. TargetShape(target) /\ Valid(target)
    BY <2>4, <2>5, BuiltTarget
  <2>7. GraphShape(Current.graph)
    BY CurrentIsKept DEF WellKept
  <2>8. PICK base : base = Current.graph
    OBVIOUS
  <2>9. /\ proposal'.base = base /\ proposal'.target = target
        /\ proposal'.ops = ProposalDiff(base, target)
    BY <2>1, <2>4, <2>8
  <2> QED
    BY <2>6, <2>7, <2>8, <2>9 DEF ProposalFits
<1> QED
  BY <1>1, <1>2 DEF Next, AgentEdit, ManualOps, Migrate, Restore, Release, Commit

\* Applied to the graph it was compiled for, a proposal gives the compiled graph, however
\* many edges, nodes and parameters the two differ in (proposal_diff.rs diff, lib.rs
\* apply_ops), but for the two cases the property names.
THEOREM ProposalsAlwaysConverge == Spec => []ProposalsConverge
<1>1. Init => ProposalFits
  BY DEF Init, ProposalFits
<1>2. WellKept /\ ProposalFits /\ [Next]_vars => ProposalFits'
  BY ProposalFitsNext
<1>3. ProposalFits => ProposalsConverge
  <2> SUFFICES ASSUME ProposalFits, proposal # None
               PROVE  ProposalsConverge
    BY DEF ProposalsConverge
  <2>1. PICK current : current = proposal.base
    OBVIOUS
  <2>2. PICK target : target = proposal.target
    OBVIOUS
  <2>3. PICK ops : ops = proposal.ops
    OBVIOUS
  <2>4. /\ GraphShape(current) /\ TargetShape(target) /\ Valid(target)
        /\ ops = ProposalDiff(current, target)
    BY <2>1, <2>2, <2>3 DEF ProposalFits
  <2>5. CASE \E id \in Ids(target) \cap Ids(current) :
                 current.nodes[id].type # target.nodes[id].type
    BY <2>1, <2>2, <2>5 DEF ProposalsConverge
  <2>6. CASE Cardinality(Elements(current.edges)) # Len(current.edges)
    BY <2>1, <2>6 DEF ProposalsConverge
  <2>7. CASE /\ \A id \in Ids(target) \cap Ids(current) :
                    current.nodes[id].type = target.nodes[id].type
             /\ Cardinality(Elements(current.edges)) = Len(current.edges)
    <3>1. PICK h : /\ ApplyOps(current, ops) = Done(h)
                   /\ Ids(h) = Ids(target)
                   /\ Elements(h.edges) = Elements(target.edges)
                   /\ \A id \in Ids(target) : Meets(h.nodes[id], target.nodes[id])
      BY <2>4, <2>7, DiffConverges
    <3>2. PICK outcome : outcome = ApplyOps(current, ops)
      OBVIOUS
    <3>3. IsFound(outcome) /\ outcome.graph = h
      BY <3>1, <3>2 DEF IsFound, Done
    <3>4. \A id \in Ids(target) : /\ h.nodes[id].type = target.nodes[id].type
                                  /\ h.nodes[id].sem = target.nodes[id].sem
                                  /\ target.nodes[id].params \subseteq h.nodes[id].params
      BY <3>1 DEF Meets
    <3> QED
      BY <2>1, <2>2, <2>3, <3>1, <3>2, <3>3, <3>4 DEF ProposalsConverge
  <2> QED
    BY <2>5, <2>6, <2>7
<1> QED
  BY <1>1, <1>2, <1>3, HistoryIsWellKept, PTL DEF Spec
=============================================================================
