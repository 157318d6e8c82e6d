---------------------- MODULE ResourceTemplatesProofs ----------------------
(***************************************************************************)
(* Proofs about ResourceTemplates, for every template text/template may    *)
(* have parsed: a template whose ranges get their numbers from goroutines  *)
(* writes what it would if they counted.                                   *)
(***************************************************************************)
EXTENDS ResourceTemplates, FoldLemmas

(***************************************************************************)
(* What a template writes: the numbers of the ranges around each node.     *)
(***************************************************************************)
Text == Seq(Seq(Int))

(***************************************************************************)
(* Text joined and extended.                                               *)
(***************************************************************************)
LEMMA Joined ==
    ASSUME NEW S
    PROVE  /\ <<>> \in Seq(S)
           /\ \A s, t \in Seq(S) : s \o t \in Seq(S)
           /\ \A s \in Seq(S) : s \o <<>> = s
           /\ \A s, t, u \in Seq(S) : (s \o t) \o u = s \o (t \o u)
           /\ \A s \in Seq(S), x \in S : Append(s, x) \in Seq(S)
           /\ \A s, t \in Seq(S), x \in S : Append(s \o t, x) = s \o Append(t, x)
<1>1. <<>> \in Seq(S) /\ \A s, t \in Seq(S) : s \o t \in Seq(S)
  OBVIOUS
<1>2. \A s \in Seq(S) : s \o <<>> = s
  OBVIOUS
<1>3. \A s, t, u \in Seq(S) : (s \o t) \o u = s \o (t \o u)
  OBVIOUS
<1>4. \A s \in Seq(S), x \in S : Append(s, x) \in Seq(S)
  OBVIOUS
<1>5. \A s, t \in Seq(S), x \in S : Append(s \o t, x) = s \o Append(t, x)
  OBVIOUS
<1> QED
  BY <1>1, <1>2, <1>3, <1>4, <1>5

(***************************************************************************)
(* The passes of a range are none or more.                                 *)
(***************************************************************************)
LEMMA PassesType ==
    ASSUME NEW range, range.from \in Int, range.to \in Int
    PROVE  /\ Passes(range) \in Nat
           /\ \A n \in Nat : n <= Passes(range) /\ n > 0 => range.from + n - 1 <= range.to
           /\ \A n \in Nat : range.from + n <= range.to <=> n < Passes(range)
  BY DEF Passes

(***************************************************************************)
(* What a range has written after each number of its passes.               *)
(***************************************************************************)
LEMMA RepeatedDef ==
    ASSUME NEW body \in [Seq(Int) -> Text], NEW vals \in Seq(Int),
           NEW range, range.from \in Int, range.to \in Int
    PROVE  /\ Repeated(body, vals, range) \in [0..Passes(range) -> Text]
           /\ Repeated(body, vals, range)[0] = <<>>
           /\ \A n \in 1..Passes(range) :
                 Repeated(body, vals, range)[n] =
                    Repeated(body, vals, range)[n - 1]
                        \o body[Append(vals, range.from + n - 1)]
<1> DEFINE N == Passes(range)
           Value(f, n) == IF n = 0 THEN <<>>
                          ELSE f[n - 1] \o body[Append(vals, range.from + n - 1)]
           Solves(f) == f = [n \in 0..N |-> Value(f, n)]
           step == [p \in [0..N -> Text] \X (0..N) |-> Value(p[1], p[2])]
<1>1. N \in Nat
  BY PassesType
<1>2. ASSUME NEW n \in 0..N, n # 0 PROVE body[Append(vals, range.from + n - 1)] \in Text
  <2>1. Append(vals, range.from + n - 1) \in Seq(Int)
    BY <1>1
  <2> QED
    BY <2>1
<1>3. ASSUME NEW f \in [0..N -> Text], NEW n \in 0..N PROVE Value(f, n) \in Text
  <2>1. CASE n = 0
    BY <2>1, Joined DEF Text
  <2>2. CASE n # 0
    <3>0. n - 1 \in 0..N
      BY <1>1, <2>2
    <3>1. f[n - 1] \in Text
      BY <3>0
    <3>2. f[n - 1] \o body[Append(vals, range.from + n - 1)] \in Text
      BY <1>2, <2>2, <3>1, Joined DEF Text
    <3> QED
      BY <2>2, <3>2
  <2> QED
    BY <2>1, <2>2
<1>4. \A f \in [0..N -> Text], n \in 0..N : step[<<f, n>>] = Value(f, n)
  OBVIOUS
<1>5. step \in [[0..N -> Text] \X (0..N) -> Text]
  <2>1. \A p \in [0..N -> Text] \X (0..N) : Value(p[1], p[2]) \in Text
    <3> HIDE DEF Value, N
    <3> QED
      BY <1>3
  <2> HIDE DEF Value, N
  <2> QED
    BY <2>1
<1>6. \A f, g \in [0..N -> Text], n \in 0..N :
          (\A j \in 0..n - 1 : f[j] = g[j]) => step[<<f, n>>] = step[<<g, n>>]
  <2> SUFFICES ASSUME NEW f \in [0..N -> Text], NEW g \in [0..N -> Text], NEW n \in 0..N,
                      \A j \in 0..n - 1 : f[j] = g[j]
               PROVE  step[<<f, n>>] = step[<<g, n>>]
    OBVIOUS
  <2>1. Value(f, n) = Value(g, n)
    <3>1. CASE n = 0
      BY <3>1
    <3>2. CASE n # 0
      <4>1. f[n - 1] = g[n - 1]
        BY <1>1, <3>2
      <4> QED
        BY <3>2, <4>1
    <3> QED
      BY <3>1, <3>2
  <2> HIDE DEF Value, step
  <2> QED
    BY <1>4, <2>1
<1>7. PICK f \in [0..N -> Text] : \A n \in 0..N : f[n] = step[<<f, n>>]
  <2>1. <<>> \in Text /\ 0 \in Int /\ N \in Int
    BY <1>1, Joined DEF Text
  <2>2. Causal(step, 0, N, Text)
    <3> HIDE DEF step, Value, N
    <3> QED
      BY <1>5, <1>6 DEF Causal
  <2> HIDE DEF step, Value, N
  <2> QED
    BY <2>1, <2>2, IntervalRecursion
<1>8. Solves(f)
  <2>1. \A n \in 0..N : f[n] = Value(f, n)
    <3> HIDE DEF step, Value
    <3> QED
      BY <1>4, <1>7
  <2> HIDE DEF Value
  <2> QED
    BY <2>1
<1>9. Repeated(body, vals, range) = CHOOSE g : Solves(g)
  BY DEF Repeated
<1>10. Solves(Repeated(body, vals, range))
  <2> HIDE DEF Solves
  <2> QED
    BY <1>8, <1>9
<1> DEFINE after == Repeated(body, vals, range)
<1>11. after = [n \in 0..N |-> Value(after, n)]
  BY <1>10
<1> HIDE DEF after
<1>12. /\ DOMAIN after = 0..N /\ after[0] = <<>>
       /\ \A n \in 1..N : after[n] = after[n - 1] \o body[Append(vals, range.from + n - 1)]
  <2>1. 0 \in 0..N /\ \A n \in 1..N : n \in 0..N /\ n # 0
    BY <1>1
  <2> HIDE DEF N
  <2> QED
    BY <1>11, <2>1
<1>13. ASSUME NEW n \in 0..N, \A j \in 0..n - 1 : after[j] \in Text PROVE after[n] \in Text
  <2>1. CASE n = 0
    BY <1>12, <2>1, Joined, ZenonT(60) DEF Text
  <2>2. CASE n # 0
    <3>1. after[n - 1] \in Text /\ after[n] = after[n - 1] \o body[Append(vals, range.from + n - 1)]
      <4>1. n \in 1..N /\ n - 1 \in 0..n - 1
        BY <1>1, <2>2
      <4> HIDE DEF N
      <4> QED
        BY <1>12, <1>13, <4>1
    <3> QED
      BY <1>2, <2>2, <3>1, Joined DEF Text
  <2> QED
    BY <2>1, <2>2
<1>14. \A n \in 0..N : after[n] \in Text
  <2>1. 0 \in Int /\ N \in Int /\ DOMAIN after = 0..N
    BY <1>1, <1>12
  <2>2. \A n \in 0..N : (\A j \in 0..n - 1 : after[j] \in Text) => after[n] \in Text
    BY <1>13
  <2> HIDE DEF N, Text
  <2> QED
    BY <2>1, <2>2, IntervalRecursionType, Zenon
<1>15. after \in [0..N -> Text]
  BY <1>11, <1>14
<1> QED
  BY <1>12, <1>15 DEF after

(***************************************************************************)
(* What the nodes before a node write, by the node before it.              *)
(***************************************************************************)
Writes == [Seq(Int) -> Text]
Written1(nodes, before, k, vals) ==
    IF k = 1
    THEN <<>>
    ELSE CASE nodes[k - 1].op = "range" -> <<>>
           [] nodes[k - 1].op = "emit" -> Append(before[k - 1][vals], vals)
           [] nodes[k - 1].op = "end" ->
                before[nodes[k - 1].head][vals] \o
                    Repeated(before[k - 1], vals, nodes[nodes[k - 1].head])
                            [Passes(nodes[nodes[k - 1].head])]
           [] OTHER -> before[k - 1][vals]

(***************************************************************************)
(* It depends on two earlier nodes at most: the node before it, and the    *)
(* head of a range that ends there.                                        *)
(***************************************************************************)
LEMMA Written1Type ==
    ASSUME NEW nodes, Len(nodes) \in Nat, WellNested(nodes), NEW k \in 1..Len(nodes) + 1,
           NEW f, \A j \in 1..k - 1 : f[j] \in Writes, NEW vals \in Seq(Int)
    PROVE  Written1(nodes, f, k, vals) \in Text
<1>1. CASE k = 1
  BY <1>1, Joined DEF Written1, Text
<1>2. CASE k # 1
  <2>1. k - 1 \in 1..Len(nodes) /\ k - 1 \in 1..k - 1
    BY <1>2
  <2>2. f[k - 1] \in Writes /\ f[k - 1][vals] \in Text
    BY <2>1 DEF Writes
  <2>3. CASE nodes[k - 1].op = "range"
    BY <1>2, <2>3, Joined DEF Written1, Text
  <2>4. CASE nodes[k - 1].op = "emit"
    <3>1. Append(f[k - 1][vals], vals) \in Text
      BY <2>2, Joined DEF Text
    <3> QED
      BY <1>2, <2>4, <3>1 DEF Written1
  <2>5. CASE nodes[k - 1].op = "end"
    <3>1. PICK head : head = nodes[k - 1].head
      OBVIOUS
    <3>2. /\ head \in 1..k - 1
          /\ nodes[head].from \in Int /\ nodes[head].to \in Int
      <4>1. head \in Ranges(nodes) /\ nodes[head].end = k - 1
        BY <2>1, <2>5, <3>1 DEF WellNested
      <4>2. /\ head \in 1..Len(nodes) /\ k - 1 \in head + 1..Len(nodes)
            /\ nodes[head].from \in Int /\ nodes[head].to \in Int
        BY <4>1 DEF WellNested, Ranges
      <4> QED
        BY <4>2
    <3>3. f[head][vals] \in Text
      BY <3>2 DEF Writes
    <3>4. Repeated(f[k - 1], vals, nodes[head])[Passes(nodes[head])] \in Text
      <4>1. Repeated(f[k - 1], vals, nodes[head]) \in [0..Passes(nodes[head]) -> Text]
        BY <2>2, <3>2, RepeatedDef DEF Writes
      <4>2. Passes(nodes[head]) \in 0..Passes(nodes[head])
        BY <3>2, PassesType, SMTT(30)
      <4> QED
        BY <4>1, <4>2
    <3>5. f[head][vals] \o Repeated(f[k - 1], vals, nodes[head])[Passes(nodes[head])] \in Text
      BY <3>3, <3>4, Joined DEF Text
    <3> QED
      BY <1>2, <2>5, <3>1, <3>5 DEF Written1
  <2>6. CASE nodes[k - 1].op \notin {"range", "emit", "end"}
    BY <1>2, <2>2, <2>6 DEF Written1
  <2> QED
    BY <2>3, <2>4, <2>5, <2>6
<1> QED
  BY <1>1, <1>2

(***************************************************************************)
(* So the recursion is well-founded.                                       *)
(***************************************************************************)
LEMMA BeforeExists ==
    ASSUME NEW nodes, Len(nodes) \in Nat, WellNested(nodes)
    PROVE  \E f \in [1..Len(nodes) + 1 -> Writes] :
              \A k \in 1..Len(nodes) + 1 :
                  f[k] = [vals \in Seq(Int) |-> Written1(nodes, f, k, vals)]
<1> DEFINE K == 1..Len(nodes) + 1
           Value(f, k) == [vals \in Seq(Int) |-> Written1(nodes, f, k, vals)]
           step == [p \in [K -> Writes] \X K |-> Value(p[1], p[2])]
<1>1. ASSUME NEW f \in [K -> Writes], NEW k \in K PROVE Value(f, k) \in Writes
  <2>1. \A j \in 1..k - 1 : f[j] \in Writes
    OBVIOUS
  <2>2. \A vals \in Seq(Int) : Written1(nodes, f, k, vals) \in Text
    BY <2>1, Written1Type
  <2> QED
    BY <2>2 DEF Writes
<1>2. \A f \in [K -> Writes], k \in K : step[<<f, k>>] = Value(f, k)
  OBVIOUS
<1>3. step \in [[K -> Writes] \X K -> Writes]
  <2>1. \A p \in [K -> Writes] \X K : Value(p[1], p[2]) \in Writes
    <3> HIDE DEF Value, K
    <3> QED
      BY <1>1
  <2> HIDE DEF Value, K
  <2> QED
    BY <2>1
<1>4. ASSUME NEW f \in [K -> Writes], NEW g \in [K -> Writes], NEW k \in K,
             \A j \in 1..k - 1 : f[j] = g[j]
      PROVE  Value(f, k) = Value(g, k)
  <2> SUFFICES ASSUME NEW vals \in Seq(Int)
               PROVE  Written1(nodes, f, k, vals) = Written1(nodes, g, k, vals)
    OBVIOUS
  <2>1. CASE k = 1
    BY <2>1 DEF Written1
  <2>2. CASE k # 1
    <3>1. k - 1 \in 1..Len(nodes) /\ f[k - 1] = g[k - 1]
      BY <1>4, <2>2
    <3>2. CASE nodes[k - 1].op = "end"
      <4>1. nodes[k - 1].head \in 1..k - 1
        BY <3>1, <3>2, SMTT(30) DEF WellNested, Ranges
      <4>2. f[nodes[k - 1].head] = g[nodes[k - 1].head]
        BY <1>4, <4>1
      <4> QED
        BY <2>2, <3>1, <3>2, <4>2 DEF Written1
    <3>3. CASE nodes[k - 1].op # "end"
      BY <2>2, <3>1, <3>3 DEF Written1
    <3> QED
      BY <3>2, <3>3
  <2> QED
    BY <2>1, <2>2
<1>5. Causal(step, 1, Len(nodes) + 1, Writes)
  <2>1. \A f, g \in [K -> Writes], k \in K :
            (\A j \in 1..k - 1 : f[j] = g[j]) => step[<<f, k>>] = step[<<g, k>>]
    <3> HIDE DEF step, Value, K
    <3> QED
      BY <1>2, <1>4
  <2> HIDE DEF step, Value
  <2> QED
    BY <1>3, <2>1 DEF Causal
<1>6. PICK v \in Writes : TRUE
  <2>1. [vals \in Seq(Int) |-> <<>>] \in Writes
    BY Joined DEF Writes, Text
  <2> QED
    BY <2>1
<1>7. 1 \in Int /\ Len(nodes) + 1 \in Int
  OBVIOUS
<1>8. \E f \in [K -> Writes] : \A k \in K : f[k] = step[<<f, k>>]
  <2> HIDE DEF step, Value
  <2> QED
    BY <1>5, <1>6, <1>7, IntervalRecursion
<1> HIDE DEF step, Value, K
<1>9. \E f \in [K -> Writes] : \A k \in K : f[k] = Value(f, k)
  BY <1>2, <1>8
<1> QED
  BY <1>9 DEF Value, K

(***************************************************************************)
(* What is written before the next node, from what is before this one.     *)
(***************************************************************************)
BeforeNode(nodes, B, k, vals) ==
    /\ nodes[k].op = "range" => B[k + 1][vals] = <<>>
    /\ nodes[k].op = "emit" => B[k + 1][vals] = Append(B[k][vals], vals)
    /\ nodes[k].op \in {"call", "break"} => B[k + 1][vals] = B[k][vals]
    /\ nodes[k].op = "end" =>
          LET head == nodes[k].head
          IN  B[k + 1][vals] = B[head][vals] \o Repeated(B[k], vals, nodes[head])
                                                        [Passes(nodes[head])]

LEMMA BeforeDef ==
    ASSUME NEW nodes, Len(nodes) \in Nat, WellNested(nodes)
    PROVE  /\ Before(nodes) \in [1..Len(nodes) + 1 -> Writes]
           /\ \A vals \in Seq(Int) : Before(nodes)[1][vals] = <<>>
           /\ \A k \in 1..Len(nodes), vals \in Seq(Int) :
                 BeforeNode(nodes, Before(nodes), k, vals)
<1> DEFINE K == 1..Len(nodes) + 1
           Value(f, k) == [vals \in Seq(Int) |-> Written1(nodes, f, k, vals)]
           Solves(f) == f = [k \in K |-> Value(f, k)]
           B == Before(nodes)
<1>1. \E f : Solves(f)
  <2>1. PICK f \in [K -> Writes] : \A k \in K : f[k] = Value(f, k)
    BY BeforeExists
  <2>2. Solves(f)
    <3> HIDE DEF Value, K
    <3> QED
      BY <2>1
  <2> QED
    BY <2>2
<1>2. B = CHOOSE f : Solves(f)
  BY DEF Before, Written1
<1>3. Solves(B)
  <2> HIDE DEF Solves, B
  <2> QED
    BY <1>1, <1>2
<1> HIDE DEF B
<1>4. DOMAIN B = K /\ \A k \in K : B[k] = Value(B, k)
  <2> HIDE DEF Value, K
  <2> QED
    BY <1>3
<1>5. \A k \in K : (\A j \in 1..k - 1 : B[j] \in Writes) => B[k] \in Writes
  <2> SUFFICES ASSUME NEW k \in K, \A j \in 1..k - 1 : B[j] \in Writes
               PROVE  B[k] \in Writes
    OBVIOUS
  <2>1. \A vals \in Seq(Int) : Written1(nodes, B, k, vals) \in Text
    BY Written1Type
  <2>2. Value(B, k) \in Writes
    BY <2>1 DEF Writes
  <2> QED
    BY <1>4, <2>2
<1>6. \A k \in K : B[k] \in Writes
  <2>1. 1 \in Int /\ Len(nodes) + 1 \in Int
    OBVIOUS
  <2> HIDE DEF Value
  <2> QED
    BY <1>4, <1>5, <2>1, IntervalRecursionType
<1>7. \A k \in K, vals \in Seq(Int) : B[k][vals] = Written1(nodes, B, k, vals)
  BY <1>4
<1>8. B \in [1..Len(nodes) + 1 -> Writes]
  BY <1>3, <1>6
<1>9. ASSUME NEW vals \in Seq(Int) PROVE B[1][vals] = <<>>
  <2>1. 1 \in K
    OBVIOUS
  <2> QED
    BY <1>7, <2>1 DEF Written1
<1>10. ASSUME NEW k \in 1..Len(nodes), NEW vals \in Seq(Int)
       PROVE  BeforeNode(nodes, B, k, vals)
  <2>1. k + 1 \in K /\ k + 1 # 1 /\ k + 1 - 1 = k
    OBVIOUS
  <2>2. B[k + 1][vals] = Written1(nodes, B, k + 1, vals)
    BY <1>7, <2>1
  <2>3. PICK j : j = k + 1
    OBVIOUS
  <2>4. j # 1 /\ j - 1 = k /\ B[j][vals] = Written1(nodes, B, j, vals)
    BY <2>1, <2>2, <2>3
  <2>5. CASE nodes[k].op = "end"
    BY <2>3, <2>4, <2>5 DEF Written1, BeforeNode
  <2>6. CASE nodes[k].op # "end"
    BY <2>3, <2>4, <2>6 DEF Written1, BeforeNode
  <2> QED
    BY <2>5, <2>6
<1> QED
  BY <1>8, <1>9, <1>10 DEF B
-----------------------------------------------------------------------------
(***************************************************************************)
(* The ranges around node k, outermost first, have their heads in h: a     *)
(* range is around the nodes from the one after its head to its end.       *)
(***************************************************************************)
Nesting(nodes, h, d, k) ==
    /\ d \in Nat /\ h \in [1..d -> Ranges(nodes)]
    /\ \A i, j \in 1..d : i < j => h[i] < h[j]
    /\ \A j \in Ranges(nodes) :
          j < k /\ k <= nodes[j].end <=> \E i \in 1..d : h[i] = j

Extended(f, d, v) == [i \in 1..d + 1 |-> IF i = d + 1 THEN v ELSE f[i]]
Shortened(f, d) == [i \in 1..d - 1 |-> f[i]]

(***************************************************************************)
(* Ranges, one in the other or one after the other.                        *)
(***************************************************************************)
LEMMA RangeNodes ==
    ASSUME NEW nodes, Len(nodes) \in Nat, WellNested(nodes)
    PROVE  /\ \A j \in Ranges(nodes) :
                 /\ j \in Nat /\ nodes[j].end \in Nat /\ j > 0
                 /\ j < nodes[j].end /\ nodes[j].end <= Len(nodes)
                 /\ nodes[j].op = "range" /\ nodes[nodes[j].end].op = "end"
                 /\ nodes[nodes[j].end].head = j
                 /\ nodes[j].from \in Int /\ nodes[j].to \in Int
           /\ \A i, j \in Ranges(nodes) :
                 i < j => j > nodes[i].end \/ nodes[j].end < nodes[i].end
           /\ \A k \in 1..Len(nodes) : nodes[k].op = "range" => k \in Ranges(nodes)
           /\ \A k \in 1..Len(nodes) : nodes[k].op = "end" =>
                 nodes[k].head \in Ranges(nodes) /\ nodes[nodes[k].head].end = k
<1>1. ASSUME NEW j \in Ranges(nodes)
      PROVE  /\ j \in Nat /\ nodes[j].end \in Nat /\ j > 0
             /\ j < nodes[j].end /\ nodes[j].end <= Len(nodes)
             /\ nodes[j].op = "range" /\ nodes[nodes[j].end].op = "end"
             /\ nodes[nodes[j].end].head = j
             /\ nodes[j].from \in Int /\ nodes[j].to \in Int
  <2>1. j \in 1..Len(nodes) /\ nodes[j].op = "range"
    BY DEF Ranges
  <2>2. /\ nodes[j].end \in j + 1..Len(nodes)
        /\ nodes[nodes[j].end].op = "end" /\ nodes[nodes[j].end].head = j
        /\ nodes[j].from \in Int /\ nodes[j].to \in Int
    BY DEF WellNested
  <2> QED
    BY <2>1, <2>2
<1>2. ASSUME NEW i \in Ranges(nodes), NEW j \in Ranges(nodes), i < j
      PROVE  j > nodes[i].end \/ nodes[j].end < nodes[i].end
  <2>1. j # nodes[i].end
    BY <1>1
  <2>2. j < nodes[i].end => nodes[j].end < nodes[i].end
    BY <1>2 DEF WellNested
  <2> QED
    BY <1>1, <2>1, <2>2
<1>3. \A k \in 1..Len(nodes) : nodes[k].op = "range" => k \in Ranges(nodes)
  BY DEF Ranges
<1>4. \A k \in 1..Len(nodes) : nodes[k].op = "end" =>
          nodes[k].head \in Ranges(nodes) /\ nodes[nodes[k].head].end = k
  BY DEF WellNested
<1> QED
  BY <1>1, <1>2, <1>3, <1>4

(***************************************************************************)
(* No range is around the first node.                                      *)
(***************************************************************************)
LEMMA NestingStart ==
    ASSUME NEW nodes, Len(nodes) \in Nat, WellNested(nodes)
    PROVE  Nesting(nodes, <<>>, 0, 1)
<1>1. \A j \in Ranges(nodes) : ~(j < 1)
  BY RangeNodes
<1> QED
  BY <1>1 DEF Nesting

(***************************************************************************)
(* None is around the place after the last node.                           *)
(***************************************************************************)
LEMMA NestingEnd ==
    ASSUME NEW nodes, Len(nodes) \in Nat, WellNested(nodes), NEW h, NEW d,
           Nesting(nodes, h, d, Len(nodes) + 1)
    PROVE  d = 0
<1>1. \A i \in 1..d : h[i] \in Ranges(nodes) /\ Len(nodes) + 1 <= nodes[h[i]].end
  BY DEF Nesting
<1>2. d \in Nat /\ (d # 0 => d \in 1..d)
  BY DEF Nesting
<1> QED
  BY <1>1, <1>2, RangeNodes

(***************************************************************************)
(* A node that is not a range or its end has the same ranges around it as  *)
(* the next one.                                                           *)
(***************************************************************************)
LEMMA NestingNext ==
    ASSUME NEW nodes, Len(nodes) \in Nat, WellNested(nodes), NEW k \in 1..Len(nodes),
           nodes[k].op \notin {"range", "end"}, NEW h, NEW d, Nesting(nodes, h, d, k)
    PROVE  Nesting(nodes, h, d, k + 1)
<1>1. ASSUME NEW j \in Ranges(nodes)
      PROVE  j < k + 1 /\ k + 1 <= nodes[j].end <=> j < k /\ k <= nodes[j].end
  <2>1. j # k /\ nodes[j].end # k
    BY RangeNodes
  <2> QED
    BY <2>1, RangeNodes
<1> QED
  BY <1>1 DEF Nesting

(***************************************************************************)
(* The end of a range has this range around it, and those around its head. *)
(***************************************************************************)
LEMMA NestingOpen ==
    ASSUME NEW nodes, Len(nodes) \in Nat, WellNested(nodes), NEW k \in 1..Len(nodes),
           nodes[k].op = "range", NEW h, NEW d, Nesting(nodes, h, d, k)
    PROVE  Nesting(nodes, Extended(h, d, k), d + 1, nodes[k].end)
<1> DEFINE g == Extended(h, d, k)
<1>1. k \in Ranges(nodes) /\ d \in Nat
  BY RangeNodes DEF Nesting
<1>2. /\ g \in [1..d + 1 -> Ranges(nodes)] /\ g[d + 1] = k
      /\ \A i \in 1..d : g[i] = h[i]
  BY <1>1 DEF Nesting, Extended
<1>3. \A i \in 1..d : h[i] \in Ranges(nodes) /\ h[i] < k
  BY DEF Nesting
<1>4. \A i, j \in 1..d + 1 : i < j => g[i] < g[j]
  BY <1>1, <1>2, <1>3 DEF Nesting
<1>5. ASSUME NEW j \in Ranges(nodes)
      PROVE  j < nodes[k].end /\ nodes[k].end <= nodes[j].end
                <=> j = k \/ (j < k /\ k <= nodes[j].end)
  <2>1. /\ j \in Nat /\ k \in Nat /\ nodes[j].end \in Nat /\ nodes[k].end \in Nat
        /\ j < nodes[j].end /\ k < nodes[k].end
    BY <1>1, RangeNodes
  <2>2. k # nodes[j].end /\ j # nodes[k].end
    <3>1. nodes[j].op = "range" /\ nodes[nodes[j].end].op = "end"
      BY RangeNodes
    <3>2. nodes[k].op = "range" /\ nodes[nodes[k].end].op = "end"
      BY <1>1, RangeNodes
    <3> QED
      BY <3>1, <3>2
  <2>3. /\ j < k => k > nodes[j].end \/ nodes[k].end < nodes[j].end
        /\ k < j => j > nodes[k].end \/ nodes[j].end < nodes[k].end
    <3>1. \A i, m \in Ranges(nodes) :
              i < m => m > nodes[i].end \/ nodes[m].end < nodes[i].end
      BY RangeNodes
    <3> QED
      BY <1>1, <3>1
  <2> QED
    BY <2>1, <2>2, <2>3
<1>6. \A j : (\E i \in 1..d + 1 : g[i] = j) <=> j = k \/ \E i \in 1..d : h[i] = j
  <2>1. \A i : i \in 1..d + 1 <=> i \in 1..d \/ i = d + 1
    BY <1>1
  <2> HIDE DEF g
  <2> QED
    BY <1>2, <2>1
<1>7. \A j \in Ranges(nodes) :
          j < nodes[k].end /\ nodes[k].end <= nodes[j].end <=> \E i \in 1..d + 1 : g[i] = j
  <2> HIDE DEF g
  <2> QED
    BY <1>5, <1>6 DEF Nesting
<1> HIDE DEF g
<1> QED
  BY <1>1, <1>2, <1>4, <1>7 DEF Nesting, g

(***************************************************************************)
(* The innermost range around the end of a range is this range.            *)
(***************************************************************************)
LEMMA NestingInnermost ==
    ASSUME NEW nodes, Len(nodes) \in Nat, WellNested(nodes), NEW k \in 1..Len(nodes),
           nodes[k].op = "end", NEW h, NEW d, Nesting(nodes, h, d, k)
    PROVE  d \in Nat /\ d > 0 /\ d \in 1..d /\ h[d] = nodes[k].head
<1>1. PICK j \in Ranges(nodes) : j = nodes[k].head /\ nodes[j].end = k
  BY RangeNodes
<1>2. PICK i \in 1..d : h[i] = j
  BY <1>1, RangeNodes DEF Nesting
<1>3. d \in Nat /\ d \in 1..d /\ h[d] \in Ranges(nodes) /\ h[d] < k /\ k <= nodes[h[d]].end
  BY <1>2 DEF Nesting
<1>4. i < d => h[i] < h[d]
  BY <1>3 DEF Nesting
<1> QED
  BY <1>1, <1>2, <1>3, <1>4, RangeNodes, SMTT(30)

(***************************************************************************)
(* After its head the ranges around are the same as at its end.            *)
(***************************************************************************)
LEMMA NestingAgain ==
    ASSUME NEW nodes, Len(nodes) \in Nat, WellNested(nodes), NEW k \in 1..Len(nodes),
           nodes[k].op = "end", NEW h, NEW d, Nesting(nodes, h, d, k)
    PROVE  Nesting(nodes, h, d, nodes[k].head + 1)
<1>1. PICK m \in Ranges(nodes) : m = nodes[k].head /\ nodes[m].end = k
  BY RangeNodes
<1>2. ASSUME NEW j \in Ranges(nodes)
      PROVE  j < m + 1 /\ m + 1 <= nodes[j].end <=> j < k /\ k <= nodes[j].end
  <2>1. CASE j = m
    BY <1>1, <2>1, RangeNodes
  <2>2. CASE j < m
    BY <1>1, <2>2, RangeNodes, SMTT(30)
  <2>3. CASE j > m
    BY <1>1, <2>3, RangeNodes, SMTT(30)
  <2> QED
    BY <2>1, <2>2, <2>3, RangeNodes
<1>3. Nesting(nodes, h, d, m + 1)
  BY <1>2 DEF Nesting
<1> QED
  BY <1>1, <1>3

(***************************************************************************)
(* After its end it is no longer around.                                   *)
(***************************************************************************)
LEMMA NestingClose ==
    ASSUME NEW nodes, Len(nodes) \in Nat, WellNested(nodes), NEW k \in 1..Len(nodes),
           nodes[k].op = "end", NEW h, NEW d, Nesting(nodes, h, d, k)
    PROVE  Nesting(nodes, Shortened(h, d), d - 1, k + 1)
<1> DEFINE g == Shortened(h, d)
<1>1. PICK m \in Ranges(nodes) : m = nodes[k].head /\ nodes[m].end = k
  BY RangeNodes
<1>2. d \in Nat /\ d > 0 /\ h[d] = m /\ h \in [1..d -> Ranges(nodes)]
      /\ \A i, j \in 1..d : i < j => h[i] < h[j]
  <2>1. d \in Nat /\ d > 0 /\ h[d] = m
    BY <1>1, NestingInnermost
  <2> QED
    BY <2>1 DEF Nesting
<1>3. /\ g \in [1..d - 1 -> Ranges(nodes)]
      /\ \A i \in 1..d - 1 : g[i] = h[i]
  BY <1>2 DEF Shortened
<1>4. \A i, j \in 1..d - 1 : i < j => g[i] < g[j]
  BY <1>2, <1>3
<1>5. ASSUME NEW j \in Ranges(nodes)
      PROVE  j < k + 1 /\ k + 1 <= nodes[j].end <=> j # m /\ j < k /\ k <= nodes[j].end
  <2>1. j # k /\ (nodes[j].end = k => j = m)
    BY <1>1, RangeNodes
  <2> QED
    BY <1>1, <2>1, RangeNodes
<1>6. \A i \in 1..d - 1 : h[i] # m
  BY <1>1, <1>2, RangeNodes
<1>7. \A j : (\E i \in 1..d - 1 : g[i] = j) <=> j # m /\ \E i \in 1..d : h[i] = j
  <2>1. \A i : i \in 1..d - 1 <=> i \in 1..d /\ i # d
    BY <1>2
  <2> HIDE DEF g
  <2> QED
    BY <1>2, <1>3, <1>6, <2>1
<1>8. \A j \in Ranges(nodes) :
          j < k + 1 /\ k + 1 <= nodes[j].end <=> \E i \in 1..d - 1 : g[i] = j
  <2> HIDE DEF g
  <2> QED
    BY <1>5, <1>7 DEF Nesting
<1> HIDE DEF g
<1> QED
  BY <1>2, <1>3, <1>4, <1>8 DEF Nesting, g
-----------------------------------------------------------------------------
(***************************************************************************)
(* The numbers of the ranges h[1] to h[i], in pass n[1] to n[i].           *)
(***************************************************************************)
Numbers(nodes, h, n, i) == [j \in 1..i |-> nodes[h[j]].from + n[j] - 1]

(***************************************************************************)
(* What range h[i] has written in the passes before the one in progress,   *)
(* and the nodes before its head with it, in one pass of the ranges around *)
(* it.                                                                     *)
(***************************************************************************)
Whole(n) == IF n = 0 THEN 0 ELSE n - 1
Part(nodes, h, n, i) ==
    LET vals == Numbers(nodes, h, n, i - 1)
    IN  Before(nodes)[h[i]][vals] \o
            Repeated(Before(nodes)[nodes[h[i]].end], vals, nodes[h[i]])[Whole(n[i])]

(***************************************************************************)
(* The engine is at node k, in ranges h[1] to h[d], with n[i] passes begun *)
(* through range h[i]; b[i] is what had been written when the last of them *)
(* began.  A range with no pass begun waits at its end.                    *)
(***************************************************************************)
Passing(nodes, h, n, d, k) ==
    /\ n \in [1..d -> Nat]
    /\ \A i \in 1..d : n[i] <= Passes(nodes[h[i]])
    /\ \A i \in 1..d : n[i] = 0 => i = d /\ k = nodes[h[i]].end
Begun(nodes, h, n, d, b) ==
    /\ b \in [0..d -> Text]
    /\ b[0] = <<>>
    /\ \A i \in 1..d : b[i] = b[i - 1] \o Part(nodes, h, n, i)
Waits(n, d) == d > 0 /\ n[d] = 0
Ahead(nodes, h, n, d, k) ==
    IF Waits(n, d) THEN <<>> ELSE Before(nodes)[k][Numbers(nodes, h, n, d)]
Engine(nodes, h, n, d, k, out) ==
    /\ Nesting(nodes, h, d, k)
    /\ k \in 1..Len(nodes) + 1
    /\ Passing(nodes, h, n, d, k)
    /\ \E b : Begun(nodes, h, n, d, b) /\ out = b[d] \o Ahead(nodes, h, n, d, k)

(***************************************************************************)
(* Text joined and extended.                                               *)
(***************************************************************************)
LEMMA TextJoined ==
    /\ <<>> \in Text
    /\ \A s, t \in Text : s \o t \in Text
    /\ \A s \in Text : s \o <<>> = s
    /\ \A s, t, u \in Text : (s \o t) \o u = s \o (t \o u)
    /\ \A s \in Text, x \in Seq(Int) : Append(s, x) \in Text
    /\ \A s, t \in Text, x \in Seq(Int) : Append(s \o t, x) = s \o Append(t, x)
  BY Joined DEF Text

(***************************************************************************)
(* The numbers are integers; those of the outer ranges depend on them.     *)
(***************************************************************************)
LEMMA NumbersType ==
    ASSUME NEW nodes, Len(nodes) \in Nat, WellNested(nodes), NEW d \in Nat,
           NEW h \in [1..d -> Ranges(nodes)], NEW n \in [1..d -> Nat], NEW i \in 0..d
    PROVE  Numbers(nodes, h, n, i) \in Seq(Int)
<1>1. i \in Nat /\ \A j \in 1..i : nodes[h[j]].from + n[j] - 1 \in Int
  <2>1. ASSUME NEW j \in 1..i PROVE nodes[h[j]].from + n[j] - 1 \in Int
    <3>1. h[j] \in Ranges(nodes) /\ n[j] \in Nat
      OBVIOUS
    <3>2. nodes[h[j]].from \in Int
      BY <3>1, RangeNodes
    <3> QED
      BY <3>1, <3>2
  <2> QED
    BY <2>1
<1>2. [j \in 1..i |-> nodes[h[j]].from + n[j] - 1] \in [1..i -> Int]
  BY <1>1
<1> QED
  BY <1>1, <1>2 DEF Numbers

LEMMA NumbersSame ==
    ASSUME NEW nodes, NEW i, NEW h, NEW g, NEW n, NEW m,
           \A j \in 1..i : h[j] = g[j] /\ n[j] = m[j]
    PROVE  Numbers(nodes, h, n, i) = Numbers(nodes, g, m, i)
  BY DEF Numbers

LEMMA NumbersNext ==
    ASSUME NEW nodes, Len(nodes) \in Nat, WellNested(nodes), NEW d \in Nat, d > 0,
           NEW h \in [1..d -> Ranges(nodes)], NEW n \in [1..d -> Nat]
    PROVE  Append(Numbers(nodes, h, n, d - 1), nodes[h[d]].from + n[d] - 1)
                = Numbers(nodes, h, n, d)
<1> DEFINE x == nodes[h[d]].from + n[d] - 1
           s == Numbers(nodes, h, n, d - 1)
           t == Numbers(nodes, h, n, d)
<1>1. s \in Seq(Int) /\ t \in Seq(Int)
  BY NumbersType
<1>2. Len(s) = d - 1 /\ Len(t) = d
  BY <1>1 DEF Numbers
<1>3. t[d] = x /\ \A j \in 1..d - 1 : t[j] = s[j]
  BY DEF Numbers
<1> HIDE DEF s, t, x
<1>4. x \in Int
  <2>1. d \in 1..Len(t)
    BY <1>2
  <2> QED
    BY <1>1, <1>3, <2>1
<1>5. Append(s, x) = t
  <2>1. Append(s, x) \in Seq(Int) /\ Len(Append(s, x)) = d
    BY <1>1, <1>2, <1>4
  <2>2. \A j \in 1..d : Append(s, x)[j] = t[j]
    BY <1>1, <1>2, <1>3, <1>4
  <2> QED
    BY <1>1, <1>2, <2>1, <2>2
<1> QED
  BY <1>5 DEF s, t, x

(***************************************************************************)
(* What has been written before a node, and in the passes of a range.      *)
(***************************************************************************)
WritesPasses(nodes, j, vals, after) ==
    /\ \A m \in 0..Passes(nodes[j]) : after[m] \in Text
    /\ after[0] = <<>>
    /\ \A m \in 1..Passes(nodes[j]) :
          after[m] = after[m - 1] \o
             Before(nodes)[nodes[j].end][Append(vals, nodes[j].from + m - 1)]

LEMMA BeforeText ==
    ASSUME NEW nodes, Len(nodes) \in Nat, WellNested(nodes), NEW vals \in Seq(Int)
    PROVE  /\ \A k \in 1..Len(nodes) + 1 : Before(nodes)[k][vals] \in Text
           /\ \A j \in Ranges(nodes) :
                 WritesPasses(nodes, j, vals,
                              Repeated(Before(nodes)[nodes[j].end], vals, nodes[j]))
<1>1. Before(nodes) \in [1..Len(nodes) + 1 -> Writes]
  BY BeforeDef
<1>2. \A k \in 1..Len(nodes) + 1 :
          Before(nodes)[k] \in [Seq(Int) -> Text] /\ Before(nodes)[k][vals] \in Text
  BY <1>1 DEF Writes
<1>3. ASSUME NEW j \in Ranges(nodes)
      PROVE  WritesPasses(nodes, j, vals,
                          Repeated(Before(nodes)[nodes[j].end], vals, nodes[j]))
  <2>1. PICK body : body = Before(nodes)[nodes[j].end]
    OBVIOUS
  <2>2. nodes[j].end \in 1..Len(nodes) + 1 /\ nodes[j].from \in Int /\ nodes[j].to \in Int
    BY RangeNodes
  <2>3. body \in [Seq(Int) -> Text]
    BY <1>2, <2>1, <2>2
  <2>4. PICK after : after = Repeated(body, vals, nodes[j])
    OBVIOUS
  <2>5. /\ after \in [0..Passes(nodes[j]) -> Text] /\ after[0] = <<>>
        /\ \A m \in 1..Passes(nodes[j]) :
              after[m] = after[m - 1] \o body[Append(vals, nodes[j].from + m - 1)]
    <3>1. PICK range : range = nodes[j]
      OBVIOUS
    <3>2. range.from \in Int /\ range.to \in Int
      BY <2>2, <3>1
    <3>3. /\ Repeated(body, vals, range) \in [0..Passes(range) -> Text]
          /\ Repeated(body, vals, range)[0] = <<>>
          /\ \A m \in 1..Passes(range) :
                Repeated(body, vals, range)[m] = Repeated(body, vals, range)[m - 1]
                                                    \o body[Append(vals, range.from + m - 1)]
      BY <2>3, <3>2, RepeatedDef
    <3> QED
      BY <2>4, <3>1, <3>3
  <2>6. WritesPasses(nodes, j, vals, after)
    BY <2>1, <2>5 DEF WritesPasses
  <2> QED
    BY <2>1, <2>4, <2>6
<1> QED
  BY <1>2, <1>3

(***************************************************************************)
(* A part is text, and depends on the range and those around it.           *)
(***************************************************************************)
LEMMA PartType ==
    ASSUME NEW nodes, Len(nodes) \in Nat, WellNested(nodes), NEW h, NEW n, NEW d, NEW k,
           Nesting(nodes, h, d, k), Passing(nodes, h, n, d, k), NEW i \in 1..d
    PROVE  Part(nodes, h, n, i) \in Text
<1>1. /\ d \in Nat /\ h \in [1..d -> Ranges(nodes)] /\ n \in [1..d -> Nat]
      /\ h[i] \in Ranges(nodes) /\ n[i] <= Passes(nodes[h[i]])
  BY DEF Nesting, Passing
<1>2. PICK j, vals : j = h[i] /\ vals = Numbers(nodes, h, n, i - 1)
  OBVIOUS
<1>3. j \in Ranges(nodes) /\ j \in 1..Len(nodes) + 1
  BY <1>1, <1>2 DEF Ranges
<1>4. vals \in Seq(Int)
  <2>1. i - 1 \in 0..d
    BY <1>1
  <2> QED
    BY <1>1, <1>2, <2>1, NumbersType
<1>5. Whole(n[i]) \in 0..Passes(nodes[j])
  <2>1. Passes(nodes[j]) \in Nat /\ n[i] \in Nat
    BY <1>1, <1>3, RangeNodes, PassesType
  <2> QED
    BY <1>1, <1>2, <2>1 DEF Whole
<1>6. /\ Before(nodes)[j][vals] \in Text
      /\ Repeated(Before(nodes)[nodes[j].end], vals, nodes[j])[Whole(n[i])] \in Text
  <2>1. /\ Before(nodes)[j][vals] \in Text
        /\ WritesPasses(nodes, j, vals,
                        Repeated(Before(nodes)[nodes[j].end], vals, nodes[j]))
    BY <1>3, <1>4, BeforeText
  <2> QED
    BY <1>5, <2>1 DEF WritesPasses
<1> QED
  BY <1>2, <1>6, TextJoined DEF Part

LEMMA PartSame ==
    ASSUME NEW nodes, NEW i \in Nat, NEW h, NEW g, NEW n, NEW m,
           \A j \in 1..i : h[j] = g[j] /\ n[j] = m[j], i > 0
    PROVE  Part(nodes, h, n, i) = Part(nodes, g, m, i)
<1>1. Numbers(nodes, h, n, i - 1) = Numbers(nodes, g, m, i - 1)
  <2>1. \A j \in 1..i - 1 : h[j] = g[j] /\ n[j] = m[j]
    OBVIOUS
  <2> QED
    BY <2>1, NumbersSame
<1>2. h[i] = g[i] /\ n[i] = m[i]
  OBVIOUS
<1> QED
  BY <1>1, <1>2 DEF Part

(***************************************************************************)
(* The engine starts with nothing written.                                 *)
(***************************************************************************)
LEMMA EngineStart ==
    ASSUME NEW nodes, Len(nodes) \in Nat, WellNested(nodes)
    PROVE  Engine(nodes, <<>>, <<>>, 0, 1, <<>>)
<1> DEFINE b == [i \in 0..0 |-> <<>>]
<1>1. Nesting(nodes, <<>>, 0, 1)
  BY NestingStart
<1>2. Passing(nodes, <<>>, <<>>, 0, 1)
  BY DEF Passing
<1>3. Begun(nodes, <<>>, <<>>, 0, b)
  <2>1. b \in [0..0 -> Text] /\ b[0] = <<>>
    BY TextJoined
  <2> HIDE DEF b
  <2> QED
    BY <2>1 DEF Begun
<1>4. Ahead(nodes, <<>>, <<>>, 0, 1) = <<>>
  <2>1. Numbers(nodes, <<>>, <<>>, 0) \in Seq(Int)
    BY DEF Numbers
  <2> QED
    BY <2>1, BeforeDef DEF Ahead, Waits
<1>5. <<>> = b[0] \o Ahead(nodes, <<>>, <<>>, 0, 1)
  BY <1>4
<1> HIDE DEF b
<1> QED
  BY <1>1, <1>2, <1>3, <1>5 DEF Engine

(***************************************************************************)
(* At a node that is not an end every range around has a pass begun, and   *)
(* what has been written is text.                                          *)
(***************************************************************************)
LEMMA EngineInside ==
    ASSUME NEW nodes, Len(nodes) \in Nat, WellNested(nodes), NEW h, NEW n, NEW d, NEW k, NEW b,
           Nesting(nodes, h, d, k), k \in 1..Len(nodes) + 1,
           Passing(nodes, h, n, d, k), Begun(nodes, h, n, d, b),
           k \in 1..Len(nodes) => nodes[k].op # "end"
    PROVE  /\ d \in Nat /\ ~Waits(n, d) /\ \A i \in 1..d : n[i] > 0
           /\ Numbers(nodes, h, n, d) \in Seq(Int)
           /\ Before(nodes)[k][Numbers(nodes, h, n, d)] \in Text
           /\ b[d] \in Text
<1>1. d \in Nat /\ h \in [1..d -> Ranges(nodes)] /\ n \in [1..d -> Nat]
  BY DEF Nesting, Passing
<1>2. ASSUME NEW i \in 1..d PROVE n[i] > 0
  <2>1. SUFFICES ASSUME n[i] = 0 PROVE FALSE
    BY <1>1
  <2>2. k = nodes[h[i]].end /\ h[i] \in Ranges(nodes)
    BY <1>1, <2>1 DEF Passing
  <2>3. k \in 1..Len(nodes) /\ nodes[k].op = "end"
    BY <2>2, RangeNodes
  <2> QED
    BY <2>3
<1>3. ~Waits(n, d)
  BY <1>1, <1>2 DEF Waits
<1>4. Numbers(nodes, h, n, d) \in Seq(Int)
  <2>1. d \in 0..d
    BY <1>1
  <2> QED
    BY <1>1, <2>1, NumbersType
<1>5. b[d] \in Text
  BY <1>1 DEF Begun
<1> QED
  BY <1>1, <1>2, <1>3, <1>4, <1>5, BeforeText

(***************************************************************************)
(* A node that writes, or one that does not, and goes on to the next.      *)
(***************************************************************************)
LEMMA EngineEmit ==
    ASSUME NEW nodes, Len(nodes) \in Nat, WellNested(nodes), NEW h, NEW n, NEW d, NEW out,
           NEW k \in 1..Len(nodes), nodes[k].op = "emit", Engine(nodes, h, n, d, k, out)
    PROVE  /\ Engine(nodes, h, n, d, k + 1, Append(out, Numbers(nodes, h, n, d)))
           /\ d \in Nat /\ \A i \in 1..d : n[i] > 0
<1>1. PICK b : Begun(nodes, h, n, d, b) /\ out = b[d] \o Ahead(nodes, h, n, d, k)
  BY DEF Engine
<1>2. PICK vals : vals = Numbers(nodes, h, n, d)
  OBVIOUS
<1>3. /\ d \in Nat /\ ~Waits(n, d) /\ \A i \in 1..d : n[i] > 0
      /\ vals \in Seq(Int) /\ Before(nodes)[k][vals] \in Text /\ b[d] \in Text
  BY <1>1, <1>2, EngineInside DEF Engine
<1>4. Nesting(nodes, h, d, k + 1)
  BY NestingNext DEF Engine
<1>5. Passing(nodes, h, n, d, k + 1)
  BY <1>3 DEF Engine, Passing
<1>6. Append(out, vals) = b[d] \o Ahead(nodes, h, n, d, k + 1)
  <2>1. out = b[d] \o Before(nodes)[k][vals]
    BY <1>1, <1>2, <1>3 DEF Ahead
  <2>2. Append(out, vals) = b[d] \o Append(Before(nodes)[k][vals], vals)
    BY <1>3, <2>1, TextJoined
  <2>3. Before(nodes)[k + 1][vals] = Append(Before(nodes)[k][vals], vals)
    BY <1>3, BeforeDef DEF BeforeNode
  <2> QED
    BY <1>2, <1>3, <2>2, <2>3 DEF Ahead
<1>7. k + 1 \in 1..Len(nodes) + 1
  OBVIOUS
<1> QED
  BY <1>1, <1>2, <1>3, <1>4, <1>5, <1>6, <1>7 DEF Engine

LEMMA EngineCall ==
    ASSUME NEW nodes, Len(nodes) \in Nat, WellNested(nodes), NEW h, NEW n, NEW d, NEW out,
           NEW k \in 1..Len(nodes), nodes[k].op = "call", Engine(nodes, h, n, d, k, out)
    PROVE  Engine(nodes, h, n, d, k + 1, out)
<1>1. PICK b : Begun(nodes, h, n, d, b) /\ out = b[d] \o Ahead(nodes, h, n, d, k)
  BY DEF Engine
<1>2. PICK vals : vals = Numbers(nodes, h, n, d)
  OBVIOUS
<1>3. /\ ~Waits(n, d) /\ \A i \in 1..d : n[i] > 0
      /\ vals \in Seq(Int)
  BY <1>1, <1>2, EngineInside DEF Engine
<1>4. Nesting(nodes, h, d, k + 1)
  BY NestingNext DEF Engine
<1>5. Passing(nodes, h, n, d, k + 1)
  BY <1>3 DEF Engine, Passing
<1>6. Ahead(nodes, h, n, d, k + 1) = Ahead(nodes, h, n, d, k)
  <2>1. Before(nodes)[k + 1][vals] = Before(nodes)[k][vals]
    BY <1>3, BeforeDef DEF BeforeNode
  <2> QED
    BY <1>2, <1>3, <2>1 DEF Ahead
<1>7. k + 1 \in 1..Len(nodes) + 1
  OBVIOUS
<1> QED
  BY <1>1, <1>4, <1>5, <1>6, <1>7 DEF Engine

(***************************************************************************)
(* At a range: it waits at its end, with no pass begun.                    *)
(***************************************************************************)
LEMMA EngineOpen ==
    ASSUME NEW nodes, Len(nodes) \in Nat, WellNested(nodes), NEW h, NEW n, NEW d, NEW out,
           NEW k \in 1..Len(nodes), nodes[k].op = "range", Engine(nodes, h, n, d, k, out)
    PROVE  /\ Engine(nodes, Extended(h, d, k), Extended(n, d, 0), d + 1, nodes[k].end, out)
           /\ d \in Nat /\ \A i \in 1..d : n[i] > 0
<1> DEFINE g == Extended(h, d, k)
           m == Extended(n, d, 0)
<1>1. PICK b : Begun(nodes, h, n, d, b) /\ out = b[d] \o Ahead(nodes, h, n, d, k)
  BY DEF Engine
<1>2. PICK vals : vals = Numbers(nodes, h, n, d)
  OBVIOUS
<1>3. /\ d \in Nat /\ ~Waits(n, d) /\ \A i \in 1..d : n[i] > 0
      /\ vals \in Seq(Int) /\ Before(nodes)[k][vals] \in Text /\ b[d] \in Text
  BY <1>1, <1>2, EngineInside DEF Engine
<1>4. Nesting(nodes, g, d + 1, nodes[k].end)
  BY NestingOpen DEF Engine
<1>5. k \in Ranges(nodes) /\ nodes[k].end \in 1..Len(nodes) + 1 /\ Passes(nodes[k]) \in Nat
  <2>1. k \in Ranges(nodes)
    BY RangeNodes
  <2> QED
    BY <2>1, RangeNodes, PassesType
<1>6. n \in [1..d -> Nat] /\ \A i \in 1..d : n[i] <= Passes(nodes[h[i]])
  BY DEF Engine, Passing
<1>7. /\ g[d + 1] = k /\ m[d + 1] = 0 /\ m \in [1..d + 1 -> Nat]
      /\ \A i \in 1..d : g[i] = h[i] /\ m[i] = n[i]
  BY <1>3, <1>6 DEF Extended
<1>8. d + 1 \in Nat /\ \A i : i \in 1..d + 1 <=> i \in 1..d \/ i = d + 1
  BY <1>3
<1> HIDE DEF g, m
<1>9. Passing(nodes, g, m, d + 1, nodes[k].end)
  <2>1. ASSUME NEW i \in 1..d + 1
        PROVE  /\ m[i] <= Passes(nodes[g[i]])
               /\ m[i] = 0 => i = d + 1 /\ nodes[k].end = nodes[g[i]].end
    <3>1. CASE i \in 1..d
      <4>1. g[i] = h[i] /\ m[i] = n[i]
        BY <1>7, <3>1
      <4>2. n[i] <= Passes(nodes[h[i]])
        BY <1>6, <3>1
      <4>3. n[i] # 0
        BY <1>3, <3>1
      <4> QED
        BY <4>1, <4>2, <4>3
    <3>2. CASE i = d + 1
      BY <1>5, <1>7, <3>2
    <3> QED
      BY <1>8, <3>1, <3>2
  <2> QED
    BY <1>7, <2>1 DEF Passing
<1> DEFINE c == [i \in 0..d + 1 |-> IF i = d + 1 THEN out ELSE b[i]]
<1>10. out = b[d] \o Part(nodes, g, m, d + 1)
  <2>1. out = b[d] \o Before(nodes)[k][vals]
    BY <1>1, <1>2, <1>3 DEF Ahead
  <2>2. Numbers(nodes, g, m, d) = vals
    <3>1. \A j \in 1..d : g[j] = h[j] /\ m[j] = n[j]
      BY <1>7
    <3>2. Numbers(nodes, g, m, d) = Numbers(nodes, h, n, d)
      BY <3>1, NumbersSame
    <3> QED
      BY <1>2, <3>2
  <2>3. Repeated(Before(nodes)[nodes[k].end], vals, nodes[k])[0] = <<>>
    BY <1>3, <1>5, BeforeText DEF WritesPasses
  <2>4. d + 1 - 1 = d /\ Whole(m[d + 1]) = 0
    BY <1>3, <1>7 DEF Whole
  <2>5. Part(nodes, g, m, d + 1) = Before(nodes)[k][vals] \o <<>>
    <3>1. PICK i : i = d + 1
      OBVIOUS
    <3>2. /\ g[i] = k /\ Numbers(nodes, g, m, i - 1) = vals /\ Whole(m[i]) = 0
      <4>1. i - 1 = d
        BY <1>3, <3>1
      <4>2. g[i] = k /\ Whole(m[i]) = 0
        BY <1>7, <2>4, <3>1
      <4> QED
        BY <2>2, <4>1, <4>2
    <3>3. Part(nodes, g, m, i) = Before(nodes)[k][vals] \o <<>>
      BY <2>3, <3>2 DEF Part
    <3> QED
      BY <3>1, <3>3
  <2>6. Before(nodes)[k][vals] \o <<>> = Before(nodes)[k][vals]
    BY <1>3, TextJoined
  <2> QED
    BY <2>1, <2>5, <2>6
<1>11. out \in Text
  <2>1. Part(nodes, g, m, d + 1) \in Text
    BY <1>4, <1>8, <1>9, PartType
  <2> QED
    BY <1>3, <1>10, <2>1, TextJoined
<1>12. /\ b \in [0..d -> Text] /\ b[0] = <<>>
       /\ \A i \in 1..d : b[i] = b[i - 1] \o Part(nodes, h, n, i)
  BY <1>1 DEF Begun
<1>13. c \in [0..d + 1 -> Text] /\ c[d + 1] = out /\ \A i \in 0..d : c[i] = b[i]
  BY <1>3, <1>11, <1>12
<1> HIDE DEF c
<1>14. Begun(nodes, g, m, d + 1, c)
  <2>1. c[0] = <<>>
    BY <1>3, <1>12, <1>13
  <2>2. ASSUME NEW i \in 1..d PROVE c[i] = c[i - 1] \o Part(nodes, g, m, i)
    <3>1. Part(nodes, h, n, i) = Part(nodes, g, m, i)
      <4>1. i \in Nat /\ i > 0 /\ \A j \in 1..i : h[j] = g[j] /\ n[j] = m[j]
        BY <1>3, <1>7
      <4> QED
        BY <4>1, PartSame
    <3>2. c[i] = b[i] /\ c[i - 1] = b[i - 1]
      BY <1>3, <1>13
    <3> QED
      BY <1>12, <3>1, <3>2
  <2>3. c[d + 1] = c[d] \o Part(nodes, g, m, d + 1)
    <3>1. d \in 0..d
      BY <1>3
    <3> QED
      BY <1>10, <1>13, <3>1
  <2>4. \A i \in 1..d + 1 : c[i] = c[i - 1] \o Part(nodes, g, m, i)
    <3> SUFFICES ASSUME NEW i \in 1..d + 1 PROVE c[i] = c[i - 1] \o Part(nodes, g, m, i)
      OBVIOUS
    <3>1. CASE i \in 1..d
      BY <2>2, <3>1
    <3>2. CASE i = d + 1
      <4>1. i - 1 = d
        BY <1>3, <3>2
      <4>2. c[i] = c[d] \o Part(nodes, g, m, i)
        BY <2>3, <3>2, Zenon
      <4> QED
        BY <4>1, <4>2
    <3> QED
      BY <1>8, <3>1, <3>2
  <2> QED
    BY <1>13, <2>1, <2>4 DEF Begun
<1>15. out = c[d + 1] \o Ahead(nodes, g, m, d + 1, nodes[k].end)
  <2>1. Ahead(nodes, g, m, d + 1, nodes[k].end) = <<>>
    BY <1>3, <1>7 DEF Ahead, Waits
  <2> QED
    BY <1>11, <1>13, <2>1, TextJoined
<1>16. Engine(nodes, g, m, d + 1, nodes[k].end, out)
  BY <1>4, <1>5, <1>9, <1>14, <1>15 DEF Engine
<1> QED
  BY <1>3, <1>16 DEF g, m

(***************************************************************************)
(* At the end of a range, the passes begun are complete: the range has     *)
(* written that for as many of its numbers.                                *)
(***************************************************************************)
Passed(nodes, h, n, d, k, b, vals) ==
    /\ d \in Nat /\ d > 0 /\ d \in 1..d /\ h[d] = nodes[k].head
    /\ h[d] \in Ranges(nodes) /\ nodes[h[d]].end = k /\ vals \in Seq(Int)
    /\ n[d] \in Nat /\ n[d] <= Passes(nodes[h[d]])
    /\ \A i \in 1..d - 1 : n[i] > 0
    /\ b[d - 1] \in Text
    /\ Before(nodes)[h[d]][vals] \o
            Repeated(Before(nodes)[k], vals, nodes[h[d]])[n[d]] \in Text
    /\ b[d] \o Ahead(nodes, h, n, d, k) =
            b[d - 1] \o (Before(nodes)[h[d]][vals] \o
                Repeated(Before(nodes)[k], vals, nodes[h[d]])[n[d]])

LEMMA EnginePassed ==
    ASSUME NEW nodes, Len(nodes) \in Nat, WellNested(nodes), NEW h, NEW n, NEW d, NEW b,
           NEW k \in 1..Len(nodes), nodes[k].op = "end",
           Nesting(nodes, h, d, k), Passing(nodes, h, n, d, k), Begun(nodes, h, n, d, b),
           NEW vals, vals = Numbers(nodes, h, n, d - 1)
    PROVE  Passed(nodes, h, n, d, k, b, vals)
<1>1. /\ d \in Nat /\ d > 0 /\ d \in 1..d /\ h[d] = nodes[k].head
  BY NestingInnermost
<1>2. h[d] \in Ranges(nodes) /\ nodes[h[d]].end = k /\ h \in [1..d -> Ranges(nodes)]
  BY <1>1, RangeNodes DEF Nesting
<1>3. /\ n \in [1..d -> Nat] /\ n[d] \in Nat /\ n[d] <= Passes(nodes[h[d]])
      /\ \A i \in 1..d - 1 : n[i] > 0
  BY <1>1 DEF Passing
<1>4. vals \in Seq(Int)
  <2>1. d - 1 \in 0..d
    BY <1>1
  <2> QED
    BY <1>1, <1>2, <1>3, <2>1, NumbersType
<1>5. b[d - 1] \in Text /\ b[d] = b[d - 1] \o Part(nodes, h, n, d)
  <2>1. d - 1 \in 0..d
    BY <1>1
  <2> QED
    BY <1>1, <2>1 DEF Begun
<1>6. PICK head, after, x : /\ head = Before(nodes)[h[d]][vals]
                            /\ after = Repeated(Before(nodes)[k], vals, nodes[h[d]])
                            /\ x = n[d]
  OBVIOUS
<1>7. /\ \A m \in 0..Passes(nodes[h[d]]) : after[m] \in Text
      /\ after[0] = <<>>
      /\ \A m \in 1..Passes(nodes[h[d]]) :
            after[m] = after[m - 1] \o
                Before(nodes)[k][Append(vals, nodes[h[d]].from + m - 1)]
  <2>1. PICK j : j = h[d]
    OBVIOUS
  <2>2. /\ j \in Ranges(nodes) /\ nodes[j].end = k
        /\ after = Repeated(Before(nodes)[nodes[j].end], vals, nodes[j])
    BY <1>2, <1>6, <2>1
  <2>3. WritesPasses(nodes, j, vals, after)
    BY <1>4, <2>2, BeforeText
  <2> QED
    BY <2>1, <2>2, <2>3 DEF WritesPasses
<1>8. head \in Text
  <2>1. h[d] \in 1..Len(nodes) + 1
    BY <1>2 DEF Ranges
  <2> QED
    BY <1>4, <1>6, <2>1, BeforeText
<1>9. Passes(nodes[h[d]]) \in Nat /\ x \in Nat /\ x \in 0..Passes(nodes[h[d]]) /\ after[x] \in Text
  <2>1. Passes(nodes[h[d]]) \in Nat
    BY <1>2, RangeNodes, PassesType
  <2> QED
    BY <1>3, <1>6, <1>7, <2>1, SMTT(30)
<1>10. b[d] = b[d - 1] \o (head \o after[Whole(x)])
  BY <1>2, <1>5, <1>6 DEF Part
<1>11. b[d] \o Ahead(nodes, h, n, d, k) = b[d - 1] \o (head \o after[x])
  <2>1. CASE x = 0
    <3>1. Ahead(nodes, h, n, d, k) = <<>> /\ Whole(x) = x
      BY <1>1, <1>6, <2>1 DEF Ahead, Waits, Whole
    <3>2. b[d] \in Text
      BY <1>1 DEF Begun
    <3> QED
      BY <1>10, <3>1, <3>2, TextJoined
  <2>2. CASE x > 0
    <3>1. PICK e : e = Before(nodes)[k][Numbers(nodes, h, n, d)]
      OBVIOUS
    <3>2. Ahead(nodes, h, n, d, k) = e /\ Whole(x) = x - 1
      BY <1>6, <2>2, <3>1 DEF Ahead, Waits, Whole
    <3>3. after[x] = after[x - 1] \o e
      <4>1. Append(vals, nodes[h[d]].from + x - 1) = Numbers(nodes, h, n, d)
        BY <1>1, <1>2, <1>3, <1>6, NumbersNext
      <4>2. x \in 1..Passes(nodes[h[d]])
        BY <1>9, <2>2
      <4> QED
        BY <1>7, <3>1, <4>1, <4>2
    <3>4. e \in Text /\ after[x - 1] \in Text
      <4>1. Numbers(nodes, h, n, d) \in Seq(Int)
        <5>1. d \in 0..d
          BY <1>1
        <5> QED
          BY <1>1, <1>2, <1>3, <5>1, NumbersType
      <4>2. k \in 1..Len(nodes) + 1 /\ x - 1 \in 0..Passes(nodes[h[d]])
        BY <1>9, <2>2
      <4> QED
        BY <1>7, <3>1, <4>1, <4>2, BeforeText
    <3>5. head \o after[x - 1] \in Text
      BY <1>8, <3>4, TextJoined
    <3>6. (b[d - 1] \o (head \o after[x - 1])) \o e = b[d - 1] \o ((head \o after[x - 1]) \o e)
      BY <1>5, <3>4, <3>5, TextJoined
    <3>7. (head \o after[x - 1]) \o e = head \o after[x]
      <4>1. (head \o after[x - 1]) \o e = head \o (after[x - 1] \o e)
        BY <1>8, <3>4, TextJoined
      <4> QED
        BY <3>3, <4>1
    <3> QED
      BY <1>10, <3>2, <3>6, <3>7
  <2>3. x = 0 \/ x > 0
    BY <1>9
  <2> QED
    BY <2>1, <2>2, <2>3
<1>12. head \o after[x] \in Text
  BY <1>8, <1>9, TextJoined
<1> QED
  BY <1>1, <1>2, <1>3, <1>4, <1>5, <1>6, <1>11, <1>12 DEF Passed

(***************************************************************************)
(* The next pass through a range.                                          *)
(***************************************************************************)
LEMMA EngineAgain ==
    ASSUME NEW nodes, Len(nodes) \in Nat, WellNested(nodes), NEW h, NEW n, NEW d, NEW out,
           NEW k \in 1..Len(nodes), nodes[k].op = "end", Engine(nodes, h, n, d, k, out),
           n[d] < Passes(nodes[h[d]])
    PROVE  Engine(nodes, h, [n EXCEPT ![d] = n[d] + 1], d, nodes[k].head + 1, out)
<1> DEFINE m == [n EXCEPT ![d] = n[d] + 1]
<1>1. PICK b : Begun(nodes, h, n, d, b) /\ out = b[d] \o Ahead(nodes, h, n, d, k)
  BY DEF Engine
<1>2. PICK vals, head, after : /\ vals = Numbers(nodes, h, n, d - 1)
                               /\ head = Before(nodes)[h[d]][vals]
                               /\ after = Repeated(Before(nodes)[k], vals, nodes[h[d]])
  OBVIOUS
<1>3. /\ d \in Nat /\ d > 0 /\ d \in 1..d /\ h[d] = nodes[k].head
      /\ h[d] \in Ranges(nodes) /\ nodes[h[d]].end = k
      /\ n[d] \in Nat /\ \A i \in 1..d - 1 : n[i] > 0
      /\ b[d - 1] \in Text /\ head \o after[n[d]] \in Text
      /\ out = b[d - 1] \o (head \o after[n[d]])
  <2>1. Nesting(nodes, h, d, k) /\ Passing(nodes, h, n, d, k)
    BY DEF Engine
  <2>2. Passed(nodes, h, n, d, k, b, vals)
    BY <1>1, <1>2, <2>1, EnginePassed
  <2> QED
    BY <1>1, <1>2, <2>2 DEF Passed
<1>4. Nesting(nodes, h, d, nodes[k].head + 1)
  BY NestingAgain DEF Engine
<1>5. nodes[k].head + 1 \in 1..Len(nodes) + 1
  BY <1>3 DEF Ranges
<1>6. n \in [1..d -> Nat] /\ \A i \in 1..d : n[i] <= Passes(nodes[h[i]])
  BY DEF Engine, Passing
<1>7. Passes(nodes[h[d]]) \in Nat
  BY <1>3, RangeNodes, PassesType
<1>8. m \in [1..d -> Nat] /\ m[d] = n[d] + 1 /\ \A i \in 1..d - 1 : m[i] = n[i]
  BY <1>3, <1>6
<1>9. \A i : i \in 1..d <=> i \in 1..d - 1 \/ i = d
  BY <1>3
<1> HIDE DEF m
<1>10. Passing(nodes, h, m, d, nodes[k].head + 1)
  <2>1. ASSUME NEW i \in 1..d PROVE m[i] <= Passes(nodes[h[i]]) /\ m[i] # 0
    <3>1. CASE i \in 1..d - 1
      <4>1. m[i] = n[i] /\ n[i] > 0 /\ n[i] \in Nat /\ n[i] <= Passes(nodes[h[i]])
        BY <1>3, <1>6, <1>8, <3>1
      <4> QED
        BY <4>1
    <3>2. CASE i = d
      BY <1>3, <1>7, <1>8, <3>2
    <3> QED
      BY <1>9, <3>1, <3>2
  <2> QED
    BY <1>8, <2>1 DEF Passing
<1>11. out = b[d - 1] \o Part(nodes, h, m, d)
  <2>1. Numbers(nodes, h, m, d - 1) = vals
    <3>1. Numbers(nodes, h, m, d - 1) = Numbers(nodes, h, n, d - 1)
      <4>1. \A j \in 1..d - 1 : h[j] = h[j] /\ m[j] = n[j]
        BY <1>8
      <4> QED
        BY <4>1, NumbersSame
    <3> QED
      BY <1>2, <3>1
  <2>2. Whole(m[d]) = n[d]
    BY <1>3, <1>8 DEF Whole
  <2>3. Part(nodes, h, m, d) = head \o after[n[d]]
    BY <1>2, <1>3, <2>1, <2>2 DEF Part
  <2> QED
    BY <1>3, <2>3
<1>12. out \in Text
  BY <1>3, TextJoined
<1> DEFINE c == [i \in 0..d |-> IF i = d THEN out ELSE b[i]]
<1>13. /\ b \in [0..d -> Text] /\ b[0] = <<>>
       /\ \A i \in 1..d : b[i] = b[i - 1] \o Part(nodes, h, n, i)
  BY <1>1 DEF Begun
<1>14. c \in [0..d -> Text] /\ c[d] = out /\ \A i \in 0..d - 1 : c[i] = b[i]
  <2>1. \A i \in 0..d - 1 : i \in 0..d /\ i # d
    BY <1>3
  <2>2. d \in 0..d
    BY <1>3
  <2> QED
    BY <1>12, <1>13, <2>1, <2>2
<1> HIDE DEF c
<1>15. Begun(nodes, h, m, d, c)
  <2>1. c[0] = <<>>
    BY <1>3, <1>13, <1>14
  <2>2. ASSUME NEW i \in 1..d - 1 PROVE c[i] = c[i - 1] \o Part(nodes, h, m, i)
    <3>1. Part(nodes, h, n, i) = Part(nodes, h, m, i)
      <4>1. i \in Nat /\ i > 0 /\ \A j \in 1..i : h[j] = h[j] /\ n[j] = m[j]
        BY <1>3, <1>8
      <4> QED
        BY <4>1, PartSame
    <3>2. c[i] = b[i] /\ c[i - 1] = b[i - 1]
      BY <1>3, <1>14
    <3>3. b[i] = b[i - 1] \o Part(nodes, h, n, i)
      BY <1>9, <1>13
    <3> QED
      BY <3>1, <3>2, <3>3
  <2>3. c[d] = c[d - 1] \o Part(nodes, h, m, d)
    <3>1. d - 1 \in 0..d - 1
      BY <1>3
    <3> QED
      BY <1>11, <1>14, <3>1
  <2>4. \A i \in 1..d : c[i] = c[i - 1] \o Part(nodes, h, m, i)
    BY <1>9, <2>2, <2>3, Zenon
  <2> QED
    BY <1>14, <2>1, <2>4 DEF Begun
<1>16. out = c[d] \o Ahead(nodes, h, m, d, nodes[k].head + 1)
  <2>1. ~Waits(m, d)
    BY <1>3, <1>8 DEF Waits
  <2>2. Numbers(nodes, h, m, d) \in Seq(Int)
    <3>1. h \in [1..d -> Ranges(nodes)] /\ d \in 0..d
      BY <1>3, <1>4 DEF Nesting
    <3> QED
      BY <1>3, <1>8, <3>1, NumbersType
  <2>3. h[d] \in 1..Len(nodes) /\ nodes[h[d]].op = "range"
    BY <1>3 DEF Ranges
  <2>4. Before(nodes)[h[d] + 1][Numbers(nodes, h, m, d)] = <<>>
    BY <2>2, <2>3, BeforeDef DEF BeforeNode
  <2>5. Ahead(nodes, h, m, d, nodes[k].head + 1) = <<>>
    BY <1>3, <2>1, <2>4 DEF Ahead
  <2> QED
    BY <1>12, <1>14, <2>5, TextJoined
<1>17. Engine(nodes, h, m, d, nodes[k].head + 1, out)
  BY <1>4, <1>5, <1>10, <1>15, <1>16 DEF Engine
<1> QED
  BY <1>17 DEF m

(***************************************************************************)
(* After the last pass.                                                    *)
(***************************************************************************)
LEMMA EngineClose ==
    ASSUME NEW nodes, Len(nodes) \in Nat, WellNested(nodes), NEW h, NEW n, NEW d, NEW out,
           NEW k \in 1..Len(nodes), nodes[k].op = "end", Engine(nodes, h, n, d, k, out),
           n[d] = Passes(nodes[h[d]])
    PROVE  Engine(nodes, Shortened(h, d), Shortened(n, d), d - 1, k + 1, out)
<1> DEFINE g == Shortened(h, d)
           m == Shortened(n, d)
<1>1. PICK b : Begun(nodes, h, n, d, b) /\ out = b[d] \o Ahead(nodes, h, n, d, k)
  BY DEF Engine
<1>2. PICK vals, head, after : /\ vals = Numbers(nodes, h, n, d - 1)
                               /\ head = Before(nodes)[h[d]][vals]
                               /\ after = Repeated(Before(nodes)[k], vals, nodes[h[d]])
  OBVIOUS
<1>3. /\ d \in Nat /\ d > 0 /\ d \in 1..d /\ h[d] = nodes[k].head
      /\ h[d] \in Ranges(nodes) /\ nodes[h[d]].end = k /\ vals \in Seq(Int)
      /\ n[d] \in Nat /\ \A i \in 1..d - 1 : n[i] > 0
      /\ b[d - 1] \in Text /\ head \o after[n[d]] \in Text
      /\ out = b[d - 1] \o (head \o after[n[d]])
  <2>1. Nesting(nodes, h, d, k) /\ Passing(nodes, h, n, d, k)
    BY DEF Engine
  <2>2. Passed(nodes, h, n, d, k, b, vals)
    BY <1>1, <1>2, <2>1, EnginePassed
  <2> QED
    BY <1>1, <1>2, <2>2 DEF Passed
<1>4. Nesting(nodes, g, d - 1, k + 1)
  BY NestingClose DEF Engine
<1>5. k + 1 \in 1..Len(nodes) + 1 /\ d - 1 \in Nat
  BY <1>3, SMTT(30)
<1>6. n \in [1..d -> Nat] /\ \A i \in 1..d : n[i] <= Passes(nodes[h[i]])
  BY DEF Engine, Passing
<1>7. m \in [1..d - 1 -> Nat] /\ \A i \in 1..d - 1 : g[i] = h[i] /\ m[i] = n[i]
  BY <1>3, <1>6, SMTT(30) DEF Shortened
<1>8. \A i \in 1..d - 1 : i \in 1..d
  BY <1>3, SMTT(30)
<1> HIDE DEF g, m
<1>9. Passing(nodes, g, m, d - 1, k + 1)
  <2>1. ASSUME NEW i \in 1..d - 1 PROVE m[i] <= Passes(nodes[g[i]]) /\ m[i] # 0
    <3>1. m[i] = n[i] /\ g[i] = h[i] /\ n[i] > 0 /\ n[i] \in Nat
          /\ n[i] <= Passes(nodes[h[i]])
      BY <1>3, <1>6, <1>7, <1>8
    <3> QED
      BY <3>1
  <2> QED
    BY <1>7, <2>1 DEF Passing
<1> DEFINE c == [i \in 0..d - 1 |-> b[i]]
<1>10. /\ b \in [0..d -> Text] /\ b[0] = <<>>
       /\ \A i \in 1..d : b[i] = b[i - 1] \o Part(nodes, h, n, i)
  BY <1>1 DEF Begun
<1>11. c \in [0..d - 1 -> Text] /\ \A i \in 0..d - 1 : c[i] = b[i]
  BY <1>3, <1>10, SMTT(30)
<1> HIDE DEF c
<1>12. Begun(nodes, g, m, d - 1, c)
  <2>1. c[0] = <<>>
    BY <1>3, <1>10, <1>11, SMTT(30)
  <2>2. ASSUME NEW i \in 1..d - 1 PROVE c[i] = c[i - 1] \o Part(nodes, g, m, i)
    <3>1. Part(nodes, h, n, i) = Part(nodes, g, m, i)
      <4>1. i \in Nat /\ i > 0 /\ \A j \in 1..i : h[j] = g[j] /\ n[j] = m[j]
        BY <1>3, <1>7, SMTT(30)
      <4> QED
        BY <4>1, PartSame
    <3>2. c[i] = b[i] /\ c[i - 1] = b[i - 1]
      BY <1>3, <1>11, SMTT(30)
    <3>3. b[i] = b[i - 1] \o Part(nodes, h, n, i)
      BY <1>8, <1>10
    <3> QED
      BY <3>1, <3>2, <3>3
  <2> QED
    BY <1>11, <2>1, <2>2 DEF Begun
<1>13. out = c[d - 1] \o Ahead(nodes, g, m, d - 1, k + 1)
  <2>1. ~Waits(m, d - 1)
    <3>1. CASE d - 1 > 0
      <4>1. d - 1 \in 1..d - 1
        BY <1>3, <3>1, SMTT(30)
      <4>2. m[d - 1] = n[d - 1] /\ n[d - 1] > 0
        BY <1>3, <1>7, <4>1
      <4> QED
        BY <4>2 DEF Waits
    <3>2. CASE ~(d - 1 > 0)
      BY <3>2 DEF Waits
    <3> QED
      BY <3>1, <3>2
  <2>2. Numbers(nodes, g, m, d - 1) = vals
    <3>1. Numbers(nodes, g, m, d - 1) = Numbers(nodes, h, n, d - 1)
      <4>1. \A j \in 1..d - 1 : g[j] = h[j] /\ m[j] = n[j]
        BY <1>7
      <4> QED
        BY <4>1, NumbersSame
    <3> QED
      BY <1>2, <3>1
  <2>3. Before(nodes)[k + 1][vals] = head \o after[n[d]]
    <3>1. BeforeNode(nodes, Before(nodes), k, vals)
      BY <1>3, BeforeDef
    <3> QED
      BY <1>2, <1>3, <3>1 DEF BeforeNode
  <2>4. Ahead(nodes, g, m, d - 1, k + 1) = head \o after[n[d]]
    BY <2>1, <2>2, <2>3 DEF Ahead
  <2>5. c[d - 1] = b[d - 1]
    BY <1>5, <1>11
  <2> QED
    BY <1>3, <2>4, <2>5
<1>14. Engine(nodes, g, m, d - 1, k + 1, out)
  BY <1>4, <1>5, <1>9, <1>12, <1>13 DEF Engine
<1> QED
  BY <1>14 DEF g, m

(***************************************************************************)
(* At the end of the template everything has been written.                 *)
(***************************************************************************)
LEMMA EngineEnd ==
    ASSUME NEW nodes, Len(nodes) \in Nat, WellNested(nodes), NEW h, NEW n, NEW d, NEW out,
           Engine(nodes, h, n, d, Len(nodes) + 1, out)
    PROVE  d = 0 /\ out = Written(nodes)
<1>1. PICK b : /\ Begun(nodes, h, n, d, b)
               /\ out = b[d] \o Ahead(nodes, h, n, d, Len(nodes) + 1)
  BY DEF Engine
<1>2. d = 0
  BY NestingEnd DEF Engine
<1>3. b[d] = <<>>
  BY <1>1, <1>2 DEF Begun
<1>4. Numbers(nodes, h, n, d) = <<>> /\ <<>> \in Seq(Int)
  BY <1>2 DEF Numbers
<1>5. Ahead(nodes, h, n, d, Len(nodes) + 1) = Written(nodes)
  BY <1>2, <1>4 DEF Ahead, Waits, Written
<1>6. Written(nodes) \in Text
  <2>1. Len(nodes) + 1 \in 1..Len(nodes) + 1
    OBVIOUS
  <2> QED
    BY <1>4, <2>1, BeforeText DEF Written
<1>7. <<>> \o Written(nodes) = Written(nodes)
  BY <1>6 DEF Text
<1> QED
  BY <1>1, <1>2, <1>3, <1>5, <1>7
-----------------------------------------------------------------------------
(***************************************************************************)
(* The channels: a sender closes its own after its last number.            *)
(***************************************************************************)
SenderType == [next: Int, last: Int, closed: BOOLEAN]
RangeType == [channel: Nat, value: Int]
ChannelsInv ==
    /\ senders \in Seq(SenderType)
    /\ ranges \in Seq(RangeType)
    /\ \A c \in 1..Len(senders) : senders[c].closed => senders[c].next > senders[c].last

(***************************************************************************)
(* A sender has sent one number for each pass begun through its range; the *)
(* range has the last of them.                                             *)
(***************************************************************************)
Follows(nodes, h, n) ==
    /\ \A i \in 1..Len(ranges) :
          LET c == ranges[i].channel
          IN  /\ c \in 1..Len(senders)
              /\ senders[c].last = nodes[h[i]].to
              /\ senders[c].next = nodes[h[i]].from + n[i]
              /\ n[i] > 0 => ranges[i].value = nodes[h[i]].from + n[i] - 1
    /\ \A i, j \in 1..Len(ranges) : ranges[i].channel = ranges[j].channel => i = j
Executing(nodes) ==
    \E h, n : Engine(nodes, h, n, Len(ranges), at, output) /\ Follows(nodes, h, n)

(***************************************************************************)
(* A sender whose range is not open has sent all its numbers.              *)
(***************************************************************************)
Finished ==
    \A c \in 1..Len(senders) :
        senders[c].next > senders[c].last \/ \E i \in 1..Len(ranges) : ranges[i].channel = c

Rendering(nodes) ==
    /\ ChannelsInv
    /\ phase = "search" => ranges = <<>>
    /\ phase = "execute" => Executing(nodes)
    /\ phase = "decode" => ranges = <<>> /\ output = Written(nodes)
    /\ phase \in {"search", "execute", "decode"} => Finished

(***************************************************************************)
(* The steps of the engine.                                                *)
(***************************************************************************)
LEMMA RenderEmit ==
    ASSUME NEW nodes, Len(nodes) \in Nat, WellNested(nodes), Rendering(nodes),
           Program = nodes, Emit
    PROVE  Rendering(nodes)'
<1>1. PICK h, n : Engine(nodes, h, n, Len(ranges), at, output) /\ Follows(nodes, h, n)
  BY DEF Emit, Executes, Rendering, Executing
<1>2. PICK d : d = Len(ranges)
  OBVIOUS
<1>3. at \in 1..Len(nodes) /\ nodes[at].op = "emit"
  <2>1. at \in 1..Len(nodes) + 1 /\ at <= Len(nodes)
    BY <1>1 DEF Engine, Emit, Executes
  <2> QED
    BY <2>1 DEF Emit, Executes, Node
<1>4. /\ Engine(nodes, h, n, d, at + 1, Append(output, Numbers(nodes, h, n, d)))
      /\ d \in Nat /\ \A i \in 1..d : n[i] > 0
  BY <1>1, <1>2, <1>3, EngineEmit
<1>5. Numbers(nodes, h, n, d) = [i \in DOMAIN ranges |-> ranges[i].value]
  <2>1. DOMAIN ranges = 1..d
    BY <1>2 DEF Rendering, ChannelsInv
  <2>2. \A i \in 1..d : ranges[i].value = nodes[h[i]].from + n[i] - 1
    BY <1>1, <1>2, <1>4 DEF Follows
  <2> QED
    BY <2>1, <2>2 DEF Numbers
<1>6. /\ phase = "execute" /\ UNCHANGED <<ranges, senders, phase>>
      /\ at' = at + 1 /\ output' = Append(output, Numbers(nodes, h, n, d))
  BY <1>5 DEF Emit, Executes
<1>7. Executing(nodes)'
  BY <1>1, <1>2, <1>4, <1>6 DEF Executing, Follows
<1> QED
  BY <1>6, <1>7 DEF Rendering, ChannelsInv, Finished

LEMMA RenderCall ==
    ASSUME NEW nodes, Len(nodes) \in Nat, WellNested(nodes), Rendering(nodes),
           Program = nodes, Call
    PROVE  Rendering(nodes)'
<1>1. PICK h, n : Engine(nodes, h, n, Len(ranges), at, output) /\ Follows(nodes, h, n)
  BY DEF Call, Executes, Rendering, Executing
<1>2. at \in 1..Len(nodes) /\ nodes[at].op = "call"
  <2>1. at \in 1..Len(nodes) + 1 /\ at <= Len(nodes)
    BY <1>1 DEF Engine, Call, Executes
  <2> QED
    BY <2>1 DEF Call, Executes, Node
<1>3. Engine(nodes, h, n, Len(ranges), at + 1, output)
  BY <1>1, <1>2, EngineCall
<1>4. phase = "execute" /\ UNCHANGED <<ranges, senders, phase, output>> /\ at' = at + 1
  BY DEF Call, Executes
<1>5. Executing(nodes)'
  BY <1>1, <1>3, <1>4 DEF Executing, Follows
<1> QED
  BY <1>4, <1>5 DEF Rendering, ChannelsInv, Finished

(***************************************************************************)
(* A range and its sender.                                                 *)
(***************************************************************************)
LEMMA RenderOpenRange ==
    ASSUME NEW nodes, Len(nodes) \in Nat, WellNested(nodes), Rendering(nodes),
           Program = nodes, OpenRange
    PROVE  Rendering(nodes)'
<1>1. PICK h, n : Engine(nodes, h, n, Len(ranges), at, output) /\ Follows(nodes, h, n)
  BY DEF OpenRange, Executes, Rendering, Executing
<1>2. PICK d, N : d = Len(ranges) /\ N = Len(senders)
  OBVIOUS
<1>3. at \in 1..Len(nodes) /\ nodes[at].op = "range"
  <2>1. at \in 1..Len(nodes) + 1 /\ at <= Len(nodes)
    BY <1>1 DEF Engine, OpenRange, Executes
  <2> QED
    BY <2>1 DEF OpenRange, Executes, Node
<1>4. PICK g, m : g = Extended(h, d, at) /\ m = Extended(n, d, 0)
  OBVIOUS
<1>5. /\ Engine(nodes, g, m, d + 1, nodes[at].end, output)
      /\ d \in Nat /\ \A i \in 1..d : n[i] > 0
  BY <1>1, <1>2, <1>3, <1>4, EngineOpen
<1>6. /\ g[d + 1] = at /\ m[d + 1] = 0
      /\ \A i \in 1..d : g[i] = h[i] /\ m[i] = n[i]
  BY <1>4, <1>5 DEF Extended
<1>7. nodes[at].from \in Int /\ nodes[at].to \in Int
  BY <1>3, RangeNodes
<1>8. PICK x, y : /\ x = [next |-> nodes[at].from, last |-> nodes[at].to, closed |-> FALSE]
                  /\ y = [channel |-> N + 1, value |-> 0]
  OBVIOUS
<1>9. /\ phase = "execute" /\ UNCHANGED <<phase, output>> /\ at' = nodes[at].end
      /\ senders' = Append(senders, x) /\ ranges' = Append(ranges, y)
  BY <1>2, <1>8 DEF OpenRange, Executes, Sender, Node
<1>10. senders \in Seq(SenderType) /\ ranges \in Seq(RangeType) /\ N \in Nat
  BY <1>2 DEF Rendering, ChannelsInv
<1>11. x \in SenderType /\ y \in RangeType
  BY <1>7, <1>8, <1>10 DEF SenderType, RangeType
<1>12. /\ senders' \in Seq(SenderType) /\ Len(senders') = N + 1 /\ senders'[N + 1] = x
       /\ \A c \in 1..N : senders'[c] = senders[c]
  BY <1>2, <1>9, <1>10, <1>11
<1>13. /\ ranges' \in Seq(RangeType) /\ Len(ranges') = d + 1 /\ ranges'[d + 1] = y
       /\ \A i \in 1..d : ranges'[i] = ranges[i]
  BY <1>2, <1>9, <1>10, <1>11
<1>14. /\ \A i : i \in 1..d + 1 <=> i \in 1..d \/ i = d + 1
       /\ \A c : c \in 1..N + 1 <=> c \in 1..N \/ c = N + 1
  BY <1>5, <1>10
<1>15. ChannelsInv'
  <2>1. \A c \in 1..N : senders[c].closed => senders[c].next > senders[c].last
    BY <1>2 DEF Rendering, ChannelsInv
  <2> QED
    BY <1>8, <1>12, <1>13, <1>14, <2>1 DEF ChannelsInv
<1>16. Follows(nodes, g, m)'
  <2>1. ASSUME NEW i \in 1..d
        PROVE  /\ ranges'[i].channel \in 1..N
               /\ senders'[ranges'[i].channel].last = nodes[g[i]].to
               /\ senders'[ranges'[i].channel].next = nodes[g[i]].from + m[i]
               /\ m[i] > 0 => ranges'[i].value = nodes[g[i]].from + m[i] - 1
    <3>1. g[i] = h[i] /\ m[i] = n[i] /\ ranges'[i] = ranges[i]
      BY <1>6, <1>13
    <3>2. PICK c : c = ranges[i].channel
      OBVIOUS
    <3>3. /\ c \in 1..N /\ senders[c].last = nodes[h[i]].to
          /\ senders[c].next = nodes[h[i]].from + n[i]
          /\ n[i] > 0 => ranges[i].value = nodes[h[i]].from + n[i] - 1
      BY <1>1, <1>2, <3>2 DEF Follows
    <3>4. senders'[c] = senders[c]
      BY <1>12, <3>3
    <3> QED
      BY <3>1, <3>2, <3>3, <3>4
  <2>2. /\ ranges'[d + 1].channel = N + 1
        /\ senders'[N + 1].last = nodes[g[d + 1]].to
        /\ senders'[N + 1].next = nodes[g[d + 1]].from + m[d + 1]
        /\ ~(m[d + 1] > 0)
    BY <1>6, <1>7, <1>8, <1>12, <1>13
  <2>3. \A i, j \in 1..d : ranges'[i].channel = ranges'[j].channel => i = j
    BY <1>1, <1>2, <1>13 DEF Follows
  <2>4. ASSUME NEW i \in 1..d + 1
        PROVE  /\ ranges'[i].channel \in 1..N + 1
               /\ senders'[ranges'[i].channel].last = nodes[g[i]].to
               /\ senders'[ranges'[i].channel].next = nodes[g[i]].from + m[i]
               /\ m[i] > 0 => ranges'[i].value = nodes[g[i]].from + m[i] - 1
    <3>1. CASE i \in 1..d
      BY <1>14, <2>1, <3>1
    <3>2. CASE i = d + 1
      BY <1>14, <2>2, <3>2, Zenon
    <3> QED
      BY <1>14, <3>1, <3>2
  <2>5. ASSUME NEW i \in 1..d + 1, NEW j \in 1..d + 1, ranges'[i].channel = ranges'[j].channel
        PROVE  i = j
    <3>1. \A l \in 1..d : ranges'[l].channel # N + 1
      BY <1>10, <2>1
    <3> QED
      BY <1>14, <2>2, <2>3, <2>5, <3>1, Zenon
  <2> QED
    BY <1>12, <1>13, <2>4, <2>5 DEF Follows
<1>17. Finished'
  <2>1. \A c \in 1..N :
            senders[c].next > senders[c].last \/ \E i \in 1..d : ranges[i].channel = c
    BY <1>2, <1>9 DEF Rendering, Finished
  <2>2. ASSUME NEW c \in 1..N + 1
        PROVE  senders'[c].next > senders'[c].last \/ \E i \in 1..d + 1 : ranges'[i].channel = c
    <3>1. CASE c \in 1..N
      BY <1>12, <1>13, <1>14, <2>1, <3>1
    <3>2. CASE c = N + 1
      BY <1>8, <1>13, <1>14, <3>2
    <3> QED
      BY <1>14, <3>1, <3>2
  <2> QED
    BY <1>12, <1>13, <2>2 DEF Finished
<1>18. Executing(nodes)'
  BY <1>5, <1>9, <1>13, <1>16 DEF Executing
<1> QED
  BY <1>9, <1>15, <1>17, <1>18 DEF Rendering

(***************************************************************************)
(* At the end of a range the engine reads the channel of the innermost one *)
(* that is open, which is this range.                                      *)
(***************************************************************************)
LEMMA AtTheEnd ==
    ASSUME NEW nodes, Len(nodes) \in Nat, WellNested(nodes), ChannelsInv, NEW h, NEW n,
           Engine(nodes, h, n, Len(ranges), at, output), Follows(nodes, h, n),
           Program = nodes, Executes("end")
    PROVE  /\ at \in 1..Len(nodes) /\ nodes[at].op = "end"
           /\ Len(ranges) \in Nat /\ Len(ranges) \in 1..Len(ranges)
           /\ h[Len(ranges)] \in Ranges(nodes)
           /\ n[Len(ranges)] \in Nat /\ n[Len(ranges)] <= Passes(nodes[h[Len(ranges)]])
           /\ Last(ranges).channel = ranges[Len(ranges)].channel
           /\ Last(ranges).channel \in 1..Len(senders)
           /\ LET sender == senders[Last(ranges).channel]
              IN  sender.next <= sender.last
                    <=> n[Len(ranges)] < Passes(nodes[h[Len(ranges)]])
<1>1. PICK d, c : d = Len(ranges) /\ c = Last(ranges).channel
  OBVIOUS
<1>2. at \in 1..Len(nodes) /\ nodes[at].op = "end"
  <2>1. at \in 1..Len(nodes) + 1 /\ at <= Len(nodes)
    BY DEF Engine, Executes
  <2> QED
    BY <2>1 DEF Executes, Node
<1>3. d \in Nat /\ d \in 1..d
  BY <1>1, <1>2, NestingInnermost DEF Engine
<1>4. h[d] \in Ranges(nodes) /\ n[d] \in Nat /\ n[d] <= Passes(nodes[h[d]])
  BY <1>1, <1>3 DEF Engine, Nesting, Passing
<1>5. /\ c = ranges[d].channel /\ c \in 1..Len(senders)
      /\ senders[c].last = nodes[h[d]].to
      /\ senders[c].next = nodes[h[d]].from + n[d]
  BY <1>1, <1>3 DEF Follows, Last
<1>6. PICK range : range = nodes[h[d]]
  OBVIOUS
<1>7. range.from \in Int /\ range.to \in Int
  BY <1>4, <1>6, RangeNodes
<1>8. senders[c].next <= senders[c].last <=> n[d] < Passes(range)
  BY <1>4, <1>5, <1>6, <1>7, PassesType
<1> QED
  BY <1>1, <1>2, <1>3, <1>4, <1>5, <1>6, <1>8

(***************************************************************************)
(* The engine gets a number.                                               *)
(***************************************************************************)
LEMMA RenderReceive ==
    ASSUME NEW nodes, Len(nodes) \in Nat, WellNested(nodes), Rendering(nodes),
           Program = nodes, Receive
    PROVE  Rendering(nodes)'
<1>1. PICK h, n : Engine(nodes, h, n, Len(ranges), at, output) /\ Follows(nodes, h, n)
  BY DEF Receive, Executes, Rendering, Executing
<1>2. PICK d, c, N : d = Len(ranges) /\ c = Last(ranges).channel /\ N = Len(senders)
  OBVIOUS
<1>3. /\ at \in 1..Len(nodes) /\ nodes[at].op = "end"
      /\ d \in Nat /\ d \in 1..d /\ h[d] \in Ranges(nodes)
      /\ n[d] \in Nat /\ n[d] < Passes(nodes[h[d]])
      /\ c = ranges[d].channel /\ c \in 1..N
  <2>1. ChannelsInv /\ Executes("end") /\ senders[c].next <= senders[c].last
    BY <1>2 DEF Rendering, Receive
  <2> QED
    BY <1>1, <1>2, <2>1, AtTheEnd
<1>4. PICK m : m = [n EXCEPT ![d] = n[d] + 1]
  OBVIOUS
<1>5. Engine(nodes, h, m, d, nodes[at].head + 1, output)
  BY <1>1, <1>2, <1>3, <1>4, EngineAgain
<1>6. m[d] = n[d] + 1 /\ \A i \in 1..d : i # d => m[i] = n[i]
  <2>1. n \in [1..d -> Nat]
    BY <1>1, <1>2 DEF Engine, Passing
  <2> QED
    BY <1>3, <1>4, <2>1
<1>7. /\ phase = "execute" /\ UNCHANGED <<phase, output>> /\ at' = nodes[at].head + 1
      /\ senders' = [senders EXCEPT ![c].next = @ + 1]
      /\ ranges' = [ranges EXCEPT ![d].value = senders[c].next]
  BY <1>2 DEF Receive, Executes, Node
<1>8. senders \in Seq(SenderType) /\ ranges \in Seq(RangeType)
      /\ \A i \in 1..N : senders[i].closed => senders[i].next > senders[i].last
  BY <1>2 DEF Rendering, ChannelsInv
<1>9. senders[c] \in SenderType /\ ranges[d] \in RangeType
  BY <1>2, <1>3, <1>8
<1>10. /\ senders' \in Seq(SenderType) /\ Len(senders') = N
       /\ senders'[c].next = senders[c].next + 1 /\ senders'[c].last = senders[c].last
       /\ senders'[c].closed = senders[c].closed
       /\ \A i \in 1..N : i # c => senders'[i] = senders[i]
  <2>1. [senders[c] EXCEPT !.next = @ + 1] \in SenderType
    BY <1>9 DEF SenderType
  <2>2. senders' = [senders EXCEPT ![c] = [senders[c] EXCEPT !.next = @ + 1]]
    BY <1>7
  <2> QED
    BY <1>2, <1>3, <1>8, <1>9, <2>1, <2>2 DEF SenderType
<1>11. /\ ranges' \in Seq(RangeType) /\ Len(ranges') = d
       /\ ranges'[d].value = senders[c].next /\ ranges'[d].channel = c
       /\ \A i \in 1..d : i # d => ranges'[i] = ranges[i]
  <2>1. [ranges[d] EXCEPT !.value = senders[c].next] \in RangeType
    BY <1>9 DEF RangeType, SenderType
  <2>2. ranges' = [ranges EXCEPT ![d] = [ranges[d] EXCEPT !.value = senders[c].next]]
    BY <1>7
  <2> QED
    BY <1>2, <1>3, <1>8, <1>9, <2>1, <2>2 DEF RangeType
<1>12. \A i \in 1..d : ranges'[i].channel = ranges[i].channel
  BY <1>3, <1>11
<1>13. ChannelsInv'
  <2>1. ASSUME NEW i \in 1..N, senders'[i].closed PROVE senders'[i].next > senders'[i].last
    <3>1. CASE i = c
      <4>1. senders[c].next \in Int /\ senders[c].last \in Int
        BY <1>9 DEF SenderType
      <4>2. senders[c].next > senders[c].last
        BY <1>3, <1>8, <1>10, <2>1, <3>1
      <4>3. senders[c].next + 1 > senders[c].last
        BY <4>1, <4>2
      <4> QED
        BY <1>10, <3>1, <4>3
    <3>2. CASE i # c
      BY <1>8, <1>10, <2>1, <3>2
    <3> QED
      BY <3>1, <3>2
  <2> QED
    BY <1>10, <1>11, <2>1 DEF ChannelsInv
<1>14. Follows(nodes, h, m)'
  <2>1. /\ \A i \in 1..d :
              /\ ranges[i].channel \in 1..N
              /\ senders[ranges[i].channel].last = nodes[h[i]].to
              /\ senders[ranges[i].channel].next = nodes[h[i]].from + n[i]
              /\ n[i] > 0 => ranges[i].value = nodes[h[i]].from + n[i] - 1
        /\ \A i, j \in 1..d : ranges[i].channel = ranges[j].channel => i = j
    BY <1>1, <1>2 DEF Follows
  <2>2. ASSUME NEW i \in 1..d
        PROVE  /\ ranges'[i].channel \in 1..N
               /\ senders'[ranges'[i].channel].last = nodes[h[i]].to
               /\ senders'[ranges'[i].channel].next = nodes[h[i]].from + m[i]
               /\ m[i] > 0 => ranges'[i].value = nodes[h[i]].from + m[i] - 1
    <3>1. CASE i = d
      <4>1. nodes[h[d]].from \in Int
        BY <1>3, RangeNodes
      <4>2. senders[c].last = nodes[h[d]].to /\ senders[c].next = nodes[h[d]].from + n[d]
        BY <1>3, <2>1
      <4>3. /\ ranges'[d].channel = c /\ senders'[c].last = nodes[h[d]].to
            /\ senders'[c].next = nodes[h[d]].from + m[d]
            /\ ranges'[d].value = nodes[h[d]].from + m[d] - 1
        <5>1. m[d] = n[d] + 1
          BY <1>3, <1>6
        <5>2. n[d] \in Int
          BY ONLY <1>3, SMT
        <5>3. PICK x, y \in Int : x = nodes[h[d]].from /\ y = n[d]
          BY ONLY <4>1, <5>2, Zenon
        <5>4. (x + y) + 1 = x + (y + 1) /\ x + y = x + (y + 1) - 1
          BY ONLY x \in Int, y \in Int, SMT
        <5>5. senders[c].next = x + y /\ m[d] = y + 1
          BY ONLY <4>2, <5>1, <5>3, Zenon
        <5>6. senders[c].next + 1 = nodes[h[d]].from + m[d]
          BY ONLY <5>3, <5>4, <5>5, Zenon
        <5>7. senders[c].next = nodes[h[d]].from + m[d] - 1
          BY ONLY <5>3, <5>4, <5>5, Zenon
        <5>8. senders'[c].next = senders[c].next + 1 /\ senders'[c].last = senders[c].last
              /\ ranges'[d].value = senders[c].next /\ ranges'[d].channel = c
          BY ONLY <1>10, <1>11, Zenon
        <5> QED
          BY ONLY <4>2, <5>6, <5>7, <5>8, Zenon
      <4> QED
        BY <1>3, <3>1, <4>3
    <3>2. CASE i # d
      <4>1. ranges'[i] = ranges[i] /\ m[i] = n[i]
        BY <1>6, <1>11, <3>2
      <4>2. ranges[i].channel \in 1..N /\ ranges[i].channel # c
        BY <1>3, <2>1, <3>2
      <4>3. senders'[ranges[i].channel] = senders[ranges[i].channel]
        BY <1>10, <4>2
      <4> QED
        BY <2>1, <4>1, <4>3
    <3> QED
      BY <3>1, <3>2
  <2>3. \A i, j \in 1..d : ranges'[i].channel = ranges'[j].channel => i = j
    BY <1>12, <2>1
  <2> QED
    BY <1>10, <1>11, <2>2, <2>3 DEF Follows
<1>15. Finished'
  <2>1. \A i \in 1..N :
            senders[i].next > senders[i].last \/ \E j \in 1..d : ranges[j].channel = i
    BY <1>2, <1>7 DEF Rendering, Finished
  <2>2. ASSUME NEW i \in 1..N
        PROVE  senders'[i].next > senders'[i].last \/ \E j \in 1..d : ranges'[j].channel = i
    <3>1. CASE i = c
      BY <1>3, <1>11, <3>1
    <3>2. CASE i # c
      BY <1>10, <1>12, <2>1, <3>2
    <3> QED
      BY <3>1, <3>2
  <2> QED
    BY <1>10, <1>11, <2>2 DEF Finished
<1>16. Executing(nodes)'
  BY <1>5, <1>7, <1>11, <1>14 DEF Executing
<1> QED
  BY <1>7, <1>13, <1>15, <1>16 DEF Rendering

(***************************************************************************)
(* The channel is closed: the range had all its passes.                    *)
(***************************************************************************)
LEMMA RenderChannelClosed ==
    ASSUME NEW nodes, Len(nodes) \in Nat, WellNested(nodes), Rendering(nodes),
           Program = nodes, ChannelClosed
    PROVE  Rendering(nodes)'
<1>1. PICK h, n : Engine(nodes, h, n, Len(ranges), at, output) /\ Follows(nodes, h, n)
  BY DEF ChannelClosed, Executes, Rendering, Executing
<1>2. PICK d, c, N : d = Len(ranges) /\ c = Last(ranges).channel /\ N = Len(senders)
  OBVIOUS
<1>3. ChannelsInv /\ Executes("end") /\ senders[c].closed
  BY <1>2 DEF Rendering, ChannelClosed
<1>4. /\ at \in 1..Len(nodes) /\ nodes[at].op = "end"
      /\ d \in Nat /\ d \in 1..d /\ h[d] \in Ranges(nodes)
      /\ n[d] \in Nat /\ n[d] <= Passes(nodes[h[d]])
      /\ c = ranges[d].channel /\ c \in 1..N
      /\ senders[c].next <= senders[c].last <=> n[d] < Passes(nodes[h[d]])
  BY <1>1, <1>2, <1>3, AtTheEnd
<1>5. senders \in Seq(SenderType) /\ ranges \in Seq(RangeType)
      /\ senders[c].next > senders[c].last
  BY <1>2, <1>3, <1>4 DEF ChannelsInv
<1>6. n[d] = Passes(nodes[h[d]])
  <2>1. senders[c] \in SenderType
    BY <1>2, <1>4, <1>5
  <2>2. ~(senders[c].next <= senders[c].last)
    BY <1>5, <2>1 DEF SenderType
  <2>3. Passes(nodes[h[d]]) \in Nat
    BY <1>4, RangeNodes, PassesType
  <2> QED
    BY <1>4, <2>2, <2>3
<1>7. PICK g, m : g = Shortened(h, d) /\ m = Shortened(n, d)
  OBVIOUS
<1>8. Engine(nodes, g, m, d - 1, at + 1, output)
  BY <1>1, <1>2, <1>4, <1>6, <1>7, EngineClose
<1>9. \A i \in 1..d - 1 : g[i] = h[i] /\ m[i] = n[i]
  BY <1>7 DEF Shortened
<1>10. /\ phase = "execute" /\ UNCHANGED <<phase, output, senders>> /\ at' = at + 1
       /\ ranges' = Front(ranges)
  BY DEF ChannelClosed, Executes
<1>11. /\ ranges' \in Seq(RangeType) /\ Len(ranges') = d - 1
       /\ \A i \in 1..d - 1 : ranges'[i] = ranges[i]
  BY <1>2, <1>4, <1>5, <1>10 DEF Front
<1>12. /\ \A i \in 1..d - 1 : i \in 1..d /\ i # d
       /\ \A i \in 1..d : i \in 1..d - 1 \/ i = d
  BY <1>4
<1>13. ChannelsInv'
  BY <1>3, <1>10, <1>11 DEF ChannelsInv
<1>14. Follows(nodes, g, m)'
  <2>1. ASSUME NEW i \in 1..d - 1
        PROVE  /\ ranges'[i].channel \in 1..N
               /\ senders'[ranges'[i].channel].last = nodes[g[i]].to
               /\ senders'[ranges'[i].channel].next = nodes[g[i]].from + m[i]
               /\ m[i] > 0 => ranges'[i].value = nodes[g[i]].from + m[i] - 1
    <3>1. /\ ranges[i].channel \in 1..N
          /\ senders[ranges[i].channel].last = nodes[h[i]].to
          /\ senders[ranges[i].channel].next = nodes[h[i]].from + n[i]
          /\ n[i] > 0 => ranges[i].value = nodes[h[i]].from + n[i] - 1
      BY <1>1, <1>2, <1>12 DEF Follows
    <3>2. g[i] = h[i] /\ m[i] = n[i] /\ ranges'[i] = ranges[i] /\ senders' = senders
      BY <1>9, <1>10, <1>11
    <3> QED
      BY <3>1, <3>2
  <2>2. \A i, j \in 1..d - 1 : ranges'[i].channel = ranges'[j].channel => i = j
    <3>1. \A i, j \in 1..d : ranges[i].channel = ranges[j].channel => i = j
      BY <1>1, <1>2 DEF Follows
    <3> QED
      BY <1>11, <1>12, <3>1
  <2>3. Len(senders') = N
    BY <1>2, <1>10
  <2> QED
    BY <1>11, <2>1, <2>2, <2>3 DEF Follows
<1>15. Finished'
  <2>1. \A i \in 1..N :
            senders[i].next > senders[i].last \/ \E j \in 1..d : ranges[j].channel = i
    BY <1>2, <1>10 DEF Rendering, Finished
  <2>2. ASSUME NEW i \in 1..N
        PROVE  senders[i].next > senders[i].last \/ \E j \in 1..d - 1 : ranges'[j].channel = i
    <3>1. CASE i = c
      BY <1>5, <3>1
    <3>2. CASE i # c
      BY <1>4, <1>11, <1>12, <2>1, <3>2
    <3> QED
      BY <3>1, <3>2
  <2> QED
    BY <1>2, <1>10, <1>11, <2>2 DEF Finished
<1>16. Executing(nodes)'
  BY <1>8, <1>10, <1>11, <1>14 DEF Executing
<1> QED
  BY <1>10, <1>13, <1>15, <1>16 DEF Rendering

(***************************************************************************)
(* A sender closes its channel, whatever the constructor is doing.         *)
(***************************************************************************)
LEMMA RenderClose ==
    ASSUME NEW nodes, Rendering(nodes), NEW c \in Channels, Close(c)
    PROVE  Rendering(nodes)'
<1>1. PICK N : N = Len(senders)
  OBVIOUS
<1>2. /\ senders \in Seq(SenderType) /\ ranges \in Seq(RangeType)
      /\ \A i \in 1..N : senders[i].closed => senders[i].next > senders[i].last
  BY <1>1 DEF Rendering, ChannelsInv
<1>3. c \in 1..N
  BY <1>1, <1>2 DEF Channels
<1>4. /\ UNCHANGED <<files, phase, ext, resources, at, ranges, output>>
      /\ senders' = [senders EXCEPT ![c].closed = TRUE]
      /\ senders[c].next > senders[c].last
  BY DEF Close
<1>5. /\ senders' \in Seq(SenderType) /\ Len(senders') = N
      /\ \A i \in 1..N : /\ senders'[i].next = senders[i].next
                         /\ senders'[i].last = senders[i].last
                         /\ i # c => senders'[i] = senders[i]
  <2>1. senders[c] \in SenderType
    BY <1>1, <1>2, <1>3
  <2>2. [senders[c] EXCEPT !.closed = TRUE] \in SenderType
    BY <2>1 DEF SenderType
  <2>3. senders' = [senders EXCEPT ![c] = [senders[c] EXCEPT !.closed = TRUE]]
    BY <1>4
  <2> QED
    BY <1>1, <1>2, <1>3, <2>1, <2>2, <2>3 DEF SenderType
<1>6. ChannelsInv'
  <2>1. ASSUME NEW i \in 1..N, senders'[i].closed PROVE senders'[i].next > senders'[i].last
    <3>1. CASE i = c
      BY <1>4, <1>5, <3>1
    <3>2. CASE i # c
      <4>1. senders'[i] = senders[i]
        BY <1>5, <3>2
      <4> QED
        BY <1>2, <2>1, <4>1
    <3> QED
      BY <3>1, <3>2
  <2> QED
    BY <1>2, <1>4, <1>5, <2>1 DEF ChannelsInv
<1>7. ASSUME Finished PROVE Finished'
  BY <1>1, <1>4, <1>5, <1>7 DEF Finished
<1>8. ASSUME NEW h, NEW n, Follows(nodes, h, n) PROVE Follows(nodes, h, n)'
  BY <1>1, <1>4, <1>5, <1>8 DEF Follows
<1>9. ASSUME Executing(nodes) PROVE Executing(nodes)'
  <2>1. PICK h, n : Engine(nodes, h, n, Len(ranges), at, output) /\ Follows(nodes, h, n)
    BY <1>9 DEF Executing
  <2>2. Follows(nodes, h, n)'
    BY <1>8, <2>1
  <2> QED
    BY <1>4, <2>1, <2>2 DEF Executing
<1> QED
  BY <1>4, <1>6, <1>7, <1>9 DEF Rendering

(***************************************************************************)
(* An instance begins, and ends.                                           *)
(***************************************************************************)
LEMMA RenderFound ==
    ASSUME NEW nodes, Len(nodes) \in Nat, WellNested(nodes), Rendering(nodes), Found
    PROVE  Rendering(nodes)'
<1>1. /\ phase = "search" /\ phase' = "execute" /\ at' = 1 /\ output' = <<>>
      /\ UNCHANGED <<ranges, senders>> /\ ranges = <<>>
  BY DEF Found, Rendering
<1>2. Len(ranges') = 0
  BY <1>1
<1>3. Engine(nodes, <<>>, <<>>, 0, 1, <<>>)
  BY EngineStart
<1>4. Follows(nodes, <<>>, <<>>)'
  BY <1>2 DEF Follows
<1>5. Executing(nodes)'
  BY <1>1, <1>2, <1>3, <1>4 DEF Executing
<1> QED
  BY <1>1, <1>5 DEF Rendering, ChannelsInv, Finished

LEMMA RenderExecutionEnds ==
    ASSUME NEW nodes, Len(nodes) \in Nat, WellNested(nodes), Rendering(nodes),
           Program = nodes, ExecutionEnds
    PROVE  Rendering(nodes)'
<1>1. PICK h, n : Engine(nodes, h, n, Len(ranges), at, output) /\ Follows(nodes, h, n)
  BY DEF ExecutionEnds, Rendering, Executing
<1>2. at = Len(nodes) + 1
  BY <1>1 DEF Engine, ExecutionEnds
<1>3. Len(ranges) = 0 /\ output = Written(nodes)
  BY <1>1, <1>2, EngineEnd
<1>4. ranges = <<>>
  BY <1>3 DEF Rendering, ChannelsInv
<1>5. /\ phase = "execute" /\ phase' = "decode"
      /\ UNCHANGED <<at, ranges, output, senders>>
  BY DEF ExecutionEnds
<1> QED
  BY <1>3, <1>4, <1>5 DEF Rendering, ChannelsInv, Finished
-----------------------------------------------------------------------------
(***************************************************************************)
(* The file that is used is the first that is a template.                  *)
(***************************************************************************)
First(e) == files[e].file = "template" /\ \A j \in 1..e - 1 : files[j].file # "template"
SearchInv ==
    /\ files \in FileSets
    /\ phase = "search" =>
          ext \in 1..4 /\ \A j \in 1..ext - 1 : files[j].file # "template"
    /\ phase \in {"execute", "decode"} => ext \in Extensions /\ First(ext)

RenderInv ==
    /\ SearchInv
    /\ \A e \in Extensions : First(e) /\ ~Breaks(files[e].nodes) => Rendering(files[e].nodes)

LEMMA SearchNext == SearchInv /\ [Next]_vars => SearchInv'
<1> SUFFICES ASSUME SearchInv, [Next]_vars PROVE SearchInv'
  OBVIOUS
<1>1. CASE TryNext
  <2>1. /\ phase = "search" /\ ext \in 1..4 /\ ext <= 3
        /\ \A j \in 1..ext - 1 : files[j].file # "template"
        /\ files[ext].file # "template"
        /\ ext' = ext + 1 /\ UNCHANGED <<files, phase>>
    BY <1>1 DEF TryNext, SearchInv
  <2>2. \A j \in 1..ext + 1 - 1 : j \in 1..ext - 1 \/ j = ext
    BY <2>1
  <2> QED
    BY <2>1, <2>2 DEF SearchInv
<1>2. CASE Found
  <2>1. ext \in 1..4 /\ ext <= 3
    BY <1>2 DEF Found, SearchInv
  <2> QED
    BY <1>2, <2>1 DEF Found, SearchInv, First, Extensions
<1>3. CASE ExecutionEnds
  BY <1>3 DEF ExecutionEnds, SearchInv, First
<1>4. CASE Decoded
  <2>1. ext' = 1 /\ UNCHANGED files /\ phase' \in {"created", "search"}
    BY <1>4 DEF Decoded
  <2> QED
    BY <2>1 DEF SearchInv
<1>5. CASE NoFileFound \/ CallFails \/ NotDecoded
  <2>1. UNCHANGED files /\ phase' \in {"failed", "panicked"}
    BY <1>5 DEF NoFileFound, CallFails, NotDecoded
  <2> QED
    BY <2>1 DEF SearchInv
<1>6. CASE Emit \/ Call \/ Break \/ OpenRange \/ Receive \/ ChannelClosed
           \/ (\E c \in Channels : Close(c)) \/ UNCHANGED vars
  <2>1. UNCHANGED <<files, phase, ext>>
    BY <1>6 DEF Emit, Call, Break, OpenRange, Receive, ChannelClosed, Close, vars
  <2> QED
    BY <2>1 DEF SearchInv, First
<1> QED
  BY <1>1, <1>2, <1>3, <1>4, <1>5, <1>6 DEF Next, Constructor, Done

LEMMA RenderInit == Init => RenderInv
<1> SUFFICES ASSUME Init PROVE RenderInv
  OBVIOUS
<1>1. /\ files \in FileSets /\ phase \in {"created", "search"} /\ ext = 1
      /\ ranges = <<>> /\ senders = <<>>
  BY DEF Init
<1>2. SearchInv
  BY <1>1 DEF SearchInv
<1>3. \A nodes : Rendering(nodes)
  BY <1>1 DEF Rendering, ChannelsInv, Finished
<1> QED
  BY <1>2, <1>3 DEF RenderInv

LEMMA RenderNext == RenderInv /\ [Next]_vars => RenderInv'
<1> SUFFICES ASSUME RenderInv, [Next]_vars PROVE RenderInv'
  OBVIOUS
<1>1. SearchInv /\ SearchInv'
  BY SearchNext DEF RenderInv
<1>2. UNCHANGED files
  BY DEF Next, Constructor, TryNext, NoFileFound, Found, Emit, Call, CallFails, Break, OpenRange,
         Receive, ChannelClosed, ExecutionEnds, Decoded, NotDecoded, Close, Done, vars
<1>3. ASSUME NEW e \in Extensions, First(e), ~Breaks(files[e].nodes)
      PROVE  Rendering(files[e].nodes)'
  <2>1. PICK nodes : nodes = files[e].nodes
    OBVIOUS
  <2>2. Len(nodes) \in Nat /\ WellNested(nodes)
    BY <1>1, <1>3, <2>1, FilesAssumption DEF SearchInv, First
  <2>3. Rendering(nodes) /\ ~Breaks(nodes)
    BY <1>3, <2>1 DEF RenderInv
  <2>4. phase = "execute" => Program = nodes
    <3>1. ASSUME ext \in Extensions, First(ext) PROVE ext = e
      BY <1>3, <3>1 DEF First, Extensions
    <3> QED
      BY <1>1, <2>1, <3>1 DEF SearchInv, Program
  <2>5. Rendering(nodes)'
    <3>1. CASE Emit
      BY <2>2, <2>3, <2>4, <3>1, RenderEmit DEF Emit, Executes
    <3>2. CASE Call
      BY <2>2, <2>3, <2>4, <3>2, RenderCall DEF Call, Executes
    <3>3. CASE Break
      <4>1. phase = "execute" /\ Program = nodes /\ at <= Len(nodes) /\ nodes[at].op = "break"
        BY <2>4, <3>3 DEF Break, Executes, Node
      <4>2. at \in 1..Len(nodes)
        BY <4>1, <2>3 DEF Rendering, Executing, Engine
      <4> QED
        BY <2>2, <2>3, <4>1, <4>2 DEF Breaks, WellNested
    <3>4. CASE OpenRange
      BY <2>2, <2>3, <2>4, <3>4, RenderOpenRange DEF OpenRange, Executes
    <3>5. CASE Receive
      BY <2>2, <2>3, <2>4, <3>5, RenderReceive DEF Receive, Executes
    <3>6. CASE ChannelClosed
      BY <2>2, <2>3, <2>4, <3>6, RenderChannelClosed DEF ChannelClosed, Executes
    <3>7. CASE \E c \in Channels : Close(c)
      BY <2>3, <3>7, RenderClose
    <3>8. CASE Found
      BY <2>2, <2>3, <3>8, RenderFound
    <3>9. CASE ExecutionEnds
      BY <2>2, <2>3, <2>4, <3>9, RenderExecutionEnds DEF ExecutionEnds
    <3>10. CASE CallFails
      <4>1. phase' = "failed" /\ ranges' = <<>> /\ UNCHANGED senders
        BY <3>10 DEF CallFails
      <4> QED
        BY <2>3, <4>1 DEF Rendering, ChannelsInv
    <3>11. CASE NoFileFound \/ NotDecoded
      <4>1. phase' \in {"failed", "panicked"} /\ UNCHANGED <<ranges, senders>>
        BY <3>11 DEF NoFileFound, NotDecoded
      <4> QED
        BY <2>3, <4>1 DEF Rendering, ChannelsInv
    <3>12. CASE Decoded
      <4>1. /\ phase = "decode" /\ phase' \in {"created", "search"}
            /\ UNCHANGED <<ranges, senders>>
        BY <3>12 DEF Decoded
      <4> QED
        BY <2>3, <4>1 DEF Rendering, ChannelsInv, Finished
    <3>13. CASE TryNext \/ UNCHANGED vars
      <4>1. UNCHANGED <<phase, at, ranges, output, senders>>
        BY <3>13 DEF TryNext, vars
      <4> QED
        BY <2>3, <4>1 DEF Rendering, ChannelsInv, Finished, Executing, Follows
    <3> QED
      BY <3>1, <3>2, <3>3, <3>4, <3>5, <3>6, <3>7, <3>8, <3>9, <3>10, <3>11, <3>12, <3>13
         DEF Next, Constructor, Done
  <2>6. files'[e].nodes = nodes
    BY <1>2, <2>1
  <2> QED
    BY <2>5, <2>6
<1>4. \A e \in Extensions : First(e)' => First(e)
  BY <1>2 DEF First
<1> QED
  BY <1>1, <1>2, <1>3, <1>4 DEF RenderInv

(***************************************************************************)
(* Whatever template is executed, one that does not break out of a range   *)
(* has written, when the engine ends, what it would if its ranges counted, *)
(* both ends included, whatever order the goroutines of loop run in; and   *)
(* every one of them has sent all its numbers (RenderLogsTemplate, loop).  *)
(***************************************************************************)
THEOREM RangesCountCorrect == Spec => []RangesCount
<1>1. RenderInv => RangesCount
  <2> SUFFICES ASSUME RenderInv, phase = "decode", ~Breaks(Program)
               PROVE  /\ output = Written(Program) /\ ranges = <<>>
                      /\ \A c \in Channels : senders[c].next > senders[c].last
    BY DEF RangesCount
  <2>1. Rendering(Program)
    BY DEF RenderInv, SearchInv, Program
  <2>2. output = Written(Program) /\ ranges = <<>> /\ Finished /\ ChannelsInv
    BY <2>1 DEF Rendering
  <2>3. Channels = 1..Len(senders) /\ Len(ranges) = 0
    BY <2>2 DEF ChannelsInv, Channels
  <2> QED
    BY <2>2, <2>3 DEF Finished
<1> QED
  BY <1>1, RenderInit, RenderNext, PTL DEF Spec
=============================================================================
