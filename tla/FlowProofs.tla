----------------------------- MODULE FlowProofs ------------------------------
(***************************************************************************)
(* Theorems about the Flow kernel, for every set of programs and every     *)
(* length of stdin.                                                        *)
(*                                                                         *)
(* The argument: the nodes being pulled are a chain down from the target;  *)
(* every node the chain has started is in step with the source, that is,   *)
(* its count and its state are those of the reference after the items its  *)
(* source has given, the last one excepted where it has not arrived yet.   *)
(* Before it, facts about the reference, for every pipeline and every      *)
(* sequence of items: the recursions of the module Pipelines have the      *)
(* values their equations say, a longer sequence of items is made into a   *)
(* longer one, and the nodes of a pipeline are in line.                    *)
(***************************************************************************)
EXTENDS Flow, FiniteSetTheorems, WellFoundedInduction, TLAPS

-----------------------------------------------------------------------------
(* Induction over the naturals, with the formula as a set: a theorem with  *)
(* an operator for a parameter would be of no use here.                    *)

Less == {ss \in Nat \X Nat : ss[1] < ss[2]}

\* The order of the naturals has no infinite descent.
LEMMA LessWellFounded == IsWellFoundedOn(Less, Nat)
<1>1. Less = OpToRel(<, Nat)
  BY DEF OpToRel, Less
<1> QED BY <1>1, NatLessThanWellFounded

\* A set of naturals that is not empty has a least member.
LEMMA LeastNatural ==
  ASSUME NEW T, T \subseteq Nat, T # {}
  PROVE  \E m \in T : \A k \in T : m <= k
<1>1. PICK m \in T : \A k \in T : ~(<<k, m>> \in Less)
  BY WFMin, LessWellFounded
<1>2. \A j, k \in Nat : k < j => <<k, j>> \in Less
  BY DEF Less
<1>3. ASSUME NEW k \in T PROVE m <= k
  <2>1. k \in Nat /\ m \in Nat
    OBVIOUS
  <2>2. <<k, m>> \notin Less
    BY <1>1
  <2>3. ~(k < m)
    BY <1>2, <2>1, <2>2
  <2> QED BY <2>1, <2>3
<1> QED BY <1>3

\* A set that has every natural whose predecessors it all has, has all of them.
LEMMA InductionFromBelow ==
  ASSUME NEW T, \A n \in Nat : (\A m \in 0..(n - 1) : m \in T) => n \in T
  PROVE  Nat \subseteq T
<1> SUFFICES ASSUME Nat \ T # {} PROVE FALSE
  OBVIOUS
<1>1. PICK n \in Nat \ T : \A k \in Nat \ T : n <= k
  BY LeastNatural
<1>2. \A m \in 0..(n - 1) : m \in T
  BY <1>1
<1> QED BY <1>1, <1>2

\* A set that has 0, and the successor of every natural it has, has all of them.
LEMMA InductionByOne ==
  ASSUME NEW T, 0 \in T, \A n \in Nat : n \in T => n + 1 \in T
  PROVE  Nat \subseteq T
<1>1. ASSUME NEW n \in Nat, \A m \in 0..(n - 1) : m \in T PROVE n \in T
  <2>1. CASE n = 0
    BY <2>1
  <2>2. CASE n # 0
    <3>1. n - 1 \in Nat /\ n - 1 \in 0..(n - 1)
      BY <2>2
    <3>2. n - 1 \in T
      BY <1>1, <3>1
    <3>3. (n - 1) + 1 \in T
      BY <3>1, <3>2
    <3> QED BY <3>3
  <2> QED BY <2>1, <2>2
<1> QED BY <1>1, InductionFromBelow

-----------------------------------------------------------------------------
(* The recursion of Kept.                                                  *)

IsKept(f, s, positions, n) ==
  f = [i \in 0..n |-> IF i = 0 THEN <<>> ELSE IF i \in positions THEN Append(f[i - 1], s[i]) ELSE f[i - 1]]

\* What the equation of Kept says of each partial result.
LEMMA KeptAt ==
  ASSUME NEW f, NEW s, NEW positions, NEW n \in Nat, IsKept(f, s, positions, n)
  PROVE  /\ f[0] = <<>>
         /\ \A i \in 1..n : f[i] = IF i \in positions THEN Append(f[i - 1], s[i]) ELSE f[i - 1]
<1>1. \A i \in 0..n : f[i] = IF i = 0 THEN <<>> ELSE IF i \in positions THEN Append(f[i - 1], s[i]) ELSE f[i - 1]
  BY DEF IsKept
<1>2. 0 \in 0..n /\ \A i \in 1..n : i \in 0..n /\ i # 0
  OBVIOUS
<1> QED BY <1>1, <1>2

\* There are partial results for every length: the equation has a solution.
LEMMA KeptExists ==
  ASSUME NEW s, NEW positions
  PROVE  \A n \in Nat : \E f : IsKept(f, s, positions, n)
<1> DEFINE T == {n \in Nat : \E f : IsKept(f, s, positions, n)}
<1>1. 0 \in T
  <2> DEFINE f == [i \in 0..0 |-> <<>>]
  <2>1. IsKept(f, s, positions, 0)
    BY DEF IsKept
  <2> HIDE DEF f
  <2> QED BY <2>1
<1>2. ASSUME NEW n \in Nat, n \in T PROVE n + 1 \in T
  <2>1. PICK f : IsKept(f, s, positions, n)
    BY <1>2
  <2> DEFINE last == IF n + 1 \in positions THEN Append(f[n], s[n + 1]) ELSE f[n]
             g == [i \in 0..(n + 1) |-> IF i <= n THEN f[i] ELSE last]
             Right(i) == IF i = 0 THEN <<>> ELSE IF i \in positions THEN Append(g[i - 1], s[i]) ELSE g[i - 1]
  <2>2. ASSUME NEW i \in 0..(n + 1) PROVE g[i] = Right(i)
    <3>1. CASE i = 0
      BY <2>1, <3>1, KeptAt
    <3>2. CASE i \in 1..n
      <4>1. g[i] = f[i] /\ g[i - 1] = f[i - 1]
        BY <3>2
      <4> QED BY <2>1, <3>2, <4>1, KeptAt
    <3>3. CASE i = n + 1
      BY <3>3
    <3> QED BY <3>1, <3>2, <3>3
  <2>3. g = [i \in 0..(n + 1) |-> Right(i)]
    BY <2>2
  <2>4. IsKept(g, s, positions, n + 1)
    BY <2>3 DEF IsKept
  <2> HIDE DEF g
  <2> QED BY <2>4
<1> HIDE DEF T
<1>3. Nat \subseteq T
  BY <1>1, <1>2, InductionByOne
<1> QED BY <1>3 DEF T

\* The value of Kept is the last of a sequence of partial results.
LEMMA KeptUnfolds ==
  ASSUME NEW s, NEW positions, Len(s) \in Nat
  PROVE  \E f : IsKept(f, s, positions, Len(s)) /\ Kept(s, positions) = f[Len(s)]
<1> DEFINE F == CHOOSE f : f = [i \in 0..Len(s) |->
                  IF i = 0 THEN <<>> ELSE IF i \in positions THEN Append(f[i - 1], s[i]) ELSE f[i - 1]]
<1>1. \E f : f = [i \in 0..Len(s) |->
                  IF i = 0 THEN <<>> ELSE IF i \in positions THEN Append(f[i - 1], s[i]) ELSE f[i - 1]]
  <2>1. \E f : IsKept(f, s, positions, Len(s))
    BY KeptExists
  <2> QED BY <2>1 DEF IsKept
<1>2. F = [i \in 0..Len(s) |->
             IF i = 0 THEN <<>> ELSE IF i \in positions THEN Append(F[i - 1], s[i]) ELSE F[i - 1]]
  BY <1>1
<1>3. Kept(s, positions) = F[Len(s)]
  BY DEF Kept
<1> HIDE DEF F
<1>4. IsKept(F, s, positions, Len(s))
  BY <1>2 DEF IsKept
<1> QED BY <1>3, <1>4

\* What is kept of a sequence is a sequence of the same items.
LEMMA KeptTyped ==
  ASSUME NEW S, NEW s \in Seq(S), NEW positions
  PROVE  Kept(s, positions) \in Seq(S)
<1>1. PICK f : IsKept(f, s, positions, Len(s)) /\ Kept(s, positions) = f[Len(s)]
  BY KeptUnfolds
<1> DEFINE T == {n \in Nat : n <= Len(s) => f[n] \in Seq(S)}
<1>2. 0 \in T
  <2>1. f[0] = <<>>
    BY <1>1, KeptAt
  <2>2. <<>> \in Seq(S)
    OBVIOUS
  <2> QED BY <2>1, <2>2
<1>3. ASSUME NEW n \in Nat, n \in T PROVE n + 1 \in T
  <2> SUFFICES ASSUME n + 1 <= Len(s) PROVE f[n + 1] \in Seq(S)
    OBVIOUS
  <2>1. n + 1 \in 1..Len(s) /\ s[n + 1] \in S /\ f[n] \in Seq(S) /\ (n + 1) - 1 = n
    BY <1>3
  <2>2. f[n + 1] = IF n + 1 \in positions THEN Append(f[n], s[n + 1]) ELSE f[n]
    BY <1>1, <2>1, KeptAt
  <2> QED BY <2>1, <2>2
<1> HIDE DEF T
<1>4. Nat \subseteq T
  BY <1>2, <1>3, InductionByOne
<1> QED BY <1>1, <1>4 DEF T

\* One more item is kept or not, and nothing else changes.
LEMMA KeptAppend ==
  ASSUME NEW S, NEW s \in Seq(S), NEW x \in S, NEW P, NEW Q,
         \A i \in 1..Len(s) : i \in P <=> i \in Q
  PROVE  Kept(Append(s, x), Q) = IF Len(s) + 1 \in Q THEN Append(Kept(s, P), x) ELSE Kept(s, P)
<1> DEFINE t == Append(s, x)
<1>0. t \in Seq(S) /\ Len(t) = Len(s) + 1 /\ t[Len(s) + 1] = x /\ \A i \in 1..Len(s) : t[i] = s[i]
  OBVIOUS
<1> HIDE DEF t
<1>1. PICK f : IsKept(f, s, P, Len(s)) /\ Kept(s, P) = f[Len(s)]
  BY KeptUnfolds
<1>2. PICK g : IsKept(g, t, Q, Len(t)) /\ Kept(t, Q) = g[Len(t)]
  BY <1>0, KeptUnfolds
<1> DEFINE T == {n \in Nat : n <= Len(s) => g[n] = f[n]}
<1>3. 0 \in T
  BY <1>0, <1>1, <1>2, KeptAt
<1>4. ASSUME NEW n \in Nat, n \in T PROVE n + 1 \in T
  <2> SUFFICES ASSUME n + 1 <= Len(s) PROVE g[n + 1] = f[n + 1]
    OBVIOUS
  <2>1. n + 1 \in 1..Len(s) /\ n + 1 \in 1..Len(t) /\ (n + 1) - 1 = n /\ g[n] = f[n]
    BY <1>0, <1>4
  <2>2. f[n + 1] = IF n + 1 \in P THEN Append(f[n], s[n + 1]) ELSE f[n]
    BY <1>1, <2>1, KeptAt
  <2>3. g[n + 1] = IF n + 1 \in Q THEN Append(g[n], t[n + 1]) ELSE g[n]
    BY <1>0, <1>2, <2>1, KeptAt
  <2> QED BY <1>0, <2>1, <2>2, <2>3
<1> HIDE DEF T
<1>5. Nat \subseteq T
  BY <1>3, <1>4, InductionByOne
<1>6. g[Len(s)] = f[Len(s)]
  BY <1>5 DEF T
<1>7. g[Len(s) + 1] = IF Len(s) + 1 \in Q THEN Append(g[Len(s)], x) ELSE g[Len(s)]
  <2>1. Len(s) + 1 \in 1..Len(t) /\ (Len(s) + 1) - 1 = Len(s)
    BY <1>0
  <2> QED BY <1>0, <1>2, <2>1, KeptAt
<1> QED BY <1>0, <1>1, <1>2, <1>6, <1>7 DEF t
-----------------------------------------------------------------------------
(* The recursion of Totals.                                                *)

IsTotal(f, s, n) == f = [i \in 0..n |-> IF i = 0 THEN 0 ELSE f[i - 1] + s[i][2]]

\* What the equation of Totals says of each sum.
LEMMA TotalAt ==
  ASSUME NEW f, NEW s, NEW n \in Nat, IsTotal(f, s, n)
  PROVE  f[0] = 0 /\ \A i \in 1..n : f[i] = f[i - 1] + s[i][2]
<1>1. \A i \in 0..n : f[i] = IF i = 0 THEN 0 ELSE f[i - 1] + s[i][2]
  BY DEF IsTotal
<1>2. 0 \in 0..n /\ \A i \in 1..n : i \in 0..n /\ i # 0
  OBVIOUS
<1> QED BY <1>1, <1>2

\* There are sums for every length: the equation has a solution.
LEMMA TotalExists ==
  ASSUME NEW s
  PROVE  \A n \in Nat : \E f : IsTotal(f, s, n)
<1> DEFINE T == {n \in Nat : \E f : IsTotal(f, s, n)}
<1>1. 0 \in T
  <2> DEFINE f == [i \in 0..0 |-> 0]
  <2>1. IsTotal(f, s, 0)
    BY DEF IsTotal
  <2> HIDE DEF f
  <2> QED BY <2>1
<1>2. ASSUME NEW n \in Nat, n \in T PROVE n + 1 \in T
  <2>1. PICK f : IsTotal(f, s, n)
    BY <1>2
  <2> DEFINE g == [i \in 0..(n + 1) |-> IF i <= n THEN f[i] ELSE f[n] + s[n + 1][2]]
             Right(i) == IF i = 0 THEN 0 ELSE g[i - 1] + s[i][2]
  <2>2. ASSUME NEW i \in 0..(n + 1) PROVE g[i] = Right(i)
    <3>1. CASE i = 0
      BY <2>1, <3>1, TotalAt
    <3>2. CASE i \in 1..n
      <4>1. g[i] = f[i] /\ g[i - 1] = f[i - 1]
        BY <3>2
      <4> QED BY <2>1, <3>2, <4>1, TotalAt
    <3>3. CASE i = n + 1
      BY <3>3
    <3> QED BY <3>1, <3>2, <3>3
  <2>3. g = [i \in 0..(n + 1) |-> Right(i)]
    BY <2>2
  <2>4. IsTotal(g, s, n + 1)
    BY <2>3 DEF IsTotal
  <2> HIDE DEF g
  <2> QED BY <2>4
<1> HIDE DEF T
<1>3. Nat \subseteq T
  BY <1>1, <1>2, InductionByOne
<1> QED BY <1>3 DEF T

\* Totals solves its equation.
LEMMA TotalsIsTotal ==
  ASSUME NEW s, Len(s) \in Nat
  PROVE  IsTotal(Totals(s), s, Len(s))
<1> DEFINE F == CHOOSE f : f = [i \in 0..Len(s) |-> IF i = 0 THEN 0 ELSE f[i - 1] + s[i][2]]
<1>1. \E f : f = [i \in 0..Len(s) |-> IF i = 0 THEN 0 ELSE f[i - 1] + s[i][2]]
  <2>1. \E f : IsTotal(f, s, Len(s))
    BY TotalExists
  <2> QED BY <2>1 DEF IsTotal
<1>2. F = [i \in 0..Len(s) |-> IF i = 0 THEN 0 ELSE F[i - 1] + s[i][2]]
  BY <1>1
<1>3. Totals(s) = F
  BY DEF Totals
<1> HIDE DEF F
<1> QED BY <1>2, <1>3 DEF IsTotal

\* The totals of items are integers, and each adds the next item.
LEMMA TotalsTyped ==
  ASSUME NEW s \in Seq(Items)
  PROVE  /\ \A i \in 0..Len(s) : Totals(s)[i] \in Int
         /\ Totals(s)[0] = 0
         /\ \A i \in 1..Len(s) : Totals(s)[i] = Totals(s)[i - 1] + s[i][2]
<1>1. IsTotal(Totals(s), s, Len(s))
  BY TotalsIsTotal
<1>2. Totals(s)[0] = 0 /\ \A i \in 1..Len(s) : Totals(s)[i] = Totals(s)[i - 1] + s[i][2]
  BY <1>1, TotalAt
<1>3. \A v \in Items : v[2] \in Int
  BY DEF Items, Raw, None
<1> DEFINE T == {n \in Nat : n <= Len(s) => Totals(s)[n] \in Int}
<1>4. 0 \in T
  BY <1>2
<1>5. ASSUME NEW n \in Nat, n \in T PROVE n + 1 \in T
  <2> SUFFICES ASSUME n + 1 <= Len(s) PROVE Totals(s)[n + 1] \in Int
    OBVIOUS
  <2>1. n + 1 \in 1..Len(s) /\ s[n + 1] \in Items /\ Totals(s)[n] \in Int /\ (n + 1) - 1 = n
    BY <1>5
  <2>2. Totals(s)[n + 1] = Totals(s)[n] + s[n + 1][2]
    BY <1>2, <2>1
  <2> QED BY <1>3, <2>1, <2>2
<1> HIDE DEF T
<1>6. Nat \subseteq T
  BY <1>4, <1>5, InductionByOne
<1> QED BY <1>2, <1>6 DEF T

\* One more item adds one sum and changes none of the others.
LEMMA TotalsAppend ==
  ASSUME NEW s \in Seq(Items), NEW x \in Items
  PROVE  /\ \A i \in 0..Len(s) : Totals(Append(s, x))[i] = Totals(s)[i]
         /\ Totals(Append(s, x))[Len(s) + 1] = Totals(s)[Len(s)] + x[2]
<1> DEFINE t == Append(s, x)
<1>0. t \in Seq(Items) /\ Len(t) = Len(s) + 1 /\ t[Len(s) + 1] = x /\ \A i \in 1..Len(s) : t[i] = s[i]
  OBVIOUS
<1> HIDE DEF t
<1> DEFINE T == {n \in Nat : n <= Len(s) => Totals(t)[n] = Totals(s)[n]}
<1>1. 0 \in T
  BY <1>0, TotalsTyped
<1>2. ASSUME NEW n \in Nat, n \in T PROVE n + 1 \in T
  <2> SUFFICES ASSUME n + 1 <= Len(s) PROVE Totals(t)[n + 1] = Totals(s)[n + 1]
    OBVIOUS
  <2>1. n + 1 \in 1..Len(s) /\ n + 1 \in 1..Len(t) /\ (n + 1) - 1 = n /\ Totals(t)[n] = Totals(s)[n]
    BY <1>0, <1>2
  <2>2. Totals(s)[n + 1] = Totals(s)[n] + s[n + 1][2]
    BY <2>1, TotalsTyped
  <2>3. Totals(t)[n + 1] = Totals(t)[n] + t[n + 1][2]
    BY <1>0, <2>1, TotalsTyped
  <2> QED BY <1>0, <2>1, <2>2, <2>3
<1> HIDE DEF T
<1>3. Nat \subseteq T
  BY <1>1, <1>2, InductionByOne
<1>4. \A i \in 0..Len(s) : Totals(t)[i] = Totals(s)[i]
  BY <1>3 DEF T
<1>5. Totals(t)[Len(s) + 1] = Totals(t)[Len(s)] + x[2]
  <2>1. Len(s) + 1 \in 1..Len(t) /\ (Len(s) + 1) - 1 = Len(s)
    BY <1>0
  <2> QED BY <1>0, <2>1, TotalsTyped
<1> QED BY <1>4, <1>5 DEF t

-----------------------------------------------------------------------------
(* What a stage makes of one more item.                                    *)

\* The callbacks make items of items.
LEMMA CallbacksTyped ==
  ASSUME NEW v \in Items
  PROVE  v[2] \in Int /\ Inc(v) \in Items /\ Option(v) \in Items /\ Raw(v[2]) \in Items
<1>1. v[1] \in {"raw", "some", "none"} /\ v[2] \in Int
  BY DEF Items
<1> QED BY <1>1 DEF Items, Raw, None, Inc, Option

\* A stage makes items of items.
LEMMA AppliedTyped ==
  ASSUME NEW node \in NodeRecords, NEW s \in Seq(Items)
  PROVE  Applied(node, s) \in Seq(Items)
<1>1. node.op \in Sources \cup Stages /\ node.n \in Int
  BY DEF NodeRecords
<1>2. \A i \in DOMAIN s : Inc(s[i]) \in Items /\ Option(s[i]) \in Items
  BY CallbacksTyped
<1>3. CASE node.op \in {"map", "option"}
  BY <1>2, <1>3, SMTT(60) DEF Applied
<1>4. CASE node.op = "filter"
  BY <1>4, KeptTyped DEF Applied
<1>5. CASE node.op = "take"
  BY <1>1, <1>5 DEF Applied, AtLeast0
<1>6. CASE node.op = "drop"
  BY <1>1, <1>6 DEF Applied, AtLeast0
<1>7. CASE node.op = "scan"
  <2>1. \A i \in DOMAIN s : Raw(Totals(s)[i]) \in Items
    BY TotalsTyped DEF Raw, Items
  <2> QED BY <1>7, <2>1 DEF Applied
<1>8. CASE node.op = "keep_some"
  <2> DEFINE some == Kept(s, {i \in DOMAIN s : s[i] # None})
  <2>1. some \in Seq(Items)
    BY KeptTyped
  <2> HIDE DEF some
  <2>2. \A i \in DOMAIN some : Raw(some[i][2]) \in Items
    BY <2>1, CallbacksTyped
  <2>3. Applied(node, s) = [i \in DOMAIN some |-> Raw(some[i][2])]
    BY <1>8 DEF Applied, some
  <2> QED BY <2>1, <2>2, <2>3
<1>9. CASE node.op \notin {"map", "option", "filter", "take", "drop", "scan", "keep_some"}
  BY <1>9 DEF Applied
<1> QED BY <1>3, <1>4, <1>5, <1>6, <1>7, <1>8, <1>9

\* A stage makes nothing of nothing.
LEMMA AppliedEmpty ==
  ASSUME NEW node \in NodeRecords
  PROVE  Applied(node, <<>>) = <<>>
<1>1. node.op \in Sources \cup Stages /\ node.n \in Int
  BY DEF NodeRecords
<1>2. \A P : Kept(<<>>, P) = <<>>
  BY KeptUnfolds, KeptAt
<1>3. CASE node.op \in {"map", "option", "scan"}
  BY <1>3 DEF Applied
<1>4. CASE node.op \in {"filter", "keep_some"}
  BY <1>2, <1>4 DEF Applied
<1>5. CASE node.op \in {"take", "drop"}
  BY <1>1, <1>5 DEF Applied, AtLeast0
<1>6. CASE node.op \notin {"map", "option", "filter", "take", "drop", "scan", "keep_some"}
  BY <1>6 DEF Applied
<1> QED BY <1>3, <1>4, <1>5, <1>6

\* A sequence longer by one that begins like another is that other and its last item.
LEMMA AppendOf ==
  ASSUME NEW S, NEW a \in Seq(S), NEW b \in Seq(S), NEW x \in S,
         Len(a) = Len(b) + 1, \A i \in 1..Len(b) : a[i] = b[i], a[Len(b) + 1] = x
  PROVE  a = Append(b, x)
  OBVIOUS

\* A map makes one more item of one more item.
LEMMA MapAppend ==
  ASSUME NEW node \in NodeRecords, NEW s \in Seq(Items), NEW x \in Items
  PROVE  /\ node.op = "map" => Applied(node, Append(s, x)) = Append(Applied(node, s), Inc(x))
         /\ node.op = "option" => Applied(node, Append(s, x)) = Append(Applied(node, s), Option(x))
<1>1. CASE node.op = "map"
  BY <1>1 DEF Applied
<1>2. CASE node.op = "option"
  BY <1>2 DEF Applied
<1> QED BY <1>1, <1>2

\* A filter keeps one more item when it is odd.
LEMMA FilterAppend ==
  ASSUME NEW node \in NodeRecords, NEW s \in Seq(Items), NEW x \in Items, node.op = "filter"
  PROVE  Applied(node, Append(s, x)) = IF IsOdd(x) THEN Append(Applied(node, s), x) ELSE Applied(node, s)
<1> DEFINE t == Append(s, x)
           P == {i \in DOMAIN s : IsOdd(s[i])}
           Q == {i \in DOMAIN t : IsOdd(t[i])}
<1>1. \A i \in 1..Len(s) : i \in P <=> i \in Q
  OBVIOUS
<1>2. Len(s) + 1 \in Q <=> IsOdd(x)
  OBVIOUS
<1>3. Applied(node, s) = Kept(s, P) /\ Applied(node, t) = Kept(t, Q)
  BY DEF Applied
<1> HIDE DEF P, Q
<1> QED BY <1>1, <1>2, <1>3, KeptAppend

\* A take has its count, or all there is.
LEMMA TakeLen ==
  ASSUME NEW node \in NodeRecords, NEW s \in Seq(Items), node.op = "take"
  PROVE  Len(Applied(node, s)) = IF AtLeast0(node.n) < Len(s) THEN AtLeast0(node.n) ELSE Len(s)
<1>1. node.n \in Int
  BY DEF NodeRecords
<1> QED BY <1>1 DEF Applied, AtLeast0

\* A take has one more item while it has not its count.
LEMMA TakeAppend ==
  ASSUME NEW node \in NodeRecords, NEW s \in Seq(Items), NEW x \in Items, node.op = "take"
  PROVE  Applied(node, Append(s, x)) = IF Len(s) < node.n THEN Append(Applied(node, s), x) ELSE Applied(node, s)
<1>1. node.n \in Int
  BY DEF NodeRecords
<1> QED BY <1>1 DEF Applied, AtLeast0

\* A drop has one more item once it has dropped its count.
LEMMA DropAppend ==
  ASSUME NEW node \in NodeRecords, NEW s \in Seq(Items), NEW x \in Items, node.op = "drop"
  PROVE  Applied(node, Append(s, x)) = IF node.n <= Len(s) THEN Append(Applied(node, s), x) ELSE Applied(node, s)
<1> DEFINE k == AtLeast0(node.n)
<1>1. k \in Nat /\ (node.n <= Len(s) <=> k <= Len(s))
  BY DEF NodeRecords, AtLeast0
<1>2. /\ Applied(node, s) = SubSeq(s, k + 1, Len(s))
      /\ Applied(node, Append(s, x)) = SubSeq(Append(s, x), k + 1, Len(Append(s, x)))
  BY DEF Applied
<1> HIDE DEF k
<1>3. CASE k <= Len(s)
  <2> DEFINE t == Append(s, x)
             a == SubSeq(t, k + 1, Len(t))
             b == SubSeq(s, k + 1, Len(s))
  <2>1. t \in Seq(Items) /\ Len(t) = Len(s) + 1 /\ t[Len(s) + 1] = x /\ \A i \in 1..Len(s) : t[i] = s[i]
    OBVIOUS
  <2> HIDE DEF t
  <2>2. a \in Seq(Items) /\ Len(a) = Len(s) + 1 - k /\ \A i \in 1..(Len(s) + 1 - k) : a[i] = t[i + k]
    BY <1>1, <1>3, <2>1
  <2>3. b \in Seq(Items) /\ Len(b) = Len(s) - k /\ \A i \in 1..(Len(s) - k) : b[i] = s[i + k]
    BY <1>1, <1>3
  <2> HIDE DEF a, b
  <2>4. \A i \in 1..(Len(s) - k) : a[i] = b[i]
    BY <1>1, <1>3, <2>1, <2>2, <2>3
  <2>5. a[Len(s) + 1 - k] = x
    BY <1>1, <1>3, <2>1, <2>2
  <2>6. Len(b) = Len(s) - k /\ Len(a) = Len(b) + 1 /\ Len(b) + 1 = Len(s) + 1 - k
    BY <1>1, <1>3, <2>2, <2>3
  <2>7. a[Len(b) + 1] = x /\ \A i \in 1..Len(b) : a[i] = b[i]
    BY <2>4, <2>5, <2>6
  <2>8. a = Append(b, x)
    BY <2>2, <2>3, <2>6, <2>7, AppendOf
  <2> QED BY <1>1, <1>2, <1>3, <2>8 DEF a, b, t
<1>4. CASE ~(k <= Len(s))
  <2>1. SubSeq(Append(s, x), k + 1, Len(Append(s, x))) = <<>> /\ SubSeq(s, k + 1, Len(s)) = <<>>
    BY <1>1, <1>4
  <2> QED BY <1>1, <1>2, <1>4, <2>1
<1> QED BY <1>3, <1>4

\* A scan makes the next sum of one more item.
LEMMA ScanAppend ==
  ASSUME NEW node \in NodeRecords, NEW s \in Seq(Items), NEW x \in Items, node.op = "scan"
  PROVE  Applied(node, Append(s, x)) = Append(Applied(node, s), Raw(Totals(s)[Len(s)] + x[2]))
<1>1. /\ \A i \in 0..Len(s) : Totals(Append(s, x))[i] = Totals(s)[i]
      /\ Totals(Append(s, x))[Len(s) + 1] = Totals(s)[Len(s)] + x[2]
  BY TotalsAppend
<1> QED BY <1>1 DEF Applied

\* A keep_some unwraps one more item when it is a some.
LEMMA KeepSomeAppend ==
  ASSUME NEW node \in NodeRecords, NEW s \in Seq(Items), NEW x \in Items, node.op = "keep_some"
  PROVE  Applied(node, Append(s, x)) = IF x # None THEN Append(Applied(node, s), Raw(x[2])) ELSE Applied(node, s)
<1> DEFINE t == Append(s, x)
           P == {i \in DOMAIN s : s[i] # None}
           Q == {i \in DOMAIN t : t[i] # None}
           Raws(u) == [i \in DOMAIN u |-> Raw(u[i][2])]
<1>1. \A i \in 1..Len(s) : i \in P <=> i \in Q
  OBVIOUS
<1>2. Len(s) + 1 \in Q <=> x # None
  OBVIOUS
<1>3. Applied(node, s) = Raws(Kept(s, P)) /\ Applied(node, t) = Raws(Kept(t, Q))
  BY DEF Applied
<1> HIDE DEF P, Q
<1>4. Kept(s, P) \in Seq(Items)
  BY KeptTyped
<1>5. Kept(t, Q) = IF x # None THEN Append(Kept(s, P), x) ELSE Kept(s, P)
  BY <1>1, <1>2, KeptAppend
<1>6. \A u \in Seq(Items) : Raws(Append(u, x)) = Append(Raws(u), Raw(x[2]))
  OBVIOUS
<1> QED BY <1>3, <1>4, <1>5, <1>6

\* A source, lines and each pass on what they get.
LEMMA PassAppend ==
  ASSUME NEW node \in NodeRecords, NEW s \in Seq(Items), NEW x \in Items,
         node.op \in Sources \cup {"lines", "each"}
  PROVE  Applied(node, Append(s, x)) = Append(Applied(node, s), x) /\ Applied(node, s) = s
  BY DEF Applied, Sources

\* One more item gives one more item or none.
LEMMA AppliedGrows ==
  ASSUME NEW node \in NodeRecords, NEW s \in Seq(Items), NEW x \in Items
  PROVE  \/ Applied(node, Append(s, x)) = Applied(node, s)
         \/ \E y \in Items : Applied(node, Append(s, x)) = Append(Applied(node, s), y)
<1>1. node.op \in Sources \cup Stages
  BY DEF NodeRecords
<1>2. Inc(x) \in Items /\ Option(x) \in Items /\ Raw(x[2]) \in Items
  BY CallbacksTyped
<1>3. CASE node.op \in {"map", "option"}
  BY <1>2, <1>3, MapAppend
<1>4. CASE node.op = "filter"
  BY <1>4, FilterAppend
<1>5. CASE node.op = "take"
  BY <1>5, TakeAppend
<1>6. CASE node.op = "drop"
  BY <1>6, DropAppend
<1>7. CASE node.op = "scan"
  <2>1. Raw(Totals(s)[Len(s)] + x[2]) \in Items
    BY TotalsTyped, CallbacksTyped DEF Raw, Items
  <2> QED BY <1>7, <2>1, ScanAppend
<1>8. CASE node.op = "keep_some"
  BY <1>2, <1>8, KeepSomeAppend
<1>9. CASE node.op \in Sources \cup {"lines", "each"}
  BY <1>9, PassAppend
<1> QED BY <1>1, <1>3, <1>4, <1>5, <1>6, <1>7, <1>8, <1>9 DEF Stages

-----------------------------------------------------------------------------
(* The recursions of Path and Reference.                                   *)

\* Every node of a well-formed pipeline is a record that pulls from an earlier one.
LEMMA WellFormedNodes ==
  ASSUME NEW nodes, WellFormed(nodes)
  PROVE  /\ Len(nodes) \in Nat /\ DOMAIN nodes = 1..Len(nodes)
         /\ \A n \in 1..Len(nodes) :
              /\ nodes[n] \in NodeRecords
              /\ nodes[n].up \in 0..(n - 1)
              /\ nodes[n].op \in Sources \cup Stages
              /\ nodes[n].up = 0 <=> nodes[n].op \in Sources
<1>1. Len(nodes) \in Nat /\ DOMAIN nodes = 1..Len(nodes) /\ \A n \in 1..Len(nodes) : nodes[n] \in NodeRecords
  BY DEF WellFormed
<1>2. ASSUME NEW n \in 1..Len(nodes)
      PROVE  /\ nodes[n].up \in 0..(n - 1) /\ nodes[n].op \in Sources \cup Stages
             /\ nodes[n].up = 0 <=> nodes[n].op \in Sources
  <2>1. nodes[n].op \in Sources \cup Stages
    BY <1>1 DEF NodeRecords
  <2>2. CASE nodes[n].op \in Sources
    BY <1>1, <2>1, <2>2 DEF WellFormed
  <2>3. CASE nodes[n].op \notin Sources
    BY <1>1, <2>1, <2>3 DEF WellFormed
  <2> QED BY <2>1, <2>2, <2>3
<1> QED BY <1>1, <1>2

IsPath(f, nodes, k) == f = [m \in 0..k |-> IF m = 0 THEN {} ELSE {m} \cup f[nodes[m].up]]
IsMade(f, nodes, items, k) == f = [m \in 0..k |-> IF m = 0 THEN items ELSE Applied(nodes[m], f[nodes[m].up])]

\* What the equation of Path says of each node.
LEMMA PathAt ==
  ASSUME NEW f, NEW nodes, NEW k \in Nat, IsPath(f, nodes, k)
  PROVE  f[0] = {} /\ \A m \in 1..k : f[m] = {m} \cup f[nodes[m].up]
<1>1. \A m \in 0..k : f[m] = IF m = 0 THEN {} ELSE {m} \cup f[nodes[m].up]
  BY DEF IsPath
<1>2. 0 \in 0..k /\ \A m \in 1..k : m \in 0..k /\ m # 0
  OBVIOUS
<1>3. f[0] = {}
  BY <1>1, <1>2
<1>4. ASSUME NEW m \in 1..k PROVE f[m] = {m} \cup f[nodes[m].up]
  BY <1>1, <1>2
<1> QED BY <1>3, <1>4

\* The equation of Path has a solution.
LEMMA PathExists ==
  ASSUME NEW nodes, NEW N \in Nat, \A m \in 1..N : nodes[m].up \in 0..(m - 1)
  PROVE  \E f : IsPath(f, nodes, N)
<1> DEFINE T == {k \in Nat : k <= N => \E f : IsPath(f, nodes, k)}
<1>1. 0 \in T
  <2> DEFINE f == [m \in 0..0 |-> {}]
  <2>1. IsPath(f, nodes, 0)
    BY DEF IsPath
  <2> HIDE DEF f
  <2> QED BY <2>1
<1>2. ASSUME NEW k \in Nat, k \in T PROVE k + 1 \in T
  <2> SUFFICES ASSUME k + 1 <= N PROVE \E f : IsPath(f, nodes, k + 1)
    OBVIOUS
  <2>1. PICK f : IsPath(f, nodes, k)
    BY <1>2
  <2> DEFINE last == {k + 1} \cup f[nodes[k + 1].up]
             g == [m \in 0..(k + 1) |-> IF m <= k THEN f[m] ELSE last]
             Right(m) == IF m = 0 THEN {} ELSE {m} \cup g[nodes[m].up]
  <2>2. f[0] = {} /\ \A m \in 1..k : f[m] = {m} \cup f[nodes[m].up]
    BY <2>1, PathAt
  <2>3. ASSUME NEW m \in 0..(k + 1) PROVE g[m] = Right(m)
    <3>1. CASE m = 0
      <4>1. g[0] = f[0]
        OBVIOUS
      <4> QED BY <2>2, <3>1, <4>1
    <3>2. CASE m \in 1..k
      <4>1. nodes[m].up \in 0..k
        BY <3>2
      <4>2. g[m] = f[m] /\ g[nodes[m].up] = f[nodes[m].up]
        BY <3>2, <4>1
      <4>3. g[m] = {m} \cup g[nodes[m].up]
        BY <2>2, <3>2, <4>2
      <4>4. m # 0
        BY <3>2
      <4> QED BY <4>3, <4>4, Zenon
    <3>3. CASE m = k + 1
      <4>1. nodes[m].up \in 0..k
        BY <3>3
      <4>2. g[m] = last /\ g[nodes[m].up] = f[nodes[m].up]
        BY <3>3, <4>1
      <4>3. g[m] = {m} \cup g[nodes[m].up]
        BY <3>3, <4>2
      <4>4. m # 0
        BY <3>3
      <4> QED BY <4>3, <4>4, Zenon
    <3> QED BY <3>1, <3>2, <3>3
  <2>4. g = [m \in 0..(k + 1) |-> Right(m)]
    BY <2>3
  <2>5. IsPath(g, nodes, k + 1)
    BY <2>4 DEF IsPath
  <2> HIDE DEF g
  <2> QED BY <2>5
<1> HIDE DEF T
<1>3. Nat \subseteq T
  BY <1>1, <1>2, InductionByOne
<1> QED BY <1>3 DEF T

\* Path solves its equation.
LEMMA PathEq ==
  ASSUME NEW nodes, WellFormed(nodes)
  PROVE  /\ Path(nodes, 0) = {}
         /\ \A m \in 1..Len(nodes) : Path(nodes, m) = {m} \cup Path(nodes, nodes[m].up)
<1> DEFINE F == CHOOSE f : f = [m \in 0..Len(nodes) |-> IF m = 0 THEN {} ELSE {m} \cup f[nodes[m].up]]
<1>0. Len(nodes) \in Nat /\ \A m \in 1..Len(nodes) : nodes[m].up \in 0..(m - 1)
  BY WellFormedNodes
<1>1. \E f : f = [m \in 0..Len(nodes) |-> IF m = 0 THEN {} ELSE {m} \cup f[nodes[m].up]]
  <2>1. \E f : IsPath(f, nodes, Len(nodes))
    BY <1>0, PathExists
  <2> QED BY <2>1 DEF IsPath
<1>2. F = [m \in 0..Len(nodes) |-> IF m = 0 THEN {} ELSE {m} \cup F[nodes[m].up]]
  BY <1>1
<1>3. \A m : Path(nodes, m) = F[m]
  BY DEF Path
<1> HIDE DEF F
<1>4. IsPath(F, nodes, Len(nodes))
  BY <1>2 DEF IsPath
<1>5. F[0] = {} /\ \A m \in 1..Len(nodes) : F[m] = {m} \cup F[nodes[m].up]
  BY <1>0, <1>4, PathAt
<1>6. ASSUME NEW m \in 1..Len(nodes) PROVE Path(nodes, m) = {m} \cup Path(nodes, nodes[m].up)
  BY <1>3, <1>5
<1> QED BY <1>3, <1>5, <1>6

\* The equation of Reference has a solution.
LEMMA MadeExists ==
  ASSUME NEW nodes, NEW items, NEW N \in Nat, \A m \in 1..N : nodes[m].up \in 0..(m - 1)
  PROVE  \E f : IsMade(f, nodes, items, N)
<1> DEFINE T == {k \in Nat : k <= N => \E f : IsMade(f, nodes, items, k)}
<1>1. 0 \in T
  <2> DEFINE f == [m \in 0..0 |-> items]
  <2>1. IsMade(f, nodes, items, 0)
    BY DEF IsMade
  <2> HIDE DEF f
  <2> QED BY <2>1
<1>2. ASSUME NEW k \in Nat, k \in T PROVE k + 1 \in T
  <2> SUFFICES ASSUME k + 1 <= N PROVE \E f : IsMade(f, nodes, items, k + 1)
    OBVIOUS
  <2>1. PICK f : IsMade(f, nodes, items, k)
    BY <1>2
  <2> DEFINE last == Applied(nodes[k + 1], f[nodes[k + 1].up])
             g == [m \in 0..(k + 1) |-> IF m <= k THEN f[m] ELSE last]
             Right(m) == IF m = 0 THEN items ELSE Applied(nodes[m], g[nodes[m].up])
  <2>2. \A m \in 0..k : f[m] = IF m = 0 THEN items ELSE Applied(nodes[m], f[nodes[m].up])
    BY <2>1 DEF IsMade
  <2>3. ASSUME NEW m \in 0..(k + 1) PROVE g[m] = Right(m)
    <3>1. CASE m = 0
      BY <2>2, <3>1
    <3>2. CASE m \in 1..(k + 1)
      <4>1. nodes[m].up \in 0..k /\ g[nodes[m].up] = f[nodes[m].up]
        BY <3>2
      <4> QED BY <2>2, <3>2, <4>1
    <3> QED BY <3>1, <3>2
  <2>4. g = [m \in 0..(k + 1) |-> Right(m)]
    BY <2>3
  <2>5. IsMade(g, nodes, items, k + 1)
    BY <2>4 DEF IsMade
  <2> HIDE DEF g
  <2> QED BY <2>5
<1> HIDE DEF T
<1>3. Nat \subseteq T
  BY <1>1, <1>2, InductionByOne
<1> QED BY <1>3 DEF T

\* Reference solves its equation.
LEMMA ReferenceEq ==
  ASSUME NEW nodes, NEW items, WellFormed(nodes)
  PROVE  /\ Reference(nodes, 0, items) = items
         /\ \A m \in 1..Len(nodes) :
              Reference(nodes, m, items) = Applied(nodes[m], Reference(nodes, nodes[m].up, items))
<1> DEFINE F == CHOOSE f : f = [m \in 0..Len(nodes) |-> IF m = 0 THEN items ELSE Applied(nodes[m], f[nodes[m].up])]
<1>0. Len(nodes) \in Nat /\ \A m \in 1..Len(nodes) : nodes[m].up \in 0..(m - 1)
  BY WellFormedNodes
<1>1. \E f : f = [m \in 0..Len(nodes) |-> IF m = 0 THEN items ELSE Applied(nodes[m], f[nodes[m].up])]
  <2>1. \E f : IsMade(f, nodes, items, Len(nodes))
    BY <1>0, MadeExists
  <2> QED BY <2>1 DEF IsMade
<1>2. F = [m \in 0..Len(nodes) |-> IF m = 0 THEN items ELSE Applied(nodes[m], F[nodes[m].up])]
  BY <1>1
<1>3. \A m : Reference(nodes, m, items) = F[m]
  BY DEF Reference
<1> HIDE DEF F
<1>4. \A m \in 0..Len(nodes) : F[m] = IF m = 0 THEN items ELSE Applied(nodes[m], F[nodes[m].up])
  BY <1>2
<1> QED BY <1>0, <1>3, <1>4

-----------------------------------------------------------------------------
(* The nodes of a pipeline are in line.                                    *)

\* A path leads down, and to the source.
LEMMA PathMembers ==
  ASSUME NEW nodes, WellFormed(nodes)
  PROVE  \A n \in 0..Len(nodes) : \A m \in Path(nodes, n) : m \in 1..n /\ (nodes[m].up # 0 => nodes[m].up \in Path(nodes, n))
<1> DEFINE P(n) == \A m \in Path(nodes, n) : m \in 1..n /\ (nodes[m].up # 0 => nodes[m].up \in Path(nodes, n))
           T == {n \in Nat : n <= Len(nodes) => P(n)}
<1>1. ASSUME NEW n \in Nat, \A m \in 0..(n - 1) : m \in T PROVE n \in T
  <2> SUFFICES ASSUME n <= Len(nodes) PROVE P(n)
    OBVIOUS
  <2>1. CASE n = 0
    BY <2>1, PathEq
  <2>2. CASE n # 0
    <3> DEFINE u == nodes[n].up
    <3>1. n \in 1..Len(nodes) /\ u \in 0..(n - 1) /\ Len(nodes) \in Nat
      BY <2>2, WellFormedNodes
    <3>2. u \in T
      BY <1>1, <3>1
    <3>3. P(u)
      BY <3>1, <3>2
    <3>4. Path(nodes, n) = {n} \cup Path(nodes, u)
      BY <3>1, PathEq
    <3>5. u # 0 => u \in Path(nodes, u)
      BY <3>1, PathEq
    <3> QED BY <3>1, <3>3, <3>4, <3>5
  <2> QED BY <2>1, <2>2
<1> HIDE DEF T
<1>2. Nat \subseteq T
  BY <1>1, InductionFromBelow
<1> QED BY <1>2 DEF T

\* A node further down a path is on the path from the next one.
LEMMA PathInLine ==
  ASSUME NEW nodes, WellFormed(nodes)
  PROVE  \A n \in 0..Len(nodes) : \A m, t \in Path(nodes, n) : m < t => m \in Path(nodes, nodes[t].up)
<1> DEFINE P(n) == \A m, t \in Path(nodes, n) : m < t => m \in Path(nodes, nodes[t].up)
           T == {n \in Nat : n <= Len(nodes) => P(n)}
<1>1. ASSUME NEW n \in Nat, \A m \in 0..(n - 1) : m \in T PROVE n \in T
  <2> SUFFICES ASSUME n <= Len(nodes) PROVE P(n)
    OBVIOUS
  <2>1. CASE n = 0
    BY <2>1, PathEq
  <2>2. CASE n # 0
    <3> DEFINE u == nodes[n].up
    <3>1. n \in 1..Len(nodes) /\ u \in 0..(n - 1) /\ u \in 0..Len(nodes) /\ Len(nodes) \in Nat
      BY <2>2, WellFormedNodes
    <3>2. u \in T
      BY <1>1, <3>1
    <3>3. P(u)
      BY <3>1, <3>2
    <3>4. Path(nodes, n) = {n} \cup Path(nodes, u)
      BY <3>1, PathEq
    <3>5. \A m \in Path(nodes, u) : m \in 1..u
      BY <3>1, PathMembers
    <3>6. ASSUME NEW m \in Path(nodes, n), NEW t \in Path(nodes, n), m < t PROVE m \in Path(nodes, nodes[t].up)
      <4>1. CASE t = n
        BY <3>1, <3>4, <3>6, <4>1
      <4>2. CASE t # n
        BY <3>1, <3>3, <3>4, <3>5, <3>6, <4>2
      <4> QED BY <4>1, <4>2
    <3> QED BY <3>6
  <2> QED BY <2>1, <2>2
<1> HIDE DEF T
<1>2. Nat \subseteq T
  BY <1>1, InductionFromBelow
<1> QED BY <1>2 DEF T

\* A pipeline has one source.
LEMMA OneSource ==
  ASSUME NEW nodes, WellFormed(nodes), NEW n \in 1..Len(nodes)
  PROVE  /\ SourceOf(nodes, n) \in Path(nodes, n)
         /\ nodes[SourceOf(nodes, n)].up = 0
         /\ \A m \in Path(nodes, n) : nodes[m].up = 0 => m = SourceOf(nodes, n)
<1> DEFINE T == {k \in Nat : k \in 1..Len(nodes) => \E m \in Path(nodes, k) : nodes[m].up = 0}
<1>0. Len(nodes) \in Nat
  BY WellFormedNodes
<1>1. ASSUME NEW k \in Nat, \A m \in 0..(k - 1) : m \in T PROVE k \in T
  <2> SUFFICES ASSUME k \in 1..Len(nodes) PROVE \E m \in Path(nodes, k) : nodes[m].up = 0
    OBVIOUS
  <2> DEFINE u == nodes[k].up
  <2>1. u \in 0..(k - 1) /\ Path(nodes, k) = {k} \cup Path(nodes, u)
    BY PathEq, WellFormedNodes
  <2>2. CASE u = 0
    BY <2>1, <2>2
  <2>3. CASE u # 0
    BY <1>0, <1>1, <2>1, <2>3
  <2> QED BY <2>2, <2>3
<1> HIDE DEF T
<1>2. Nat \subseteq T
  BY <1>1, InductionFromBelow
<1>3. \E m \in Path(nodes, n) : nodes[m].up = 0
  BY <1>0, <1>2 DEF T
<1>4. SourceOf(nodes, n) \in Path(nodes, n) /\ nodes[SourceOf(nodes, n)].up = 0
  BY <1>3 DEF SourceOf
<1>5. ASSUME NEW m \in Path(nodes, n), NEW k \in Path(nodes, n), nodes[m].up = 0, nodes[k].up = 0, m < k PROVE FALSE
  BY <1>0, <1>5, PathInLine, PathEq
<1>6. \A m \in Path(nodes, n) : m \in Nat
  BY <1>0, PathMembers
<1> QED BY <1>4, <1>5, <1>6

-----------------------------------------------------------------------------
(* What a pipeline makes of more items.                                    *)

\* A pipeline makes items of items.
LEMMA ReferenceTyped ==
  ASSUME NEW nodes, WellFormed(nodes), NEW items \in Seq(Items)
  PROVE  \A n \in 0..Len(nodes) : Reference(nodes, n, items) \in Seq(Items)
<1> DEFINE T == {n \in Nat : n <= Len(nodes) => Reference(nodes, n, items) \in Seq(Items)}
<1>1. ASSUME NEW n \in Nat, \A m \in 0..(n - 1) : m \in T PROVE n \in T
  <2> SUFFICES ASSUME n <= Len(nodes) PROVE Reference(nodes, n, items) \in Seq(Items)
    OBVIOUS
  <2>1. CASE n = 0
    BY <2>1, ReferenceEq
  <2>2. CASE n # 0
    <3>1. n \in 1..Len(nodes) /\ nodes[n].up \in 0..(n - 1) /\ nodes[n] \in NodeRecords /\ Len(nodes) \in Nat
      BY <2>2, WellFormedNodes
    <3>2. Reference(nodes, nodes[n].up, items) \in Seq(Items)
      BY <1>1, <3>1
    <3> QED BY <3>1, <3>2, AppliedTyped, ReferenceEq
  <2> QED BY <2>1, <2>2
<1> HIDE DEF T
<1>2. Nat \subseteq T
  BY <1>1, InductionFromBelow
<1> QED BY <1>2 DEF T

\* A pipeline makes nothing of nothing.
LEMMA ReferenceOfNothing ==
  ASSUME NEW nodes, WellFormed(nodes)
  PROVE  \A n \in 0..Len(nodes) : Reference(nodes, n, <<>>) = <<>>
<1> DEFINE T == {n \in Nat : n <= Len(nodes) => Reference(nodes, n, <<>>) = <<>>}
<1>1. ASSUME NEW n \in Nat, \A m \in 0..(n - 1) : m \in T PROVE n \in T
  <2> SUFFICES ASSUME n <= Len(nodes) PROVE Reference(nodes, n, <<>>) = <<>>
    OBVIOUS
  <2>1. CASE n = 0
    BY <2>1, ReferenceEq
  <2>2. CASE n # 0
    <3>1. n \in 1..Len(nodes) /\ nodes[n].up \in 0..(n - 1) /\ nodes[n] \in NodeRecords /\ Len(nodes) \in Nat
      BY <2>2, WellFormedNodes
    <3>2. Reference(nodes, nodes[n].up, <<>>) = <<>>
      BY <1>1, <3>1
    <3>3. Reference(nodes, n, <<>>) = Applied(nodes[n], Reference(nodes, nodes[n].up, <<>>))
      BY <3>1, ReferenceEq, Zenon
    <3>4. Reference(nodes, n, <<>>) = Applied(nodes[n], <<>>)
      BY <3>2, <3>3, Zenon
    <3> QED BY <3>1, <3>4, AppliedEmpty, Zenon
  <2> QED BY <2>1, <2>2
<1> HIDE DEF T
<1>2. Nat \subseteq T
  BY <1>1, InductionFromBelow
<1> QED BY <1>2 DEF T

\* A source makes its own items.
LEMMA ReferenceOfSource ==
  ASSUME NEW nodes, WellFormed(nodes), NEW items \in Seq(Items), NEW n \in 1..Len(nodes), nodes[n].up = 0
  PROVE  Reference(nodes, n, items) = items
<1>1. nodes[n].op \in Sources
  BY WellFormedNodes
<1>2. Reference(nodes, 0, items) = items
  BY ReferenceEq, Zenon
<1>3. Reference(nodes, n, items) = Applied(nodes[n], Reference(nodes, nodes[n].up, items))
  BY ReferenceEq
<1>4. Reference(nodes, n, items) = Applied(nodes[n], items)
  BY <1>2, <1>3, Zenon
<1> QED BY <1>1, <1>4 DEF Applied, Sources

\* Of one more item of the source a node makes one more item or none.
LEMMA ReferenceGrows ==
  ASSUME NEW nodes, WellFormed(nodes), NEW items \in Seq(Items), NEW x \in Items
  PROVE  \A n \in 0..Len(nodes) :
           \/ Reference(nodes, n, Append(items, x)) = Reference(nodes, n, items)
           \/ \E y \in Items : Reference(nodes, n, Append(items, x)) = Append(Reference(nodes, n, items), y)
<1> DEFINE P(n) == \/ Reference(nodes, n, Append(items, x)) = Reference(nodes, n, items)
                   \/ \E y \in Items : Reference(nodes, n, Append(items, x)) = Append(Reference(nodes, n, items), y)
           T == {n \in Nat : n <= Len(nodes) => P(n)}
<1>1. ASSUME NEW n \in Nat, \A m \in 0..(n - 1) : m \in T PROVE n \in T
  <2> SUFFICES ASSUME n <= Len(nodes) PROVE P(n)
    OBVIOUS
  <2>1. CASE n = 0
    <3>1. Reference(nodes, 0, items) = items /\ Reference(nodes, 0, Append(items, x)) = Append(items, x)
      BY ReferenceEq, Zenon
    <3> QED BY <2>1, <3>1
  <2>2. CASE n # 0
    <3> DEFINE u == nodes[n].up
    <3>1. n \in 1..Len(nodes) /\ u \in 0..(n - 1) /\ u \in 0..Len(nodes) /\ nodes[n] \in NodeRecords /\ Len(nodes) \in Nat
      BY <2>2, WellFormedNodes
    <3>2. P(u)
      BY <1>1, <3>1
    <3>3. Reference(nodes, u, items) \in Seq(Items)
      BY <3>1, ReferenceTyped
    <3>4. /\ Reference(nodes, n, items) = Applied(nodes[n], Reference(nodes, u, items))
          /\ Reference(nodes, n, Append(items, x)) = Applied(nodes[n], Reference(nodes, u, Append(items, x)))
      BY <3>1, ReferenceEq
    <3>5. CASE Reference(nodes, u, Append(items, x)) = Reference(nodes, u, items)
      BY <3>4, <3>5
    <3>6. ASSUME NEW y \in Items, Reference(nodes, u, Append(items, x)) = Append(Reference(nodes, u, items), y)
          PROVE  P(n)
      BY <3>1, <3>3, <3>4, <3>6, AppliedGrows
    <3> QED BY <3>2, <3>5, <3>6
  <2> QED BY <2>1, <2>2
<1> HIDE DEF T
<1>2. Nat \subseteq T
  BY <1>1, InductionFromBelow
<1> QED BY <1>2 DEF T

\* What is made further down depends on what a node makes and nothing else.
LEMMA ReferenceSame ==
  ASSUME NEW nodes, WellFormed(nodes), NEW items, NEW others, NEW m \in 1..Len(nodes),
         Reference(nodes, m, items) = Reference(nodes, m, others)
  PROVE  \A n \in 0..Len(nodes) : m \in Path(nodes, n) => Reference(nodes, n, items) = Reference(nodes, n, others)
<1> DEFINE P(n) == m \in Path(nodes, n) => Reference(nodes, n, items) = Reference(nodes, n, others)
           T == {n \in Nat : n <= Len(nodes) => P(n)}
<1>1. ASSUME NEW n \in Nat, \A k \in 0..(n - 1) : k \in T PROVE n \in T
  <2> SUFFICES ASSUME n <= Len(nodes), m \in Path(nodes, n)
               PROVE  Reference(nodes, n, items) = Reference(nodes, n, others)
    OBVIOUS
  <2>1. CASE n = m
    BY <2>1
  <2>2. CASE n # m
    <3> DEFINE u == nodes[n].up
    <3>0. n # 0
      BY PathEq
    <3>1. n \in 1..Len(nodes) /\ u \in 0..(n - 1) /\ u \in 0..Len(nodes) /\ Len(nodes) \in Nat
      BY <3>0, WellFormedNodes
    <3>2. m \in Path(nodes, u)
      BY <2>2, <3>1, PathEq
    <3>3. Reference(nodes, u, items) = Reference(nodes, u, others)
      BY <1>1, <3>1, <3>2
    <3>4. /\ Reference(nodes, n, items) = Applied(nodes[n], Reference(nodes, u, items))
          /\ Reference(nodes, n, others) = Applied(nodes[n], Reference(nodes, u, others))
      BY <3>1, ReferenceEq, ZenonT(60)
    <3> QED BY <3>3, <3>4, Zenon
  <2> QED BY <2>1, <2>2
<1> HIDE DEF T
<1>2. Nat \subseteq T
  BY <1>1, InductionFromBelow
<1> QED BY <1>2 DEF T

-----------------------------------------------------------------------------
(* What a pipeline makes of the first k items of its source.               *)

First(nodes, n, k, offset) == Reference(nodes, n, Counted(k, offset))

\* The items of a source, and its next one.
LEMMA CountedTyped ==
  ASSUME NEW k \in Nat, NEW offset \in Int
  PROVE  /\ Counted(k, offset) \in Seq(Items) /\ Len(Counted(k, offset)) = k
         /\ Raw(k + 1 + offset) \in Items
         /\ Counted(k + 1, offset) = Append(Counted(k, offset), Raw(k + 1 + offset))
<1>1. \A x \in Int : Raw(x) \in Items
  BY DEF Raw, Items
<1>2. Counted(k, offset) \in Seq(Items) /\ Len(Counted(k, offset)) = k
  BY <1>1 DEF Counted
<1>3. Counted(k + 1, offset) = Append(Counted(k, offset), Raw(k + 1 + offset))
  BY DEF Counted
<1> QED BY <1>1, <1>2, <1>3

\* What a node makes of the first items of its source are items, none of none.
LEMMA FirstTyped ==
  ASSUME NEW nodes, WellFormed(nodes), NEW n \in 1..Len(nodes), NEW offset \in Int
  PROVE  /\ \A k \in Nat : First(nodes, n, k, offset) \in Seq(Items)
         /\ First(nodes, n, 0, offset) = <<>>
<1>1. n \in 0..Len(nodes)
  BY WellFormedNodes
<1>2. ASSUME NEW k \in Nat PROVE First(nodes, n, k, offset) \in Seq(Items)
  BY <1>1, CountedTyped, ReferenceTyped DEF First
<1>3. Counted(0, offset) = <<>>
  BY DEF Counted
<1> QED BY <1>1, <1>2, <1>3, ReferenceOfNothing DEF First

\* Of one more item read a node makes one more item or none.
LEMMA FirstGrows ==
  ASSUME NEW nodes, WellFormed(nodes), NEW n \in 1..Len(nodes), NEW offset \in Int, NEW k \in Nat
  PROVE  \/ First(nodes, n, k + 1, offset) = First(nodes, n, k, offset)
         \/ \E y \in Items : First(nodes, n, k + 1, offset) = Append(First(nodes, n, k, offset), y)
<1>1. n \in 0..Len(nodes)
  BY WellFormedNodes
<1> DEFINE items == Counted(k, offset)
           x == Raw(k + 1 + offset)
<1>2. items \in Seq(Items) /\ x \in Items /\ Counted(k + 1, offset) = Append(items, x)
  BY CountedTyped
<1> HIDE DEF items, x
<1>3. \/ Reference(nodes, n, Append(items, x)) = Reference(nodes, n, items)
      \/ \E y \in Items : Reference(nodes, n, Append(items, x)) = Append(Reference(nodes, n, items), y)
  BY <1>1, <1>2, ReferenceGrows, Zenon
<1>4. First(nodes, n, k, offset) = Reference(nodes, n, items) /\ First(nodes, n, k + 1, offset) = Reference(nodes, n, Append(items, x))
  BY <1>2 DEF First, items
<1> QED BY <1>3, <1>4, Zenon

\* A prefix stays one when the sequence grows.
LEMMA PrefixStep ==
  ASSUME NEW s \in Seq(Items), NEW t \in Seq(Items), NEW u \in Seq(Items), IsPrefix(s, t),
         u = t \/ \E y \in Items : u = Append(t, y)
  PROVE  IsPrefix(s, u)
  BY DEF IsPrefix

\* Pipelines are monotone: what a node makes of fewer items of its source is a
\* prefix of what it makes of more, so that items can be delivered as they come.
THEOREM FirstPrefix ==
  ASSUME NEW nodes, WellFormed(nodes), NEW n \in 1..Len(nodes), NEW offset \in Int, NEW i \in Nat
  PROVE  \A j \in Nat : i <= j => IsPrefix(First(nodes, n, i, offset), First(nodes, n, j, offset))
<1> DEFINE F(k) == First(nodes, n, k, offset)
           T == {d \in Nat : IsPrefix(F(i), F(i + d))}
<1>0. \A k \in Nat : F(k) \in Seq(Items)
  BY FirstTyped
<1>1. 0 \in T
  BY <1>0 DEF IsPrefix
<1>2. ASSUME NEW d \in Nat, d \in T PROVE d + 1 \in T
  <2>1. i + d \in Nat /\ i + (d + 1) = (i + d) + 1
    OBVIOUS
  <2>2. F((i + d) + 1) = F(i + d) \/ \E y \in Items : F((i + d) + 1) = Append(F(i + d), y)
    BY <2>1, FirstGrows
  <2>3. IsPrefix(F(i), F((i + d) + 1))
    <3> HIDE DEF F
    <3> QED BY <1>0, <1>2, <2>1, <2>2, PrefixStep
  <2> QED BY <2>1, <2>3
<1> HIDE DEF T
<1>3. Nat \subseteq T
  BY <1>1, <1>2, InductionByOne
<1>4. ASSUME NEW j \in Nat, i <= j PROVE IsPrefix(F(i), F(j))
  <2>1. j - i \in T /\ i + (j - i) = j
    BY <1>3, <1>4
  <2> QED BY <2>1 DEF T
<1> QED BY <1>4

\* A prefix is shorter, or the same.
LEMMA PrefixLen ==
  ASSUME NEW s \in Seq(Items), NEW t \in Seq(Items), IsPrefix(s, t)
  PROVE  Len(s) <= Len(t) /\ (Len(s) = Len(t) => s = t)
<1>1. Len(s) <= Len(t) /\ SubSeq(s, 1, Len(s)) = SubSeq(t, 1, Len(s))
  BY DEF IsPrefix
<1>2. SubSeq(s, 1, Len(s)) = s /\ SubSeq(t, 1, Len(t)) = t
  OBVIOUS
<1> QED BY <1>1, <1>2

-----------------------------------------------------------------------------
(* A stage that is given its items one at a time.                          *)

\* What drop has left of its count after k items.
Left(n, k) == IF k < n THEN n - k ELSE IF n < 0 THEN n ELSE 0

\* The count c and the carried value v a node has after k items of its source.
InStep(nodes, offset, n, k, c, v) ==
  LET given == First(nodes, nodes[n].up, k, offset) IN
  /\ nodes[n].op = "take" => c = nodes[n].n - Len(First(nodes, n, k, offset))
  /\ nodes[n].op = "drop" => c = Left(nodes[n].n, Len(given))
  /\ nodes[n].op = "scan" => v = Totals(given)[Len(given)]
  /\ nodes[n].op = "list" => c = k
  /\ nodes[n].op = "evolve" => v = k

\* A stage makes its items of those of the node it pulls from.
LEMMA FirstOfStage ==
  ASSUME NEW nodes, WellFormed(nodes), NEW n \in 1..Len(nodes), nodes[n].up # 0, NEW offset \in Int, NEW k \in Nat
  PROVE  /\ nodes[n].up \in 1..Len(nodes) /\ nodes[n] \in NodeRecords /\ nodes[n].op \in Stages /\ nodes[n].n \in Int
         /\ First(nodes, nodes[n].up, k, offset) \in Seq(Items)
         /\ First(nodes, n, k, offset) \in Seq(Items)
         /\ First(nodes, n, k, offset) = Applied(nodes[n], First(nodes, nodes[n].up, k, offset))
<1>1. /\ Len(nodes) \in Nat /\ nodes[n] \in NodeRecords /\ nodes[n].up \in 0..(n - 1)
      /\ nodes[n].op \in Sources \cup Stages /\ nodes[n].op \notin Sources
  BY WellFormedNodes
<1>2. nodes[n].n \in Int
  BY <1>1 DEF NodeRecords
<1>3. nodes[n].up \in 1..Len(nodes)
  BY <1>1
<1>4. First(nodes, n, k, offset) = Applied(nodes[n], First(nodes, nodes[n].up, k, offset))
  BY ReferenceEq, Zenon DEF First
<1> QED BY <1>1, <1>2, <1>3, <1>4, FirstTyped

\* A source that is read once more gives its next item.
LEMMA FirstOfSource ==
  ASSUME NEW nodes, WellFormed(nodes), NEW n \in 1..Len(nodes), nodes[n].up = 0, NEW offset \in Int, NEW k \in Nat
  PROVE  First(nodes, n, k + 1, offset) = Append(First(nodes, n, k, offset), Raw(k + 1 + offset))
<1>1. /\ Counted(k, offset) \in Seq(Items) /\ Counted(k + 1, offset) \in Seq(Items)
      /\ Counted(k + 1, offset) = Append(Counted(k, offset), Raw(k + 1 + offset))
  <2>1. k + 1 \in Nat
    OBVIOUS
  <2> QED BY <2>1, CountedTyped
<1> HIDE DEF Counted
<1>2. First(nodes, n, k, offset) = Counted(k, offset) /\ First(nodes, n, k + 1, offset) = Counted(k + 1, offset)
  BY <1>1, ReferenceOfSource DEF First
<1> QED BY <1>1, <1>2

\* What a count is after one more item.
LEMMA LeftStep ==
  ASSUME NEW n \in Int, NEW k \in Nat, NEW c \in Int, c = Left(n, k)
  PROVE  /\ c > 0 <=> ~(n <= k)
         /\ c > 0 => c - 1 = Left(n, k + 1)
         /\ c <= 0 => c = Left(n, k + 1)
  BY DEF Left

\* What each stage does with item k + 1 of its source, x, given its count c and
\* its state v: the item it makes of it, if any, and what they are then.
StepOf(nodes, offset, n, k, x, c, v) ==
  LET op == nodes[n].op
      Emits(w) == First(nodes, n, k + 1, offset) = Append(First(nodes, n, k, offset), w)
      Skips == First(nodes, n, k + 1, offset) = First(nodes, n, k, offset)
      Now(a, b) == InStep(nodes, offset, n, k + 1, a, b)
  IN  /\ op \in {"lines", "each"} => Emits(x) /\ Now(c, v)
      /\ op = "map" => Emits(Inc(x)) /\ Now(c, v)
      /\ op = "option" => Emits(Option(x)) /\ Now(c, v)
      /\ op = "filter" /\ IsOdd(x) => Emits(x) /\ Now(c, v)
      /\ op = "filter" /\ ~IsOdd(x) => Skips /\ Now(c, v)
      /\ op = "keep_some" /\ x # None => Emits(Raw(x[2])) /\ Now(c, v)
      /\ op = "keep_some" /\ x = None => Skips /\ Now(c, v)
      /\ op = "take" /\ c > 0 => Emits(x) /\ Now(c - 1, v)
      /\ op = "drop" /\ c <= 0 => Emits(x) /\ Now(c, v)
      /\ op = "drop" /\ c > 0 => Skips /\ Now(c - 1, v)
      /\ op = "scan" => Emits(Raw(v + x[2])) /\ Now(c, v + x[2])

\* A stage needs only its count and its sum: what the pulls of src/flow.hpp do
\* with the next item is what the stage makes of the whole longer sequence.
THEOREM StageStep ==
  ASSUME NEW nodes, WellFormed(nodes), NEW n \in 1..Len(nodes), nodes[n].up # 0, NEW offset \in Int, NEW k \in Nat,
         NEW x \in Items, NEW c \in Int, NEW v \in Int,
         First(nodes, nodes[n].up, k + 1, offset) = Append(First(nodes, nodes[n].up, k, offset), x),
         InStep(nodes, offset, n, k, c, v)
  PROVE  StepOf(nodes, offset, n, k, x, c, v)
<1> DEFINE node == nodes[n]
           s == First(nodes, nodes[n].up, k, offset)
           t == First(nodes, n, k, offset)
           t2 == First(nodes, n, k + 1, offset)
           Now(a, b) == InStep(nodes, offset, n, k + 1, a, b)
<1>1. /\ node \in NodeRecords /\ node.op \in Stages /\ node.n \in Int
      /\ s \in Seq(Items) /\ t \in Seq(Items) /\ t = Applied(node, s)
  BY FirstOfStage
<1>2. t2 \in Seq(Items) /\ t2 = Applied(node, Append(s, x))
  <2>1. k + 1 \in Nat
    OBVIOUS
  <2>2. /\ First(nodes, n, k + 1, offset) \in Seq(Items)
        /\ First(nodes, n, k + 1, offset) = Applied(nodes[n], First(nodes, nodes[n].up, k + 1, offset))
    BY <2>1, FirstOfStage, Zenon
  <2> QED BY <2>2, Zenon
<1>3. /\ node.op = "take" => c = node.n - Len(t)
      /\ node.op = "drop" => c = Left(node.n, Len(s))
      /\ node.op = "scan" => v = Totals(s)[Len(s)]
  BY DEF InStep
<1>4. ASSUME NEW a, NEW b
      PROVE  Now(a, b) <=> /\ node.op = "take" => a = node.n - Len(t2)
                           /\ node.op = "drop" => a = Left(node.n, Len(Append(s, x)))
                           /\ node.op = "scan" => b = Totals(Append(s, x))[Len(Append(s, x))]
  BY <1>1 DEF InStep, Stages
<1>5. Len(Append(s, x)) = Len(s) + 1 /\ Len(s) \in Nat /\ Len(Append(t, x)) = Len(t) + 1 /\ Len(t) \in Nat
  BY <1>1
<1> HIDE DEF node, s, t, t2, Now
<1>6. ASSUME node.op \in {"lines", "each"} PROVE t2 = Append(t, x) /\ Now(c, v)
  BY <1>1, <1>2, <1>4, <1>6, PassAppend
<1>7. node.op = "map" => t2 = Append(t, Inc(x)) /\ Now(c, v)
  BY <1>1, <1>2, <1>4, MapAppend
<1>8. node.op = "option" => t2 = Append(t, Option(x)) /\ Now(c, v)
  BY <1>1, <1>2, <1>4, MapAppend
<1>9. node.op = "filter" => t2 = (IF IsOdd(x) THEN Append(t, x) ELSE t) /\ Now(c, v)
  BY <1>1, <1>2, <1>4, FilterAppend
<1>10. node.op = "keep_some" => t2 = (IF x # None THEN Append(t, Raw(x[2])) ELSE t) /\ Now(c, v)
  BY <1>1, <1>2, <1>4, KeepSomeAppend
<1>11. ASSUME node.op = "take", c > 0 PROVE t2 = Append(t, x) /\ Now(c - 1, v)
  <2>1. Len(t) = IF AtLeast0(node.n) < Len(s) THEN AtLeast0(node.n) ELSE Len(s)
    BY <1>1, <1>11, TakeLen
  <2>2. Len(s) < node.n
    BY <1>1, <1>3, <1>5, <1>11, <2>1, SMTT(60) DEF AtLeast0
  <2>3. t2 = Append(t, x)
    BY <1>1, <1>2, <1>11, <2>2, TakeAppend
  <2>4. Len(t2) = Len(t) + 1 /\ Len(t2) \in Int /\ Len(t) \in Int
    BY <1>5, <2>3
  <2>5. c \in Int /\ node.n \in Int /\ c = node.n - Len(t)
    BY <1>1, <1>3, <1>11
  <2>6. c - 1 = node.n - Len(t2)
    BY ONLY <2>4, <2>5
  <2> QED BY <1>4, <1>11, <2>3, <2>6
<1>12. ASSUME node.op = "drop"
       PROVE  /\ c > 0 => t2 = t /\ Now(c - 1, v)
              /\ c <= 0 => t2 = Append(t, x) /\ Now(c, v)
  <2>1. c = Left(node.n, Len(s))
    BY <1>3, <1>12
  <2>2. /\ c > 0 <=> ~(node.n <= Len(s))
        /\ c > 0 => c - 1 = Left(node.n, Len(s) + 1)
        /\ c <= 0 => c = Left(node.n, Len(s) + 1)
    BY <1>1, <1>5, <2>1, LeftStep, SMTT(60)
  <2>3. t2 = IF node.n <= Len(s) THEN Append(t, x) ELSE t
    BY <1>1, <1>2, <1>12, DropAppend
  <2>4. ~(c > 0 /\ c <= 0) /\ (c > 0 \/ c <= 0)
    OBVIOUS
  <2> QED BY <1>4, <1>5, <1>12, <2>2, <2>3, <2>4
<1>13. node.op = "scan" => t2 = Append(t, Raw(v + x[2])) /\ Now(c, v + x[2])
  <2>1. node.op = "scan" => Totals(Append(s, x))[Len(Append(s, x))] = v + x[2]
    BY <1>1, <1>3, <1>5, TotalsAppend
  <2> QED BY <1>1, <1>2, <1>3, <1>4, <2>1, ScanAppend, ZenonT(60)
<1>14. /\ node.op = "filter" /\ IsOdd(x) => t2 = Append(t, x) /\ Now(c, v)
       /\ node.op = "filter" /\ ~IsOdd(x) => t2 = t /\ Now(c, v)
       /\ node.op = "keep_some" /\ x # None => t2 = Append(t, Raw(x[2])) /\ Now(c, v)
       /\ node.op = "keep_some" /\ x = None => t2 = t /\ Now(c, v)
  BY <1>9, <1>10
<1> QED BY <1>6, <1>7, <1>8, <1>11, <1>12, <1>13, <1>14, Zenon DEF StepOf, node, t, t2, Now

-----------------------------------------------------------------------------
(* The stages on the way from a node to its source.                        *)

\* The nodes of a path are in line: each but the source pulls from the next one down.
LEMMA OnTheWay ==
  ASSUME NEW nodes, WellFormed(nodes), NEW t \in 1..Len(nodes)
  PROVE  /\ t \in Path(nodes, t) /\ Len(nodes) \in Nat
         /\ \A m \in Path(nodes, t) :
              /\ m \in 1..Len(nodes) /\ m <= t /\ nodes[m] \in NodeRecords /\ nodes[m].up \in 0..(m - 1)
              /\ nodes[m].up # 0 => nodes[m].up \in Path(nodes, t)
              /\ nodes[m].up = 0 <=> nodes[m].op \in Sources
         /\ \A m, n \in Path(nodes, t) :
              n < m => nodes[m].up # 0 /\ n <= nodes[m].up /\ n \in Path(nodes, nodes[m].up) /\ n \in Path(nodes, m)
<1>1. Len(nodes) \in Nat /\ t \in 0..Len(nodes) /\ Path(nodes, t) = {t} \cup Path(nodes, nodes[t].up)
  BY WellFormedNodes, PathEq
<1>2. ASSUME NEW m \in Path(nodes, t)
      PROVE  /\ m \in 1..Len(nodes) /\ m <= t /\ nodes[m] \in NodeRecords /\ nodes[m].up \in 0..(m - 1)
             /\ nodes[m].up # 0 => nodes[m].up \in Path(nodes, t)
             /\ nodes[m].up = 0 <=> nodes[m].op \in Sources
  <2>1. m \in 1..t /\ (nodes[m].up # 0 => nodes[m].up \in Path(nodes, t))
    BY <1>1, PathMembers
  <2>2. m \in 1..Len(nodes) /\ m <= t
    BY <1>1, <2>1
  <2> QED BY <2>1, <2>2, WellFormedNodes
<1>3. ASSUME NEW m \in Path(nodes, t), NEW n \in Path(nodes, t), n < m
      PROVE  nodes[m].up # 0 /\ n <= nodes[m].up /\ n \in Path(nodes, nodes[m].up) /\ n \in Path(nodes, m)
  <2>1. n \in Path(nodes, nodes[m].up)
    BY <1>1, <1>3, PathInLine
  <2>2. nodes[m].up \in 0..Len(nodes) /\ m \in 1..Len(nodes)
    BY <1>1, <1>2
  <2>3. nodes[m].up # 0
    BY <2>1, PathEq
  <2>4. n \in 1..nodes[m].up
    BY <2>1, <2>2, PathMembers
  <2>5. n \in Path(nodes, m)
    BY <2>1, <2>2, PathEq
  <2> QED BY <2>1, <2>2, <2>3, <2>4, <2>5
<1> QED BY <1>1, <1>2, <1>3

\* When an item makes no difference to what a node makes, neither do those
\* after the node see it.
LEMMA SkipUnseen ==
  ASSUME NEW nodes, WellFormed(nodes), NEW t \in 1..Len(nodes), NEW n \in Path(nodes, t), NEW m \in Path(nodes, t),
         NEW offset \in Int, NEW k \in Nat, NEW c, NEW v,
         First(nodes, n, k + 1, offset) = First(nodes, n, k, offset)
  PROVE  /\ n <= m => First(nodes, m, k + 1, offset) = First(nodes, m, k, offset)
         /\ n < m /\ InStep(nodes, offset, m, k, c, v) => InStep(nodes, offset, m, k + 1, c, v)
<1>1. Len(nodes) \in Nat /\ n \in 1..Len(nodes) /\ m \in 1..Len(nodes) /\ m \in 0..Len(nodes) /\ n \in Path(nodes, n)
  <2>1. Len(nodes) \in Nat /\ n \in 1..Len(nodes) /\ m \in 1..Len(nodes)
    BY OnTheWay
  <2> QED BY <2>1, OnTheWay
<1>2. \A j \in 0..Len(nodes) : n \in Path(nodes, j) => First(nodes, j, k + 1, offset) = First(nodes, j, k, offset)
  BY <1>1, ReferenceSame DEF First
<1>3. ASSUME n < m
      PROVE  /\ n \in Path(nodes, m) /\ n \in Path(nodes, nodes[m].up) /\ nodes[m].up \in 0..Len(nodes)
             /\ nodes[m].op \notin Sources
  BY <1>1, <1>3, OnTheWay
<1>4. ASSUME n <= m PROVE First(nodes, m, k + 1, offset) = First(nodes, m, k, offset)
  <2>1. CASE n = m
    BY <2>1
  <2>2. CASE n # m
    BY <1>1, <1>2, <1>3, <1>4, <2>2
  <2> QED BY <2>1, <2>2
<1>5. ASSUME n < m, InStep(nodes, offset, m, k, c, v) PROVE InStep(nodes, offset, m, k + 1, c, v)
  <2>1. /\ First(nodes, m, k + 1, offset) = First(nodes, m, k, offset)
        /\ First(nodes, nodes[m].up, k + 1, offset) = First(nodes, nodes[m].up, k, offset)
    BY <1>1, <1>2, <1>3, <1>5
  <2>2. nodes[m].op # "list" /\ nodes[m].op # "evolve"
    BY <1>3, <1>5 DEF Sources
  <2> QED BY <1>5, <2>1, <2>2 DEF InStep
<1> QED BY <1>4, <1>5

\* Items after a satisfied take's are not seen behind it.
LEMMA TakeIsFull ==
  ASSUME NEW nodes, WellFormed(nodes), NEW n \in 1..Len(nodes), nodes[n].op = "take", NEW offset \in Int,
         NEW k \in Nat, NEW j \in Nat, k <= j, nodes[n].n <= Len(First(nodes, n, k, offset))
  PROVE  First(nodes, n, j, offset) = First(nodes, n, k, offset)
<1> DEFINE s == First(nodes, n, k, offset)
           t == First(nodes, n, j, offset)
           u == First(nodes, nodes[n].up, j, offset)
<1>1. nodes[n].up # 0
  BY WellFormedNodes DEF Sources
<1>2. s \in Seq(Items) /\ nodes[n].n \in Int
  BY <1>1, FirstOfStage
<1>3. t \in Seq(Items) /\ u \in Seq(Items) /\ nodes[n] \in NodeRecords /\ t = Applied(nodes[n], u)
  BY <1>1, FirstOfStage
<1>4. IsPrefix(s, t)
  BY FirstPrefix
<1> HIDE DEF s, t, u
<1>5. Len(t) = IF AtLeast0(nodes[n].n) < Len(u) THEN AtLeast0(nodes[n].n) ELSE Len(u)
  BY <1>3, TakeLen
<1>6. Len(t) <= AtLeast0(nodes[n].n)
  BY <1>2, <1>3, <1>5 DEF AtLeast0
<1>7. AtLeast0(nodes[n].n) <= Len(s)
  BY <1>2 DEF AtLeast0, s
<1>8. Len(s) <= Len(t) /\ (Len(s) = Len(t) => s = t)
  BY <1>2, <1>3, <1>4, PrefixLen
<1>9. Len(s) = Len(t)
  BY <1>2, <1>3, <1>6, <1>7, <1>8 DEF AtLeast0
<1> QED BY <1>8, <1>9 DEF s, t

\* What a node makes of the same is the same.
LEMMA StageSame ==
  ASSUME NEW nodes, WellFormed(nodes), NEW n \in 1..Len(nodes), nodes[n].up # 0, NEW offset \in Int,
         NEW k \in Nat, NEW j \in Nat,
         First(nodes, nodes[n].up, j, offset) = First(nodes, nodes[n].up, k, offset)
  PROVE  First(nodes, n, j, offset) = First(nodes, n, k, offset)
<1>1. First(nodes, n, k, offset) = Applied(nodes[n], First(nodes, nodes[n].up, k, offset))
  BY FirstOfStage, Zenon
<1>2. First(nodes, n, j, offset) = Applied(nodes[n], First(nodes, nodes[n].up, j, offset))
  BY FirstOfStage, Zenon
<1> QED BY <1>1, <1>2, Zenon

\* A pipeline that has not read anything is in step, and each passes on what
\* it is given.
LEMMA FreshInStep ==
  ASSUME NEW nodes, WellFormed(nodes), NEW n \in 1..Len(nodes), NEW offset \in Int
  PROVE  InStep(nodes, offset, n, 0, nodes[n].n, 0)
<1>1. nodes[n] \in NodeRecords /\ Len(nodes) \in Nat
  BY WellFormedNodes
<1>2. First(nodes, n, 0, offset) = <<>> /\ nodes[n].n \in Int
  BY <1>1, FirstTyped DEF NodeRecords
<1>3. CASE nodes[n].up = 0
  BY <1>2, <1>3, WellFormedNodes DEF InStep, Sources, WellFormed
<1>4. CASE nodes[n].up # 0
  <2>1. First(nodes, nodes[n].up, 0, offset) = <<>>
    BY <1>4, FirstOfStage, FirstTyped
  <2>2. nodes[n].op \in Stages
    BY <1>4, FirstOfStage
  <2>3. <<>> \in Seq(Items)
    OBVIOUS
  <2>4. Totals(<<>>)[0] = 0
    BY <2>3, TotalsTyped
  <2>5. nodes[n].n = Left(nodes[n].n, 0)
    BY <1>2 DEF Left
  <2> QED BY <1>2, <2>1, <2>2, <2>4, <2>5 DEF InStep, Stages
<1> QED BY <1>3, <1>4


-----------------------------------------------------------------------------
(* The inductive invariant.                                                *)

Line == Path(program.nodes, Target)
Statuses == {"idle", "pull", "end", "consumed twice", "unsupported", "callback failed"}

Typed ==
  /\ program \in Programs
  /\ consumed \in [Nodes -> BOOLEAN]
  /\ started \subseteq Nodes
  /\ count \in [Nodes -> Int]
  /\ state \in [Nodes -> Int]
  /\ cursor \in 0..Lines
  /\ stack \in Seq(Nodes)
  /\ reply \in Items \cup {End, NoReply}
  /\ terminal \in Nat \ {0}
  /\ output \in Seq(Items)
  /\ effects \in [Nodes -> Seq(Items)]
  /\ served \subseteq DOMAIN program.terminals
  /\ began \in 0..Lines
  /\ reads \in Nat
  /\ status \in Statuses

\* A terminal or a started Flow consumes one Flow, and no two the same.
Consumers ==
  /\ \A t \in served : t <= terminal /\ consumed[program.terminals[t]]
  /\ status = "idle" => terminal \notin served
  /\ \A m \in started : Up(m) \in Nodes /\ consumed[Up(m)]
  /\ \A t, u \in served : program.terminals[t] = program.terminals[u] => t = u
  /\ \A m, k \in started : Up(m) = Up(k) => m = k
  /\ \A t \in served, m \in started : program.terminals[t] # Up(m)
  /\ \A n \in Nodes : consumed[n] =>
       (\E t \in served : program.terminals[t] = n) \/ (\E m \in started : Up(m) = n)

\* Nothing has happened to a Flow nobody consumes.
Fresh ==
  \A n \in Nodes : ~consumed[n] =>
    /\ n \notin started
    /\ count[n] = program.nodes[n].n /\ state[n] = 0 /\ effects[n] = <<>>

\* Only the running terminal pulls.
Resting ==
  /\ status # "pull" => stack = <<>> /\ reply = NoReply
  /\ Begun => terminal \in DOMAIN program.terminals /\ terminal \in served
  /\ status = "pull" /\ stack = <<>> => reply # NoReply

\* The nodes being pulled: down from the target, and all but the last asked.
Chained ==
  stack # <<>> =>
    /\ stack[1] = Target
    /\ \A i \in DOMAIN stack : stack[i] \in Line /\ consumed[stack[i]]
    /\ \A i \in 1..(Len(stack) - 1) : stack[i + 1] = Up(stack[i])
    /\ \A m \in Line : m > Top => m \in started
    /\ reply # NoReply => Top \in started
    /\ \A m \in Line : Op(m) = "take" /\ (m > Top \/ (m = Top /\ reply # NoReply)) => count[m] > 0

\* The items of the source that node m has had.
Waits(m) == stack # <<>> /\ m >= Top
Seen(m) == IF reply \in Items /\ Waits(m) THEN reads - 1 ELSE reads
Live(m) == m \in Line /\ \A k \in Line : k > m => k \in started

Sync ==
  status = "pull" =>
    \A m \in Line : Live(m) =>
      /\ reply # End => InStep(program.nodes, Offset, m, Seen(m), count[m], state[m])
      /\ Op(m) = "each" => effects[m] = First(program.nodes, m, Seen(m), Offset)

\* What has been read, and that all of the chain had been started by then.
Supply ==
  Begun =>
    /\ Op(Source) = "stdin" => cursor = began + reads
    /\ Op(Source) = "list" => reads <= Lines
    /\ reads > 0 => \A m \in Line : m \in started \/ Up(m) = 0

\* Where the reply comes from, and what it is.
From == IF stack = <<>> THEN Target ELSE Up(Top)
Emitted ==
  status = "pull" /\ reply \in Items =>
    /\ reads > 0
    /\ First(program.nodes, From, reads, Offset) = Append(First(program.nodes, From, reads - 1, Offset), reply)

\* What the terminal has.
Received ==
  Begun => output = First(program.nodes, Target, IF reply \in Items THEN reads - 1 ELSE reads, Offset)

\* No take on the chain had its count when the last item was read.
Wanted ==
  Begun /\ reads > 0 =>
    \A m \in Line : Op(m) = "take" => Len(First(program.nodes, m, reads - 1, Offset)) < program.nodes[m].n

\* An end is final: more items of the source, as far as there are any, would
\* make no difference.
Possible(k) ==
  /\ reads <= k
  /\ Op(Source) = "stdin" => k <= Lines - began
  /\ Op(Source) = "list" => k <= Lines
Complete(n) ==
  \A k \in Nat : Possible(k) => First(program.nodes, n, k, Offset) = First(program.nodes, n, reads, Offset)
Ended ==
  /\ status = "pull" /\ reply = End => Complete(From)
  /\ status = "end" => Complete(Target)

IInv ==
  /\ Typed /\ Consumers /\ Fresh /\ Resting /\ Chained
  /\ Sync /\ Supply /\ Emitted /\ Received /\ Wanted /\ Ended

-----------------------------------------------------------------------------
(* The chain of the running terminal.                                      *)

\* The nodes and the terminals of the running program.
LEMMA Programmed ==
  ASSUME Typed
  PROVE  /\ WellFormed(program.nodes) /\ Len(program.nodes) \in Nat /\ Nodes = 1..Len(program.nodes)
         /\ program.terminals \in Seq(Nodes)
         /\ \A n \in Nodes : /\ program.nodes[n] \in NodeRecords /\ Up(n) \in 0..(n - 1) /\ program.nodes[n].n \in Int
                             /\ Up(n) = 0 <=> Op(n) \in Sources
                             /\ Op(n) \in Stages => Up(n) \in Nodes
<1>1. WellFormed(program.nodes) /\ program.terminals \in Seq(Nodes)
  BY ProgramsAssumption DEF Typed, Nodes
<1>2. Len(program.nodes) \in Nat /\ Nodes = 1..Len(program.nodes)
  BY <1>1, WellFormedNodes DEF Nodes
<1>3. ASSUME NEW n \in Nodes
      PROVE  /\ program.nodes[n] \in NodeRecords /\ Up(n) \in 0..(n - 1) /\ program.nodes[n].n \in Int
             /\ Up(n) = 0 <=> Op(n) \in Sources
             /\ Op(n) \in Stages => Up(n) \in Nodes
  <2>1. /\ program.nodes[n] \in NodeRecords /\ Up(n) \in 0..(n - 1)
        /\ Up(n) = 0 <=> Op(n) \in Sources
    BY <1>1, <1>2, WellFormedNodes DEF Up, Op
  <2>2. program.nodes[n].n \in Int
    BY <2>1 DEF NodeRecords
  <2>3. Op(n) \in Stages => Op(n) \notin Sources
    BY DEF Stages, Sources
  <2> QED BY <1>2, <2>1, <2>2, <2>3
<1> QED BY <1>1, <1>2, <1>3

\* The chain of the running terminal is in line, from its target down to one source.
LEMMA Chain ==
  ASSUME Typed, terminal \in DOMAIN program.terminals
  PROVE  /\ Target \in Line /\ Offset \in Int
         /\ Source \in Line /\ Up(Source) = 0 /\ \A m \in Line : Up(m) = 0 => m = Source
         /\ \A m \in Line : m \in Nodes /\ m \in Nat /\ m <= Target /\ (Up(m) # 0 => Up(m) \in Line)
         /\ \A m, n \in Line : n < m => Up(m) # 0 /\ n <= Up(m)
<1> USE DEF Up, Line
<1>1. WellFormed(program.nodes) /\ Nodes = 1..Len(program.nodes) /\ Target \in Nodes /\ Len(program.nodes) \in Nat
  BY Programmed DEF Target
<1>2. /\ Target \in Line /\ \A m \in Line : m \in Nodes /\ m <= Target /\ (Up(m) # 0 => Up(m) \in Line)
      /\ \A m, n \in Line : n < m => Up(m) # 0 /\ n <= Up(m)
  <2> DEFINE t == Target
  <2>1. t \in 1..Len(program.nodes)
    BY <1>1
  <2> HIDE DEF t
  <2>2. /\ t \in Path(program.nodes, t)
        /\ \A m \in Path(program.nodes, t) : m \in 1..Len(program.nodes) /\ m <= t
             /\ (program.nodes[m].up # 0 => program.nodes[m].up \in Path(program.nodes, t))
        /\ \A m, n \in Path(program.nodes, t) : n < m => program.nodes[m].up # 0 /\ n <= program.nodes[m].up
    BY <1>1, <2>1, OnTheWay
  <2> QED BY <1>1, <2>2 DEF t
<1>3. Source \in Line /\ Up(Source) = 0 /\ \A m \in Line : Up(m) = 0 => m = Source
  BY <1>1, OneSource DEF Source
<1>4. Offset \in Int
  BY LinesAssumption DEF Offset, Typed
<1>5. \A m \in Nodes : m \in Nat
  BY <1>1
<1> QED BY <1>2, <1>3, <1>4, <1>5

\* A step of the running terminal, or its failure, changes none of these.
LEMMA SameChain ==
  ASSUME UNCHANGED <<program, terminal, began>>
  PROVE  Nodes' = Nodes /\ Target' = Target /\ Line' = Line /\ Source' = Source /\ Offset' = Offset
  BY DEF Nodes, Target, Line, Source, Offset, Op

-----------------------------------------------------------------------------
(* The stack.                                                              *)

\* The innermost node being pulled, and those above it.
LEMMA TopOf ==
  ASSUME IInv, status = "pull", stack # <<>>
  PROVE  /\ terminal \in DOMAIN program.terminals
         /\ Top \in Nodes /\ Top \in Line /\ consumed[Top]
         /\ \A m \in Line : m > Top => m \in started
         /\ Len(stack) \in Nat /\ Len(stack) >= 1 /\ Top = stack[Len(stack)]
<1>1. terminal \in DOMAIN program.terminals
  BY DEF IInv, Resting, Begun
<1>2. Len(stack) \in Nat /\ Len(stack) >= 1 /\ Len(stack) \in DOMAIN stack
  BY DEF IInv, Typed
<1>3. Top \in Nodes /\ Top \in Line /\ consumed[Top]
  BY <1>2 DEF IInv, Typed, Chained, Top
<1> QED BY <1>1, <1>2, <1>3 DEF IInv, Chained, Top

\* The empty sequence is one of every kind.
LEMMA NoneYet ==
  ASSUME NEW S
  PROVE  <<>> \in Seq(S)
  OBVIOUS

\* A sequence without its last element.
LEMMA AllButLast ==
  ASSUME NEW S, NEW s \in Seq(S), s # <<>>, NEW t, t = SubSeq(s, 1, Len(s) - 1)
  PROVE  /\ t \in Seq(S) /\ Len(t) = Len(s) - 1 /\ Len(t) \in Nat
         /\ \A i \in 1..(Len(s) - 1) : t[i] = s[i]
         /\ DOMAIN t = 1..(Len(s) - 1) /\ DOMAIN s = 1..Len(s)
<1>1. Len(s) - 1 \in Nat /\ Len(s) \in Nat /\ DOMAIN s = 1..Len(s)
  OBVIOUS
<1>2. SubSeq(s, 1, Len(s) - 1) = [i \in 1..(Len(s) - 1) |-> s[i]]
  BY <1>1
<1>3. \A i \in 1..(Len(s) - 1) : s[i] \in S
  BY <1>1
<1>4. t \in Seq(S)
  BY <1>1, <1>2, <1>3
<1>5. Len(t) = Len(s) - 1
  BY <1>1, <1>2
<1>6. \A i \in 1..(Len(s) - 1) : t[i] = s[i]
  BY <1>2
<1>7. DOMAIN t = 1..(Len(s) - 1)
  BY <1>4, <1>5
<1> QED BY <1>1, <1>4, <1>5, <1>6, <1>7

\* When the innermost node returns, its caller is the next one up the chain.
LEMMA CallerShape ==
  ASSUME IInv, status = "pull", stack # <<>>, stack' = Caller, UNCHANGED <<program, terminal, began>>
  PROVE  /\ stack' \in Seq(Nodes)
         /\ From' = Top
         /\ stack' = <<>> => Top = Target
         /\ stack' # <<>> => /\ stack'[1] = Target
                             /\ Len(stack') = Len(stack) - 1 /\ Len(stack') \in Nat
                             /\ \A i \in DOMAIN stack' : i \in DOMAIN stack /\ stack'[i] = stack[i]
                             /\ Top' \in Line /\ Top' > Top
         /\ \A m \in Line : (stack' # <<>> /\ m >= Top') <=> m > Top
<1>0. /\ terminal \in DOMAIN program.terminals /\ Typed /\ Chained
      /\ Top \in Nodes /\ Top \in Line
      /\ Len(stack) \in Nat /\ Len(stack) >= 1 /\ Top = stack[Len(stack)] /\ stack \in Seq(Nodes)
  BY TopOf DEF IInv, Typed
<1>1. /\ stack' \in Seq(Nodes) /\ Len(stack') = Len(stack) - 1 /\ Len(stack') \in Nat
      /\ \A i \in 1..(Len(stack) - 1) : stack'[i] = stack[i]
      /\ DOMAIN stack' = 1..(Len(stack) - 1) /\ DOMAIN stack = 1..Len(stack)
  <2>1. stack' = SubSeq(stack, 1, Len(stack) - 1)
    BY DEF Caller
  <2> HIDE DEF Caller
  <2> QED BY <1>0, <2>1, AllButLast, Zenon
<1>2. Nodes \in SUBSET Nat /\ \A m \in Line : m \in Nodes /\ m <= Target
  BY <1>0, Programmed, Chain
<1>3. CASE Len(stack) = 1
  <2>1. stack' = <<>> /\ Top = Target
    BY <1>0, <1>1, <1>3 DEF Chained
  <2>2. From' = Top
    BY <2>1, SameChain DEF From
  <2>3. ASSUME NEW m \in Line PROVE ~(m > Top)
    BY <1>0, <1>2, <2>1
  <2> QED BY <1>1, <2>1, <2>2, <2>3
<1>4. CASE Len(stack) # 1
  <2>1. stack' # <<>> /\ Len(stack) - 1 \in 1..(Len(stack) - 1) /\ 1 \in 1..(Len(stack) - 1) /\ Len(stack) - 1 \in DOMAIN stack
    BY <1>0, <1>1, <1>4
  <2> DEFINE p == stack[Len(stack) - 1]
  <2>2. Top' = p
    BY <1>1, <2>1 DEF Top
  <2>3. p \in Line /\ Up(p) = Top
    <3>1. stack[(Len(stack) - 1) + 1] = Up(p)
      BY <1>0, <2>1 DEF Chained
    <3> QED BY <1>0, <2>1, <3>1 DEF Chained
  <2> HIDE DEF p
  <2>4. p \in Nat /\ Top \in Nat /\ p > Top
    <3>1. p \in Nodes /\ p \in Nat /\ Top \in Nat
      BY <1>0, <1>2, <2>3
    <3>2. Up(p) \in 0..(p - 1)
      BY <1>0, <3>1, Programmed
    <3> QED BY <2>3, <3>1, <3>2
  <2>5. From' = Top
    BY <2>1, <2>2, <2>3 DEF From, Up
  <2>6. ASSUME NEW m \in Line PROVE m >= p <=> m > Top
    <3>1. m \in Nat
      BY <1>2
    <3>2. m < p => m <= Up(p)
      BY <1>0, <2>3, Chain
    <3> QED BY <2>3, <2>4, <3>1, <3>2
  <2>7. stack'[1] = Target
    BY <1>0, <1>1, <2>1 DEF Chained
  <2> QED BY <1>1, <2>1, <2>2, <2>3, <2>4, <2>5, <2>6, <2>7
<1> QED BY <1>3, <1>4

-----------------------------------------------------------------------------
(* What most steps leave alone.                                            *)

\* A step that consumes nothing, of a terminal that is not between two.
LEMMA ConsumersKept ==
  ASSUME IInv, UNCHANGED <<program, consumed, started, terminal, served>>, status' # "idle"
  PROVE  Consumers'
<1>1. Nodes' = Nodes /\ \A m : Up(m)' = Up(m)
  BY DEF Nodes, Up
<1> QED BY <1>1 DEF IInv, Consumers, Up

\* A step that works on one node, and that one is consumed.
LEMMA FreshKept ==
  ASSUME IInv, UNCHANGED <<program, consumed, started>>, NEW n \in Nodes, consumed[n],
         \A m \in Nodes : m # n => count'[m] = count[m] /\ state'[m] = state[m] /\ effects'[m] = effects[m]
  PROVE  Fresh'
  BY DEF IInv, Fresh, Nodes

\* A node that answers its caller leaves the chain.
LEMMA ReturnChained ==
  ASSUME IInv, status = "pull", stack # <<>>, stack' = Caller,
         UNCHANGED <<program, consumed, started, terminal, began, status>>,
         \A m \in Nodes : m # Top => count'[m] = count[m]
  PROVE  Chained'
<1>0. terminal \in DOMAIN program.terminals /\ Typed /\ Chained
  BY TopOf DEF IInv
<1>1. Target' = Target /\ Line' = Line
  BY SameChain
<1> SUFFICES ASSUME stack' # <<>> PROVE Chained'
  BY DEF Chained
<1>2. /\ stack'[1] = Target
      /\ Len(stack') = Len(stack) - 1 /\ Len(stack') \in Nat /\ stack' \in Seq(Nodes)
      /\ \A i \in DOMAIN stack' : i \in DOMAIN stack /\ stack'[i] = stack[i]
      /\ Top' \in Line /\ Top' > Top
      /\ \A m \in Line : m >= Top' <=> m > Top
  BY CallerShape
<1>3. \A i \in DOMAIN stack' : stack'[i] \in Line /\ consumed[stack'[i]]
  BY <1>0, <1>2 DEF Chained
<1>4. ASSUME NEW i \in 1..(Len(stack') - 1) PROVE stack'[i + 1] = Up(stack'[i])
  <2>1. i \in 1..(Len(stack) - 1) /\ i \in DOMAIN stack' /\ i + 1 \in DOMAIN stack'
    BY <1>2
  <2> QED BY <1>0, <1>2, <2>1 DEF Chained
<1>5. \A m \in Line : m \in Nodes /\ m \in Nat
  BY <1>0, Chain, Programmed
<1>6. Top \in Nat /\ Top' \in Nat
  BY <1>2, <1>5, TopOf
<1>7. ASSUME NEW m \in Line, m >= Top' PROVE m > Top /\ m \in started /\ (Op(m) = "take" => count'[m] > 0)
  <2>1. m > Top /\ m # Top /\ m \in Nodes
    BY <1>2, <1>5, <1>6, <1>7
  <2> QED BY <1>0, <2>1 DEF Chained
<1>8. Top' \in started
  BY <1>2, <1>6, <1>7
<1>9. \A m \in Line : m > Top' \/ m = Top' => m >= Top'
  BY <1>5, <1>6
<1> HIDE DEF Top
<1> QED BY <1>1, <1>2, <1>3, <1>4, <1>7, <1>8, <1>9 DEF Chained, Up, Op

\* Which nodes of the chain are live depends on these variables alone.
LEMMA LiveKept ==
  ASSUME UNCHANGED <<program, terminal, began, started>>
  PROVE  \A m : Live(m)' = Live(m)
  BY SameChain DEF Live

-----------------------------------------------------------------------------
(* An item arrives at a stage.                                             *)

Emits(n, w) == First(program.nodes, n, reads, Offset) = Append(First(program.nodes, n, reads - 1, Offset), w)
Skips(n) == First(program.nodes, n, reads, Offset) = First(program.nodes, n, reads - 1, Offset)
After(n, c, v) == InStep(program.nodes, Offset, n, reads, c, v)

\* What a node knows when an item comes up to it.
LEMMA Arrived ==
  ASSUME IInv, Answered, NEW n, n = Top, reply # End
  PROVE  /\ reply \in Items /\ n \in Nodes /\ n \in Line /\ n \in started /\ consumed[n]
         /\ Live(n) /\ Waits(n)
         /\ Up(n) \in Nodes /\ Up(n) # 0 /\ Up(n) \in Line
         /\ reads \in Nat /\ reads > 0
         /\ count[n] \in Int /\ state[n] \in Int /\ effects[n] \in Seq(Items)
         /\ Emits(Up(n), reply)
         /\ InStep(program.nodes, Offset, n, reads - 1, count[n], state[n])
         /\ Op(n) = "each" => effects[n] = First(program.nodes, n, reads - 1, Offset)
         /\ Op(n) = "take" => count[n] > 0
<1>0. status = "pull" /\ stack # <<>> /\ reply # NoReply /\ Typed
  BY DEF Answered, IInv
<1>1. reply \in Items
  BY <1>0 DEF Typed
<1>2. n \in Nodes /\ n \in Line /\ n \in started /\ consumed[n] /\ (\A m \in Line : m > n => m \in started)
  BY <1>0, TopOf DEF IInv, Chained
<1>3. terminal \in DOMAIN program.terminals
  BY <1>0, TopOf
<1>4. Live(n) /\ Waits(n)
  <2>1. n \in Nat
    BY <1>0, <1>2, Programmed
  <2> QED BY <1>0, <1>2, <2>1 DEF Live, Waits
<1>5. Up(n) \in Nodes
  BY <1>2 DEF IInv, Consumers
<1>6. Up(n) # 0 /\ Up(n) \in Line
  BY <1>0, <1>2, <1>3, <1>5, Chain, Programmed
<1>7. reads \in Nat /\ reads > 0 /\ Emits(Up(n), reply)
  BY <1>0, <1>1 DEF IInv, Emitted, From, Emits, Up, Typed
<1>8. /\ InStep(program.nodes, Offset, n, reads - 1, count[n], state[n])
      /\ Op(n) = "each" => effects[n] = First(program.nodes, n, reads - 1, Offset)
  <2>1. Seen(n) = reads - 1
    BY <1>1, <1>4 DEF Seen
  <2> QED BY <1>0, <1>2, <1>4, <2>1 DEF IInv, Sync
<1>9. Op(n) = "take" => count[n] > 0
  BY <1>0, <1>2 DEF IInv, Chained
<1>10. count[n] \in Int /\ state[n] \in Int /\ effects[n] \in Seq(Items)
  BY <1>0, <1>2 DEF Typed
<1> QED BY <1>1, <1>2, <1>4, <1>5, <1>6, <1>7, <1>8, <1>9, <1>10

\* What the reference makes of the item.
LEMMA Processed ==
  ASSUME IInv, Answered, NEW n, n = Top, reply # End
  PROVE  LET c == count[n]
             v == state[n]
         IN  /\ Op(n) \in {"lines", "each"} => Emits(n, reply) /\ After(n, c, v)
             /\ Op(n) = "map" => Emits(n, Inc(reply)) /\ After(n, c, v)
             /\ Op(n) = "option" => Emits(n, Option(reply)) /\ After(n, c, v)
             /\ Op(n) = "filter" /\ IsOdd(reply) => Emits(n, reply) /\ After(n, c, v)
             /\ Op(n) = "filter" /\ ~IsOdd(reply) => Skips(n) /\ After(n, c, v)
             /\ Op(n) = "keep_some" /\ reply # None => Emits(n, Raw(reply[2])) /\ After(n, c, v)
             /\ Op(n) = "keep_some" /\ reply = None => Skips(n) /\ After(n, c, v)
             /\ Op(n) = "take" => Emits(n, reply) /\ After(n, c - 1, v)
             /\ Op(n) = "drop" /\ c <= 0 => Emits(n, reply) /\ After(n, c, v)
             /\ Op(n) = "drop" /\ c > 0 => Skips(n) /\ After(n, c - 1, v)
             /\ Op(n) = "scan" => Emits(n, Raw(v + reply[2])) /\ After(n, c, v + reply[2])
<1> DEFINE k == reads - 1
           nodes == program.nodes
           offset == Offset
           x == reply
           c == count[n]
           v == state[n]
<1>1. /\ x \in Items /\ c \in Int /\ v \in Int
      /\ InStep(nodes, offset, n, k, c, v)
      /\ Op(n) = "take" => c > 0
      /\ nodes[n].up # 0 /\ n \in Nodes /\ Emits(nodes[n].up, x)
  BY Arrived DEF Up
<1>2. reads \in Nat /\ reads > 0
  BY Arrived
<1>3. k \in Nat /\ k + 1 = reads
  BY <1>2
<1>4. WellFormed(nodes) /\ n \in 1..Len(nodes)
  BY <1>1, Programmed DEF IInv
<1>5. offset \in Int
  BY Chain, TopOf DEF IInv, Answered
<1>6. First(nodes, nodes[n].up, k + 1, offset) = Append(First(nodes, nodes[n].up, k, offset), x)
  BY <1>1, <1>3 DEF Emits
<1>7. /\ \A w : Emits(n, w) <=> First(nodes, n, k + 1, offset) = Append(First(nodes, n, k, offset), w)
      /\ Skips(n) <=> First(nodes, n, k + 1, offset) = First(nodes, n, k, offset)
      /\ \A a, b : After(n, a, b) <=> InStep(nodes, offset, n, k + 1, a, b)
  BY <1>3 DEF Emits, Skips, After
<1>8. Op(n) = nodes[n].op
  BY DEF Op
<1> HIDE DEF nodes, offset, x, c, v, k
<1>9. StepOf(nodes, offset, n, k, x, c, v)
  BY <1>1, <1>3, <1>4, <1>5, <1>6, StageStep, Zenon
<1> QED BY <1>1, <1>7, <1>8, <1>9, Zenon DEF x, c, v, StepOf

\* A stage passes an item on: it is in step with everything read.
LEMMA Emission ==
  ASSUME IInv, Answered, NEW n, n = Top, reply # End,
         NEW w \in Items, NEW c \in Int, NEW v \in Int, NEW e \in Seq(Items),
         Emits(n, w), After(n, c, v), Op(n) = "each" => e = First(program.nodes, n, reads, Offset),
         Return(w), UNCHANGED <<cursor, reads>>,
         count' = [count EXCEPT ![n] = c], state' = [state EXCEPT ![n] = v], effects' = [effects EXCEPT ![n] = e]
  PROVE  IInv'
<1>0. /\ status = "pull" /\ status' = "pull" /\ stack # <<>> /\ reply' = w /\ stack' = Caller
      /\ UNCHANGED <<program, consumed, started, terminal, began, status, output, served, cursor, reads>>
      /\ w # End /\ w # NoReply /\ reply \in Items
  BY Arrived DEF Answered, Return, historyVars, Items, End, NoReply
<1>1. /\ n \in Nodes /\ n \in Line /\ n \in started /\ consumed[n] /\ reads \in Nat /\ reads > 0
      /\ terminal \in DOMAIN program.terminals /\ Typed
  BY <1>0, Arrived, TopOf DEF IInv
<1>2. Target' = Target /\ Line' = Line /\ Source' = Source /\ Offset' = Offset /\ Nodes' = Nodes
  BY <1>0, SameChain
<1>3. /\ stack' \in Seq(Nodes) /\ From' = n
      /\ \A m \in Line : (stack' # <<>> /\ m >= Top') <=> m > n
  BY <1>0, CallerShape
<1>4. ASSUME NEW m \in Nodes
      PROVE  /\ m # n => count'[m] = count[m] /\ state'[m] = state[m] /\ effects'[m] = effects[m]
             /\ m = n => count'[m] = c /\ state'[m] = v /\ effects'[m] = e
  BY <1>1 DEF Typed
<1>5. Typed'
  BY <1>0, <1>1, <1>2, <1>3 DEF Typed
<1>6. Consumers' /\ Fresh' /\ Chained'
  BY <1>0, <1>1, <1>4, ConsumersKept, FreshKept, ReturnChained
<1>7. Resting' /\ Supply' /\ Wanted' /\ Received' /\ Ended'
  <2> USE <1>0, <1>1, <1>2 DEF IInv, Begun
  <2>1. Resting'
    BY DEF Resting
  <2>2. Supply'
    BY DEF Supply, Op, Up
  <2>3. Wanted'
    BY DEF Wanted, Op
  <2>4. Received'
    BY DEF Received
  <2>5. Ended'
    BY DEF Ended
  <2> QED BY <2>1, <2>2, <2>3, <2>4, <2>5
<1>8. Emitted'
  BY <1>0, <1>1, <1>2, <1>3 DEF Emitted, Emits
<1>9. Sync'
  <2> SUFFICES ASSUME NEW m \in Line, Live(m)
               PROVE  /\ InStep(program.nodes, Offset, m, Seen(m)', count'[m], state'[m])
                      /\ Op(m) = "each" => effects'[m] = First(program.nodes, m, Seen(m)', Offset)
    BY <1>0, <1>2, LiveKept DEF Sync, Op
  <2>1. m \in Nodes /\ m \in Nat /\ n \in Nat
    BY <1>1, Chain
  <2>2. CASE m = n
    <3>1. Seen(m)' = reads
      BY <1>0, <1>3, <2>1, <2>2 DEF Seen, Waits
    <3> QED BY <1>4, <2>1, <2>2, <3>1 DEF After
  <2>3. CASE m # n
    <3>1. Waits(m)' <=> Waits(m)
      BY <1>0, <1>3, <2>1, <2>3 DEF Waits
    <3>2. Seen(m)' = Seen(m)
      BY <1>0, <3>1 DEF Seen
    <3>3. /\ InStep(program.nodes, Offset, m, Seen(m), count[m], state[m])
          /\ Op(m) = "each" => effects[m] = First(program.nodes, m, Seen(m), Offset)
      BY <1>0 DEF IInv, Sync
    <3> QED BY <1>4, <2>1, <2>3, <3>2, <3>3
  <2> QED BY <2>2, <2>3
<1> QED BY <1>5, <1>6, <1>7, <1>8, <1>9 DEF IInv

\* A node that asks the node below it, or asks it again.
LEMMA AskChained ==
  ASSUME IInv, status = "pull", stack # <<>>, NEW n, n = Top, n \in started,
         stack' = Append(stack, Up(n)), reply' = NoReply,
         UNCHANGED <<program, consumed, started, terminal, began, status>>,
         \A m \in Nodes : m # n => count'[m] = count[m],
         Op(n) = "take" => count'[n] > 0
  PROVE  Chained' /\ stack' \in Seq(Nodes)
<1>0. /\ terminal \in DOMAIN program.terminals /\ Typed /\ Chained /\ n \in Nodes /\ n \in Line /\ n \in Nat
      /\ Len(stack) \in Nat /\ Len(stack) >= 1 /\ n = stack[Len(stack)] /\ stack \in Seq(Nodes)
      /\ \A m \in Line : m \in Nodes /\ m \in Nat
  BY TopOf, Chain DEF IInv, Typed
<1>1. Up(n) \in Nodes /\ consumed[Up(n)]
  BY DEF IInv, Consumers
<1>2. Up(n) \in Line /\ \A m \in Line : Up(n) < m => n <= m
  <2>1. Up(n) # 0 /\ Up(n) \in Nat
    BY <1>0, <1>1, Programmed
  <2>2. ASSUME NEW m \in Line, Up(n) < m PROVE n <= m
    <3>1. m < n => m <= Up(n)
      BY <1>0, Chain
    <3> QED BY <1>0, <2>1, <2>2, <3>1
  <2> QED BY <1>0, <2>1, <2>2, Chain
<1> DEFINE s == Append(stack, Up(n))
<1>3. /\ s \in Seq(Nodes) /\ Len(s) = Len(stack) + 1 /\ s # <<>> /\ s[Len(s)] = Up(n)
      /\ DOMAIN s = 1..(Len(stack) + 1) /\ DOMAIN stack = 1..Len(stack)
      /\ \A i \in 1..Len(stack) : s[i] = stack[i]
  BY <1>0, <1>1
<1> HIDE DEF s
<1>4. Top' = Up(n)
  BY <1>3 DEF Top, s
<1>5. s[1] = Target /\ \A i \in DOMAIN s : s[i] \in Line /\ consumed[s[i]]
  BY <1>0, <1>1, <1>2, <1>3 DEF Chained
<1>6. ASSUME NEW i \in 1..(Len(s) - 1) PROVE s[i + 1] = Up(s[i])
  <2>0. i \in 1..Len(stack)
    BY <1>0, <1>3
  <2>1. CASE i = Len(stack)
    BY <1>0, <1>3, <2>1
  <2>2. CASE i # Len(stack)
    <3>1. i \in 1..(Len(stack) - 1) /\ i \in 1..Len(stack) /\ i + 1 \in 1..Len(stack)
      BY <1>0, <2>0, <2>2
    <3> QED BY <1>0, <1>3, <3>1 DEF Chained
  <2> QED BY <2>1, <2>2
<1>7. ASSUME NEW m \in Line, m > Up(n) PROVE m \in started /\ (Op(m) = "take" => count'[m] > 0)
  <2>1. m = n \/ m > n
    <3>1. n <= m
      BY <1>2, <1>7
    <3> QED BY <1>0, <3>1
  <2> QED BY <1>0, <2>1 DEF Chained
<1>8. Target' = Target /\ Line' = Line
  BY SameChain
<1>9. stack' = s
  BY DEF s
<1> HIDE DEF Top
<1> QED BY <1>3, <1>4, <1>5, <1>6, <1>7, <1>8, <1>9 DEF Chained, Up, Op

\* What a node makes nothing of, no node behind it sees.
LEMMA Unseen ==
  ASSUME Typed, terminal \in DOMAIN program.terminals, reads > 0, NEW n \in Line, Skips(n)
  PROVE  /\ \A m \in Line : n <= m => Skips(m)
         /\ \A c, v : \A m \in Line : n < m /\ InStep(program.nodes, Offset, m, reads - 1, c, v) => After(m, c, v)
<1> DEFINE k == reads - 1
           nodes == program.nodes
           offset == Offset
           t == Target
<1>1. WellFormed(nodes) /\ t \in 1..Len(nodes) /\ offset \in Int /\ n \in Path(nodes, t)
  BY Programmed, Chain DEF Line
<1>2. k \in Nat /\ k + 1 = reads
  BY DEF Typed
<1>3. /\ \A m : Skips(m) <=> First(nodes, m, k + 1, offset) = First(nodes, m, k, offset)
      /\ \A m, c, v : After(m, c, v) <=> InStep(nodes, offset, m, k + 1, c, v)
  BY <1>2 DEF Skips, After
<1>4. \A m : m \in Line <=> m \in Path(nodes, t)
  BY DEF Line
<1>5. \A m, c, v : InStep(program.nodes, Offset, m, reads - 1, c, v) <=> InStep(nodes, offset, m, k, c, v)
  OBVIOUS
<1> HIDE DEF nodes, offset, t, k
<1>6. ASSUME NEW m \in Path(nodes, t), NEW c, NEW v
      PROVE  /\ n <= m => First(nodes, m, k + 1, offset) = First(nodes, m, k, offset)
             /\ n < m /\ InStep(nodes, offset, m, k, c, v) => InStep(nodes, offset, m, k + 1, c, v)
  BY <1>1, <1>2, <1>3, SkipUnseen
<1> QED BY <1>3, <1>4, <1>5, <1>6, Zenon

\* A stage skips an item: nothing behind it will see that item.
LEMMA Skipping ==
  ASSUME IInv, Answered, NEW n, n = Top, reply # End, NEW c \in Int, Skips(n), After(n, c, state[n]),
         Op(n) # "each", Op(n) = "take" => c > 0,
         Skip(n), UNCHANGED <<cursor, reads, state, effects>>, count' = [count EXCEPT ![n] = c]
  PROVE  IInv'
<1>0. /\ status = "pull" /\ status' = "pull" /\ stack # <<>> /\ reply' = NoReply /\ stack' = Append(stack, Up(n))
      /\ UNCHANGED <<program, consumed, started, terminal, began, status, output, served, cursor, reads>>
      /\ reply \in Items /\ NoReply \notin Items /\ NoReply # End
  BY Arrived DEF Answered, Skip, historyVars, Items, End, NoReply
<1>1. /\ n \in Nodes /\ n \in Line /\ n \in started /\ consumed[n] /\ reads \in Nat /\ reads > 0
      /\ Up(n) \in Nodes /\ Up(n) \in Line
      /\ terminal \in DOMAIN program.terminals /\ Typed /\ Chained /\ Target \in Line /\ Offset \in Int
  BY <1>0, Arrived, TopOf, Chain DEF IInv
<1>2. Target' = Target /\ Line' = Line /\ Source' = Source /\ Offset' = Offset /\ Nodes' = Nodes
  BY <1>0, SameChain
<1>3. ASSUME NEW m \in Nodes
      PROVE  /\ m # n => count'[m] = count[m] /\ state'[m] = state[m] /\ effects'[m] = effects[m]
             /\ m = n => count'[m] = c
  BY <1>0, <1>1 DEF Typed
<1>4. Typed'
  <2>1. stack' \in Seq(Nodes)
    BY <1>0, <1>1 DEF Typed
  <2> QED BY <1>0, <1>1, <1>2, <2>1 DEF Typed
<1>5. Consumers' /\ Fresh'
  BY <1>0, <1>1, <1>3, ConsumersKept, FreshKept
<1>6. Chained' /\ stack' \in Seq(Nodes)
  BY <1>0, <1>1, <1>3, AskChained
<1>7. Resting' /\ Supply' /\ Wanted' /\ Emitted' /\ Ended'
  <2> USE <1>0, <1>1, <1>2 DEF IInv, Begun
  <2>1. Resting'
    BY DEF Resting
  <2>2. Supply'
    BY DEF Supply, Op, Up
  <2>3. Wanted'
    BY DEF Wanted, Op
  <2>4. Emitted' /\ Ended'
    BY DEF Emitted, Ended
  <2> QED BY <2>1, <2>2, <2>3, <2>4
<1>8. \A m \in Line : m \in Nodes /\ m \in Nat /\ m <= Target
  BY <1>1, Chain
<1>9. Received'
  <2>1. Skips(Target)
    BY <1>1, <1>8, Unseen
  <2> QED BY <1>0, <1>2, <2>1 DEF IInv, Received, Skips, Begun
<1>10. Sync'
  <2> SUFFICES ASSUME NEW m \in Line, Live(m)
               PROVE  /\ InStep(program.nodes, Offset, m, reads, count'[m], state'[m])
                      /\ Op(m) = "each" => effects'[m] = First(program.nodes, m, reads, Offset)
    BY <1>0, <1>2, LiveKept DEF Sync, Op, Seen
  <2>0. /\ InStep(program.nodes, Offset, m, Seen(m), count[m], state[m])
        /\ Op(m) = "each" => effects[m] = First(program.nodes, m, Seen(m), Offset)
    BY <1>0 DEF IInv, Sync
  <2>1. CASE m = n
    BY <1>0, <1>1, <1>3, <2>1 DEF After
  <2>2. CASE m < n
    <3>1. Seen(m) = reads
      BY <1>1, <1>8, <2>2 DEF Seen, Waits
    <3> QED BY <1>1, <1>3, <1>8, <2>0, <2>2, <3>1
  <2>3. CASE m > n
    <3>1. Seen(m) = reads - 1
      BY <1>0, <1>1, <1>8, <2>3 DEF Seen, Waits
    <3>2. After(m, count[m], state[m]) /\ Skips(m)
      BY <1>1, <1>8, <2>0, <2>3, <3>1, Unseen
    <3> QED BY <1>0, <1>1, <1>3, <1>8, <2>0, <2>3, <3>1, <3>2 DEF After, Skips
  <2> QED BY <1>1, <1>8, <2>1, <2>2, <2>3
<1> QED BY <1>4, <1>5, <1>6, <1>7, <1>9, <1>10 DEF IInv

-----------------------------------------------------------------------------
(* Sources, and the end of the items.                                      *)

\* What the innermost node knows before it does anything.
LEMMA Asked ==
  ASSUME IInv, Pulling, NEW n, n = Top
  PROVE  /\ status = "pull" /\ stack # <<>> /\ reply = NoReply /\ reply \notin Items /\ reply # End
         /\ n \in Nodes /\ n \in Nat /\ n \in Line /\ consumed[n] /\ Live(n)
         /\ terminal \in DOMAIN program.terminals /\ Typed
         /\ \A m : Seen(m) = reads
         /\ \A m \in Line : Live(m) => InStep(program.nodes, Offset, m, reads, count[m], state[m])
         /\ \A m \in Line : m > n => Live(m) /\ m \in started /\ (Op(m) = "take" => count[m] > 0)
<1>0. status = "pull" /\ stack # <<>> /\ reply = NoReply /\ reply \notin Items /\ reply # End
  BY DEF Pulling, Items, End, NoReply
<1>1. /\ n \in Nodes /\ n \in Line /\ consumed[n] /\ (\A m \in Line : m > n => m \in started)
      /\ terminal \in DOMAIN program.terminals /\ Typed
  BY <1>0, TopOf DEF IInv
<1>2. n \in Nat /\ \A m \in Line : m \in Nat
  BY <1>1, Chain
<1>3. Live(n) /\ \A m \in Line : m > n => Live(m)
  BY <1>1, <1>2 DEF Live
<1>4. \A m : Seen(m) = reads
  BY <1>0 DEF Seen
<1>5. \A m \in Line : Live(m) => InStep(program.nodes, Offset, m, reads, count[m], state[m])
  BY <1>0, <1>4 DEF IInv, Sync
<1>6. \A m \in Line : m > n /\ Op(m) = "take" => count[m] > 0
  BY <1>0 DEF IInv, Chained
<1> QED BY <1>0, <1>1, <1>2, <1>3, <1>4, <1>5, <1>6

\* The source of the chain, when it is being pulled.
LEMMA AtSource ==
  ASSUME IInv, Pulling, NEW n, n = Top, Op(n) \in Sources
  PROVE  /\ n = Source /\ Up(n) = 0 /\ n \in 1..Len(program.nodes) /\ program.nodes[n].up = 0
         /\ \A m \in Line : m = n \/ m > n
<1>1. /\ n \in Nodes /\ n \in Line /\ n \in Nat /\ terminal \in DOMAIN program.terminals /\ Typed
  BY Asked
<1>2. Up(n) = 0 /\ n = Source /\ n \in 1..Len(program.nodes)
  BY <1>1, Programmed, Chain
<1>3. ASSUME NEW m \in Line PROVE m = n \/ m > n
  <2>1. m \in Nat /\ m \in Nodes
    BY <1>1, Chain
  <2>2. n < m \/ n = m \/ m < n
    BY <1>1, <2>1
  <2>3. m < n => Up(n) # 0
    BY <1>1, Chain
  <2> QED BY <1>2, <2>2, <2>3
<1> QED BY <1>2, <1>3 DEF Up

\* A source gives its next item.
LEMMA ReadItem ==
  ASSUME IInv, Pulling, NEW n, n = Top, Op(n) \in Sources, NEW c \in Int, NEW v \in Int,
         Return(Raw(reads + 1 + Offset)), reads' = reads + 1, cursor' \in 0..Lines,
         Op(n) = "stdin" => cursor' = cursor + 1,
         Op(n) = "list" => c = reads + 1 /\ reads + 1 <= Lines,
         Op(n) = "evolve" => v = reads + 1,
         count' = [count EXCEPT ![n] = c], state' = [state EXCEPT ![n] = v], UNCHANGED effects
  PROVE  IInv'
<1> DEFINE w == Raw(reads + 1 + Offset)
<1>0. /\ status = "pull" /\ status' = "pull" /\ stack # <<>> /\ reply' = w /\ stack' = Caller
      /\ UNCHANGED <<program, consumed, started, terminal, began, status, output, served>>
      /\ reply = NoReply /\ reply \notin Items
  BY Asked DEF Return, historyVars
<1>1. /\ n \in Nodes /\ n \in Nat /\ n \in Line /\ consumed[n] /\ Live(n)
      /\ terminal \in DOMAIN program.terminals /\ Typed /\ reads \in Nat /\ Offset \in Int
      /\ \A m \in Line : Live(m) => InStep(program.nodes, Offset, m, reads, count[m], state[m])
      /\ \A m \in Line : m > n => Live(m) /\ m \in started /\ (Op(m) = "take" => count[m] > 0)
  BY Asked, Chain DEF Typed
<1>2. /\ n = Source /\ Up(n) = 0 /\ n \in 1..Len(program.nodes) /\ program.nodes[n].up = 0
      /\ \A m \in Line : m = n \/ m > n
  BY AtSource
<1>3. w \in Items /\ w # End /\ w # NoReply
  BY <1>1 DEF Items, Raw, End, NoReply
<1> HIDE DEF w
<1>4. Target' = Target /\ Line' = Line /\ Source' = Source /\ Offset' = Offset /\ Nodes' = Nodes
  BY <1>0, SameChain
<1>5. /\ stack' \in Seq(Nodes) /\ From' = n
      /\ \A m \in Line : (stack' # <<>> /\ m >= Top') <=> m > n
  BY <1>0, CallerShape
<1>6. ASSUME NEW m \in Nodes
      PROVE  /\ m # n => count'[m] = count[m] /\ state'[m] = state[m] /\ effects'[m] = effects[m]
             /\ m = n => count'[m] = c /\ state'[m] = v
  BY <1>1 DEF Typed
<1>7. \A m \in Line : m \in Nodes /\ m \in Nat
  BY <1>1, Chain
<1>8. Typed'
  <2>1. reads' \in Nat
    BY <1>1
  <2>2. count' \in [Nodes -> Int] /\ state' \in [Nodes -> Int]
    BY <1>1 DEF Typed
  <2> QED BY <1>0, <1>1, <1>3, <1>4, <1>5, <2>1, <2>2 DEF Typed
<1>9. Consumers' /\ Fresh' /\ Chained'
  BY <1>0, <1>1, <1>6, ConsumersKept, FreshKept, ReturnChained
<1>10. Resting' /\ Ended'
  BY <1>0, <1>3, <1>4 DEF IInv, Begun, Resting, Ended
<1>11. Supply'
  <2>1. Op(Source) = "stdin" => cursor = began + reads
    BY <1>0 DEF IInv, Supply, Begun
  <2>2. Op(Source) = "stdin" => cursor' = began' + reads'
    BY <1>0, <1>1, <1>2, <2>1 DEF Typed
  <2>3. Op(Source) = "list" => reads' <= Lines
    BY <1>2
  <2>4. \A m \in Line : m \in started \/ Up(m) = 0
    BY <1>1, <1>2
  <2> QED BY <1>0, <1>4, <2>2, <2>3, <2>4 DEF Supply, Op, Up
<1>12. First(program.nodes, n, reads + 1, Offset) = Append(First(program.nodes, n, reads, Offset), w)
  <2>1. WellFormed(program.nodes)
    BY <1>1, Programmed
  <2> QED BY <1>1, <1>2, <2>1, FirstOfSource, Zenon DEF w
<1>13. reads' - 1 = reads /\ reads' > 0
  BY <1>1
<1>14. Emitted'
  BY <1>0, <1>3, <1>4, <1>5, <1>12, <1>13 DEF Emitted
<1>15. Received'
  BY <1>0, <1>3, <1>4, <1>13 DEF IInv, Received, Begun
<1>16. Wanted'
  <2> SUFFICES ASSUME NEW m \in Line, Op(m) = "take"
               PROVE  Len(First(program.nodes, m, reads, Offset)) < program.nodes[m].n
    BY <1>0, <1>4, <1>13 DEF Wanted, Op
  <2>1. m > n
    BY <1>2 DEF Sources
  <2>2. count[m] > 0 /\ count[m] \in Int /\ count[m] = program.nodes[m].n - Len(First(program.nodes, m, reads, Offset))
    BY <1>1, <1>7, <2>1 DEF InStep, Op, Typed
  <2>3. program.nodes[m].n \in Int /\ m \in 1..Len(program.nodes) /\ WellFormed(program.nodes)
    BY <1>1, <1>7, Programmed
  <2>4. Len(First(program.nodes, m, reads, Offset)) \in Nat
    BY <1>1, <2>3, FirstTyped
  <2> QED BY <2>2, <2>3, <2>4
<1>17. Sync'
  <2> SUFFICES ASSUME NEW m \in Line, Live(m)
               PROVE  /\ InStep(program.nodes, Offset, m, Seen(m)', count'[m], state'[m])
                      /\ Op(m) = "each" => effects'[m] = First(program.nodes, m, Seen(m)', Offset)
    BY <1>0, <1>4, LiveKept DEF Sync, Op
  <2>1. CASE m = n
    <3>1. Seen(m)' = reads + 1
      BY <1>0, <1>1, <1>3, <1>5, <1>7, <2>1 DEF Seen, Waits
    <3>2. Op(m) \notin Stages
      BY <2>1 DEF Sources, Stages
    <3> QED BY <1>6, <1>7, <2>1, <3>1, <3>2 DEF InStep, Op, Stages
  <2>2. CASE m # n
    <3>1. m > n
      BY <1>2, <2>2
    <3>2. Seen(m)' = reads
      BY <1>0, <1>3, <1>5, <1>13, <3>1 DEF Seen, Waits
    <3>3. Op(m) = "each" => effects[m] = First(program.nodes, m, reads, Offset)
      BY <1>0, Asked DEF IInv, Sync
    <3> QED BY <1>1, <1>6, <1>7, <2>2, <3>2, <3>3
  <2> QED BY <2>1, <2>2
<1> QED BY <1>8, <1>9, <1>10, <1>11, <1>14, <1>15, <1>16, <1>17 DEF IInv

\* A node passes the end on, or finds it itself.
LEMMA EndUp ==
  ASSUME IInv, status = "pull", stack # <<>>, reply \notin Items, NEW n, n = Top, NEW c \in Int,
         Complete(n), Return(End), UNCHANGED <<state, cursor, effects, reads>>, count' = [count EXCEPT ![n] = c]
  PROVE  IInv'
<1>0. /\ status' = "pull" /\ reply' = End /\ stack' = Caller /\ End \notin Items /\ End # NoReply
      /\ UNCHANGED <<program, consumed, started, terminal, began, status, output, served>>
  BY DEF Return, historyVars, End, Items, NoReply
<1>1. /\ n \in Nodes /\ n \in Line /\ consumed[n] /\ terminal \in DOMAIN program.terminals /\ Typed
  BY TopOf DEF IInv
<1>2. Target' = Target /\ Line' = Line /\ Source' = Source /\ Offset' = Offset /\ Nodes' = Nodes
  BY <1>0, SameChain
<1>3. stack' \in Seq(Nodes) /\ From' = n
  BY <1>0, CallerShape
<1>4. \A m \in Nodes : m # n => count'[m] = count[m] /\ state'[m] = state[m] /\ effects'[m] = effects[m]
  BY <1>1 DEF Typed
<1>5. Typed'
  <2>1. count' \in [Nodes -> Int]
    BY <1>1 DEF Typed
  <2> QED BY <1>0, <1>1, <1>2, <1>3, <2>1 DEF Typed
<1>6. Consumers' /\ Fresh' /\ Chained'
  BY <1>0, <1>1, <1>4, ConsumersKept, FreshKept, ReturnChained
<1>7. Resting' /\ Supply' /\ Wanted' /\ Received' /\ Emitted'
  <2> USE <1>0, <1>1, <1>2 DEF IInv, Begun
  <2>1. Resting'
    BY DEF Resting
  <2>2. Supply'
    BY DEF Supply, Op, Up
  <2>3. Wanted'
    BY DEF Wanted, Op
  <2>4. Received' /\ Emitted'
    BY DEF Received, Emitted
  <2> QED BY <2>1, <2>2, <2>3, <2>4
<1>8. Ended'
  BY <1>0, <1>2, <1>3 DEF Ended, Complete, Possible, Op
<1>9. Sync'
  BY <1>0, <1>2, LiveKept DEF IInv, Sync, Seen, Op
<1> QED BY <1>5, <1>6, <1>7, <1>8, <1>9 DEF IInv

-----------------------------------------------------------------------------
(* Starting, failing, and the steps of a terminal.                         *)

\* A failure ends the run and disturbs nothing else.
LEMMA Failing ==
  ASSUME IInv, status = "pull", NEW how \in {"consumed twice", "unsupported", "callback failed"}, Fail(how)
  PROVE  IInv'
<1>0. /\ status' = how /\ status' \in Statuses \ {"idle", "pull", "end"} /\ stack' = <<>> /\ reply' = NoReply
      /\ UNCHANGED <<program, consumed, started, count, state, cursor, effects, reads, terminal, output, served, began>>
  BY DEF Fail, progressVars, historyVars, Statuses
<1>1. Nodes' = Nodes
  BY <1>0 DEF Nodes
<1>2. <<>> \in Seq(Nodes)
  BY NoneYet
<1>3. Typed'
  BY <1>0, <1>1, <1>2 DEF IInv, Typed
<1>4. Consumers'
  BY <1>0, ConsumersKept
<1>5. Fresh'
  BY <1>0, <1>1 DEF IInv, Fresh
<1>6. Resting' /\ Chained' /\ Sync' /\ Supply' /\ Emitted' /\ Received' /\ Wanted' /\ Ended'
  BY <1>0 DEF Resting, Chained, Sync, Supply, Emitted, Received, Wanted, Ended, Begun
<1> QED BY <1>3, <1>4, <1>5, <1>6 DEF IInv

\* A node that starts consumes the one below it, or fails because another has.
LEMMA Starting ==
  ASSUME IInv, NEW n \in Nodes, Start(n)
  PROVE  IInv'
<1> DEFINE u == Up(n)
<1>0. /\ Pulling /\ n = Top /\ Op(n) \in Stages /\ n \notin started /\ ~consumed[u]
      /\ consumed' = [consumed EXCEPT ![u] = TRUE] /\ started' = started \cup {n}
      /\ UNCHANGED <<program, count, state, cursor, effects, reads, stack, reply, terminal, output, served, began, status>>
  BY DEF Start, progressVars, historyVars
<1>1. /\ status = "pull" /\ stack # <<>> /\ reply = NoReply /\ reply \notin Items /\ reply # End
      /\ n \in Nat /\ n \in Line /\ consumed[n] /\ terminal \in DOMAIN program.terminals /\ Typed
      /\ \A m : Seen(m) = reads
      /\ \A m \in Line : Live(m) => InStep(program.nodes, Offset, m, reads, count[m], state[m])
  BY <1>0, Asked
<1>2. Target' = Target /\ Line' = Line /\ Source' = Source /\ Offset' = Offset /\ Nodes' = Nodes
  BY <1>0, SameChain
<1>3. u \in Nodes /\ u # 0 /\ u # n /\ u \in Nat /\ Up(n) = u
  BY <1>0, <1>1, Programmed
<1>4. \A m \in Line : m \in Nodes /\ m \in Nat
  BY <1>1, Chain
<1> HIDE DEF u
<1>5. \A m \in Nodes : consumed'[m] = (m = u \/ consumed[m])
  BY <1>0, <1>1, <1>3 DEF Typed
<1>6. Typed'
  <2>1. consumed' \in [Nodes -> BOOLEAN] /\ started' \subseteq Nodes
    BY <1>0, <1>1, <1>3 DEF Typed
  <2> QED BY <1>0, <1>1, <1>2, <2>1 DEF Typed
<1>7. Consumers'
  <2>1. program.terminals \in Seq(Nodes) /\ \A t \in served : program.terminals[t] \in Nodes
    <3>1. program.terminals \in Seq(Nodes) /\ served \subseteq DOMAIN program.terminals
      BY <1>1, Programmed DEF Typed
    <3> QED BY <3>1
  <2>2. \A t \in served : t <= terminal /\ consumed[program.terminals[t]] /\ program.terminals[t] # u
    BY <1>0 DEF IInv, Consumers
  <2>3. \A m \in started : Up(m) \in Nodes /\ consumed[Up(m)] /\ Up(m) # u
    BY <1>0 DEF IInv, Consumers
  <2>4. \A m \in started' : Up(m) \in Nodes /\ consumed'[Up(m)]
    BY <1>0, <1>3, <1>5, <2>3
  <2>5. \A m, k \in started' : Up(m) = Up(k) => m = k
    BY <1>0, <1>3, <2>3 DEF IInv, Consumers
  <2>6. \A t \in served, m \in started' : program.terminals[t] # Up(m)
    BY <1>0, <1>3, <2>2 DEF IInv, Consumers
  <2>7. ASSUME NEW m \in Nodes, consumed'[m]
        PROVE  (\E t \in served : program.terminals[t] = m) \/ (\E k \in started' : Up(k) = m)
    <3>1. CASE m = u
      BY <1>0, <1>3, <3>1
    <3>2. CASE m # u
      BY <1>0, <1>5, <2>7, <3>2 DEF IInv, Consumers
    <3> QED BY <3>1, <3>2
  <2>8. \A t \in served : consumed'[program.terminals[t]]
    BY <1>5, <2>1, <2>2
  <2>9. \A t, k \in served : program.terminals[t] = program.terminals[k] => t = k
    BY DEF IInv, Consumers
  <2>10. \A m : Up(m)' = Up(m)
    BY <1>0 DEF Up
  <2> QED BY <1>0, <1>1, <1>2, <2>2, <2>4, <2>5, <2>6, <2>7, <2>8, <2>9, <2>10 DEF Consumers, Up
<1>8. Fresh'
  BY <1>0, <1>1, <1>2, <1>5 DEF IInv, Fresh
<1>9. Resting'
  BY <1>0, <1>1 DEF IInv, Resting, Begun
<1>10. Chained'
  <2>1. Top' = Top
    BY <1>0 DEF Top
  <2>2. \A i \in DOMAIN stack : stack[i] \in Line /\ consumed'[stack[i]]
    BY <1>1, <1>4, <1>5 DEF IInv, Chained
  <2> QED BY <1>0, <1>1, <1>2, <2>1, <2>2 DEF IInv, Chained, Up, Op
<1>11. reads = 0
  BY <1>0, <1>1, <1>3 DEF IInv, Supply, Begun, Typed
<1>12. Supply' /\ Emitted' /\ Received' /\ Wanted' /\ Ended'
  <2> USE <1>0, <1>1, <1>2, <1>11 DEF IInv, Begun
  <2>1. Supply'
    BY DEF Supply, Op
  <2>2. Emitted' /\ Ended'
    BY DEF Emitted, Ended
  <2>3. Received'
    BY DEF Received
  <2>4. Wanted'
    BY DEF Wanted
  <2> QED BY <2>1, <2>2, <2>3, <2>4
<1>13. Sync'
  <2> SUFFICES ASSUME NEW m \in Line, \A k \in Line : k > m => k \in started'
               PROVE  /\ InStep(program.nodes, Offset, m, reads, count[m], state[m])
                      /\ Op(m) = "each" => effects[m] = First(program.nodes, m, reads, Offset)
    BY <1>0, <1>1, <1>2 DEF Sync, Op, Seen, Live
  <2>1. CASE Live(m)
    BY <1>1, <2>1 DEF IInv, Sync
  <2>2. CASE ~Live(m)
    <3>1. m < n
      BY <1>0, <1>4, <2>2 DEF Live
    <3>2. m <= u
      BY <1>1, <1>3, <3>1, Chain
    <3>3. u \in Line
      BY <1>1, <1>3, Chain
    <3>4. u \notin started
      BY <1>0, <1>3 DEF IInv, Fresh
    <3>5. m = u
      BY <1>0, <1>3, <1>4, <3>2, <3>3, <3>4
    <3>6. count[m] = program.nodes[m].n /\ state[m] = 0 /\ effects[m] = <<>>
      BY <1>0, <1>3, <3>5 DEF IInv, Fresh
    <3>7. WellFormed(program.nodes) /\ m \in 1..Len(program.nodes) /\ Offset \in Int
      BY <1>1, <1>4, Programmed, Chain
    <3>8. InStep(program.nodes, Offset, m, 0, program.nodes[m].n, 0) /\ First(program.nodes, m, 0, Offset) = <<>>
      BY <3>7, FreshInStep, FirstTyped
    <3> QED BY <1>11, <3>6, <3>8
  <2> QED BY <2>1, <2>2
<1> QED BY <1>6, <1>7, <1>8, <1>9, <1>10, <1>12, <1>13 DEF IInv

\* A terminal that consumes its Flow starts to pull it.
LEMMA BeginServed ==
  ASSUME IInv, Begin, ~consumed[Target]
  PROVE  IInv'
<1> DEFINE n == Target
<1>0. /\ status = "idle" /\ terminal <= Len(program.terminals) /\ ~consumed[n]
      /\ output' = <<>> /\ began' = cursor /\ reads' = 0
      /\ consumed' = [consumed EXCEPT ![n] = TRUE] /\ served' = served \cup {terminal}
      /\ stack' = <<n>> /\ status' = "pull"
      /\ UNCHANGED <<program, started, count, state, cursor, effects, reply, terminal>>
  BY DEF Begin
<1>1. /\ Typed /\ reply = NoReply /\ reply' = NoReply /\ NoReply \notin Items /\ NoReply # End /\ terminal \notin served
  BY <1>0 DEF IInv, Resting, Consumers, NoReply, Items, End
<1>2. program.terminals \in Seq(Nodes) /\ terminal \in DOMAIN program.terminals
  <2>1. program.terminals \in Seq(Nodes)
    BY <1>1, Programmed
  <2> QED BY <1>0, <1>1, <2>1 DEF Typed
<1>3. n \in Nodes /\ n \in Line /\ \A m \in Line : m \in Nodes /\ m \in Nat /\ m <= n
  BY <1>1, <1>2, Chain DEF Target
<1>4. Nodes' = Nodes /\ Target' = n /\ Line' = Line /\ Source' = Source
  BY <1>0 DEF Nodes, Target, Line, Source
<1>5. Offset' \in Int
  BY <1>0, <1>1, LinesAssumption DEF Offset, Typed
<1> HIDE DEF n
<1>6. \A m \in Nodes : consumed'[m] = (m = n \/ consumed[m])
  BY <1>0, <1>1, <1>3 DEF Typed
<1>7. Typed'
  <2>1. consumed' \in [Nodes -> BOOLEAN] /\ stack' \in Seq(Nodes) /\ <<>> \in Seq(Items)
    BY <1>0, <1>1, <1>3, NoneYet DEF Typed
  <2>2. began' \in 0..Lines /\ reads' \in Nat /\ served' \subseteq DOMAIN program.terminals /\ status' \in Statuses
    BY <1>0, <1>1, <1>2 DEF Typed, Statuses
  <2> QED BY <1>0, <1>1, <1>4, <2>1, <2>2 DEF Typed
<1>8. Consumers'
  <2>0. program.terminals[terminal] = n
    BY DEF n, Target
  <2>1. served \subseteq DOMAIN program.terminals /\ \A t \in DOMAIN program.terminals : program.terminals[t] \in Nodes
    BY <1>1, <1>2 DEF Typed
  <2>2. \A t \in served : t <= terminal /\ consumed[program.terminals[t]] /\ program.terminals[t] # n
    BY <1>0 DEF IInv, Consumers
  <2>3. \A m \in started : Up(m) \in Nodes /\ consumed[Up(m)] /\ Up(m) # n
    BY <1>0 DEF IInv, Consumers
  <2>4. \A t \in served' : t <= terminal /\ consumed'[program.terminals[t]]
    BY <1>0, <1>1, <1>3, <1>6, <2>0, <2>1, <2>2 DEF Typed
  <2>5. \A m \in started : Up(m) \in Nodes /\ consumed'[Up(m)]
    BY <1>6, <2>3
  <2>6. \A t, k \in served' : program.terminals[t] = program.terminals[k] => t = k
    BY <1>0, <2>0, <2>2 DEF IInv, Consumers
  <2>7. \A t \in served', m \in started : program.terminals[t] # Up(m)
    BY <1>0, <2>0, <2>3 DEF IInv, Consumers
  <2>8. \A m, k \in started : Up(m) = Up(k) => m = k
    BY DEF IInv, Consumers
  <2>9. ASSUME NEW m \in Nodes, consumed'[m]
        PROVE  (\E t \in served' : program.terminals[t] = m) \/ (\E k \in started : Up(k) = m)
    <3>1. CASE m = n
      BY <1>0, <2>0, <3>1
    <3>2. CASE m # n
      BY <1>0, <1>6, <2>9, <3>2 DEF IInv, Consumers
    <3> QED BY <3>1, <3>2
  <2>10. \A m : Up(m)' = Up(m)
    BY <1>0 DEF Up
  <2> QED BY <1>0, <1>4, <2>4, <2>5, <2>6, <2>7, <2>8, <2>9, <2>10 DEF Consumers, Up
<1>9. Fresh'
  BY <1>0, <1>4, <1>6 DEF IInv, Fresh
<1>10. Resting'
  BY <1>0, <1>2 DEF Resting, Begun
<1>11. Top' = n /\ stack' # <<>>
  BY <1>0 DEF Top
<1>12. Chained'
  <2>1. DOMAIN stack' = {1} /\ stack'[1] = n /\ Len(stack') = 1
    BY <1>0
  <2>2. \A m \in Line : ~(m > n)
    BY <1>3
  <2>3. consumed'[n]
    BY <1>3, <1>6
  <2> QED BY <1>1, <1>3, <1>4, <1>11, <2>1, <2>2, <2>3 DEF Chained
<1>13. WellFormed(program.nodes) /\ n \in 1..Len(program.nodes) /\ First(program.nodes, n, 0, Offset') = <<>>
  <2>1. WellFormed(program.nodes) /\ n \in 1..Len(program.nodes)
    BY <1>1, <1>3, Programmed
  <2> QED BY <1>5, <2>1, FirstTyped
<1>14. Supply' /\ Emitted' /\ Received' /\ Wanted' /\ Ended'
  <2>1. Supply'
    BY <1>0, <1>1, LinesAssumption DEF Supply, Op, Typed
  <2>2. Emitted' /\ Wanted' /\ Ended'
    BY <1>0, <1>1 DEF Emitted, Ended, Wanted
  <2>3. Received'
    BY <1>0, <1>1, <1>4, <1>13 DEF Received
  <2> QED BY <2>1, <2>2, <2>3
<1>15. Sync'
  <2> SUFFICES ASSUME NEW m \in Line, \A k \in Line : k > m => k \in started
               PROVE  /\ InStep(program.nodes, Offset', m, 0, count[m], state[m])
                      /\ Op(m) = "each" => effects[m] = First(program.nodes, m, 0, Offset')
    BY <1>0, <1>1, <1>4 DEF Sync, Op, Seen, Live
  <2>1. n \notin started /\ count[n] = program.nodes[n].n /\ state[n] = 0 /\ effects[n] = <<>>
    BY <1>0, <1>3 DEF IInv, Fresh
  <2>2. m = n
    BY <1>3, <2>1
  <2>3. InStep(program.nodes, Offset', n, 0, program.nodes[n].n, 0)
    BY <1>5, <1>13, FreshInStep
  <2> QED BY <1>13, <2>1, <2>2, <2>3
<1> QED BY <1>7, <1>8, <1>9, <1>10, <1>12, <1>14, <1>15 DEF IInv

\* A terminal whose Flow is consumed already fails.
LEMMA BeginRefused ==
  ASSUME IInv, Begin, consumed[Target]
  PROVE  IInv'
<1>0. /\ status = "idle" /\ status' = "consumed twice"
      /\ output' = <<>> /\ began' = cursor /\ reads' = 0
      /\ UNCHANGED <<program, consumed, started, count, state, cursor, stack, effects, reply, terminal, served>>
  BY DEF Begin
<1>1. Nodes' = Nodes /\ <<>> \in Seq(Items) /\ Typed /\ stack = <<>> /\ reply = NoReply
  BY <1>0, NoneYet DEF Nodes, IInv, Resting
<1>2. Typed'
  BY <1>0, <1>1 DEF Typed, Statuses
<1>3. Consumers'
  BY <1>0, ConsumersKept
<1>4. Fresh'
  BY <1>0, <1>1 DEF IInv, Fresh
<1>5. Resting' /\ Chained' /\ Sync' /\ Supply' /\ Emitted' /\ Received' /\ Wanted' /\ Ended'
  BY <1>0, <1>1 DEF Resting, Chained, Sync, Supply, Emitted, Received, Wanted, Ended, Begun
<1> QED BY <1>2, <1>3, <1>4, <1>5 DEF IInv

\* The target's item goes to the terminal, which pulls again.
LEMMA Delivering ==
  ASSUME IInv, Deliver
  PROVE  IInv'
<1>0. /\ status = "pull" /\ status' = "pull" /\ stack = <<>> /\ reply # End
      /\ output' = Append(output, reply) /\ reply' = NoReply /\ stack' = <<Target>>
      /\ NoReply \notin Items /\ NoReply # End
      /\ UNCHANGED <<program, consumed, started, count, state, cursor, effects, reads, terminal, served, began>>
  BY DEF Deliver, progressVars, historyVars, NoReply, Items, End
<1>1. /\ Typed /\ terminal \in DOMAIN program.terminals /\ terminal \in served /\ reply \in Items
  BY <1>0 DEF IInv, Resting, Begun, Typed
<1>2. Target' = Target /\ Line' = Line /\ Source' = Source /\ Offset' = Offset /\ Nodes' = Nodes
  BY <1>0, SameChain
<1>3. Target \in Line /\ Target \in Nodes /\ consumed[Target] /\ \A m \in Line : m \in Nat /\ m <= Target
  BY <1>1, Chain DEF IInv, Consumers, Target
<1>4. Typed'
  <2>1. stack' \in Seq(Nodes) /\ output' \in Seq(Items)
    BY <1>0, <1>1, <1>3 DEF Typed
  <2> QED BY <1>0, <1>1, <1>2, <2>1 DEF Typed
<1>5. Consumers' /\ Fresh'
  BY <1>0, <1>3, ConsumersKept, FreshKept
<1>6. Resting'
  BY <1>0, <1>1 DEF Resting
<1>7. Chained'
  <2>1. DOMAIN stack' = {1} /\ stack'[1] = Target /\ Len(stack') = 1 /\ Top' = Target
    BY <1>0 DEF Top
  <2>2. \A m \in Line : ~(m > Target)
    BY <1>3
  <2> QED BY <1>0, <1>2, <1>3, <2>1, <2>2 DEF Chained
<1>8. Supply' /\ Wanted' /\ Emitted' /\ Ended'
  <2> USE <1>0, <1>2 DEF IInv, Begun
  <2>1. Supply'
    BY DEF Supply, Op, Up
  <2>2. Wanted'
    BY DEF Wanted, Op
  <2>3. Emitted' /\ Ended'
    BY DEF Emitted, Ended
  <2> QED BY <2>1, <2>2, <2>3
<1>9. Received'
  <2>1. output = First(program.nodes, Target, reads - 1, Offset)
    BY <1>0, <1>1 DEF IInv, Received, Begun
  <2>2. First(program.nodes, Target, reads, Offset) = Append(First(program.nodes, Target, reads - 1, Offset), reply)
    BY <1>0, <1>1 DEF IInv, Emitted, From
  <2> QED BY <1>0, <1>2, <2>1, <2>2 DEF Received
<1>10. Sync'
  <2>1. \A m : Seen(m) = reads /\ Seen(m)' = reads
    BY <1>0 DEF Seen, Waits
  <2> QED BY <1>0, <1>2, <2>1, LiveKept DEF IInv, Sync, Op
<1> QED BY <1>4, <1>5, <1>6, <1>7, <1>8, <1>9, <1>10 DEF IInv

\* The target's end ends the terminal, and all it was to have is there.
LEMMA Finishing ==
  ASSUME IInv, Finish
  PROVE  IInv'
<1>0. /\ status = "pull" /\ status' = "end" /\ stack = <<>> /\ reply = End /\ reply' = NoReply
      /\ NoReply \notin Items /\ End \notin Items
      /\ UNCHANGED <<program, consumed, started, count, state, cursor, effects, reads, stack, terminal, output, served, began>>
  BY DEF Finish, progressVars, historyVars, NoReply, Items, End
<1>1. Target' = Target /\ Line' = Line /\ Source' = Source /\ Offset' = Offset /\ Nodes' = Nodes
  BY <1>0, SameChain
<1>2. Typed'
  BY <1>0, <1>1 DEF IInv, Typed, Statuses
<1>3. Consumers'
  BY <1>0, ConsumersKept
<1>4. Fresh'
  BY <1>0, <1>1 DEF IInv, Fresh
<1>5. Resting' /\ Chained' /\ Sync' /\ Emitted'
  BY <1>0 DEF IInv, Resting, Chained, Sync, Emitted, Begun
<1>6. Supply' /\ Received' /\ Wanted'
  BY <1>0, <1>1 DEF IInv, Supply, Received, Wanted, Begun, Op, Up
<1>7. Ended'
  BY <1>0, <1>1 DEF IInv, Ended, From, Complete, Possible, Op
<1> QED BY <1>2, <1>3, <1>4, <1>5, <1>6, <1>7 DEF IInv

\* The next terminal starts from what has been read of stdin.
LEMMA Continuing ==
  ASSUME IInv, NextTerminal
  PROVE  IInv'
<1>0. /\ status \notin {"idle", "pull"} /\ status' = "idle" /\ terminal' = terminal + 1
      /\ UNCHANGED <<program, consumed, started, count, state, cursor, effects, reads, stack, reply, output, served, began>>
  BY DEF NextTerminal, progressVars, historyVars
<1>1. Nodes' = Nodes /\ Typed /\ stack = <<>> /\ reply = NoReply /\ terminal \in Nat
  BY <1>0 DEF Nodes, IInv, Resting, Typed
<1>2. Typed'
  <2>1. terminal' \in Nat \ {0} /\ status' \in Statuses
    BY <1>0, <1>1 DEF Statuses
  <2> QED BY <1>0, <1>1, <2>1 DEF Typed
<1>3. Consumers'
  <2>1. \A t \in served : t \in Nat
    BY <1>1, Programmed, SMTT(60) DEF Typed
  <2>2. \A t \in served : t <= terminal' /\ t # terminal'
    BY <1>0, <1>1, <2>1 DEF IInv, Consumers
  <2> QED BY <1>0, <1>1, <2>2 DEF IInv, Consumers, Up
<1>4. Fresh'
  BY <1>0, <1>1 DEF IInv, Fresh
<1>5. Resting' /\ Chained' /\ Sync' /\ Supply' /\ Emitted' /\ Received' /\ Wanted' /\ Ended'
  BY <1>0, <1>1 DEF Resting, Chained, Sync, Supply, Emitted, Received, Wanted, Ended, Begun
<1> QED BY <1>2, <1>3, <1>4, <1>5 DEF IInv

-----------------------------------------------------------------------------
(* Every step keeps the invariant.                                         *)

\* An item is passed on unchanged in count, state and effects.
LEMMA PlainEmission ==
  ASSUME IInv, Answered, NEW n, n = Top, reply # End, NEW w \in Items,
         Op(n) # "each", Emits(n, w), After(n, count[n], state[n]), Emit(n, w)
  PROVE  IInv'
<1>1. /\ n \in Nodes /\ count[n] \in Int /\ state[n] \in Int /\ effects[n] \in Seq(Items)
      /\ Return(w) /\ UNCHANGED <<count, state, effects, cursor, reads>>
  BY Arrived DEF Emit, progressVars
<1>2. /\ count' = [count EXCEPT ![n] = count[n]] /\ state' = [state EXCEPT ![n] = state[n]]
      /\ effects' = [effects EXCEPT ![n] = effects[n]]
  BY <1>1 DEF IInv, Typed
<1> QED BY <1>1, <1>2, Emission

\* An item is dropped with count, state and effects unchanged.
LEMMA PlainSkip ==
  ASSUME IInv, Answered, NEW n, n = Top, reply # End,
         Op(n) \notin {"each", "take"}, Skips(n), After(n, count[n], state[n]), Skip(n), UNCHANGED progressVars
  PROVE  IInv'
<1>1. n \in Nodes /\ count[n] \in Int /\ UNCHANGED <<count, state, effects, cursor, reads>>
  BY Arrived DEF progressVars
<1>2. count' = [count EXCEPT ![n] = count[n]]
  BY <1>1 DEF IInv, Typed
<1> QED BY <1>1, <1>2, Skipping

\* The stages: each does with an item what the reference does.
LEMMA ItemSteps ==
  ASSUME IInv, NEW n \in Nodes,
         \/ PassLines(n) \/ Map(n) \/ MapOption(n) \/ Filter(n) \/ Take(n) \/ Drop(n)
         \/ Scan(n) \/ KeepSome(n) \/ Each(n)
  PROVE  IInv'
<1>0. Answered /\ n = Top /\ reply # End
  BY DEF PassLines, Map, MapOption, Filter, Take, Drop, Scan, KeepSome, Each, Item
<1>1. /\ reply \in Items /\ count[n] \in Int /\ state[n] \in Int /\ effects[n] \in Seq(Items)
      /\ Op(n) = "each" => effects[n] = First(program.nodes, n, reads - 1, Offset)
      /\ Typed
  BY <1>0, Arrived DEF IInv
<1>2. /\ reply[2] \in Int /\ Inc(reply) \in Items /\ Option(reply) \in Items /\ Raw(reply[2]) \in Items
      /\ state[n] + reply[2] \in Int /\ Raw(state[n] + reply[2]) \in Items
  <2>1. reply[2] \in Int /\ Inc(reply) \in Items /\ Option(reply) \in Items /\ Raw(reply[2]) \in Items
    BY <1>1, CallbacksTyped
  <2>2. state[n] + reply[2] \in Int
    BY <1>1, <2>1
  <2> QED BY <2>1, <2>2 DEF Raw, Items
<1>3. CASE PassLines(n)
  BY <1>0, <1>1, <1>3, Processed, PlainEmission DEF PassLines, Item
<1>4. CASE Map(n)
  BY <1>0, <1>2, <1>4, Processed, PlainEmission DEF Map, Item
<1>5. CASE MapOption(n)
  BY <1>0, <1>2, <1>5, Processed, PlainEmission DEF MapOption, Item
<1>6. CASE Filter(n)
  <2>1. Op(n) = "filter"
    BY <1>6 DEF Filter, Item
  <2>2. CASE IsOdd(reply) /\ Emit(n, reply)
    BY <1>0, <1>1, <2>1, <2>2, Processed, PlainEmission
  <2>3. CASE ~IsOdd(reply) /\ Skip(n) /\ UNCHANGED progressVars
    BY <1>0, <2>1, <2>3, Processed, PlainSkip
  <2> QED BY <1>6, <2>2, <2>3 DEF Filter
<1>7. CASE KeepSome(n)
  <2>1. Op(n) = "keep_some"
    BY <1>7 DEF KeepSome, Item
  <2>2. CASE reply # None /\ Emit(n, Raw(reply[2]))
    BY <1>0, <1>2, <2>1, <2>2, Processed, PlainEmission
  <2>3. CASE reply = None /\ Skip(n) /\ UNCHANGED progressVars
    BY <1>0, <2>1, <2>3, Processed, PlainSkip
  <2> QED BY <1>7, <2>2, <2>3 DEF KeepSome
<1>8. CASE Take(n)
  <2>1. /\ Op(n) = "take" /\ count' = [count EXCEPT ![n] = count[n] - 1] /\ Return(reply)
        /\ UNCHANGED <<state, cursor, effects, reads>>
    BY <1>8 DEF Take, Item
  <2>2. state' = [state EXCEPT ![n] = state[n]] /\ effects' = [effects EXCEPT ![n] = effects[n]] /\ count[n] - 1 \in Int
    BY <1>1, <2>1 DEF Typed
  <2>3. Emits(n, reply) /\ After(n, count[n] - 1, state[n])
    BY <1>0, <2>1, Processed
  <2> QED BY <1>0, <1>1, <2>1, <2>2, <2>3, Emission
<1>9. CASE Drop(n)
  <2>1. Op(n) = "drop"
    BY <1>9 DEF Drop, Item
  <2>2. CASE count[n] <= 0 /\ Emit(n, reply)
    BY <1>0, <1>1, <2>1, <2>2, Processed, PlainEmission
  <2>3. CASE count[n] > 0 /\ count' = [count EXCEPT ![n] = count[n] - 1] /\ Skip(n) /\ UNCHANGED <<state, cursor, effects, reads>>
    <3>1. Skips(n) /\ After(n, count[n] - 1, state[n]) /\ count[n] - 1 \in Int
      BY <1>0, <1>1, <2>1, <2>3, Processed
    <3> QED BY <1>0, <2>1, <2>3, <3>1, Skipping
  <2> QED BY <1>9, <2>2, <2>3 DEF Drop
<1>10. CASE Scan(n)
  <2>1. /\ Op(n) = "scan" /\ state' = [state EXCEPT ![n] = state[n] + reply[2]] /\ Return(Raw(state[n] + reply[2]))
        /\ UNCHANGED <<count, cursor, effects, reads>>
    BY <1>10 DEF Scan, Item
  <2>2. count' = [count EXCEPT ![n] = count[n]] /\ effects' = [effects EXCEPT ![n] = effects[n]]
    BY <1>1, <2>1 DEF Typed
  <2>3. Emits(n, Raw(state[n] + reply[2])) /\ After(n, count[n], state[n] + reply[2])
    BY <1>0, <2>1, Processed
  <2> DEFINE v == state[n] + reply[2]
  <2>4. /\ v \in Int /\ Raw(v) \in Items /\ state' = [state EXCEPT ![n] = v] /\ Return(Raw(v))
        /\ Emits(n, Raw(v)) /\ After(n, count[n], v)
    BY <1>2, <2>1, <2>3
  <2> HIDE DEF v
  <2> QED BY <1>0, <1>1, <2>1, <2>2, <2>4, Emission
<1>11. CASE Each(n)
  <2>1. /\ Op(n) = "each" /\ effects' = [effects EXCEPT ![n] = Append(effects[n], reply)] /\ Return(reply)
        /\ UNCHANGED <<count, state, cursor, reads>>
    BY <1>11 DEF Each, Item
  <2>2. count' = [count EXCEPT ![n] = count[n]] /\ state' = [state EXCEPT ![n] = state[n]]
    BY <1>1, <2>1 DEF Typed
  <2>3. Emits(n, reply) /\ After(n, count[n], state[n])
    BY <1>0, <2>1, Processed
  <2>4. Append(effects[n], reply) \in Seq(Items) /\ Append(effects[n], reply) = First(program.nodes, n, reads, Offset)
    BY <1>1, <2>1, <2>3 DEF Emits
  <2> QED BY <1>0, <1>1, <2>1, <2>2, <2>3, <2>4, Emission
<1> QED BY <1>3, <1>4, <1>5, <1>6, <1>7, <1>8, <1>9, <1>10, <1>11

\* Where a source ends there is nothing more to read.
LEMMA SourceEnds ==
  ASSUME IInv, Pulling, NEW n, n = Top, Op(n) \in Sources, UNCHANGED progressVars, Return(End),
         \A k \in Nat : Possible(k) => k = reads
  PROVE  IInv'
<1>1. /\ n \in Nodes /\ Typed /\ status = "pull" /\ stack # <<>> /\ reply \notin Items
      /\ UNCHANGED <<count, state, effects, cursor, reads>>
  BY Asked DEF progressVars
<1>2. count[n] \in Int /\ count' = [count EXCEPT ![n] = count[n]]
  BY <1>1 DEF Typed
<1>3. Complete(n)
  BY DEF Complete
<1> QED BY <1>1, <1>2, <1>3, EndUp

\* A source gives its next item, or ends where it has no more.
LEMMA SourceSteps ==
  ASSUME IInv, NEW n \in Nodes, Stdin(n) \/ List(n) \/ Evolve(n)
  PROVE  IInv'
<1>0. Pulling /\ n = Top /\ Op(n) \in Sources
  BY DEF Stdin, List, Evolve, Sources
<1>1. /\ status = "pull" /\ n \in Line /\ Live(n) /\ Typed /\ terminal \in DOMAIN program.terminals
      /\ InStep(program.nodes, Offset, n, reads, count[n], state[n])
      /\ n = Source
  BY <1>0, Asked, AtSource
<1>2. /\ Op(n) = "stdin" => cursor = began + reads /\ Offset = began
      /\ Op(n) = "list" => count[n] = reads /\ Offset = 0 /\ reads <= Lines
      /\ Op(n) = "evolve" => state[n] = reads /\ Offset = 0
  BY <1>1 DEF InStep, IInv, Supply, Begun, Offset, Op
<1>3. /\ count[n] \in Int /\ state[n] \in Int /\ cursor \in 0..Lines /\ reads \in Nat /\ began \in Nat /\ Lines \in Nat
      /\ count \in [Nodes -> Int] /\ state \in [Nodes -> Int]
  BY <1>1, LinesAssumption DEF Typed
<1>4. /\ UNCHANGED count => count' = [count EXCEPT ![n] = count[n]]
      /\ UNCHANGED state => state' = [state EXCEPT ![n] = state[n]]
  BY <1>3
<1>5. CASE Stdin(n)
  <2>1. Op(n) = "stdin" /\ UNCHANGED <<count, state, effects>>
    BY <1>5 DEF Stdin
  <2>2. CASE cursor < Lines
    <3>1. cursor' = cursor + 1 /\ reads' = reads + 1 /\ Return(Raw(cursor + 1))
      BY <1>5, <2>2 DEF Stdin
    <3>2. cursor' \in 0..Lines /\ cursor + 1 = reads + 1 + Offset
      BY <1>2, <1>3, <2>1, <2>2, <3>1
    <3>3. Op(n) # "list" /\ Op(n) # "evolve"
      BY <2>1
    <3>4. Return(Raw(reads + 1 + Offset))
      BY <3>1, <3>2
    <3>5. count' = [count EXCEPT ![n] = count[n]] /\ state' = [state EXCEPT ![n] = state[n]] /\ UNCHANGED effects
      BY <1>4, <2>1
    <3>6. cursor' \in 0..Lines /\ cursor' = cursor + 1 /\ reads' = reads + 1
      BY <3>1, <3>2
    <3> QED BY <1>0, <1>3, <3>3, <3>4, <3>5, <3>6, ReadItem
  <2>3. CASE ~(cursor < Lines)
    <3>1. UNCHANGED progressVars /\ Return(End)
      BY <1>5, <2>1, <2>3 DEF Stdin, progressVars
    <3>2. ASSUME NEW k \in Nat, Possible(k) PROVE k = reads
      <4>1. reads <= k /\ k <= Lines - began
        BY <1>1, <2>1, <3>2 DEF Possible
      <4> QED BY <1>2, <1>3, <2>1, <2>3, <4>1
    <3> QED BY <1>0, <3>1, <3>2, SourceEnds
  <2> QED BY <2>2, <2>3
<1>6. CASE List(n)
  <2>1. Op(n) = "list" /\ UNCHANGED <<state, cursor, effects>>
    BY <1>6 DEF List
  <2>2. CASE count[n] < Lines
    <3>1. count' = [count EXCEPT ![n] = count[n] + 1] /\ reads' = reads + 1 /\ Return(Raw(count[n] + 1))
      BY <1>6, <2>2 DEF List
    <3>2. /\ cursor' \in 0..Lines /\ count[n] + 1 = reads + 1 + Offset /\ count[n] + 1 = reads + 1 /\ reads + 1 <= Lines
          /\ count[n] + 1 \in Int
      BY <1>2, <1>3, <2>1, <2>2
    <3>3. Op(n) # "stdin" /\ Op(n) # "evolve"
      BY <2>1
    <3> DEFINE c == count[n] + 1
    <3>4. c \in Int /\ count' = [count EXCEPT ![n] = c] /\ c = reads + 1 /\ reads + 1 <= Lines
      BY <3>1, <3>2
    <3>5. state' = [state EXCEPT ![n] = state[n]] /\ UNCHANGED effects
      BY <1>4, <2>1
    <3>6. Return(Raw(reads + 1 + Offset))
      BY <3>1, <3>2
    <3>7. cursor' \in 0..Lines /\ UNCHANGED cursor /\ reads' = reads + 1
      BY <2>1, <3>1, <3>2
    <3> HIDE DEF c
    <3> QED BY <1>0, <1>3, <3>3, <3>4, <3>5, <3>6, <3>7, ReadItem
  <2>3. CASE ~(count[n] < Lines)
    <3>1. UNCHANGED progressVars /\ Return(End)
      BY <1>6, <2>1, <2>3 DEF List, progressVars
    <3>2. ASSUME NEW k \in Nat, Possible(k) PROVE k = reads
      <4>1. reads <= k /\ k <= Lines
        BY <1>1, <2>1, <3>2 DEF Possible
      <4> QED BY <1>2, <1>3, <2>1, <2>3, <4>1
    <3> QED BY <1>0, <3>1, <3>2, SourceEnds
  <2> QED BY <2>2, <2>3
<1>7. CASE Evolve(n)
  <2>1. /\ Op(n) = "evolve" /\ UNCHANGED <<count, cursor, effects>>
        /\ state' = [state EXCEPT ![n] = state[n] + 1] /\ reads' = reads + 1 /\ Return(Raw(state[n] + 1))
    BY <1>7 DEF Evolve
  <2>2. cursor' \in 0..Lines /\ state[n] + 1 = reads + 1 + Offset /\ state[n] + 1 = reads + 1 /\ state[n] + 1 \in Int
    BY <1>2, <1>3, <2>1
  <2>3. Op(n) # "stdin" /\ Op(n) # "list"
    BY <2>1
  <2> QED BY <1>0, <1>3, <1>4, <2>1, <2>2, <2>3, ReadItem
<1> QED BY <1>5, <1>6, <1>7

\* A take with its count ends without asking, and rightly.
LEMMA TakeEnding ==
  ASSUME IInv, NEW n \in Nodes, TakeEnds(n)
  PROVE  IInv'
<1>0. /\ Pulling /\ n = Top /\ Op(n) = "take" /\ count[n] <= 0 /\ Return(End)
      /\ UNCHANGED <<count, state, effects, cursor, reads>>
  BY DEF TakeEnds, Satisfied, progressVars
<1>1. /\ status = "pull" /\ stack # <<>> /\ reply \notin Items /\ n \in Line /\ Live(n) /\ Typed
      /\ terminal \in DOMAIN program.terminals
      /\ InStep(program.nodes, Offset, n, reads, count[n], state[n])
  BY <1>0, Asked
<1>2. /\ count[n] \in Int /\ count' = [count EXCEPT ![n] = count[n]] /\ reads \in Nat
  BY <1>0, <1>1 DEF Typed
<1>3. WellFormed(program.nodes) /\ n \in 1..Len(program.nodes) /\ Offset \in Int /\ program.nodes[n].n \in Int
  BY <1>1, Programmed, Chain
<1>4. Len(First(program.nodes, n, reads, Offset)) \in Nat
  BY <1>2, <1>3, FirstTyped
<1>5. count[n] = program.nodes[n].n - Len(First(program.nodes, n, reads, Offset)) /\ program.nodes[n].op = "take"
  BY <1>0, <1>1 DEF InStep, Op
<1>6. program.nodes[n].n <= Len(First(program.nodes, n, reads, Offset))
  BY <1>0, <1>2, <1>3, <1>4, <1>5
<1>7. Complete(n)
  <2> SUFFICES ASSUME NEW k \in Nat, reads <= k
               PROVE  First(program.nodes, n, k, Offset) = First(program.nodes, n, reads, Offset)
    BY DEF Complete, Possible
  <2> QED BY <1>2, <1>3, <1>5, <1>6, TakeIsFull
<1> QED BY <1>0, <1>1, <1>2, <1>7, EndUp

\* A stage passes the end on: what is complete below it is complete above it.
LEMMA PassingEnd ==
  ASSUME IInv, NEW n \in Nodes, PassEnd(n)
  PROVE  IInv'
<1> DEFINE c == IF Op(n) \in {"take", "drop"} /\ count[n] > 0 THEN 0 ELSE count[n]
<1>0. /\ status = "pull" /\ stack # <<>> /\ n = Top /\ reply = End /\ reply \notin Items /\ reply # NoReply /\ Return(End)
      /\ count' = [count EXCEPT ![n] = c]
      /\ UNCHANGED <<state, cursor, effects, reads>>
  BY DEF PassEnd, Answered, End, Items, NoReply
<1>1. Typed /\ terminal \in DOMAIN program.terminals /\ n \in started /\ reads \in Nat
  BY <1>0, TopOf DEF IInv, Chained, Typed
<1>2. c \in Int
  BY <1>1 DEF Typed
<1>3. /\ WellFormed(program.nodes) /\ n \in 1..Len(program.nodes) /\ Offset \in Int
      /\ program.nodes[n].up # 0
  <2>1. Up(n) \in Nodes
    BY <1>1 DEF IInv, Consumers
  <2> QED BY <1>1, <2>1, Programmed, Chain DEF Up
<1>4. Complete(Up(n))
  BY <1>0 DEF IInv, Ended, From
<1>5. Complete(n)
  <2> SUFFICES ASSUME NEW k \in Nat, Possible(k)
               PROVE  First(program.nodes, n, k, Offset) = First(program.nodes, n, reads, Offset)
    BY DEF Complete
  <2>1. First(program.nodes, program.nodes[n].up, k, Offset) = First(program.nodes, program.nodes[n].up, reads, Offset)
    BY <1>4 DEF Complete, Up
  <2> QED BY <1>1, <1>3, <2>1, StageSame
<1> HIDE DEF c
<1> QED BY <1>0, <1>2, <1>5, EndUp

\* A node asks the one below it.
LEMMA Asking ==
  ASSUME IInv, NEW n \in Nodes, Ask(n)
  PROVE  IInv'
<1>0. /\ Pulling /\ n = Top /\ n \in started /\ ~Satisfied(n) /\ stack' = Append(stack, Up(n))
      /\ UNCHANGED <<program, consumed, started, count, state, cursor, effects, reads, reply, terminal, output, served, began, status>>
  BY DEF Ask, progressVars, historyVars
<1>1. /\ status = "pull" /\ stack # <<>> /\ reply = NoReply /\ reply \notin Items /\ Typed /\ reply # End
      /\ n \in Nodes /\ consumed[n]
  BY <1>0, Asked
<1>2. Target' = Target /\ Line' = Line /\ Source' = Source /\ Offset' = Offset /\ Nodes' = Nodes
  BY <1>0, SameChain
<1>3. Op(n) = "take" => count'[n] > 0
  BY <1>0, <1>1 DEF Satisfied, Typed
<1>4. Chained' /\ stack' \in Seq(Nodes)
  BY <1>0, <1>1, <1>3, AskChained
<1>5. Typed'
  BY <1>0, <1>1, <1>2, <1>4 DEF Typed
<1>6. Consumers' /\ Fresh'
  BY <1>0, <1>1, ConsumersKept, FreshKept
<1>7. Resting' /\ Supply' /\ Wanted' /\ Received' /\ Emitted' /\ Ended'
  <2> USE <1>0, <1>1, <1>2 DEF IInv, Begun
  <2>1. Resting'
    BY DEF Resting
  <2>2. Supply'
    BY DEF Supply, Op, Up
  <2>3. Wanted'
    BY DEF Wanted, Op
  <2>4. Received' /\ Emitted' /\ Ended'
    BY DEF Received, Emitted, Ended
  <2> QED BY <2>1, <2>2, <2>3, <2>4
<1>8. Sync'
  BY <1>0, <1>1, <1>2, LiveKept DEF IInv, Sync, Seen, Op
<1> QED BY <1>4, <1>5, <1>6, <1>7, <1>8 DEF IInv

\* The invariant holds before the first terminal.
LEMMA Initially ==
  ASSUME Init
  PROVE  IInv
<1>1. WellFormed(program.nodes) /\ Nodes = 1..Len(program.nodes) /\ \A n \in Nodes : program.nodes[n].n \in Int
  <2>1. WellFormed(program.nodes)
    BY ProgramsAssumption DEF Init
  <2> QED BY <2>1, WellFormedNodes DEF Nodes, NodeRecords
<1>2. <<>> \in Seq(Nodes) /\ <<>> \in Seq(Items)
  BY NoneYet
<1>3. Typed
  BY <1>1, <1>2, LinesAssumption DEF Init, Typed, Statuses
<1>4. Consumers /\ Fresh
  BY DEF Init, Consumers, Fresh
<1>5. Resting /\ Chained /\ Sync /\ Supply /\ Emitted /\ Received /\ Wanted /\ Ended
  BY DEF Init, Resting, Chained, Sync, Supply, Emitted, Received, Wanted, Ended, Begun
<1> QED BY <1>3, <1>4, <1>5 DEF IInv

\* The invariant is about the variables of the specification only.
LEMMA Stutters ==
  ASSUME IInv, UNCHANGED vars
  PROVE  IInv'
<1>0. UNCHANGED <<program, consumed, started, count, state, cursor, stack, reply, terminal, output, effects, served, began, reads, status>>
  BY DEF vars, progressVars, historyVars
<1>1. Nodes' = Nodes /\ Target' = Target /\ Line' = Line /\ Source' = Source /\ Offset' = Offset /\ Top' = Top
  BY <1>0 DEF Nodes, Target, Line, Source, Offset, Top, Op
<1>2. Typed' /\ Consumers' /\ Fresh' /\ Resting'
  BY <1>0, <1>1 DEF IInv, Typed, Consumers, Fresh, Resting, Begun, Up
<1>3. Chained' /\ Supply' /\ Received' /\ Wanted'
  BY <1>0, <1>1 DEF IInv, Chained, Supply, Received, Wanted, Begun, Up, Op
<1>4. Sync'
  BY <1>0, <1>1 DEF IInv, Sync, Seen, Waits, Live, Op
<1>5. Emitted' /\ Ended'
  BY <1>0, <1>1 DEF IInv, Emitted, Ended, From, Complete, Possible, Up, Op
<1> QED BY <1>2, <1>3, <1>4, <1>5 DEF IInv

\* Every step preserves the invariant.
LEMMA Steps ==
  ASSUME IInv, [Next]_vars
  PROVE  IInv'
<1>1. CASE Begin
  BY <1>1, BeginServed, BeginRefused
<1>2. CASE Deliver \/ Finish \/ NextTerminal
  BY <1>2, Delivering, Finishing, Continuing
<1>3. ASSUME NEW n \in Nodes, Step(n)
      PROVE  IInv'
  <2>1. CASE Start(n) \/ TakeEnds(n) \/ Ask(n) \/ PassEnd(n)
    BY <2>1, Starting, TakeEnding, Asking, PassingEnd
  <2>2. CASE StartFails(n) \/ Refused(n)
    BY <2>2, Failing DEF StartFails, Refused, Pulling, Answered
  <2>3. CASE Stdin(n) \/ List(n) \/ Evolve(n)
    BY <2>3, SourceSteps
  <2>4. CASE PassLines(n) \/ Map(n) \/ MapOption(n) \/ Filter(n) \/ Take(n) \/ Drop(n) \/ Scan(n) \/ KeepSome(n) \/ Each(n)
    BY <2>4, ItemSteps
  <2> QED BY <1>3, <2>1, <2>2, <2>3, <2>4 DEF Step
<1>4. ASSUME NEW n \in Nodes, CallbackFails(n)
      PROVE  IInv'
  BY <1>4, Failing DEF CallbackFails, Pulling, Answered
<1>5. CASE UNCHANGED vars
  BY <1>5, Stutters
<1> QED BY <1>1, <1>2, <1>3, <1>4, <1>5 DEF Next

\* The inductive invariant: the chain of the running terminal is in step with
\* its source, and every Flow has at most one consumer (src/flow.hpp).
THEOREM InductiveInvariant == Spec => []IInv
<1>1. Init => IInv
  BY Initially
<1>2. IInv /\ [Next]_vars => IInv'
  BY Steps
<1> QED BY <1>1, <1>2, PTL DEF Spec

-----------------------------------------------------------------------------
(* The theorems.                                                           *)

\* Every Flow is consumed at most once, by one terminal or by one downstream
\* Flow, and exactly when its flag consumed_ is set (Flow::consume).
THEOREM OneConsumer == Spec => []SingleConsumer
<1>1. ASSUME IInv PROVE SingleConsumer
  <2> SUFFICES ASSUME NEW n \in Nodes
               PROVE  Cardinality({t \in served : program.terminals[t] = n})
                        + Cardinality({m \in started : Up(m) = n}) = IF consumed[n] THEN 1 ELSE 0
    BY DEF SingleConsumer
  <2> DEFINE A == {t \in served : program.terminals[t] = n}
             B == {m \in started : Up(m) = n}
  <2>0. /\ \A t \in served : consumed[program.terminals[t]]
        /\ \A m \in started : consumed[Up(m)]
        /\ \A t, u \in served : program.terminals[t] = program.terminals[u] => t = u
        /\ \A m, k \in started : Up(m) = Up(k) => m = k
        /\ \A t \in served, m \in started : program.terminals[t] # Up(m)
        /\ consumed[n] => (\E t \in served : program.terminals[t] = n) \/ (\E m \in started : Up(m) = n)
    BY <1>1 DEF IInv, Consumers
  <2>1. A = {} \/ \E t : A = {t}
    <3> SUFFICES ASSUME A # {} PROVE \E t : A = {t}
      OBVIOUS
    <3>1. PICK t \in A : TRUE
      OBVIOUS
    <3>2. A = {t}
      BY <2>0, <3>1
    <3> QED BY <3>2
  <2>2. B = {} \/ \E m : B = {m}
    <3> SUFFICES ASSUME B # {} PROVE \E m : B = {m}
      OBVIOUS
    <3>1. PICK m \in B : TRUE
      OBVIOUS
    <3>2. B = {m}
      BY <2>0, <3>1
    <3> QED BY <3>2
  <2>3. A = {} \/ B = {}
    BY <2>0
  <2>4. consumed[n] <=> ~(A = {} /\ B = {})
    <3>1. consumed[n] => ~(A = {} /\ B = {})
      BY <2>0
    <3>2. ~(A = {} /\ B = {}) => consumed[n]
      BY <2>0
    <3> QED BY <3>1, <3>2
  <2> HIDE DEF A, B
  <2>5. Cardinality({}) = 0 /\ \A x : Cardinality({x}) = 1
    BY FS_EmptySet, FS_Singleton
  <2>6. Cardinality(A) = (IF A = {} THEN 0 ELSE 1) /\ Cardinality(B) = (IF B = {} THEN 0 ELSE 1)
    BY <2>1, <2>2, <2>5
  <2> QED BY <2>3, <2>4, <2>6 DEF A, B
<1> QED BY <1>1, InductiveInvariant, PTL

\* What the running terminal has received, with what it will have when it ends.
LEMMA Delivered ==
  ASSUME IInv, Begun
  PROVE  /\ terminal \in DOMAIN program.terminals /\ WellFormed(program.nodes) /\ Offset \in Int /\ reads \in Nat
         /\ Target \in 1..Len(program.nodes) /\ Typed
         /\ reads <= Available /\ Available \in Nat /\ Possible(Available)
         /\ \A k \in Nat : First(program.nodes, Target, k, Offset) = Made(Target, k)
<1>1. terminal \in DOMAIN program.terminals /\ Typed
  BY DEF IInv, Resting
<1>2. WellFormed(program.nodes) /\ Offset \in Int /\ reads \in Nat
  BY <1>1, Programmed, Chain DEF Typed
<1>3. Target \in 1..Len(program.nodes)
  BY <1>1, Programmed, Chain
<1>4. Op(Source) \in Sources
  BY <1>1, Programmed, Chain
<1>5. /\ cursor \in 0..Lines /\ began \in 0..Lines /\ Lines \in Nat
      /\ Op(Source) = "stdin" => cursor = began + reads
      /\ Op(Source) = "list" => reads <= Lines
  BY <1>1, LinesAssumption DEF IInv, Supply, Typed
<1>6. reads <= Available /\ Available \in Nat /\ Possible(Available)
  <2>1. CASE Op(Source) = "stdin"
    <3>1. Available = Lines - began
      BY <2>1 DEF Available
    <3> QED BY <1>2, <1>5, <2>1, <3>1 DEF Possible
  <2>2. CASE Op(Source) = "list"
    <3>1. Available = Lines
      BY <2>2 DEF Available
    <3> QED BY <1>2, <1>5, <2>2, <3>1 DEF Possible
  <2>3. CASE Op(Source) = "evolve"
    <3>1. Available = IF reads < Horizon THEN Horizon ELSE reads
      BY <2>3 DEF Available
    <3> QED BY <1>2, <2>3, <3>1 DEF Possible, Horizon
  <2> QED BY <1>4, <2>1, <2>2, <2>3 DEF Sources
<1> QED BY <1>1, <1>2, <1>3, <1>6 DEF Made, First

\* What a terminal receives is a beginning of what its stages compute on whole
\* sequences, and all of it at the end (the pulls of src/flow.hpp).
THEOREM OutputIsReference == Spec => []OutputCorrect
<1>1. ASSUME IInv PROVE OutputCorrect
  <2> SUFFICES ASSUME Begun
               PROVE  /\ IsPrefix(output, Made(Target, Available))
                      /\ status = "end" => output = Made(Target, Available)
    BY DEF OutputCorrect
  <2> DEFINE k == IF reply \in Items THEN reads - 1 ELSE reads
  <2>1. /\ WellFormed(program.nodes) /\ Offset \in Int /\ reads \in Nat /\ Target \in 1..Len(program.nodes)
        /\ reads <= Available /\ Available \in Nat /\ Possible(Available)
        /\ \A j \in Nat : First(program.nodes, Target, j, Offset) = Made(Target, j)
    BY <1>1, Delivered
  <2>2. output = First(program.nodes, Target, k, Offset)
    BY <1>1 DEF IInv, Received
  <2>3. k \in Nat /\ k <= Available
    <3>1. reply \in Items => reads > 0
      BY <1>1 DEF IInv, Emitted, Begun, Resting, Items, NoReply
    <3> QED BY <2>1, <3>1
  <2>4. IsPrefix(output, Made(Target, Available))
    <3> HIDE DEF k
    <3>1. IsPrefix(First(program.nodes, Target, k, Offset), First(program.nodes, Target, Available, Offset))
      BY <2>1, <2>3, FirstPrefix
    <3> QED BY <2>1, <2>2, <3>1
  <2>5. ASSUME status = "end" PROVE output = Made(Target, Available)
    <3>1. First(program.nodes, Target, Available, Offset) = First(program.nodes, Target, reads, Offset)
      BY <1>1, <2>1, <2>5 DEF IInv, Ended, Complete
    <3>2. reply \notin Items
      BY <1>1, <2>5 DEF IInv, Resting, NoReply, Items
    <3> QED BY <2>1, <2>2, <3>1, <3>2
  <2> QED BY <2>4, <2>5
<1> QED BY <1>1, InductiveInvariant, PTL

\* An item is read from a source only when all that the items before it make
\* has been delivered and no take on the way has its count (src/flow.hpp).
THEOREM DemandIsBounded == Spec => []BoundedDemand
<1>1. ASSUME IInv PROVE BoundedDemand
  <2> SUFFICES ASSUME Begun, reads > 0
               PROVE  /\ Len(Made(Target, reads - 1)) <= Len(output)
                      /\ \A m \in Path(program.nodes, Target) :
                           Op(m) = "take" => Len(Made(m, reads - 1)) < program.nodes[m].n
    BY DEF BoundedDemand
  <2> DEFINE j == reads - 1
             k == IF reply \in Items THEN reads - 1 ELSE reads
  <2>1. WellFormed(program.nodes) /\ Offset \in Int /\ reads \in Nat /\ Target \in 1..Len(program.nodes)
    BY <1>1, Delivered
  <2>2. output = First(program.nodes, Target, k, Offset)
    BY <1>1 DEF IInv, Received
  <2>3. j \in Nat /\ k \in Nat /\ j <= k
    BY <2>1
  <2>4. First(program.nodes, Target, j, Offset) = Made(Target, reads - 1)
    BY DEF First, Made
  <2>5. Len(Made(Target, reads - 1)) <= Len(output)
    <3> HIDE DEF j, k
    <3>1. IsPrefix(First(program.nodes, Target, j, Offset), First(program.nodes, Target, k, Offset))
      BY <2>1, <2>3, FirstPrefix
    <3>2. First(program.nodes, Target, j, Offset) \in Seq(Items) /\ First(program.nodes, Target, k, Offset) \in Seq(Items)
      BY <2>1, <2>3, FirstTyped
    <3>3. Len(First(program.nodes, Target, j, Offset)) <= Len(First(program.nodes, Target, k, Offset))
      BY <3>1, <3>2, PrefixLen
    <3> QED BY <2>2, <2>4, <3>3
  <2>6. \A m \in Line : Op(m) = "take" => Len(First(program.nodes, m, reads - 1, Offset)) < program.nodes[m].n
    BY <1>1 DEF IInv, Wanted
  <2> QED BY <2>5, <2>6 DEF First, Made, Line
<1> QED BY <1>1, InductiveInvariant, PTL

\* All nodes being pulled are at or above the innermost.
LEMMA StackAbove ==
  ASSUME IInv, status = "pull", stack # <<>>
  PROVE  \A i \in DOMAIN stack : stack[i] \in Nat /\ Top \in Nat /\ stack[i] >= Top
<1> DEFINE l == Len(stack)
           T == {d \in Nat : d < l => stack[l - d] >= Top}
<1>1. /\ Typed /\ Chained /\ l \in Nat /\ l >= 1 /\ Top = stack[l] /\ DOMAIN stack = 1..l
      /\ \A i \in 1..l : stack[i] \in Nodes
  BY TopOf, SMTT(60) DEF IInv, Typed
<1>2. \A n \in Nodes : n \in Nat /\ Up(n) \in 0..(n - 1)
  BY <1>1, Programmed
<1>3. Top \in Nat /\ \A i \in 1..l : stack[i] \in Nat
  BY <1>1, <1>2
<1>4. 0 \in T
  BY <1>1, <1>3
<1>5. ASSUME NEW d \in Nat, d \in T PROVE d + 1 \in T
  <2> SUFFICES ASSUME d + 1 < l PROVE stack[l - (d + 1)] >= Top
    OBVIOUS
  <2> DEFINE j == l - (d + 1)
  <2>1. j \in 1..(l - 1) /\ j \in 1..l /\ j + 1 = l - d /\ j + 1 \in 1..l /\ d < l
    BY <1>1
  <2> HIDE DEF j
  <2>2. stack[j + 1] = Up(stack[j])
    BY <1>1, <2>1 DEF Chained
  <2>3. Up(stack[j]) \in 0..(stack[j] - 1)
    BY <1>1, <1>2, <2>1
  <2>4. stack[j + 1] >= Top
    BY <1>5, <2>1
  <2>5. stack[j] >= Top
    BY <1>3, <2>1, <2>2, <2>3, <2>4
  <2> QED BY <2>5 DEF j
<1> HIDE DEF T
<1>6. Nat \subseteq T
  BY <1>4, <1>5, InductionByOne
<1>7. ASSUME NEW i \in 1..l PROVE stack[i] >= Top
  <2>1. l - i \in Nat /\ l - i < l /\ l - (l - i) = i
    BY <1>1
  <2>2. l - i \in T
    BY <1>6, <2>1
  <2> QED BY <2>1, <2>2 DEF T
<1> QED BY <1>1, <1>3, <1>7

\* An effect has run for every item of what its Flow makes of the items read,
\* the one on its way excepted, once and in order (the pull of each).
THEOREM EffectsFollowDemand == Spec => []EffectsOnDemand
<1>1. ASSUME IInv PROVE EffectsOnDemand
  <2> SUFFICES ASSUME terminal \in DOMAIN program.terminals, NEW i \in DOMAIN stack, Op(stack[i]) = "each"
               PROVE  /\ IsPrefix(effects[stack[i]], Made(stack[i], reads))
                      /\ reads > 0 => IsPrefix(Made(stack[i], reads - 1), effects[stack[i]])
    BY DEF EffectsOnDemand
  <2> DEFINE m == stack[i]
  <2>1. status = "pull" /\ stack # <<>> /\ Typed
    BY <1>1 DEF IInv, Resting, Typed
  <2>2. m \in Line /\ Live(m)
    <3>1. m \in Line
      BY <1>1, <2>1 DEF IInv, Chained
    <3>2. m \in Nat /\ Top \in Nat /\ m >= Top
      BY <1>1, <2>1, StackAbove
    <3>3. \A k \in Line : k \in Nat /\ (k > Top => k \in started)
      BY <1>1, <2>1, TopOf, Chain
    <3> QED BY <3>1, <3>2, <3>3 DEF Live
  <2>3. WellFormed(program.nodes) /\ Offset \in Int /\ reads \in Nat /\ m \in 1..Len(program.nodes)
    BY <2>1, <2>2, Programmed, Chain DEF Typed
  <2> HIDE DEF m
  <2>4. Op(m) = "each" => effects[m] = First(program.nodes, m, Seen(m), Offset)
    BY <1>1, <2>1, <2>2 DEF IInv, Sync
  <2>5. effects[m] = First(program.nodes, m, Seen(m), Offset)
    BY <2>4 DEF m
  <2>6. /\ Seen(m) \in Nat /\ Seen(m) <= reads /\ (reads > 0 => reads - 1 \in Nat /\ reads - 1 <= Seen(m))
    <3>1. reply \in Items => reads > 0
      BY <1>1, <2>1 DEF IInv, Emitted
    <3> QED BY <2>3, <3>1 DEF Seen
  <2>7. /\ IsPrefix(effects[m], First(program.nodes, m, reads, Offset))
        /\ reads > 0 => IsPrefix(First(program.nodes, m, reads - 1, Offset), effects[m])
    <3> DEFINE s == Seen(m)
               j == reads - 1
    <3>1. s \in Nat /\ s <= reads /\ (reads > 0 => j \in Nat /\ j <= s)
      BY <2>6
    <3>2. effects[m] = First(program.nodes, m, s, Offset)
      BY <2>5
    <3> HIDE DEF s, j
    <3>3. IsPrefix(First(program.nodes, m, s, Offset), First(program.nodes, m, reads, Offset))
      BY <2>3, <3>1, FirstPrefix
    <3>4. reads > 0 => IsPrefix(First(program.nodes, m, j, Offset), First(program.nodes, m, s, Offset))
      BY <2>3, <3>1, FirstPrefix
    <3> QED BY <3>2, <3>3, <3>4 DEF j
  <2> QED BY <2>7 DEF First, Made, m
<1> QED BY <1>1, InductiveInvariant, PTL

=============================================================================
