--------------------------- MODULE DispatchProofs ---------------------------
(***************************************************************************)
(* Dispatch keys, proved for every clause there is.  The key of a clause   *)
(* tells what it is up to the names it binds (KeyIsAlpha), and clauses     *)
(* that are the same up to names take the same arguments (AlikeTakeAlike); *)
(* so a session never keeps two clauses that are alike, and never refuses  *)
(* one that could have been reached.                                       *)
(*                                                                         *)
(* The terms are built level by level, so induction over them is induction *)
(* over the levels: what holds of a term when it holds of its parts holds  *)
(* of every term (PatternInduction, ExpressionInduction).  Each recursive  *)
(* function is first shown to be what its equation says (the lemmas named  *)
(* Unfolds), then used through that equation only.                         *)
(***************************************************************************)
EXTENDS Dispatch, SessionProofs, SequenceTheorems, WellFoundedInduction, TLAPS

-----------------------------------------------------------------------------
(* Induction over the naturals, with the formula as a set.                 *)

Below == {ss \in Nat \X Nat : ss[1] < ss[2]}

\* A set of naturals that is not empty has a least member.
LEMMA LeastOf ==
  ASSUME NEW T, T \subseteq Nat, T # {}
  PROVE  \E m \in T : \A k \in T : m <= k
<1>1. IsWellFoundedOn(Below, Nat)
  <2>1. Below = OpToRel(<, Nat)
    BY DEF OpToRel, Below
  <2> QED BY <2>1, NatLessThanWellFounded
<1>2. PICK m \in T : \A k \in T : ~(<<k, m>> \in Below)
  BY <1>1, WFMin
<1>3. ASSUME NEW k \in T PROVE m <= k
  <2>1. k \in Nat /\ m \in Nat
    OBVIOUS
  <2>2. <<k, m>> \notin Below
    BY <1>2
  <2>3. k < m => <<k, m>> \in Below
    BY <2>1 DEF Below
  <2> QED BY <2>1, <2>2, <2>3
<1> QED BY <1>3

\* A set that has 0, and the successor of every natural it has, has them all.
LEMMA UpFromZero ==
  ASSUME NEW T, 0 \in T, \A n \in Nat : n \in T => n + 1 \in T
  PROVE  Nat \subseteq T
<1> SUFFICES ASSUME Nat \ T # {} PROVE FALSE
  OBVIOUS
<1>1. PICK n \in Nat \ T : \A k \in Nat \ T : n <= k
  BY LeastOf
<1>2. n # 0
  OBVIOUS
<1>3. n - 1 \in Nat /\ n - 1 \in T /\ (n - 1) + 1 = n
  BY <1>1, <1>2
<1>4. (n - 1) + 1 \in T
  BY <1>3, Zenon
<1> QED BY <1>3, <1>4

-----------------------------------------------------------------------------
(* The levels of the terms.                                                *)

IsTerms(f, n) == f = [d \in 0..n |-> IF d = 0 THEN NoTerms ELSE TermsOver(f[d - 1])]

\* What the equation of the levels says of each of them.
LEMMA TermsAt ==
  ASSUME NEW f, NEW n \in Nat, IsTerms(f, n)
  PROVE  f[0] = NoTerms /\ \A d \in 1..n : f[d] = TermsOver(f[d - 1])
<1>1. \A d \in 0..n : f[d] = IF d = 0 THEN NoTerms ELSE TermsOver(f[d - 1])
  BY DEF IsTerms
<1>2. 0 \in 0..n /\ \A d \in 1..n : d \in 0..n /\ d # 0
  OBVIOUS
<1> QED BY <1>1, <1>2

\* There are as many levels as one wants.
LEMMA TermsExist == \A n \in Nat : \E f : IsTerms(f, n)
<1> DEFINE T == {n \in Nat : \E f : IsTerms(f, n)}
<1>1. 0 \in T
  <2> DEFINE f == [d \in 0..0 |-> NoTerms]
  <2>1. IsTerms(f, 0)
    BY DEF IsTerms
  <2> HIDE DEF f
  <2> QED BY <2>1
<1>2. ASSUME NEW n \in Nat, n \in T PROVE n + 1 \in T
  <2>1. PICK f : IsTerms(f, n)
    BY <1>2
  <2> DEFINE top == TermsOver(f[n])
             g == [d \in 0..(n + 1) |-> IF d <= n THEN f[d] ELSE top]
             Right(d) == IF d = 0 THEN NoTerms ELSE TermsOver(g[d - 1])
  <2>2. ASSUME NEW d \in 0..(n + 1) PROVE g[d] = Right(d)
    <3>1. CASE d = 0
      BY <2>1, <3>1, TermsAt
    <3>2. CASE d \in 1..n
      <4>1. g[d] = f[d] /\ g[d - 1] = f[d - 1]
        BY <3>2
      <4> QED BY <2>1, <3>2, <4>1, TermsAt
    <3>3. CASE d = n + 1
      BY <3>3
    <3> QED BY <3>1, <3>2, <3>3
  <2>3. g = [d \in 0..(n + 1) |-> Right(d)]
    BY <2>2
  <2>4. IsTerms(g, n + 1)
    BY <2>3 DEF IsTerms
  <2> HIDE DEF g
  <2> QED BY <2>4
<1> HIDE DEF T
<1>3. Nat \subseteq T
  BY <1>1, <1>2, UpFromZero
<1> QED BY <1>3 DEF T

\* The levels are what their equation says.
LEMMA TermsEq == IsTerms(Terms, Depth)
<1>1. Depth \in Nat
  BY PatternsAssumption
<1>2. \E f : f = [d \in 0..Depth |-> IF d = 0 THEN NoTerms ELSE TermsOver(f[d - 1])]
  <2>1. \E f : IsTerms(f, Depth)
    BY <1>1, TermsExist
  <2> QED BY <2>1 DEF IsTerms
<1>3. Terms = [d \in 0..Depth |-> IF d = 0 THEN NoTerms ELSE TermsOver(Terms[d - 1])]
  BY <1>2 DEF Terms
<1> QED BY <1>3 DEF IsTerms

ValuesAt(d) == Terms[d].values
PatternsAt(d) == Terms[d].patterns
ExpressionsAt(d) == Terms[d].expressions

\* The lowest level is empty, each other is built over the one below.
LEMMA Levels ==
  /\ ValuesAt(0) = {} /\ PatternsAt(0) = {} /\ ExpressionsAt(0) = {}
  /\ \A d \in Nat : d < Depth =>
       /\ ValuesAt(d + 1) = ValuesOver(ValuesAt(d))
       /\ PatternsAt(d + 1) = PatternsOver(PatternsAt(d))
       /\ ExpressionsAt(d + 1) = ExpressionsOver(ExpressionsAt(d), PatternsAt(d))
<1>1. Depth \in Nat
  BY PatternsAssumption
<1>2. Terms[0] = NoTerms /\ \A d \in 1..Depth : Terms[d] = TermsOver(Terms[d - 1])
  BY <1>1, TermsEq, TermsAt
<1>3. ASSUME NEW d \in Nat, d < Depth
      PROVE  Terms[d + 1] = TermsOver(Terms[d])
  <2>1. d + 1 \in 1..Depth /\ (d + 1) - 1 = d
    BY <1>1, <1>3
  <2>2. Terms[d + 1] = TermsOver(Terms[(d + 1) - 1])
    BY <1>2, <2>1
  <2> QED BY <2>1, <2>2
<1>4. ValuesAt(0) = {} /\ PatternsAt(0) = {} /\ ExpressionsAt(0) = {}
  BY <1>2 DEF NoTerms, ValuesAt, PatternsAt, ExpressionsAt
<1>5. ASSUME NEW d \in Nat, d < Depth
      PROVE  /\ ValuesAt(d + 1) = ValuesOver(ValuesAt(d))
             /\ PatternsAt(d + 1) = PatternsOver(PatternsAt(d))
             /\ ExpressionsAt(d + 1) = ExpressionsOver(ExpressionsAt(d), PatternsAt(d))
  <2>1. Terms[d + 1] = TermsOver(Terms[d])
    BY <1>3, <1>5
  <2> QED BY <2>1 DEF TermsOver, ValuesAt, PatternsAt, ExpressionsAt
<1> QED BY <1>4, <1>5

\* Sequences over a set are sequences over a larger one.
LEMMA SeqWiden ==
  ASSUME NEW X, NEW Y, X \subseteq Y
  PROVE  Seq(X) \subseteq Seq(Y)
OBVIOUS

\* What is built over a set is built over a larger one.
LEMMA TermsMonotonic ==
  ASSUME NEW X, NEW Y, X \subseteq Y
  PROVE  /\ ValuesOver(X) \subseteq ValuesOver(Y)
         /\ PatternsOver(X) \subseteq PatternsOver(Y)
         /\ \A P, Q : P \subseteq Q => ExpressionsOver(X, P) \subseteq ExpressionsOver(Y, Q)
<1>1. Seq(X) \subseteq Seq(Y)
  BY SeqWiden
<1>2. Maps(X) \subseteq Maps(Y)
  BY DEF Maps
<1>3. ValuesOver(X) \subseteq ValuesOver(Y)
  <2>1. [kind : {"List"}, items : Seq(X)] \subseteq [kind : {"List"}, items : Seq(Y)]
    BY <1>1
  <2>2. [kind : {"Map"}, map : Maps(X)] \subseteq [kind : {"Map"}, map : Maps(Y)]
    BY <1>2
  <2>3. [kind : {"Outcome"}, case : {"Some", "Err"}, parts : {s \in Seq(X) : Len(s) = 2}]
          \subseteq [kind : {"Outcome"}, case : {"Some", "Err"}, parts : {s \in Seq(Y) : Len(s) = 2}]
    BY <1>1
  <2> QED BY <2>1, <2>2, <2>3, Zenon DEF ValuesOver
<1>4. PatternsOver(X) \subseteq PatternsOver(Y)
  BY <1>1 DEF PatternsOver
<1>5. ASSUME NEW P, NEW Q, P \subseteq Q
      PROVE  ExpressionsOver(X, P) \subseteq ExpressionsOver(Y, Q)
  BY <1>5 DEF ExpressionsOver
<1> QED BY <1>3, <1>4, <1>5

\* Each level holds the one below.
LEMMA LevelsRise ==
  ASSUME NEW d \in Nat, d < Depth
  PROVE  /\ ValuesAt(d) \subseteq ValuesAt(d + 1)
         /\ PatternsAt(d) \subseteq PatternsAt(d + 1)
         /\ ExpressionsAt(d) \subseteq ExpressionsAt(d + 1)
<1>1. Depth \in Nat
  BY PatternsAssumption
<1> DEFINE Rises(k) == /\ ValuesAt(k) \subseteq ValuesAt(k + 1)
                       /\ PatternsAt(k) \subseteq PatternsAt(k + 1)
                       /\ ExpressionsAt(k) \subseteq ExpressionsAt(k + 1)
           T == {k \in Nat : k < Depth => Rises(k)}
<1>2. 0 \in T
  BY Levels
<1>3. ASSUME NEW k \in Nat, k \in T PROVE k + 1 \in T
  <2> SUFFICES ASSUME k + 1 < Depth PROVE Rises(k + 1)
    OBVIOUS
  <2>1. k < Depth /\ k + 1 \in Nat
    BY <1>1
  <2>2. Rises(k)
    BY <1>3, <2>1
  <2>3. /\ ValuesAt(k + 1) = ValuesOver(ValuesAt(k))
        /\ PatternsAt(k + 1) = PatternsOver(PatternsAt(k))
        /\ ExpressionsAt(k + 1) = ExpressionsOver(ExpressionsAt(k), PatternsAt(k))
        /\ ValuesAt(k + 1 + 1) = ValuesOver(ValuesAt(k + 1))
        /\ PatternsAt(k + 1 + 1) = PatternsOver(PatternsAt(k + 1))
        /\ ExpressionsAt(k + 1 + 1) = ExpressionsOver(ExpressionsAt(k + 1), PatternsAt(k + 1))
    BY <2>1, Levels
  <2>4. ValuesOver(ValuesAt(k)) \subseteq ValuesOver(ValuesAt(k + 1))
    BY <2>2, TermsMonotonic
  <2>5. PatternsOver(PatternsAt(k)) \subseteq PatternsOver(PatternsAt(k + 1))
    BY <2>2, TermsMonotonic
  <2>6. ExpressionsOver(ExpressionsAt(k), PatternsAt(k))
          \subseteq ExpressionsOver(ExpressionsAt(k + 1), PatternsAt(k + 1))
    BY <2>2, TermsMonotonic
  <2> QED BY <2>3, <2>4, <2>5, <2>6
<1> HIDE DEF T
<1>4. Nat \subseteq T
  BY <1>2, <1>3, UpFromZero
<1> QED BY <1>4 DEF T

\* The highest level holds every other.
LEMMA TopLevel ==
  ASSUME NEW d \in 0..Depth
  PROVE  ValuesAt(d) \subseteq Subjects /\ PatternsAt(d) \subseteq Patterns /\ ExpressionsAt(d) \subseteq Expressions
<1>1. Depth \in Nat
  BY PatternsAssumption
<1> DEFINE Within(k) == /\ ValuesAt(k) \subseteq Subjects
                        /\ PatternsAt(k) \subseteq Patterns
                        /\ ExpressionsAt(k) \subseteq Expressions
           T == {k \in Nat : k <= Depth => Within(Depth - k)}
<1>2. 0 \in T
  <2>1. Depth - 0 = Depth
    BY <1>1
  <2> QED BY <2>1 DEF Subjects, Patterns, Expressions, ValuesAt, PatternsAt, ExpressionsAt
<1>3. ASSUME NEW k \in Nat, k \in T PROVE k + 1 \in T
  <2> SUFFICES ASSUME k + 1 <= Depth PROVE Within(Depth - (k + 1))
    OBVIOUS
  <2> DEFINE l == Depth - (k + 1)
  <2>1. l \in Nat /\ l < Depth /\ l + 1 = Depth - k /\ k <= Depth
    BY <1>1
  <2>2. Within(l + 1)
    BY <1>3, <2>1
  <2> HIDE DEF l
  <2>3. Within(l)
    BY <2>1, <2>2, LevelsRise
  <2> QED BY <2>3 DEF l
<1> HIDE DEF T
<1>4. Nat \subseteq T
  BY <1>2, <1>3, UpFromZero
<1>5. Depth - d \in Nat /\ Depth - d <= Depth /\ Depth - (Depth - d) = d
  BY <1>1
<1>6. Depth - d \in T
  BY <1>4, <1>5
<1>7. Within(Depth - (Depth - d))
  BY <1>5, <1>6 DEF T
<1> QED BY <1>5, <1>7

\* A term that is there at all is built over the level below the highest.
LEMMA TopLevelBuilt ==
  /\ \A v \in Subjects : \E d \in Nat : d < Depth /\ v \in ValuesOver(ValuesAt(d))
                           /\ ValuesOver(ValuesAt(d)) \subseteq Subjects
  /\ \A p \in Patterns : \E d \in Nat : d < Depth /\ p \in PatternsOver(PatternsAt(d))
  /\ \A e \in Expressions : \E d \in Nat : d < Depth /\ e \in ExpressionsOver(ExpressionsAt(d), PatternsAt(d))
<1>1. Depth \in Nat
  BY PatternsAssumption
<1>2. Subjects = ValuesAt(Depth) /\ Patterns = PatternsAt(Depth) /\ Expressions = ExpressionsAt(Depth)
  BY DEF Subjects, Patterns, Expressions, ValuesAt, PatternsAt, ExpressionsAt
<1>3. CASE Depth = 0
  BY <1>2, <1>3, Levels
<1>4. CASE Depth # 0
  <2>1. Depth - 1 \in Nat /\ Depth - 1 < Depth /\ (Depth - 1) + 1 = Depth
    BY <1>1, <1>4
  <2> DEFINE d == Depth - 1
  <2>2. d \in Nat /\ d < Depth /\ d + 1 = Depth
    BY <2>1
  <2> HIDE DEF d
  <2>3. /\ ValuesAt(d + 1) = ValuesOver(ValuesAt(d))
        /\ PatternsAt(d + 1) = PatternsOver(PatternsAt(d))
        /\ ExpressionsAt(d + 1) = ExpressionsOver(ExpressionsAt(d), PatternsAt(d))
    BY <2>2, Levels
  <2> QED BY <1>2, <2>2, <2>3
<1> QED BY <1>3, <1>4

\* A pattern is built of patterns.
LEMMA PatternBuilt == Patterns \subseteq PatternsOver(Patterns)
<1> SUFFICES ASSUME NEW p \in Patterns PROVE p \in PatternsOver(Patterns)
  OBVIOUS
<1>1. PICK d \in Nat : d < Depth /\ p \in PatternsOver(PatternsAt(d))
  BY TopLevelBuilt
<1>2. d \in 0..Depth
  <2>1. Depth \in Nat
    BY PatternsAssumption
  <2> QED BY <1>1, <2>1
<1>3. PatternsAt(d) \subseteq Patterns
  BY <1>2, TopLevel
<1>4. PatternsOver(PatternsAt(d)) \subseteq PatternsOver(Patterns)
  BY <1>3, TermsMonotonic
<1> QED BY <1>1, <1>4

\* An expression is built of expressions and patterns.
LEMMA ExpressionBuilt == Expressions \subseteq ExpressionsOver(Expressions, Patterns)
<1> SUFFICES ASSUME NEW e \in Expressions PROVE e \in ExpressionsOver(Expressions, Patterns)
  OBVIOUS
<1>1. PICK d \in Nat : d < Depth /\ e \in ExpressionsOver(ExpressionsAt(d), PatternsAt(d))
  BY TopLevelBuilt
<1>2. d \in 0..Depth
  <2>1. Depth \in Nat
    BY PatternsAssumption
  <2> QED BY <1>1, <2>1
<1>3. ExpressionsAt(d) \subseteq Expressions /\ PatternsAt(d) \subseteq Patterns
  BY <1>2, TopLevel
<1>4. ExpressionsOver(ExpressionsAt(d), PatternsAt(d)) \subseteq ExpressionsOver(Expressions, Patterns)
  BY <1>3, TermsMonotonic
<1> QED BY <1>1, <1>4

\* The parts of a pattern, as the proofs use them.
LEMMA PatternFacts ==
  ASSUME NEW p \in Patterns
  PROVE  /\ p.items \in Seq(Patterns)
         /\ p.name \in Idents \cup {""}
         /\ p.name # "" => p.kind \in {"Bind", "Rest"}
         /\ p.kind \in {"Bind", "Rest", "Wildcard", "Literal"} \cup Compound
         /\ p.kind \notin Compound => p.items = <<>>
         /\ p.kind \in {"Err", "Some"} => Len(p.items) = 2
         /\ p.kind = "Map" => Len(p.keys) = Len(p.items)
         /\ p.keys \in Seq(STRING)
         /\ p.literal \in Literals
         /\ p.kind = "List" => \A i \in DOMAIN p.items : p.items[i].kind = "Rest" => i = Len(p.items)
<1>1. p \in PatternsOver(Patterns)
  BY PatternBuilt
<1> QED BY <1>1 DEF PatternsOver

\* What holds of a pattern whenever it holds of its items holds of every pattern.
LEMMA PatternInduction ==
  ASSUME NEW T, \A p \in Patterns : (\A i \in DOMAIN p.items : p.items[i] \in T) => p \in T
  PROVE  Patterns \subseteq T
<1>1. Depth \in Nat
  BY PatternsAssumption
<1> DEFINE D == {d \in Nat : d <= Depth => PatternsAt(d) \subseteq T}
<1>2. 0 \in D
  BY Levels
<1>3. ASSUME NEW d \in Nat, d \in D PROVE d + 1 \in D
  <2> SUFFICES ASSUME d + 1 <= Depth, NEW p \in PatternsAt(d + 1) PROVE p \in T
    OBVIOUS
  <2>1. d < Depth /\ d <= Depth /\ d + 1 \in 0..Depth
    BY <1>1
  <2>2. p \in PatternsOver(PatternsAt(d))
    BY <2>1, Levels
  <2>3. p \in Patterns
    BY <2>1, TopLevel
  <2>4. p.items \in Seq(PatternsAt(d))
    BY <2>2 DEF PatternsOver
  <2>5. PatternsAt(d) \subseteq T
    BY <1>3, <2>1
  <2>6. \A i \in DOMAIN p.items : p.items[i] \in T
    BY <2>4, <2>5
  <2> QED BY <2>3, <2>6
<1> HIDE DEF D
<1>4. Nat \subseteq D
  BY <1>2, <1>3, UpFromZero
<1>5. PatternsAt(Depth) \subseteq T
  BY <1>1, <1>4 DEF D
<1> QED BY <1>5 DEF Patterns, PatternsAt

\* The expressions that an expression is made of.
Inside(e) ==
  CASE e.kind = "Binary" -> {e.left, e.right}
    [] e.kind = "Apply" -> {e.body, e.arg}
    [] OTHER -> {}

\* The expressions inside one of a level are of the level below.
LEMMA InsideBelow ==
  ASSUME NEW E, NEW P, NEW e \in ExpressionsOver(E, P)
  PROVE  Inside(e) \subseteq E
BY DEF ExpressionsOver, Inside

\* The same for expressions.
LEMMA ExpressionInduction ==
  ASSUME NEW T, \A e \in Expressions : Inside(e) \subseteq T => e \in T
  PROVE  Expressions \subseteq T
<1>1. Depth \in Nat
  BY PatternsAssumption
<1> DEFINE D == {d \in Nat : d <= Depth => ExpressionsAt(d) \subseteq T}
<1>2. 0 \in D
  BY Levels
<1>3. ASSUME NEW d \in Nat, d \in D PROVE d + 1 \in D
  <2> SUFFICES ASSUME d + 1 <= Depth, NEW e \in ExpressionsAt(d + 1) PROVE e \in T
    OBVIOUS
  <2>1. d < Depth /\ d <= Depth /\ d + 1 \in 0..Depth
    BY <1>1
  <2>2. e \in ExpressionsOver(ExpressionsAt(d), PatternsAt(d))
    BY <2>1, Levels
  <2>3. e \in Expressions
    BY <2>1, TopLevel
  <2>4. Inside(e) \subseteq ExpressionsAt(d)
    BY <2>2, InsideBelow
  <2>5. ExpressionsAt(d) \subseteq T
    BY <1>3, <2>1
  <2> QED BY <2>3, <2>4, <2>5
<1> HIDE DEF D
<1>4. Nat \subseteq D
  BY <1>2, <1>3, UpFromZero
<1>5. ExpressionsAt(Depth) \subseteq T
  BY <1>1, <1>4 DEF D
<1> QED BY <1>5 DEF Expressions, ExpressionsAt

\* The four kinds of expression.
LEMMA ExpressionFacts ==
  ASSUME NEW e \in Expressions
  PROVE  /\ e.kind \in {"Var", "Literal", "Binary", "Apply"}
         /\ e.kind = "Var" => e.name \in Idents
         /\ e.kind = "Literal" => e.literal \in Literals
         /\ e.kind = "Binary" => e.op \in {"==", ">"} /\ e.left \in Expressions /\ e.right \in Expressions
         /\ e.kind = "Apply" => e.param \in Patterns /\ e.body \in Expressions /\ e.arg \in Expressions
<1>1. e \in ExpressionsOver(Expressions, Patterns)
  BY ExpressionBuilt
<1> QED BY <1>1 DEF ExpressionsOver

\* Where there is a term there are the atoms.
LEMMA AtomsThere ==
  /\ Patterns # {} => Atoms \subseteq Subjects
  /\ Expressions # {} => Atoms \subseteq Subjects
<1>1. Depth \in Nat
  BY PatternsAssumption
<1>2. ASSUME Depth # 0 PROVE Atoms \subseteq Subjects
  <2>1. 0 < Depth /\ 1 \in 0..Depth /\ 0 + 1 = 1
    BY <1>1, <1>2
  <2>2. ValuesAt(1) = ValuesOver(ValuesAt(0))
    BY <2>1, Levels
  <2>3. ValuesAt(1) \subseteq Subjects
    BY <2>1, TopLevel
  <2>4. Atoms \subseteq ValuesOver(ValuesAt(0))
    BY DEF ValuesOver
  <2> QED BY <2>2, <2>3, <2>4
<1>3. ASSUME Depth = 0 PROVE Patterns = {} /\ Expressions = {}
  BY <1>3, Levels DEF Patterns, Expressions, PatternsAt, ExpressionsAt
<1> QED BY <1>2, <1>3

\* The parts of a value are values, and so is what a Rest takes of a list.
LEMMA ValueFacts ==
  ASSUME NEW v \in Subjects
  PROVE  /\ v.kind = "List" => /\ v.items \in Seq(Subjects)
                               /\ \A m \in 1..(Len(v.items) + 1) :
                                    ListValue(SubSeq(v.items, m, Len(v.items))) \in Subjects
         /\ v.kind = "Map" => v.map \subseteq STRING \X Subjects
         /\ v.kind = "Outcome" /\ v.case \in {"Some", "Err"} => v.parts \in Seq(Subjects) /\ Len(v.parts) = 2
<1>1. PICK d \in Nat : /\ d < Depth /\ v \in ValuesOver(ValuesAt(d))
                       /\ ValuesOver(ValuesAt(d)) \subseteq Subjects
  BY TopLevelBuilt
<1>2. d \in 0..Depth
  <2>1. Depth \in Nat
    BY PatternsAssumption
  <2> QED BY <1>1, <2>1
<1>3. ValuesAt(d) \subseteq Subjects
  BY <1>2, TopLevel
<1> DEFINE V == ValuesAt(d)
<1> HIDE DEF V
<1>4. /\ v.kind = "List" => v.items \in Seq(V)
      /\ v.kind = "Map" => v.map \subseteq STRING \X V
      /\ v.kind = "Outcome" /\ v.case \in {"Some", "Err"} => v.parts \in Seq(V) /\ Len(v.parts) = 2
  <2>1. v \in ValuesOver(V)
    BY <1>1 DEF V
  <2> QED BY <2>1 DEF ValuesOver, Atoms, Maps
<1>5. ASSUME NEW s \in Seq(V) PROVE ListValue(s) \in Subjects
  <2>1. ListValue(s) \in ValuesOver(V)
    BY DEF ListValue, ValuesOver
  <2> QED BY <1>1, <2>1 DEF V
<1>6. ASSUME NEW s \in Seq(V), NEW m \in 1..(Len(s) + 1) PROVE SubSeq(s, m, Len(s)) \in Seq(V)
  BY SubSeqProperties
<1>7. Seq(V) \subseteq Seq(Subjects) /\ V \subseteq Subjects
  BY <1>3, SeqWiden DEF V
<1> QED BY <1>4, <1>5, <1>6, <1>7

-----------------------------------------------------------------------------
(* The recursions over sequences.                                          *)

IsWalk(f, steps, seen, n) == f = [i \in 0..n |-> IF i = 0 THEN seen ELSE steps[i][f[i - 1]]]

\* What the equation of a walk says of each of its steps.
LEMMA WalkAt ==
  ASSUME NEW f, NEW steps, NEW seen, NEW n \in Nat, IsWalk(f, steps, seen, n)
  PROVE  f[0] = seen /\ \A i \in 1..n : f[i] = steps[i][f[i - 1]]
<1>1. \A i \in 0..n : f[i] = IF i = 0 THEN seen ELSE steps[i][f[i - 1]]
  BY DEF IsWalk
<1>2. 0 \in 0..n /\ \A i \in 1..n : i \in 0..n /\ i # 0
  OBVIOUS
<1> QED BY <1>1, <1>2

\* A walk may be of any length.
LEMMA WalkExists ==
  ASSUME NEW steps, NEW seen
  PROVE  \A n \in Nat : \E f : IsWalk(f, steps, seen, n)
<1> DEFINE T == {n \in Nat : \E f : IsWalk(f, steps, seen, n)}
<1>1. 0 \in T
  <2> DEFINE f == [i \in 0..0 |-> seen]
  <2>1. IsWalk(f, steps, seen, 0)
    BY DEF IsWalk
  <2> HIDE DEF f
  <2> QED BY <2>1
<1>2. ASSUME NEW n \in Nat, n \in T PROVE n + 1 \in T
  <2>1. PICK f : IsWalk(f, steps, seen, n)
    BY <1>2
  <2> DEFINE last == steps[n + 1][f[n]]
             g == [i \in 0..(n + 1) |-> IF i <= n THEN f[i] ELSE last]
             Right(i) == IF i = 0 THEN seen ELSE steps[i][g[i - 1]]
  <2>2. ASSUME NEW i \in 0..(n + 1) PROVE g[i] = Right(i)
    <3>1. CASE i = 0
      BY <2>1, <3>1, WalkAt
    <3>2. CASE i \in 1..n
      <4>1. g[i] = f[i] /\ g[i - 1] = f[i - 1]
        BY <3>2
      <4> QED BY <2>1, <3>2, <4>1, WalkAt
    <3>3. CASE i = n + 1
      BY <3>3
    <3> QED BY <3>1, <3>2, <3>3
  <2>3. g = [i \in 0..(n + 1) |-> Right(i)]
    BY <2>2
  <2>4. IsWalk(g, steps, seen, n + 1)
    BY <2>3 DEF IsWalk
  <2> HIDE DEF g
  <2> QED BY <2>4
<1> HIDE DEF T
<1>3. Nat \subseteq T
  BY <1>1, <1>2, UpFromZero
<1> QED BY <1>3 DEF T

\* The value of a walk is where its last step leads.
LEMMA WalkUnfolds ==
  ASSUME NEW steps, NEW seen, Len(steps) \in Nat
  PROVE  \E f : /\ f[0] = seen
                /\ \A i \in 1..Len(steps) : f[i] = steps[i][f[i - 1]]
                /\ Walk(steps, seen) = f[Len(steps)]
<1> DEFINE F == CHOOSE f : f = [i \in 0..Len(steps) |-> IF i = 0 THEN seen ELSE steps[i][f[i - 1]]]
<1>1. \E f : f = [i \in 0..Len(steps) |-> IF i = 0 THEN seen ELSE steps[i][f[i - 1]]]
  <2>1. \E f : IsWalk(f, steps, seen, Len(steps))
    BY WalkExists
  <2> QED BY <2>1 DEF IsWalk
<1>2. F = [i \in 0..Len(steps) |-> IF i = 0 THEN seen ELSE steps[i][F[i - 1]]]
  BY <1>1
<1>3. Walk(steps, seen) = F[Len(steps)]
  BY DEF Walk
<1> HIDE DEF F
<1>4. IsWalk(F, steps, seen, Len(steps))
  BY <1>2 DEF IsWalk
<1> QED BY <1>3, <1>4, WalkAt

IsMerged(f, results, n) == f = [i \in 0..n |-> IF i = 0 THEN Matched(<<>>) ELSE Joined(f[i - 1], results[i])]

\* What the equation of a merge says of each of its steps.
LEMMA MergedAt ==
  ASSUME NEW f, NEW results, NEW n \in Nat, IsMerged(f, results, n)
  PROVE  f[0] = Matched(<<>>) /\ \A i \in 1..n : f[i] = Joined(f[i - 1], results[i])
<1>1. \A i \in 0..n : f[i] = IF i = 0 THEN Matched(<<>>) ELSE Joined(f[i - 1], results[i])
  BY DEF IsMerged
<1>2. 0 \in 0..n /\ \A i \in 1..n : i \in 0..n /\ i # 0
  OBVIOUS
<1> QED BY <1>1, <1>2

\* Any number of results can be merged.
LEMMA MergedExists ==
  ASSUME NEW results
  PROVE  \A n \in Nat : \E f : IsMerged(f, results, n)
<1> DEFINE T == {n \in Nat : \E f : IsMerged(f, results, n)}
<1>1. 0 \in T
  <2> DEFINE f == [i \in 0..0 |-> Matched(<<>>)]
  <2>1. IsMerged(f, results, 0)
    BY DEF IsMerged
  <2> HIDE DEF f
  <2> QED BY <2>1
<1>2. ASSUME NEW n \in Nat, n \in T PROVE n + 1 \in T
  <2>1. PICK f : IsMerged(f, results, n)
    BY <1>2
  <2> DEFINE last == Joined(f[n], results[n + 1])
             g == [i \in 0..(n + 1) |-> IF i <= n THEN f[i] ELSE last]
             Right(i) == IF i = 0 THEN Matched(<<>>) ELSE Joined(g[i - 1], results[i])
  <2>2. ASSUME NEW i \in 0..(n + 1) PROVE g[i] = Right(i)
    <3>1. CASE i = 0
      BY <2>1, <3>1, MergedAt
    <3>2. CASE i \in 1..n
      <4>1. g[i] = f[i] /\ g[i - 1] = f[i - 1]
        BY <3>2
      <4> QED BY <2>1, <3>2, <4>1, MergedAt
    <3>3. CASE i = n + 1
      BY <3>3
    <3> QED BY <3>1, <3>2, <3>3
  <2>3. g = [i \in 0..(n + 1) |-> Right(i)]
    BY <2>2
  <2>4. IsMerged(g, results, n + 1)
    BY <2>3 DEF IsMerged
  <2> HIDE DEF g
  <2> QED BY <2>4
<1> HIDE DEF T
<1>3. Nat \subseteq T
  BY <1>1, <1>2, UpFromZero
<1> QED BY <1>3 DEF T

\* The value of a merge is what its last step gives.
LEMMA MergedUnfolds ==
  ASSUME NEW results, Len(results) \in Nat
  PROVE  \E f : /\ f[0] = Matched(<<>>)
                /\ \A i \in 1..Len(results) : f[i] = Joined(f[i - 1], results[i])
                /\ Merged(results) = f[Len(results)]
<1> DEFINE F == CHOOSE f : f = [i \in 0..Len(results) |-> IF i = 0 THEN Matched(<<>>) ELSE Joined(f[i - 1], results[i])]
<1>1. \E f : f = [i \in 0..Len(results) |-> IF i = 0 THEN Matched(<<>>) ELSE Joined(f[i - 1], results[i])]
  <2>1. \E f : IsMerged(f, results, Len(results))
    BY MergedExists
  <2> QED BY <2>1 DEF IsMerged
<1>2. F = [i \in 0..Len(results) |-> IF i = 0 THEN Matched(<<>>) ELSE Joined(F[i - 1], results[i])]
  BY <1>1
<1>3. Merged(results) = F[Len(results)]
  BY DEF Merged
<1> HIDE DEF F
<1>4. IsMerged(F, results, Len(results))
  BY <1>2 DEF IsMerged
<1> QED BY <1>3, <1>4, MergedAt

-----------------------------------------------------------------------------
(* The recursions over patterns and expressions.                           *)

MatchAtomBody(f, p) ==
  [v \in Subjects |->
     CASE p.kind = "Wildcard" -> Matched(<<>>)
       [] p.kind \in {"Bind", "Rest"} -> Matched(IF p.name = "" THEN <<>> ELSE << <<p.name, v>> >>)
       [] p.kind = "Literal" -> IF v \in Equals[p.literal.value] THEN Matched(<<>>) ELSE NoMatch
       [] OTHER ->
            UNION {Merged([i \in DOMAIN p.items |-> f[p.items[i]][parts[i]]]) : parts \in Parts(p, v)}]

\* The body of MatchAtom depends on MatchAtom at the items only.
LEMMA MatchAtomAgree ==
  ASSUME NEW p, NEW f, NEW g, \A i \in DOMAIN p.items : f[p.items[i]] = g[p.items[i]]
  PROVE  MatchAtomBody(f, p) = MatchAtomBody(g, p)
<1>1. ASSUME NEW parts
      PROVE  [i \in DOMAIN p.items |-> f[p.items[i]][parts[i]]] = [i \in DOMAIN p.items |-> g[p.items[i]][parts[i]]]
  OBVIOUS
<1>2. ASSUME NEW v
      PROVE  UNION {Merged([i \in DOMAIN p.items |-> f[p.items[i]][parts[i]]]) : parts \in Parts(p, v)}
               = UNION {Merged([i \in DOMAIN p.items |-> g[p.items[i]][parts[i]]]) : parts \in Parts(p, v)}
  BY <1>1, Zenon
<1> QED BY <1>2 DEF MatchAtomBody

\* MatchAtom is what its equation says.
LEMMA MatchAtomUnfolds == \A p \in Patterns : MatchAtom[p] = MatchAtomBody(MatchAtom, p)
<1>1. Depth \in Nat
  BY PatternsAssumption
<1> DEFINE T == {d \in Nat : d <= Depth => \E f : f = [p \in PatternsAt(d) |-> MatchAtomBody(f, p)]}
<1>2. 0 \in T
  <2> DEFINE f == [p \in {} |-> p]
  <2>1. f = [p \in PatternsAt(0) |-> MatchAtomBody(f, p)]
    BY Levels
  <2> HIDE DEF f
  <2> QED BY <2>1
<1>3. ASSUME NEW d \in Nat, d \in T PROVE d + 1 \in T
  <2> SUFFICES ASSUME d + 1 <= Depth PROVE \E f : f = [p \in PatternsAt(d + 1) |-> MatchAtomBody(f, p)]
    OBVIOUS
  <2>1. d < Depth /\ d <= Depth
    BY <1>1
  <2>2. PICK f : f = [p \in PatternsAt(d) |-> MatchAtomBody(f, p)]
    BY <1>3, <2>1
  <2> DEFINE g == [p \in PatternsAt(d + 1) |-> MatchAtomBody(f, p)]
  <2>3. ASSUME NEW p \in PatternsAt(d + 1) PROVE g[p] = MatchAtomBody(g, p)
    <3>1. p.items \in Seq(PatternsAt(d))
      <4>1. p \in PatternsOver(PatternsAt(d))
        BY <2>1, Levels
      <4> QED BY <4>1 DEF PatternsOver
    <3>2. ASSUME NEW i \in DOMAIN p.items PROVE f[p.items[i]] = g[p.items[i]]
      <4>1. p.items[i] \in PatternsAt(d) /\ p.items[i] \in PatternsAt(d + 1)
        BY <2>1, <3>1, LevelsRise
      <4>2. f[p.items[i]] = MatchAtomBody(f, p.items[i])
        BY <2>2, <4>1
      <4>3. g[p.items[i]] = MatchAtomBody(f, p.items[i])
        BY <4>1
      <4> QED BY <4>2, <4>3
    <3> HIDE DEF g
    <3>3. MatchAtomBody(f, p) = MatchAtomBody(g, p)
      BY <3>2, MatchAtomAgree
    <3> QED BY <3>3 DEF g
  <2>4. g = [p \in PatternsAt(d + 1) |-> MatchAtomBody(g, p)]
    BY <2>3
  <2> HIDE DEF g
  <2> QED BY <2>4
<1> HIDE DEF T
<1>4. Nat \subseteq T
  BY <1>2, <1>3, UpFromZero
<1>5. \E f : f = [p \in Patterns |-> MatchAtomBody(f, p)]
  BY <1>1, <1>4 DEF T, Patterns, PatternsAt
<1> DEFINE F == CHOOSE f : f = [p \in Patterns |-> MatchAtomBody(f, p)]
<1>6. F = [p \in Patterns |-> MatchAtomBody(F, p)]
  BY <1>5
<1>7. MatchAtom = F
  BY Zenon DEF MatchAtom, MatchAtomBody
<1> HIDE DEF F
<1> QED BY <1>6, <1>7

BindersBody(f, p) ==
  [seen \in Seq(Idents) |->
     IF p.name \in Idents \ ToSet(seen)
     THEN Append(seen, p.name)
     ELSE Walk([i \in DOMAIN p.items |-> f[p.items[i]]], seen)]

\* The body of Binders depends on Binders at the items only.
LEMMA BindersAgree ==
  ASSUME NEW p, NEW f, NEW g, \A i \in DOMAIN p.items : f[p.items[i]] = g[p.items[i]]
  PROVE  BindersBody(f, p) = BindersBody(g, p)
<1>1. [i \in DOMAIN p.items |-> f[p.items[i]]] = [i \in DOMAIN p.items |-> g[p.items[i]]]
  OBVIOUS
<1> QED BY <1>1 DEF BindersBody

\* Binders is what its equation says.
LEMMA BindersUnfolds == \A p \in Patterns : Binders[p] = BindersBody(Binders, p)
<1>1. Depth \in Nat
  BY PatternsAssumption
<1> DEFINE T == {d \in Nat : d <= Depth => \E f : f = [p \in PatternsAt(d) |-> BindersBody(f, p)]}
<1>2. 0 \in T
  <2> DEFINE f == [p \in {} |-> p]
  <2>1. f = [p \in PatternsAt(0) |-> BindersBody(f, p)]
    BY Levels
  <2> HIDE DEF f
  <2> QED BY <2>1
<1>3. ASSUME NEW d \in Nat, d \in T PROVE d + 1 \in T
  <2> SUFFICES ASSUME d + 1 <= Depth PROVE \E f : f = [p \in PatternsAt(d + 1) |-> BindersBody(f, p)]
    OBVIOUS
  <2>1. d < Depth /\ d <= Depth
    BY <1>1
  <2>2. PICK f : f = [p \in PatternsAt(d) |-> BindersBody(f, p)]
    BY <1>3, <2>1
  <2> DEFINE g == [p \in PatternsAt(d + 1) |-> BindersBody(f, p)]
  <2>3. ASSUME NEW p \in PatternsAt(d + 1) PROVE g[p] = BindersBody(g, p)
    <3>1. p.items \in Seq(PatternsAt(d))
      <4>1. p \in PatternsOver(PatternsAt(d))
        BY <2>1, Levels
      <4> QED BY <4>1 DEF PatternsOver
    <3>2. ASSUME NEW i \in DOMAIN p.items PROVE f[p.items[i]] = g[p.items[i]]
      <4>1. p.items[i] \in PatternsAt(d) /\ p.items[i] \in PatternsAt(d + 1)
        BY <2>1, <3>1, LevelsRise
      <4>2. f[p.items[i]] = BindersBody(f, p.items[i])
        BY <2>2, <4>1
      <4>3. g[p.items[i]] = BindersBody(f, p.items[i])
        BY <4>1
      <4> QED BY <4>2, <4>3
    <3> HIDE DEF g
    <3>3. BindersBody(f, p) = BindersBody(g, p)
      BY <3>2, BindersAgree
    <3> QED BY <3>3 DEF g
  <2>4. g = [p \in PatternsAt(d + 1) |-> BindersBody(g, p)]
    BY <2>3
  <2> HIDE DEF g
  <2> QED BY <2>4
<1> HIDE DEF T
<1>4. Nat \subseteq T
  BY <1>2, <1>3, UpFromZero
<1>5. \E f : f = [p \in Patterns |-> BindersBody(f, p)]
  BY <1>1, <1>4 DEF T, Patterns, PatternsAt
<1> DEFINE F == CHOOSE f : f = [p \in Patterns |-> BindersBody(f, p)]
<1>6. F = [p \in Patterns |-> BindersBody(F, p)]
  BY <1>5
<1>7. Binders = F
  BY Zenon DEF Binders, BindersBody
<1> HIDE DEF F
<1> QED BY <1>6, <1>7

PatternKeyBody(f, p) ==
  [scope \in Seq(Idents) |->
     [kind |-> p.kind, slot |-> Slots(p.name, scope), literal |-> Spelling(p.literal), keys |-> p.keys,
      items |-> [i \in DOMAIN p.items |-> f[p.items[i]][scope]]]]

\* The body of PatternKey depends on PatternKey at the items only.
LEMMA PatternKeyAgree ==
  ASSUME NEW p, NEW f, NEW g, \A i \in DOMAIN p.items : f[p.items[i]] = g[p.items[i]]
  PROVE  PatternKeyBody(f, p) = PatternKeyBody(g, p)
<1>1. ASSUME NEW scope
      PROVE  [i \in DOMAIN p.items |-> f[p.items[i]][scope]] = [i \in DOMAIN p.items |-> g[p.items[i]][scope]]
  OBVIOUS
<1> QED BY <1>1 DEF PatternKeyBody

\* PatternKey is what its equation says.
LEMMA PatternKeyUnfolds == \A p \in Patterns : PatternKey[p] = PatternKeyBody(PatternKey, p)
<1>1. Depth \in Nat
  BY PatternsAssumption
<1> DEFINE T == {d \in Nat : d <= Depth => \E f : f = [p \in PatternsAt(d) |-> PatternKeyBody(f, p)]}
<1>2. 0 \in T
  <2> DEFINE f == [p \in {} |-> p]
  <2>1. f = [p \in PatternsAt(0) |-> PatternKeyBody(f, p)]
    BY Levels
  <2> HIDE DEF f
  <2> QED BY <2>1
<1>3. ASSUME NEW d \in Nat, d \in T PROVE d + 1 \in T
  <2> SUFFICES ASSUME d + 1 <= Depth PROVE \E f : f = [p \in PatternsAt(d + 1) |-> PatternKeyBody(f, p)]
    OBVIOUS
  <2>1. d < Depth /\ d <= Depth
    BY <1>1
  <2>2. PICK f : f = [p \in PatternsAt(d) |-> PatternKeyBody(f, p)]
    BY <1>3, <2>1
  <2> DEFINE g == [p \in PatternsAt(d + 1) |-> PatternKeyBody(f, p)]
  <2>3. ASSUME NEW p \in PatternsAt(d + 1) PROVE g[p] = PatternKeyBody(g, p)
    <3>1. p.items \in Seq(PatternsAt(d))
      <4>1. p \in PatternsOver(PatternsAt(d))
        BY <2>1, Levels
      <4> QED BY <4>1 DEF PatternsOver
    <3>2. ASSUME NEW i \in DOMAIN p.items PROVE f[p.items[i]] = g[p.items[i]]
      <4>1. p.items[i] \in PatternsAt(d) /\ p.items[i] \in PatternsAt(d + 1)
        BY <2>1, <3>1, LevelsRise
      <4>2. f[p.items[i]] = PatternKeyBody(f, p.items[i])
        BY <2>2, <4>1
      <4>3. g[p.items[i]] = PatternKeyBody(f, p.items[i])
        BY <4>1
      <4> QED BY <4>2, <4>3
    <3> HIDE DEF g
    <3>3. PatternKeyBody(f, p) = PatternKeyBody(g, p)
      BY <3>2, PatternKeyAgree
    <3> QED BY <3>3 DEF g
  <2>4. g = [p \in PatternsAt(d + 1) |-> PatternKeyBody(g, p)]
    BY <2>3
  <2> HIDE DEF g
  <2> QED BY <2>4
<1> HIDE DEF T
<1>4. Nat \subseteq T
  BY <1>2, <1>3, UpFromZero
<1>5. \E f : f = [p \in Patterns |-> PatternKeyBody(f, p)]
  BY <1>1, <1>4 DEF T, Patterns, PatternsAt
<1> DEFINE F == CHOOSE f : f = [p \in Patterns |-> PatternKeyBody(f, p)]
<1>6. F = [p \in Patterns |-> PatternKeyBody(F, p)]
  BY <1>5
<1>7. PatternKey = F
  BY Zenon DEF PatternKey, PatternKeyBody
<1> HIDE DEF F
<1> QED BY <1>6, <1>7

LikePatternBody(f, p) ==
  [q \in Patterns |->
     {pairs \in Pairings :
        /\ p.kind = q.kind /\ p.keys = q.keys /\ Len(p.items) = Len(q.items)
        /\ SameLiteral(p.literal, q.literal)
        /\ (p.name = "" /\ q.name = "") \/ <<p.name, q.name>> \in pairs
        /\ \A i \in DOMAIN p.items : pairs \in f[p.items[i]][q.items[i]]}]

\* The body of LikePattern depends on LikePattern at the items only.
LEMMA LikePatternAgree ==
  ASSUME NEW p, NEW f, NEW g, \A i \in DOMAIN p.items : f[p.items[i]] = g[p.items[i]]
  PROVE  LikePatternBody(f, p) = LikePatternBody(g, p)
BY DEF LikePatternBody

\* LikePattern is what its equation says.
LEMMA LikePatternUnfolds == \A p \in Patterns : LikePattern[p] = LikePatternBody(LikePattern, p)
<1>1. Depth \in Nat
  BY PatternsAssumption
<1> DEFINE T == {d \in Nat : d <= Depth => \E f : f = [p \in PatternsAt(d) |-> LikePatternBody(f, p)]}
<1>2. 0 \in T
  <2> DEFINE f == [p \in {} |-> p]
  <2>1. f = [p \in PatternsAt(0) |-> LikePatternBody(f, p)]
    BY Levels
  <2> HIDE DEF f
  <2> QED BY <2>1
<1>3. ASSUME NEW d \in Nat, d \in T PROVE d + 1 \in T
  <2> SUFFICES ASSUME d + 1 <= Depth PROVE \E f : f = [p \in PatternsAt(d + 1) |-> LikePatternBody(f, p)]
    OBVIOUS
  <2>1. d < Depth /\ d <= Depth
    BY <1>1
  <2>2. PICK f : f = [p \in PatternsAt(d) |-> LikePatternBody(f, p)]
    BY <1>3, <2>1
  <2> DEFINE g == [p \in PatternsAt(d + 1) |-> LikePatternBody(f, p)]
  <2>3. ASSUME NEW p \in PatternsAt(d + 1) PROVE g[p] = LikePatternBody(g, p)
    <3>1. p.items \in Seq(PatternsAt(d))
      <4>1. p \in PatternsOver(PatternsAt(d))
        BY <2>1, Levels
      <4> QED BY <4>1 DEF PatternsOver
    <3>2. ASSUME NEW i \in DOMAIN p.items PROVE f[p.items[i]] = g[p.items[i]]
      <4>1. p.items[i] \in PatternsAt(d) /\ p.items[i] \in PatternsAt(d + 1)
        BY <2>1, <3>1, LevelsRise
      <4>2. f[p.items[i]] = LikePatternBody(f, p.items[i])
        BY <2>2, <4>1
      <4>3. g[p.items[i]] = LikePatternBody(f, p.items[i])
        BY <4>1
      <4> QED BY <4>2, <4>3
    <3> HIDE DEF g
    <3>3. LikePatternBody(f, p) = LikePatternBody(g, p)
      BY <3>2, LikePatternAgree
    <3> QED BY <3>3 DEF g
  <2>4. g = [p \in PatternsAt(d + 1) |-> LikePatternBody(g, p)]
    BY <2>3
  <2> HIDE DEF g
  <2> QED BY <2>4
<1> HIDE DEF T
<1>4. Nat \subseteq T
  BY <1>2, <1>3, UpFromZero
<1>5. \E f : f = [p \in Patterns |-> LikePatternBody(f, p)]
  BY <1>1, <1>4 DEF T, Patterns, PatternsAt
<1> DEFINE F == CHOOSE f : f = [p \in Patterns |-> LikePatternBody(f, p)]
<1>6. F = [p \in Patterns |-> LikePatternBody(F, p)]
  BY <1>5
<1>7. LikePattern = F
  BY Zenon DEF LikePattern, LikePatternBody
<1> HIDE DEF F
<1> QED BY <1>6, <1>7

ExpressionKeyBody(f, e) ==
  [scope \in Seq(Idents) |->
     CASE e.kind = "Var" -> [kind |-> e.kind, name |-> Reference(e.name, scope)]
       [] e.kind = "Literal" -> [kind |-> e.kind, literal |-> Spelling(e.literal)]
       [] e.kind = "Binary" ->
            [kind |-> e.kind, op |-> e.op, left |-> f[e.left][scope],
             right |-> f[e.right][scope]]
       [] OTHER ->
            LET inner == LambdaScope(e.param, scope)
            IN  [kind |-> e.kind, param |-> PatternKey[e.param][inner], body |-> f[e.body][inner],
                 arg |-> f[e.arg][scope]]]

\* The body of ExpressionKey depends on ExpressionKey at the expressions inside only.
LEMMA ExpressionKeyAgree ==
  ASSUME NEW e \in Expressions, NEW f, NEW g, \A x \in Inside(e) : f[x] = g[x]
  PROVE  ExpressionKeyBody(f, e) = ExpressionKeyBody(g, e)
BY ExpressionFacts DEF ExpressionKeyBody, Inside

\* ExpressionKey is what its equation says.
LEMMA ExpressionKeyUnfolds == \A e \in Expressions : ExpressionKey[e] = ExpressionKeyBody(ExpressionKey, e)
<1>1. Depth \in Nat
  BY PatternsAssumption
<1> DEFINE T == {d \in Nat : d <= Depth => \E f : f = [e \in ExpressionsAt(d) |-> ExpressionKeyBody(f, e)]}
<1>2. 0 \in T
  <2> DEFINE f == [e \in {} |-> e]
  <2>1. f = [e \in ExpressionsAt(0) |-> ExpressionKeyBody(f, e)]
    BY Levels
  <2> HIDE DEF f
  <2> QED BY <2>1
<1>3. ASSUME NEW d \in Nat, d \in T PROVE d + 1 \in T
  <2> SUFFICES ASSUME d + 1 <= Depth PROVE \E f : f = [e \in ExpressionsAt(d + 1) |-> ExpressionKeyBody(f, e)]
    OBVIOUS
  <2>1. d < Depth /\ d <= Depth /\ d + 1 \in 0..Depth
    BY <1>1
  <2>2. PICK f : f = [e \in ExpressionsAt(d) |-> ExpressionKeyBody(f, e)]
    BY <1>3, <2>1
  <2> DEFINE g == [e \in ExpressionsAt(d + 1) |-> ExpressionKeyBody(f, e)]
  <2>3. ASSUME NEW e \in ExpressionsAt(d + 1) PROVE g[e] = ExpressionKeyBody(g, e)
    <3>1. e \in Expressions
      BY <2>1, TopLevel
    <3>2. Inside(e) \subseteq ExpressionsAt(d)
      BY <2>1, Levels, InsideBelow
    <3>3. ASSUME NEW x \in Inside(e) PROVE f[x] = g[x]
      <4>1. x \in ExpressionsAt(d) /\ x \in ExpressionsAt(d + 1)
        BY <2>1, <3>2, LevelsRise
      <4>2. f[x] = ExpressionKeyBody(f, x)
        BY <2>2, <4>1
      <4>3. g[x] = ExpressionKeyBody(f, x)
        BY <4>1
      <4> QED BY <4>2, <4>3
    <3> HIDE DEF g
    <3>4. ExpressionKeyBody(f, e) = ExpressionKeyBody(g, e)
      BY <3>1, <3>3, ExpressionKeyAgree
    <3> QED BY <3>4 DEF g
  <2>4. g = [e \in ExpressionsAt(d + 1) |-> ExpressionKeyBody(g, e)]
    BY <2>3
  <2> HIDE DEF g
  <2> QED BY <2>4
<1> HIDE DEF T
<1>4. Nat \subseteq T
  BY <1>2, <1>3, UpFromZero
<1>5. \E f : f = [e \in Expressions |-> ExpressionKeyBody(f, e)]
  BY <1>1, <1>4 DEF T, Expressions, ExpressionsAt
<1> DEFINE F == CHOOSE f : f = [e \in Expressions |-> ExpressionKeyBody(f, e)]
<1>6. F = [e \in Expressions |-> ExpressionKeyBody(F, e)]
  BY <1>5
<1>7. ExpressionKey = F
  BY Zenon DEF ExpressionKey, ExpressionKeyBody
<1> HIDE DEF F
<1> QED BY <1>6, <1>7

EvalBody(f, e) ==
  [scope \in Bindings |->
     CASE e.kind = "Var" ->
            IF Lookup(e.name, scope) = {} THEN Fails("error") ELSE CHOOSE v \in Lookup(e.name, scope) : TRUE
       [] e.kind = "Literal" -> e.literal.value
       [] e.kind = "Binary" -> Operate(e.op, f[e.left][scope], f[e.right][scope])
       [] OTHER ->
            LET arg == f[e.arg][scope]
                bindings == MatchAtom[e.param][arg]
            IN  IF arg.kind = "fails" THEN arg
                ELSE IF bindings = NoMatch THEN Fails("unsupported")
                ELSE f[e.body][scope \o CHOOSE b \in bindings : TRUE]]

\* The body of Eval depends on Eval at the expressions inside only.
LEMMA EvalAgree ==
  ASSUME NEW e \in Expressions, NEW f, NEW g, \A x \in Inside(e) : f[x] = g[x]
  PROVE  EvalBody(f, e) = EvalBody(g, e)
<1>1. ASSUME e.kind = "Binary" PROVE f[e.left] = g[e.left] /\ f[e.right] = g[e.right]
  BY <1>1 DEF Inside
<1>2. ASSUME e.kind = "Apply" PROVE f[e.body] = g[e.body] /\ f[e.arg] = g[e.arg]
  BY <1>2 DEF Inside
<1>3. e.kind \in {"Var", "Literal", "Binary", "Apply"}
  BY ExpressionFacts
<1>4. CASE e.kind \in {"Var", "Literal"}
  <2> DEFINE Seen == [scope \in Bindings |->
                        IF Lookup(e.name, scope) = {} THEN Fails("error")
                        ELSE CHOOSE v \in Lookup(e.name, scope) : TRUE]
             Constant == [scope \in Bindings |-> e.literal.value]
  <2>1. CASE e.kind = "Var"
    <3>1. EvalBody(f, e) = Seen
      BY <2>1, SMTT(60) DEF EvalBody
    <3>2. EvalBody(g, e) = Seen
      BY <2>1, SMTT(60) DEF EvalBody
    <3> QED BY <3>1, <3>2, Zenon
  <2>2. CASE e.kind = "Literal"
    <3>1. EvalBody(f, e) = Constant
      BY <2>2, SMTT(60) DEF EvalBody
    <3>2. EvalBody(g, e) = Constant
      BY <2>2, SMTT(60) DEF EvalBody
    <3> QED BY <3>1, <3>2, Zenon
  <2> QED BY <1>4, <2>1, <2>2
<1>5. CASE e.kind = "Binary"
  BY <1>1, <1>5 DEF EvalBody
<1>6. CASE e.kind = "Apply"
  <2> DEFINE Applied(h) ==
               [scope \in Bindings |->
                  LET arg == h[e.arg][scope]
                      bindings == MatchAtom[e.param][arg]
                  IN  IF arg.kind = "fails" THEN arg
                      ELSE IF bindings = NoMatch THEN Fails("unsupported")
                      ELSE h[e.body][scope \o CHOOSE b \in bindings : TRUE]]
  <2>1. EvalBody(f, e) = Applied(f) /\ EvalBody(g, e) = Applied(g)
    BY <1>6 DEF EvalBody
  <2>2. f[e.arg] = g[e.arg] /\ f[e.body] = g[e.body]
    BY <1>2, <1>6
  <2>3. Applied(f) = Applied(g)
    BY <2>2
  <2> QED BY <2>1, <2>3
<1> QED BY <1>3, <1>4, <1>5, <1>6

\* Eval is what its equation says.
LEMMA EvalUnfolds == \A e \in Expressions : Eval[e] = EvalBody(Eval, e)
<1>1. Depth \in Nat
  BY PatternsAssumption
<1> DEFINE T == {d \in Nat : d <= Depth => \E f : f = [e \in ExpressionsAt(d) |-> EvalBody(f, e)]}
<1>2. 0 \in T
  <2> DEFINE f == [e \in {} |-> e]
  <2>1. f = [e \in ExpressionsAt(0) |-> EvalBody(f, e)]
    BY Levels
  <2> HIDE DEF f
  <2> QED BY <2>1
<1>3. ASSUME NEW d \in Nat, d \in T PROVE d + 1 \in T
  <2> SUFFICES ASSUME d + 1 <= Depth PROVE \E f : f = [e \in ExpressionsAt(d + 1) |-> EvalBody(f, e)]
    OBVIOUS
  <2>1. d < Depth /\ d <= Depth /\ d + 1 \in 0..Depth
    BY <1>1
  <2>2. PICK f : f = [e \in ExpressionsAt(d) |-> EvalBody(f, e)]
    BY <1>3, <2>1
  <2> DEFINE g == [e \in ExpressionsAt(d + 1) |-> EvalBody(f, e)]
  <2>3. ASSUME NEW e \in ExpressionsAt(d + 1) PROVE g[e] = EvalBody(g, e)
    <3>1. e \in Expressions
      BY <2>1, TopLevel
    <3>2. Inside(e) \subseteq ExpressionsAt(d)
      BY <2>1, Levels, InsideBelow
    <3>3. ASSUME NEW x \in Inside(e) PROVE f[x] = g[x]
      <4>1. x \in ExpressionsAt(d) /\ x \in ExpressionsAt(d + 1)
        BY <2>1, <3>2, LevelsRise
      <4>2. f[x] = EvalBody(f, x)
        BY <2>2, <4>1
      <4>3. g[x] = EvalBody(f, x)
        BY <4>1
      <4> QED BY <4>2, <4>3
    <3> HIDE DEF g
    <3>4. EvalBody(f, e) = EvalBody(g, e)
      BY <3>1, <3>3, EvalAgree
    <3> QED BY <3>4 DEF g
  <2>4. g = [e \in ExpressionsAt(d + 1) |-> EvalBody(g, e)]
    BY <2>3
  <2> HIDE DEF g
  <2> QED BY <2>4
<1> HIDE DEF T
<1>4. Nat \subseteq T
  BY <1>2, <1>3, UpFromZero
<1>5. \E f : f = [e \in Expressions |-> EvalBody(f, e)]
  BY <1>1, <1>4 DEF T, Expressions, ExpressionsAt
<1> DEFINE F == CHOOSE f : f = [e \in Expressions |-> EvalBody(f, e)]
<1>6. F = [e \in Expressions |-> EvalBody(F, e)]
  BY <1>5
<1>7. Eval = F
  BY Zenon DEF Eval, EvalBody
<1> HIDE DEF F
<1> QED BY <1>6, <1>7

LikeExpressionBody(like, e) ==
  [f \in Expressions |->
     {layers \in Seq(Pairings) :
        /\ e.kind = f.kind
        /\ CASE e.kind = "Var" -> Related(e.name, f.name, layers)
             [] e.kind = "Literal" -> SameLiteral(e.literal, f.literal)
             [] e.kind = "Binary" ->
                  /\ e.op = f.op
                  /\ layers \in like[e.left][f.left]
                  /\ layers \in like[e.right][f.right]
             [] OTHER ->
                  /\ \E pairs \in Pairings : /\ Renames(pairs, e.param, f.param)
                                             /\ Append(layers, pairs) \in like[e.body][f.body]
                  /\ layers \in like[e.arg][f.arg]}]

\* The body of LikeExpression depends on LikeExpression at the expressions inside only.
LEMMA LikeExpressionAgree ==
  ASSUME NEW e \in Expressions, NEW f, NEW g, \A x \in Inside(e) : f[x] = g[x]
  PROVE  LikeExpressionBody(f, e) = LikeExpressionBody(g, e)
BY ExpressionFacts DEF LikeExpressionBody, Inside

\* LikeExpression is what its equation says.
LEMMA LikeExpressionUnfolds == \A e \in Expressions : LikeExpression[e] = LikeExpressionBody(LikeExpression, e)
<1>1. Depth \in Nat
  BY PatternsAssumption
<1> DEFINE T == {d \in Nat : d <= Depth => \E f : f = [e \in ExpressionsAt(d) |-> LikeExpressionBody(f, e)]}
<1>2. 0 \in T
  <2> DEFINE f == [e \in {} |-> e]
  <2>1. f = [e \in ExpressionsAt(0) |-> LikeExpressionBody(f, e)]
    BY Levels
  <2> HIDE DEF f
  <2> QED BY <2>1
<1>3. ASSUME NEW d \in Nat, d \in T PROVE d + 1 \in T
  <2> SUFFICES ASSUME d + 1 <= Depth PROVE \E f : f = [e \in ExpressionsAt(d + 1) |-> LikeExpressionBody(f, e)]
    OBVIOUS
  <2>1. d < Depth /\ d <= Depth /\ d + 1 \in 0..Depth
    BY <1>1
  <2>2. PICK f : f = [e \in ExpressionsAt(d) |-> LikeExpressionBody(f, e)]
    BY <1>3, <2>1
  <2> DEFINE g == [e \in ExpressionsAt(d + 1) |-> LikeExpressionBody(f, e)]
  <2>3. ASSUME NEW e \in ExpressionsAt(d + 1) PROVE g[e] = LikeExpressionBody(g, e)
    <3>1. e \in Expressions
      BY <2>1, TopLevel
    <3>2. Inside(e) \subseteq ExpressionsAt(d)
      BY <2>1, Levels, InsideBelow
    <3>3. ASSUME NEW x \in Inside(e) PROVE f[x] = g[x]
      <4>1. x \in ExpressionsAt(d) /\ x \in ExpressionsAt(d + 1)
        BY <2>1, <3>2, LevelsRise
      <4>2. f[x] = LikeExpressionBody(f, x)
        BY <2>2, <4>1
      <4>3. g[x] = LikeExpressionBody(f, x)
        BY <4>1
      <4> QED BY <4>2, <4>3
    <3> HIDE DEF g
    <3>4. LikeExpressionBody(f, e) = LikeExpressionBody(g, e)
      BY <3>1, <3>3, LikeExpressionAgree
    <3> QED BY <3>4 DEF g
  <2>4. g = [e \in ExpressionsAt(d + 1) |-> LikeExpressionBody(g, e)]
    BY <2>3
  <2> HIDE DEF g
  <2> QED BY <2>4
<1> HIDE DEF T
<1>4. Nat \subseteq T
  BY <1>2, <1>3, UpFromZero
<1>5. \E f : f = [e \in Expressions |-> LikeExpressionBody(f, e)]
  BY <1>1, <1>4 DEF T, Expressions, ExpressionsAt
<1> DEFINE F == CHOOSE f : f = [e \in Expressions |-> LikeExpressionBody(f, e)]
<1>6. F = [e \in Expressions |-> LikeExpressionBody(F, e)]
  BY <1>5
<1>7. LikeExpression = F
  BY Zenon DEF LikeExpression, LikeExpressionBody
<1> HIDE DEF F
<1> QED BY <1>6, <1>7

-----------------------------------------------------------------------------
(* The names that a pattern binds.                                         *)

\* The items of a pattern are patterns; one with a name has none.
LEMMA ItemsThere ==
  ASSUME NEW p \in Patterns
  PROVE  /\ p.items \in Seq(Patterns) /\ Len(p.items) \in Nat /\ DOMAIN p.items = 1..Len(p.items)
         /\ \A i \in DOMAIN p.items : p.items[i] \in Patterns
         /\ p.name \in Idents => p.items = <<>> /\ DOMAIN p.items = {} /\ p.name # ""
         /\ p.name \notin Idents => p.name = ""
<1>1. p.items \in Seq(Patterns) /\ p.name \in Idents \cup {""}
  BY PatternFacts, Zenon
<1>2. ASSUME p.name \in Idents PROVE p.items = <<>> /\ p.name # ""
  <2>1. p.name # ""
    BY <1>2, PatternsAssumption
  <2>2. p.kind \in {"Bind", "Rest"} /\ (p.kind \notin Compound => p.items = <<>>)
    BY <2>1, PatternFacts, Zenon
  <2> QED BY <2>1, <2>2 DEF Compound
<1>3. Len(p.items) \in Nat /\ DOMAIN p.items = 1..Len(p.items)
  <2>1. p.items \in Seq(Patterns)
    BY <1>1
  <2> QED BY <2>1
<1>4. \A i \in DOMAIN p.items : p.items[i] \in Patterns
  <2>1. p.items \in Seq(Patterns)
    BY <1>1
  <2> QED BY <2>1
<1>6. p.name \in Idents => DOMAIN p.items = {}
  <2>1. DOMAIN <<>> = {}
    OBVIOUS
  <2> QED BY <1>2, <2>1
<1>5. p.name \notin Idents => p.name = ""
  BY <1>1
<1> QED BY <1>1, <1>2, <1>3, <1>4, <1>5, <1>6, Zenon

\* The elements of a sequence, one more or two together.
LEMMA SetOfSequence ==
  ASSUME NEW X, NEW s \in Seq(X)
  PROVE  /\ ToSet(s) \subseteq X
         /\ \A x : x \in ToSet(s) <=> \E k \in 1..Len(s) : s[k] = x
         /\ \A x \in X : ToSet(Append(s, x)) = ToSet(s) \cup {x}
         /\ \A t \in Seq(X) : ToSet(s \o t) = ToSet(s) \cup ToSet(t)
<1>1. \A x : x \in ToSet(s) <=> \E k \in 1..Len(s) : s[k] = x
  BY DEF ToSet
<1>2. ASSUME NEW x \in X PROVE ToSet(Append(s, x)) = ToSet(s) \cup {x}
  <2> DEFINE a == Append(s, x)
  <2>1. /\ DOMAIN s = 1..Len(s) /\ DOMAIN a = 1..(Len(s) + 1) /\ Len(s) \in Nat
        /\ \A k \in 1..Len(s) : a[k] = s[k]
        /\ a[Len(s) + 1] = x
    OBVIOUS
  <2> HIDE DEF a
  <2>2. \A k \in 1..(Len(s) + 1) : k \in 1..Len(s) \/ k = Len(s) + 1
    BY <2>1
  <2>3. \A k \in 1..Len(s) : k \in 1..(Len(s) + 1)
    BY <2>1
  <2>4. Len(s) + 1 \in 1..(Len(s) + 1)
    BY <2>1
  <2>5. ToSet(a) = ToSet(s) \cup {x}
    BY <2>1, <2>2, <2>3, <2>4, Zenon DEF ToSet
  <2> QED BY <2>5 DEF a
<1>3. ASSUME NEW t \in Seq(X) PROVE ToSet(s \o t) = ToSet(s) \cup ToSet(t)
  <2> DEFINE c == s \o t
  <2>1. /\ DOMAIN s = 1..Len(s) /\ DOMAIN t = 1..Len(t) /\ DOMAIN c = 1..(Len(s) + Len(t))
        /\ Len(s) \in Nat /\ Len(t) \in Nat
        /\ \A k \in 1..Len(s) : c[k] = s[k]
        /\ \A k \in 1..Len(t) : c[Len(s) + k] = t[k]
    OBVIOUS
  <2> HIDE DEF c
  <2>2. ASSUME NEW k \in 1..(Len(s) + Len(t)) PROVE c[k] \in ToSet(s) \cup ToSet(t)
    <3>1. CASE k \in 1..Len(s)
      BY <2>1, <3>1 DEF ToSet
    <3>2. CASE k \notin 1..Len(s)
      <4>1. k - Len(s) \in 1..Len(t) /\ Len(s) + (k - Len(s)) = k
        BY <2>1, <3>2
      <4>2. c[k] = t[k - Len(s)]
        BY <2>1, <4>1
      <4> QED BY <2>1, <4>1, <4>2 DEF ToSet
    <3> QED BY <3>1, <3>2
  <2>3. ASSUME NEW k \in 1..Len(s) PROVE s[k] \in ToSet(c)
    <3>1. k \in DOMAIN c /\ c[k] = s[k]
      BY <2>1
    <3> QED BY <3>1 DEF ToSet
  <2>4. ASSUME NEW k \in 1..Len(t) PROVE t[k] \in ToSet(c)
    <3>1. Len(s) + k \in DOMAIN c /\ c[Len(s) + k] = t[k]
      BY <2>1
    <3> QED BY <3>1 DEF ToSet
  <2>5. ToSet(c) = ToSet(s) \cup ToSet(t)
    BY <2>1, <2>2, <2>3, <2>4, ZenonT(60) DEF ToSet
  <2> QED BY <2>5 DEF c
<1>4. ToSet(s) \subseteq X
  BY DEF ToSet
<1> QED BY <1>1, <1>2, <1>3, <1>4

\* The names that the first n items bind.
BoundUpTo(p, n) == UNION {Bound(p.items[i]) : i \in 1..n}

Walks(p) == [i \in DOMAIN p.items |-> Binders[p.items[i]]]

BindersSays(p) ==
  \A seen \in Seq(Idents) : /\ Binders[p][seen] \in Seq(Idents)
                            /\ ToSet(Binders[p][seen]) = ToSet(seen) \cup Bound(p)

\* Walking the items adds what the items bind.
LEMMA WalkAdds ==
  ASSUME NEW p \in Patterns, \A i \in DOMAIN p.items : BindersSays(p.items[i]),
         NEW seen \in Seq(Idents)
  PROVE  /\ Walk(Walks(p), seen) \in Seq(Idents)
         /\ ToSet(Walk(Walks(p), seen)) = ToSet(seen) \cup BoundUpTo(p, Len(p.items))
<1> DEFINE steps == Walks(p)
           len == Len(p.items)
<1>1. DOMAIN p.items = 1..len /\ len \in Nat
  BY ItemsThere
<1>2. Len(steps) = len /\ \A i \in 1..len : steps[i] = Binders[p.items[i]]
  BY <1>1 DEF Walks
<1> HIDE DEF steps
<1>3. PICK f : /\ f[0] = seen
               /\ \A i \in 1..Len(steps) : f[i] = steps[i][f[i - 1]]
               /\ Walk(steps, seen) = f[Len(steps)]
  BY <1>1, <1>2, WalkUnfolds
<1> DEFINE Adds(i) == f[i] \in Seq(Idents) /\ ToSet(f[i]) = ToSet(seen) \cup BoundUpTo(p, i)
           T == {i \in Nat : i <= len => Adds(i)}
<1> HIDE DEF len
<1>4. 0 \in T
  <2>1. BoundUpTo(p, 0) = {}
    BY DEF BoundUpTo
  <2> QED BY <1>3, <2>1
<1>5. ASSUME NEW i \in Nat, i \in T PROVE i + 1 \in T
  <2> SUFFICES ASSUME i + 1 <= len PROVE Adds(i + 1)
    OBVIOUS
  <2>1. i + 1 \in 1..len /\ (i + 1) - 1 = i /\ i <= len
    BY <1>1
  <2>2. Adds(i)
    BY <1>5, <2>1
  <2>3. f[i + 1] = steps[i + 1][f[i]] /\ steps[i + 1] = Binders[p.items[i + 1]]
    BY <1>2, <1>3, <2>1
  <2>4. BindersSays(p.items[i + 1])
    BY <1>1, <2>1
  <2>5. f[i + 1] \in Seq(Idents) /\ ToSet(f[i + 1]) = ToSet(f[i]) \cup Bound(p.items[i + 1])
    BY <2>2, <2>3, <2>4 DEF BindersSays
  <2>6. BoundUpTo(p, i + 1) = BoundUpTo(p, i) \cup Bound(p.items[i + 1])
    <3>1. 1..(i + 1) = (1..i) \cup {i + 1}
      OBVIOUS
    <3> QED BY <3>1, Zenon DEF BoundUpTo
  <2> QED BY <2>2, <2>5, <2>6
<1> HIDE DEF T
<1>6. Nat \subseteq T
  BY <1>4, <1>5, UpFromZero
<1>7. Adds(len)
  BY <1>1, <1>6 DEF T
<1>8. Walk(steps, seen) = f[len]
  BY <1>2, <1>3
<1> QED BY <1>7, <1>8 DEF steps, len

\* A pattern with a name binds just that name.
LEMMA NamedBinds ==
  ASSUME NEW p \in Patterns, p.name \in Idents
  PROVE  /\ BindersSays(p) /\ Bound(p) = {p.name}
         /\ \A seen \in Seq(Idents) :
              Binders[p][seen] = IF p.name \notin ToSet(seen) THEN Append(seen, p.name) ELSE seen
<1>1. p.items = <<>> /\ DOMAIN p.items = {} /\ p.name # ""
  BY ItemsThere
<1>2. Binders[p] = BindersBody(Binders, p)
  BY BindersUnfolds
<1>3. ASSUME NEW seen \in Seq(Idents) PROVE Walk([i \in DOMAIN p.items |-> Binders[p.items[i]]], seen) = seen
  <2> DEFINE steps == [i \in DOMAIN p.items |-> Binders[p.items[i]]]
  <2>1. Len(steps) = 0
    <3>1. DOMAIN p.items = 1..Len(p.items) /\ Len(p.items) = 0
      BY <1>1, ItemsThere
    <3> QED BY <3>1
  <2> HIDE DEF steps
  <2>2. Len(steps) \in Nat
    BY <2>1
  <2>3. PICK f : f[0] = seen /\ Walk(steps, seen) = f[Len(steps)]
    BY <2>2, WalkUnfolds
  <2>4. Walk(steps, seen) = seen
    BY <2>1, <2>3
  <2> QED BY <2>4 DEF steps
<1>4. ASSUME NEW seen \in Seq(Idents)
      PROVE  Binders[p][seen] = IF p.name \notin ToSet(seen) THEN Append(seen, p.name) ELSE seen
  BY <1>2, <1>3 DEF BindersBody
<1>5. ASSUME NEW seen \in Seq(Idents)
      PROVE  Binders[p][seen] \in Seq(Idents) /\ ToSet(Binders[p][seen]) = ToSet(seen) \cup {p.name}
  <2>1. CASE p.name \in ToSet(seen)
    <3>1. Binders[p][seen] = seen
      BY <1>4, <2>1
    <3> QED BY <2>1, <3>1
  <2>2. CASE p.name \notin ToSet(seen)
    <3>1. Binders[p][seen] = Append(seen, p.name)
      BY <1>4, <2>2
    <3>2. Append(seen, p.name) \in Seq(Idents)
      OBVIOUS
    <3>3. ToSet(Append(seen, p.name)) = ToSet(seen) \cup {p.name}
      BY SetOfSequence
    <3> QED BY <3>1, <3>2, <3>3
  <2> QED BY <2>1, <2>2
<1>6. <<>> \in Seq(Idents) /\ ToSet(<<>>) = {}
  BY DEF ToSet
<1>7. Bound(p) = {p.name}
  BY <1>5, <1>6 DEF Bound
<1>8. BindersSays(p)
  BY <1>5, <1>7 DEF BindersSays
<1> QED BY <1>4, <1>7, <1>8

\* Any other walks its items.
LEMMA UnnamedBinds ==
  ASSUME NEW p \in Patterns, p.name \notin Idents, NEW seen \in Seq(Idents)
  PROVE  Binders[p][seen] = Walk(Walks(p), seen)
<1>1. Binders[p] = BindersBody(Binders, p)
  BY BindersUnfolds
<1> QED BY <1>1 DEF BindersBody, Walks

\* The binders of a pattern are added to those seen; which they are does not
\* depend on those seen.
LEMMA BindersSet == \A p \in Patterns : BindersSays(p)
<1> DEFINE T == {p \in Patterns : BindersSays(p)}
<1>1. ASSUME NEW p \in Patterns, \A i \in DOMAIN p.items : p.items[i] \in T PROVE p \in T
  <2>1. CASE p.name \in Idents
    BY <2>1, NamedBinds
  <2>2. CASE p.name \notin Idents
    <3>1. ASSUME NEW seen \in Seq(Idents)
          PROVE  Binders[p][seen] = Walk(Walks(p), seen)
      BY <2>2, UnnamedBinds
    <3>2. \A i \in DOMAIN p.items : BindersSays(p.items[i])
      BY <1>1
    <3>3. ASSUME NEW seen \in Seq(Idents)
          PROVE  /\ Binders[p][seen] \in Seq(Idents)
                 /\ ToSet(Binders[p][seen]) = ToSet(seen) \cup BoundUpTo(p, Len(p.items))
      BY <3>1, <3>2, WalkAdds
    <3>4. <<>> \in Seq(Idents) /\ ToSet(<<>>) = {}
      BY DEF ToSet
    <3>5. Bound(p) = BoundUpTo(p, Len(p.items))
      BY <3>3, <3>4 DEF Bound
    <3> QED BY <3>3, <3>5 DEF BindersSays
  <2> QED BY <2>1, <2>2
<1> HIDE DEF T
<1>2. Patterns \subseteq T
  BY <1>1, PatternInduction
<1> QED BY <1>2 DEF T

\* What a pattern binds is its own name, or what its items bind.
LEMMA BoundIs ==
  ASSUME NEW p \in Patterns
  PROVE  /\ Bound(p) \subseteq Idents
         /\ p.name \in Idents => Bound(p) = {p.name}
         /\ p.name \notin Idents => Bound(p) = BoundUpTo(p, Len(p.items))
         /\ \A i \in DOMAIN p.items : Bound(p.items[i]) \subseteq Bound(p)
<1>1. <<>> \in Seq(Idents) /\ ToSet(<<>>) = {}
  BY DEF ToSet
<1>2. Binders[p][<<>>] \in Seq(Idents)
  BY <1>1, BindersSet DEF BindersSays
<1>3. Bound(p) \subseteq Idents
  BY <1>2, SetOfSequence DEF Bound
<1>4. ASSUME p.name \in Idents PROVE Bound(p) = {p.name} /\ DOMAIN p.items = {}
  <2>1. DOMAIN p.items = {}
    BY <1>4, ItemsThere
  <2> QED BY <1>4, <2>1, NamedBinds
<1>5. ASSUME p.name \notin Idents
      PROVE  Bound(p) = BoundUpTo(p, Len(p.items))
  <2>2. Binders[p][<<>>] = Walk(Walks(p), <<>>)
    BY <1>1, <1>5, UnnamedBinds
  <2>3. \A i \in DOMAIN p.items : BindersSays(p.items[i])
    BY BindersSet, ItemsThere
  <2>4. ToSet(Walk(Walks(p), <<>>)) = ToSet(<<>>) \cup BoundUpTo(p, Len(p.items))
    BY <1>1, <2>3, WalkAdds
  <2> QED BY <1>1, <2>2, <2>4 DEF Bound
<1>6. \A i \in DOMAIN p.items : Bound(p.items[i]) \subseteq BoundUpTo(p, Len(p.items))
  <2>1. DOMAIN p.items = 1..Len(p.items)
    BY ItemsThere
  <2> QED BY <2>1, Zenon DEF BoundUpTo
<1> QED BY <1>3, <1>4, <1>5, <1>6

-----------------------------------------------------------------------------
(* What a match binds.                                                     *)

\* The bindings of A bind the names of B.
Binds(A, B) == A \subseteq {b \in Bindings : ToSet(NamesOf(b)) = B}

\* The names of bindings are identifiers, one for each.
LEMMA NamesThere ==
  ASSUME NEW b \in Bindings
  PROVE  /\ NamesOf(b) \in Seq(Idents) /\ Len(NamesOf(b)) = Len(b) /\ Len(b) \in Nat
         /\ \A k \in 1..Len(b) : NamesOf(b)[k] = b[k][1] /\ b[k][1] \in Idents /\ b[k][2] \in Subjects
<1>1. /\ Len(b) \in Nat /\ DOMAIN b = 1..Len(b)
      /\ \A k \in 1..Len(b) : b[k] \in Idents \X Subjects
  BY DEF Bindings
<1>2. \A k \in 1..Len(b) : b[k][1] \in Idents /\ b[k][2] \in Subjects
  BY <1>1
<1>3. NamesOf(b) = [k \in 1..Len(b) |-> b[k][1]]
  BY <1>1 DEF NamesOf
<1>4. NamesOf(b) \in Seq(Idents) /\ Len(NamesOf(b)) = Len(b)
  BY <1>1, <1>2, <1>3
<1> QED BY <1>1, <1>2, <1>3, <1>4

\* The names of two bindings, one after the other.
LEMMA NamesConcat ==
  ASSUME NEW a \in Bindings, NEW b \in Bindings
  PROVE  /\ a \o b \in Bindings
         /\ NamesOf(a \o b) = NamesOf(a) \o NamesOf(b)
<1>1. a \o b \in Bindings /\ Len(a \o b) = Len(a) + Len(b)
  BY DEF Bindings
<1> DEFINE c == a \o b
           s == NamesOf(a)
           t == NamesOf(b)
           u == NamesOf(c)
<1>2. \A k \in 1..(Len(a) + Len(b)) : c[k] = IF k <= Len(a) THEN a[k] ELSE b[k - Len(a)]
  BY DEF Bindings
<1>3. /\ s \in Seq(Idents) /\ Len(s) = Len(a) /\ Len(a) \in Nat /\ \A k \in 1..Len(a) : s[k] = a[k][1]
      /\ t \in Seq(Idents) /\ Len(t) = Len(b) /\ Len(b) \in Nat /\ \A k \in 1..Len(b) : t[k] = b[k][1]
  BY NamesThere
<1>4. u \in Seq(Idents) /\ Len(u) = Len(c) /\ \A k \in 1..Len(c) : u[k] = c[k][1]
  BY <1>1, NamesThere
<1> HIDE DEF c, s, t, u
<1>5. Len(u) = Len(a) + Len(b)
  BY <1>1, <1>4 DEF c
<1>6. ASSUME NEW k \in 1..Len(u) PROVE u[k] = (s \o t)[k]
  <2>1. (s \o t)[k] = IF k <= Len(a) THEN s[k] ELSE t[k - Len(a)]
    BY <1>3, <1>5
  <2>2. u[k] = c[k][1] /\ c[k] = IF k <= Len(a) THEN a[k] ELSE b[k - Len(a)]
    BY <1>2, <1>4, <1>5
  <2>3. CASE k <= Len(a)
    BY <1>3, <2>1, <2>2, <2>3
  <2>4. CASE ~(k <= Len(a))
    <3>1. k - Len(a) \in 1..Len(b)
      BY <1>3, <1>5, <2>4
    <3> QED BY <1>3, <2>1, <2>2, <2>4, <3>1
  <2> QED BY <2>3, <2>4
<1>7. s \o t \in Seq(Idents) /\ Len(s \o t) = Len(u)
  BY <1>3, <1>5
<1>8. u = s \o t
  BY <1>4, <1>6, <1>7, SeqEqual
<1> QED BY <1>1, <1>8 DEF c, s, t, u

\* What is joined binds the names of both.
LEMMA JoinedBinds ==
  ASSUME NEW A, NEW B, NEW M, NEW N, Binds(A, M), Binds(B, N)
  PROVE  Binds(Joined(A, B), M \cup N)
<1>1. ASSUME NEW a \in A, NEW b \in B PROVE a \o b \in {c \in Bindings : ToSet(NamesOf(c)) = M \cup N}
  <2>1. /\ a \in Bindings /\ ToSet(NamesOf(a)) = M
        /\ b \in Bindings /\ ToSet(NamesOf(b)) = N
    BY DEF Binds
  <2>2. a \o b \in Bindings /\ NamesOf(a \o b) = NamesOf(a) \o NamesOf(b)
    BY <2>1, NamesConcat
  <2>3. NamesOf(a) \in Seq(Idents) /\ NamesOf(b) \in Seq(Idents)
    BY <2>1, NamesThere
  <2>4. ToSet(NamesOf(a) \o NamesOf(b)) = ToSet(NamesOf(a)) \cup ToSet(NamesOf(b))
    BY <2>3, SetOfSequence
  <2> QED BY <2>1, <2>2, <2>4
<1>2. ASSUME NEW c \in Joined(A, B) PROVE \E a \in A, b \in B : c = a \o b
  <2>1. PICK ab \in A \X B : c = ab[1] \o ab[2]
    BY DEF Joined
  <2> QED BY <2>1
<1> QED BY <1>1, <1>2, ZenonT(60) DEF Binds

\* What is merged binds the names of all.
LEMMA MergedBinds ==
  ASSUME NEW results, NEW names, Len(results) \in Nat,
         \A i \in 1..Len(results) : Binds(results[i], names[i])
  PROVE  Binds(Merged(results), UNION {names[i] : i \in 1..Len(results)})
<1>1. PICK f : /\ f[0] = Matched(<<>>)
               /\ \A i \in 1..Len(results) : f[i] = Joined(f[i - 1], results[i])
               /\ Merged(results) = f[Len(results)]
  BY MergedUnfolds
<1> DEFINE len == Len(results)
           UpTo(n) == UNION {names[i] : i \in 1..n}
           T == {n \in Nat : n <= len => Binds(f[n], UpTo(n))}
<1>2. len \in Nat
  OBVIOUS
<1> HIDE DEF len
<1>3. 0 \in T
  <2>1. UpTo(0) = {}
    OBVIOUS
  <2>2. <<>> \in Bindings
    BY DEF Bindings
  <2>3. ToSet(NamesOf(<<>>)) = {}
    BY DEF NamesOf, ToSet
  <2> HIDE DEF UpTo
  <2>4. Binds(f[0], {})
    BY <1>1, <2>2, <2>3 DEF Binds, Matched
  <2> QED BY <2>1, <2>4
<1>4. ASSUME NEW n \in Nat, n \in T PROVE n + 1 \in T
  <2> SUFFICES ASSUME n + 1 <= len PROVE Binds(f[n + 1], UpTo(n + 1))
    OBVIOUS
  <2>1. n + 1 \in 1..len /\ (n + 1) - 1 = n /\ n <= len
    BY <1>2
  <2>2. f[n + 1] = Joined(f[n], results[n + 1])
    BY <1>1, <2>1 DEF len
  <2>3. Binds(results[n + 1], names[n + 1])
    BY <2>1 DEF len
  <2>4. Binds(f[n], UpTo(n))
    BY <1>4, <2>1
  <2>5. UpTo(n + 1) = UpTo(n) \cup names[n + 1]
    <3>1. 1..(n + 1) = (1..n) \cup {n + 1}
      OBVIOUS
    <3> QED BY <3>1, Zenon
  <2> HIDE DEF UpTo
  <2>6. Binds(Joined(f[n], results[n + 1]), UpTo(n) \cup names[n + 1])
    BY <2>3, <2>4, JoinedBinds
  <2> QED BY <2>2, <2>5, <2>6
<1> HIDE DEF T
<1>5. Nat \subseteq T
  BY <1>3, <1>4, UpFromZero
<1> HIDE DEF UpTo
<1>6. Binds(f[len], UpTo(len))
  BY <1>2, <1>5 DEF T
<1> QED BY <1>1, <1>6 DEF len, UpTo

\* What the items are matched against: a value for each.
LEMMA PartsThere ==
  ASSUME NEW p \in Patterns, NEW v \in Subjects, NEW parts \in Parts(p, v)
  PROVE  parts \in Seq(Subjects) /\ Len(parts) = Len(p.items)
<1>1. p.items \in Seq(Patterns) /\ Len(p.items) \in Nat
  BY ItemsThere
<1>2. CASE p.kind = "List" /\ v.kind = "List"
  <2> DEFINE items == p.items
             elements == v.items
             n == Len(items)
  <2>1. /\ elements \in Seq(Subjects)
        /\ \A m \in 1..(Len(elements) + 1) : ListValue(SubSeq(elements, m, Len(elements))) \in Subjects
    BY <1>2, ValueFacts
  <2>2. parts \in Elements(items, elements)
    BY <1>2 DEF Parts
  <2>3. n \in Nat
    BY <1>1
  <2> HIDE DEF items, elements, n
  <2>4. CASE n > 0 /\ items[n].kind = "Rest"
    <3>1. Len(elements) >= n - 1 /\ parts = Append(SubSeq(elements, 1, n - 1), ListValue(SubSeq(elements, n, Len(elements))))
      BY <2>1, <2>2, <2>3, <2>4 DEF Elements, n
    <3>2. n \in 1..(Len(elements) + 1) /\ Len(elements) \in Nat
      BY <2>1, <2>3, <2>4, <3>1
    <3>3. ListValue(SubSeq(elements, n, Len(elements))) \in Subjects
      BY <2>1, <3>2
    <3>4. SubSeq(elements, 1, n - 1) \in Seq(Subjects) /\ Len(SubSeq(elements, 1, n - 1)) = n - 1
      BY <2>1, <2>3, <3>1, <3>2
    <3> HIDE DEF ListValue
    <3>5. parts \in Seq(Subjects) /\ Len(parts) = (n - 1) + 1
      BY <3>1, <3>3, <3>4, AppendProperties
    <3> QED BY <2>3, <3>5 DEF n, items
  <2>5. CASE ~(n > 0 /\ items[n].kind = "Rest")
    BY <2>1, <2>2, <2>5 DEF Elements, n, items
  <2> QED BY <2>4, <2>5
<1>3. CASE p.kind = "Map" /\ v.kind = "Map"
  <2> DEFINE keys == p.keys
             map == v.map
  <2>1. map \subseteq STRING \X Subjects /\ keys \in Seq(STRING) /\ Len(keys) = Len(p.items)
    BY <1>3, ValueFacts, PatternFacts
  <2>2. parts \in Found(keys, map)
    BY <1>3 DEF Parts
  <2> HIDE DEF keys, map
  <2>3. /\ \A i \in DOMAIN keys : \E entry \in map : entry[1] = keys[i]
        /\ parts = [i \in DOMAIN keys |-> (CHOOSE entry \in map : entry[1] = keys[i])[2]]
    BY <2>2 DEF Found
  <2>4. ASSUME NEW i \in DOMAIN keys PROVE parts[i] \in Subjects
    <3>1. PICK entry \in map : entry[1] = keys[i]
      BY <2>3
    <3> DEFINE chosen == CHOOSE e \in map : e[1] = keys[i]
    <3>2. chosen \in map
      BY <3>1
    <3>3. parts[i] = chosen[2]
      BY <2>3
    <3> HIDE DEF chosen
    <3> QED BY <2>1, <3>2, <3>3
  <2>5. DOMAIN keys = 1..Len(keys) /\ Len(keys) \in Nat
    BY <2>1
  <2>6. DOMAIN parts = 1..Len(keys)
    BY <2>3, <2>5
  <2>7. parts = [i \in 1..Len(keys) |-> parts[i]]
    BY <2>3, <2>5
  <2>8. parts \in Seq(Subjects) /\ Len(parts) = Len(keys)
    BY <2>4, <2>5, <2>6, <2>7
  <2> QED BY <2>1, <2>8
<1>4. CASE p.kind \in {"Err", "Some"} /\ v.kind = "Outcome"
  <2>1. v.case = p.kind /\ parts = v.parts
    BY <1>4 DEF Parts
  <2>2. v.parts \in Seq(Subjects) /\ Len(v.parts) = 2
    BY <1>4, <2>1, ValueFacts
  <2>3. Len(p.items) = 2
    BY <1>4, PatternFacts
  <2> QED BY <2>1, <2>2, <2>3
<1>5. CASE /\ ~(p.kind = "List" /\ v.kind = "List")
           /\ ~(p.kind = "Map" /\ v.kind = "Map")
           /\ ~(p.kind \in {"Err", "Some"} /\ v.kind = "Outcome")
  BY <1>5 DEF Parts
<1> QED BY <1>2, <1>3, <1>4, <1>5

\* A pattern of no parts and no name binds nothing.
LEMMA NothingBound ==
  ASSUME NEW p \in Patterns, p.name \notin Idents, p.kind \notin Compound
  PROVE  Bound(p) = {}
<1>1. p.items = <<>>
  BY PatternFacts
<1>2. Len(p.items) = 0
  BY <1>1
<1>3. BoundUpTo(p, 0) = {}
  BY DEF BoundUpTo
<1> QED BY <1>2, <1>3, BoundIs

\* No bindings bind no names, one binding binds one.
LEMMA FewBindings ==
  /\ Binds({<<>>}, {}) /\ <<>> \in Bindings
  /\ \A n \in Idents, v \in Subjects : Binds({<< <<n, v>> >>}, {n}) /\ << <<n, v>> >> \in Bindings
<1>1. <<>> \in Bindings /\ ToSet(NamesOf(<<>>)) = {}
  BY DEF Bindings, NamesOf, ToSet
<1>2. ASSUME NEW n \in Idents, NEW v \in Subjects
      PROVE  Binds({<< <<n, v>> >>}, {n}) /\ << <<n, v>> >> \in Bindings
  <2> DEFINE b == << <<n, v>> >>
  <2>1. b \in Bindings /\ Len(b) = 1 /\ b[1] = <<n, v>>
    BY DEF Bindings
  <2> HIDE DEF b
  <2>2. NamesOf(b) \in Seq(Idents) /\ Len(NamesOf(b)) = 1 /\ NamesOf(b)[1] = n
    BY <2>1, NamesThere
  <2>3. \A x : x \in ToSet(NamesOf(b)) <=> \E k \in 1..1 : NamesOf(b)[k] = x
    BY <2>2, SetOfSequence
  <2>4. \A k : k \in 1..1 <=> k = 1
    OBVIOUS
  <2>5. ToSet(NamesOf(b)) = {n}
    BY <2>2, <2>3, <2>4
  <2> QED BY <2>1, <2>5 DEF b, Binds
<1> QED BY <1>1, <1>2 DEF Binds

MatchBindsIn(p) == \A v \in Subjects : Binds(MatchAtom[p][v], Bound(p))

\* The results for the items of a pattern.
Results(p, parts) == [i \in DOMAIN p.items |-> MatchAtom[p.items[i]][parts[i]]]

\* As many results as items.
LEMMA ResultsThere ==
  ASSUME NEW p \in Patterns, NEW parts
  PROVE  /\ Len(Results(p, parts)) = Len(p.items)
         /\ \A i \in DOMAIN p.items : Results(p, parts)[i] = MatchAtom[p.items[i]][parts[i]]
<1>1. DOMAIN p.items = 1..Len(p.items) /\ Len(p.items) \in Nat
  BY ItemsThere
<1> QED BY <1>1 DEF Results

\* The items together bind the names of all.
LEMMA ResultsBind ==
  ASSUME NEW p \in Patterns, \A i \in DOMAIN p.items : MatchBindsIn(p.items[i]),
         NEW parts \in Seq(Subjects), Len(parts) = Len(p.items)
  PROVE  Binds(Merged(Results(p, parts)), BoundUpTo(p, Len(p.items)))
<1> DEFINE names == [i \in DOMAIN p.items |-> Bound(p.items[i])]
           results == Results(p, parts)
           len == Len(p.items)
<1>1. DOMAIN p.items = 1..len /\ len \in Nat
  BY ItemsThere
<1>2. Len(results) = len /\ \A i \in 1..len : results[i] = MatchAtom[p.items[i]][parts[i]]
  BY <1>1, ResultsThere
<1> HIDE DEF results
<1>3. ASSUME NEW i \in 1..len PROVE Binds(results[i], names[i])
  <2>1. parts[i] \in Subjects
    BY <1>1, <1>3
  <2>2. Binds(MatchAtom[p.items[i]][parts[i]], Bound(p.items[i]))
    BY <1>1, <2>1 DEF MatchBindsIn
  <2> QED BY <1>1, <1>2, <2>2
<1>4. BoundUpTo(p, len) = UNION {names[i] : i \in 1..len}
  BY <1>1 DEF BoundUpTo
<1> HIDE DEF names, len
<1>5. Binds(Merged(results), UNION {names[i] : i \in 1..Len(results)})
  <2>1. Len(results) \in Nat /\ \A i \in 1..Len(results) : Binds(results[i], names[i])
    BY <1>1, <1>2, <1>3
  <2> QED BY <2>1, MergedBinds
<1> QED BY <1>2, <1>4, <1>5 DEF results, len

\* MatchAtom, kind by kind.
LEMMA MatchKinds ==
  ASSUME NEW p \in Patterns, NEW v \in Subjects
  PROVE  /\ p.kind = "Wildcard" => MatchAtom[p][v] = {<<>>}
         /\ p.kind \in {"Bind", "Rest"} =>
              MatchAtom[p][v] = IF p.name = "" THEN {<<>>} ELSE {<< <<p.name, v>> >>}
         /\ p.kind = "Literal" => MatchAtom[p][v] = IF v \in Equals[p.literal.value] THEN {<<>>} ELSE {}
         /\ p.kind \in Compound => MatchAtom[p][v] = UNION {Merged(Results(p, parts)) : parts \in Parts(p, v)}
<1>1. MatchAtom[p] = MatchAtomBody(MatchAtom, p)
  BY MatchAtomUnfolds
<1>2. ASSUME p.kind = "Wildcard" PROVE MatchAtom[p][v] = {<<>>}
  BY <1>1, <1>2 DEF MatchAtomBody, Matched
<1>3. ASSUME p.kind \in {"Bind", "Rest"}
      PROVE  MatchAtom[p][v] = IF p.name = "" THEN {<<>>} ELSE {<< <<p.name, v>> >>}
  BY <1>1, <1>3 DEF MatchAtomBody, Matched
<1>4. ASSUME p.kind = "Literal"
      PROVE  MatchAtom[p][v] = IF v \in Equals[p.literal.value] THEN {<<>>} ELSE {}
  BY <1>1, <1>4 DEF MatchAtomBody, Matched, NoMatch
<1>5. ASSUME p.kind \in Compound
      PROVE  MatchAtom[p][v] = UNION {Merged(Results(p, parts)) : parts \in Parts(p, v)}
  <2>1. p.kind \notin {"Wildcard", "Bind", "Rest", "Literal"}
    BY <1>5 DEF Compound
  <2> QED BY <1>1, <2>1 DEF MatchAtomBody, Results
<1> QED BY <1>2, <1>3, <1>4, <1>5

\* A match binds the names of the pattern.
LEMMA MatchBinds == \A p \in Patterns : MatchBindsIn(p)
<1> DEFINE T == {p \in Patterns : MatchBindsIn(p)}
<1>1. ASSUME NEW p \in Patterns, \A i \in DOMAIN p.items : p.items[i] \in T PROVE p \in T
  <2> SUFFICES ASSUME NEW v \in Subjects PROVE Binds(MatchAtom[p][v], Bound(p))
    BY DEF MatchBindsIn
  <2>1. /\ p.kind \in {"Bind", "Rest", "Wildcard", "Literal"} \cup Compound
        /\ p.name # "" => p.kind \in {"Bind", "Rest"}
    BY PatternFacts, Zenon
  <2>2. /\ p.name \in Idents => p.name # ""
        /\ p.name \notin Idents => p.name = ""
    BY ItemsThere
  <2>3. CASE p.name \in Idents
    <3>1. MatchAtom[p][v] = {<< <<p.name, v>> >>} /\ Bound(p) = {p.name}
      BY <2>1, <2>2, <2>3, MatchKinds, BoundIs
    <3>2. Binds({<< <<p.name, v>> >>}, {p.name})
      BY <2>3, FewBindings
    <3> QED BY <3>1, <3>2
  <2>4. CASE p.name \notin Idents /\ p.kind \in {"Bind", "Rest", "Wildcard", "Literal"}
    <3>1. MatchAtom[p][v] = {<<>>} \/ MatchAtom[p][v] = {}
      BY <2>2, <2>4, MatchKinds
    <3>2. Bound(p) = {}
      BY <2>4, NothingBound DEF Compound
    <3>3. Binds({<<>>}, {}) /\ Binds({}, {})
      BY FewBindings DEF Binds
    <3> QED BY <3>1, <3>2, <3>3
  <2>5. CASE p.name \notin Idents /\ p.kind \in Compound
    <3>1. Bound(p) = BoundUpTo(p, Len(p.items))
      BY <2>5, BoundIs
    <3>2. ASSUME NEW parts \in Parts(p, v) PROVE Binds(Merged(Results(p, parts)), Bound(p))
      <4>1. parts \in Seq(Subjects) /\ Len(parts) = Len(p.items)
        BY PartsThere
      <4>2. \A i \in DOMAIN p.items : MatchBindsIn(p.items[i])
        BY <1>1
      <4> QED BY <3>1, <4>1, <4>2, ResultsBind
    <3>3. MatchAtom[p][v] = UNION {Merged(Results(p, parts)) : parts \in Parts(p, v)}
      BY <2>5, MatchKinds
    <3> QED BY <3>2, <3>3 DEF Binds
  <2> QED BY <2>1, <2>3, <2>4, <2>5
<1> HIDE DEF T
<1>2. Patterns \subseteq T
  BY <1>1, PatternInduction
<1> QED BY <1>2 DEF T

-----------------------------------------------------------------------------
(* Patterns that are alike match alike.                                    *)

\* What it is for a pairing to make two patterns alike.
LEMMA LikePatternIs ==
  ASSUME NEW p \in Patterns, NEW q \in Patterns, NEW R
  PROVE  R \in LikePattern[p][q] <=>
           /\ R \in Pairings
           /\ p.kind = q.kind /\ p.keys = q.keys /\ Len(p.items) = Len(q.items)
           /\ p.literal.value = q.literal.value
           /\ (p.name = "" /\ q.name = "") \/ <<p.name, q.name>> \in R
           /\ \A i \in DOMAIN p.items : R \in LikePattern[p.items[i]][q.items[i]]
<1>1. SameLiteral(p.literal, q.literal) <=> p.literal.value = q.literal.value
  <2>1. p.literal \in Literals /\ q.literal \in Literals
    BY PatternFacts, Zenon
  <2> QED BY <2>1 DEF SameLiteral, Literals
<1>2. LikePattern[p] = LikePatternBody(LikePattern, p)
  BY LikePatternUnfolds
<1>3. LikePattern[p][q] =
        {pairs \in Pairings :
           /\ p.kind = q.kind /\ p.keys = q.keys /\ Len(p.items) = Len(q.items)
           /\ SameLiteral(p.literal, q.literal)
           /\ (p.name = "" /\ q.name = "") \/ <<p.name, q.name>> \in pairs
           /\ \A i \in DOMAIN p.items : pairs \in LikePattern[p.items[i]][q.items[i]]}
  BY <1>2, Zenon DEF LikePatternBody
<1> HIDE DEF SameLiteral
<1> QED BY <1>1, <1>3, Zenon

\* A pairing pairs each name with one.
LEMMA OneToOne ==
  ASSUME NEW R \in Pairings, NEW n, NEW m, NEW k, NEW l, <<n, m>> \in R, <<k, l>> \in R
  PROVE  /\ n \in Idents /\ m \in Idents
         /\ n = k <=> m = l
<1>1. R \subseteq Idents \X Idents /\ \A a, b \in R : a[1] = b[1] <=> a[2] = b[2]
  BY DEF Pairings
<1> QED BY <1>1

\* The patterns of a tuple, a list or a map that are alike take the same parts.
LEMMA PartsAlike ==
  ASSUME NEW p \in Patterns, NEW q \in Patterns, NEW R \in LikePattern[p][q], NEW v \in Subjects
  PROVE  Parts(p, v) = Parts(q, v)
<1>1. /\ p.kind = q.kind /\ p.keys = q.keys /\ Len(p.items) = Len(q.items)
      /\ \A i \in DOMAIN p.items : R \in LikePattern[p.items[i]][q.items[i]]
  BY LikePatternIs
<1>2. /\ Len(p.items) \in Nat /\ DOMAIN p.items = 1..Len(p.items)
      /\ DOMAIN q.items = 1..Len(q.items)
      /\ \A i \in DOMAIN p.items : p.items[i] \in Patterns
      /\ \A i \in DOMAIN q.items : q.items[i] \in Patterns
  BY ItemsThere
<1>3. ASSUME NEW i \in DOMAIN p.items PROVE p.items[i].kind = q.items[i].kind
  <2>1. p.items[i] \in Patterns /\ q.items[i] \in Patterns /\ R \in LikePattern[p.items[i]][q.items[i]]
    BY <1>1, <1>2
  <2> QED BY <2>1, LikePatternIs
<1>4. ASSUME NEW elements PROVE Elements(p.items, elements) = Elements(q.items, elements)
  <2>1. Len(p.items) > 0 => p.items[Len(p.items)].kind = q.items[Len(q.items)].kind
    BY <1>1, <1>2, <1>3
  <2> QED BY <1>1, <1>2, <2>1 DEF Elements
<1> QED BY <1>1, <1>4 DEF Parts

\* The same values, bound to the names that R pairs.
Mirror(R, a, b) ==
  /\ a \in Bindings /\ b \in Bindings /\ Len(a) = Len(b)
  /\ \A k \in 1..Len(a) : <<a[k][1], b[k][1]>> \in R /\ a[k][2] = b[k][2]

\* Neither result is a match, or they are the same match up to the names of R.
AlikeResults(R, A, B) ==
  (A = {} /\ B = {}) \/ \E a, b \in Bindings : A = {a} /\ B = {b} /\ Mirror(R, a, b)

\* The bindings of two sequences, one after the other.
LEMMA BindingsConcat ==
  ASSUME NEW a \in Bindings, NEW c \in Bindings
  PROVE  /\ a \o c \in Bindings /\ Len(a \o c) = Len(a) + Len(c)
         /\ \A k \in 1..(Len(a) + Len(c)) : (a \o c)[k] = IF k <= Len(a) THEN a[k] ELSE c[k - Len(a)]
BY DEF Bindings

\* Bindings after each other, of which the second mirror the first.
LEMMA MirrorConcat ==
  ASSUME NEW R, NEW a, NEW b, NEW c, NEW d, Mirror(R, a, b), Mirror(R, c, d)
  PROVE  Mirror(R, a \o c, b \o d)
<1> DEFINE x == a \o c
           y == b \o d
<1>1. /\ a \in Bindings /\ b \in Bindings /\ c \in Bindings /\ d \in Bindings
      /\ Len(a) = Len(b) /\ Len(c) = Len(d)
      /\ Len(a) \in Nat /\ Len(b) \in Nat /\ Len(c) \in Nat /\ Len(d) \in Nat
  BY NamesThere DEF Mirror
<1>2. /\ x \in Bindings /\ Len(x) = Len(a) + Len(c)
      /\ \A k \in 1..(Len(a) + Len(c)) : x[k] = IF k <= Len(a) THEN a[k] ELSE c[k - Len(a)]
  BY <1>1, BindingsConcat
<1>3. /\ y \in Bindings /\ Len(y) = Len(b) + Len(d)
      /\ \A k \in 1..(Len(b) + Len(d)) : y[k] = IF k <= Len(b) THEN b[k] ELSE d[k - Len(b)]
  BY <1>1, BindingsConcat
<1> HIDE DEF x, y
<1>4. ASSUME NEW k \in 1..Len(x) PROVE <<x[k][1], y[k][1]>> \in R /\ x[k][2] = y[k][2]
  <2>1. CASE k <= Len(a)
    <3>1. x[k] = a[k] /\ y[k] = b[k] /\ k \in 1..Len(a)
      BY <1>1, <1>2, <1>3, <2>1
    <3> QED BY <3>1 DEF Mirror
  <2>2. CASE ~(k <= Len(a))
    <3>1. k - Len(a) \in 1..Len(c) /\ x[k] = c[k - Len(a)] /\ y[k] = d[k - Len(a)]
      BY <1>1, <1>2, <1>3, <2>2
    <3> QED BY <3>1 DEF Mirror
  <2> QED BY <2>1, <2>2
<1>5. Mirror(R, x, y)
  BY <1>1, <1>2, <1>3, <1>4 DEF Mirror
<1> QED BY <1>5 DEF x, y

\* Whether bindings are compatible is seen from their mirror images too.
LEMMA CompatibleAlike ==
  ASSUME NEW R \in Pairings, NEW a, NEW b, NEW c, NEW d, Mirror(R, a, b), Mirror(R, c, d)
  PROVE  Compatible(a, c) <=> Compatible(b, d)
<1>1. /\ DOMAIN a = 1..Len(a) /\ DOMAIN b = 1..Len(a) /\ DOMAIN c = 1..Len(c) /\ DOMAIN d = 1..Len(c)
  BY DEF Mirror, Bindings
<1>2. ASSUME NEW i \in 1..Len(a), NEW j \in 1..Len(c)
      PROVE  /\ a[i][1] = c[j][1] <=> b[i][1] = d[j][1]
             /\ a[i][2] = b[i][2] /\ c[j][2] = d[j][2]
  <2>1. <<a[i][1], b[i][1]>> \in R /\ <<c[j][1], d[j][1]>> \in R /\ a[i][2] = b[i][2] /\ c[j][2] = d[j][2]
    BY DEF Mirror
  <2> QED BY <2>1, OneToOne
<1>3. Compatible(a, c) <=>
        \A i \in 1..Len(a), j \in 1..Len(c) : a[i][1] = c[j][1] => c[j][2] \in Equals[a[i][2]]
  BY <1>1, Zenon DEF Compatible
<1>4. Compatible(b, d) <=>
        \A i \in 1..Len(a), j \in 1..Len(c) : b[i][1] = d[j][1] => d[j][2] \in Equals[b[i][2]]
  BY <1>1, Zenon DEF Compatible
<1> QED BY <1>2, <1>3, <1>4

\* Results that are alike join alike.
LEMMA JoinedAlike ==
  ASSUME NEW R \in Pairings, NEW A, NEW B, NEW C, NEW D, AlikeResults(R, A, B), AlikeResults(R, C, D)
  PROVE  AlikeResults(R, Joined(A, C), Joined(B, D))
<1>1. CASE A = {} \/ C = {}
  <2>1. (A = {} => B = {}) /\ (C = {} => D = {})
    BY DEF AlikeResults
  <2>2. Joined(A, C) = {} /\ Joined(B, D) = {}
    BY <1>1, <2>1 DEF Joined
  <2> QED BY <2>2 DEF AlikeResults
<1>2. CASE ~(A = {} \/ C = {})
  <2>1. PICK a, b \in Bindings : A = {a} /\ B = {b} /\ Mirror(R, a, b)
    BY <1>2 DEF AlikeResults
  <2>2. PICK c, d \in Bindings : C = {c} /\ D = {d} /\ Mirror(R, c, d)
    BY <1>2 DEF AlikeResults
  <2>3. Joined({a}, {c}) = IF Compatible(a, c) THEN {a \o c} ELSE {}
    <3>1. {ab \in {a} \X {c} : Compatible(ab[1], ab[2])} = IF Compatible(a, c) THEN {<<a, c>>} ELSE {}
      OBVIOUS
    <3> QED BY <3>1 DEF Joined
  <2>4. Joined({b}, {d}) = IF Compatible(b, d) THEN {b \o d} ELSE {}
    <3>1. {ab \in {b} \X {d} : Compatible(ab[1], ab[2])} = IF Compatible(b, d) THEN {<<b, d>>} ELSE {}
      OBVIOUS
    <3> QED BY <3>1 DEF Joined
  <2>5. Compatible(a, c) <=> Compatible(b, d)
    BY <2>1, <2>2, CompatibleAlike
  <2>6. Mirror(R, a \o c, b \o d)
    BY <2>1, <2>2, MirrorConcat
  <2>7. a \o c \in Bindings /\ b \o d \in Bindings
    BY <2>6 DEF Mirror
  <2> QED BY <2>1, <2>2, <2>3, <2>4, <2>5, <2>6, <2>7 DEF AlikeResults
<1> QED BY <1>1, <1>2

\* Results that are alike merge alike.
LEMMA MergedAlike ==
  ASSUME NEW R \in Pairings, NEW rs, NEW ss, Len(rs) \in Nat, Len(ss) = Len(rs),
         \A i \in 1..Len(rs) : AlikeResults(R, rs[i], ss[i])
  PROVE  AlikeResults(R, Merged(rs), Merged(ss))
<1> DEFINE len == Len(rs)
<1>1. PICK f : f[0] = Matched(<<>>) /\ (\A i \in 1..Len(rs) : f[i] = Joined(f[i - 1], rs[i])) /\ Merged(rs) = f[Len(rs)]
  BY MergedUnfolds
<1>2. PICK g : g[0] = Matched(<<>>) /\ (\A i \in 1..Len(ss) : g[i] = Joined(g[i - 1], ss[i])) /\ Merged(ss) = g[Len(ss)]
  BY MergedUnfolds
<1> DEFINE T == {n \in Nat : n <= len => AlikeResults(R, f[n], g[n])}
<1>3. len \in Nat
  OBVIOUS
<1> HIDE DEF len
<1>4. 0 \in T
  <2>1. Mirror(R, <<>>, <<>>) /\ <<>> \in Bindings
    BY DEF Mirror, Bindings
  <2> QED BY <1>1, <1>2, <2>1 DEF AlikeResults, Matched
<1>5. ASSUME NEW n \in Nat, n \in T PROVE n + 1 \in T
  <2> SUFFICES ASSUME n + 1 <= len PROVE AlikeResults(R, f[n + 1], g[n + 1])
    OBVIOUS
  <2>1. n + 1 \in 1..len /\ (n + 1) - 1 = n /\ n <= len
    BY <1>3
  <2>2. f[n + 1] = Joined(f[n], rs[n + 1]) /\ g[n + 1] = Joined(g[n], ss[n + 1])
    BY <1>1, <1>2, <2>1 DEF len
  <2>3. AlikeResults(R, rs[n + 1], ss[n + 1])
    BY <2>1 DEF len
  <2>4. AlikeResults(R, f[n], g[n])
    BY <1>5, <2>1
  <2>5. AlikeResults(R, Joined(f[n], rs[n + 1]), Joined(g[n], ss[n + 1]))
    BY <2>3, <2>4, JoinedAlike
  <2> QED BY <2>2, <2>5
<1> HIDE DEF T
<1>6. Nat \subseteq T
  BY <1>4, <1>5, UpFromZero
<1>7. AlikeResults(R, f[len], g[len])
  BY <1>3, <1>6 DEF T
<1> QED BY <1>1, <1>2, <1>7 DEF len

MatchAlikeIn(p) ==
  \A q \in Patterns, v \in Subjects : \A R \in LikePattern[p][q] : AlikeResults(R, MatchAtom[p][v], MatchAtom[q][v])

\* The items of patterns that are alike give results that are alike.
LEMMA ResultsAlike ==
  ASSUME NEW p \in Patterns, NEW q \in Patterns, NEW R \in LikePattern[p][q],
         \A i \in DOMAIN p.items : MatchAlikeIn(p.items[i]),
         NEW parts \in Seq(Subjects), Len(parts) = Len(p.items)
  PROVE  AlikeResults(R, Merged(Results(p, parts)), Merged(Results(q, parts)))
<1> DEFINE rs == Results(p, parts)
           ss == Results(q, parts)
           len == Len(p.items)
<1>1. /\ len = Len(q.items) /\ R \in Pairings
      /\ \A i \in DOMAIN p.items : R \in LikePattern[p.items[i]][q.items[i]]
  BY LikePatternIs
<1>2. /\ DOMAIN p.items = 1..len /\ len \in Nat /\ DOMAIN q.items = 1..Len(q.items)
      /\ \A i \in DOMAIN q.items : q.items[i] \in Patterns
  BY ItemsThere
<1>3. Len(rs) = len /\ \A i \in 1..len : rs[i] = MatchAtom[p.items[i]][parts[i]]
  BY <1>2, ResultsThere
<1>4. Len(ss) = len /\ \A i \in 1..len : ss[i] = MatchAtom[q.items[i]][parts[i]]
  BY <1>1, <1>2, ResultsThere
<1> HIDE DEF rs, ss
<1>5. ASSUME NEW i \in 1..len PROVE AlikeResults(R, rs[i], ss[i])
  <2>1. parts[i] \in Subjects
    BY <1>2, <1>5
  <2>2. q.items[i] \in Patterns /\ R \in LikePattern[p.items[i]][q.items[i]] /\ MatchAlikeIn(p.items[i])
    BY <1>1, <1>2
  <2>3. AlikeResults(R, MatchAtom[p.items[i]][parts[i]], MatchAtom[q.items[i]][parts[i]])
    BY <2>1, <2>2 DEF MatchAlikeIn
  <2> QED BY <1>3, <1>4, <2>3
<1> HIDE DEF len
<1>6. AlikeResults(R, Merged(rs), Merged(ss))
  <2>1. Len(rs) \in Nat /\ Len(ss) = Len(rs) /\ \A i \in 1..Len(rs) : AlikeResults(R, rs[i], ss[i])
    BY <1>2, <1>3, <1>4, <1>5
  <2> QED BY <1>1, <2>1, MergedAlike
<1> QED BY <1>6 DEF rs, ss

\* There is at most one way to match the parts of a value.
LEMMA OneParts ==
  ASSUME NEW p, NEW v
  PROVE  Parts(p, v) = {} \/ \E parts : Parts(p, v) = {parts}
<1>1. ASSUME NEW items, NEW elements PROVE Elements(items, elements) = {} \/ \E parts : Elements(items, elements) = {parts}
  BY DEF Elements
<1>2. ASSUME NEW keys, NEW map PROVE Found(keys, map) = {} \/ \E parts : Found(keys, map) = {parts}
  BY DEF Found
<1> QED BY <1>1, <1>2 DEF Parts

\* Patterns that are alike match the same values, and bind the same parts of
\* them, to names that the pairing pairs.
LEMMA MatchAlike == \A p \in Patterns : MatchAlikeIn(p)
<1> DEFINE T == {p \in Patterns : MatchAlikeIn(p)}
<1>1. ASSUME NEW p \in Patterns, \A i \in DOMAIN p.items : p.items[i] \in T PROVE p \in T
  <2> SUFFICES ASSUME NEW q \in Patterns, NEW v \in Subjects, NEW R \in LikePattern[p][q]
               PROVE  AlikeResults(R, MatchAtom[p][v], MatchAtom[q][v])
    BY DEF MatchAlikeIn
  <2>1. /\ R \in Pairings /\ p.kind = q.kind /\ p.literal.value = q.literal.value
        /\ (p.name = "" /\ q.name = "") \/ <<p.name, q.name>> \in R
    BY LikePatternIs
  <2>2. p.kind \in {"Bind", "Rest", "Wildcard", "Literal"} \cup Compound
    BY PatternFacts, Zenon
  <2>3. AlikeResults(R, {}, {}) /\ AlikeResults(R, {<<>>}, {<<>>})
    <3>1. Mirror(R, <<>>, <<>>) /\ <<>> \in Bindings
      BY DEF Mirror, Bindings
    <3> QED BY <3>1 DEF AlikeResults
  <2>4. CASE p.kind = "Wildcard"
    <3>1. MatchAtom[p][v] = {<<>>} /\ MatchAtom[q][v] = {<<>>}
      <4>1. p.kind = "Wildcard" /\ q.kind = "Wildcard"
        BY <2>1, <2>4
      <4> QED BY <4>1, MatchKinds
    <3> QED BY <2>3, <3>1
  <2>5. CASE p.kind = "Literal"
    <3>1. MatchAtom[p][v] = MatchAtom[q][v] /\ (MatchAtom[p][v] = {} \/ MatchAtom[p][v] = {<<>>})
      BY <2>1, <2>5, MatchKinds, ZenonT(60)
    <3> QED BY <2>3, <3>1
  <2>6. CASE p.kind \in {"Bind", "Rest"} /\ p.name = "" /\ q.name = ""
    <3>1. MatchAtom[p][v] = {<<>>} /\ MatchAtom[q][v] = {<<>>}
      BY <2>1, <2>6, MatchKinds
    <3> QED BY <2>3, <3>1
  <2>7. CASE p.kind \in {"Bind", "Rest"} /\ <<p.name, q.name>> \in R
    <3>1. p.name \in Idents /\ q.name \in Idents
      BY <2>1, <2>7, OneToOne
    <3>2. p.name # "" /\ q.name # ""
      BY <3>1, ItemsThere
    <3> DEFINE a == << <<p.name, v>> >>
               b == << <<q.name, v>> >>
    <3>3. MatchAtom[p][v] = {a} /\ MatchAtom[q][v] = {b}
      BY <2>1, <2>7, <3>2, MatchKinds
    <3>4. a \in Bindings /\ b \in Bindings
      BY <3>1, FewBindings
    <3>5. Len(a) = 1 /\ Len(b) = 1 /\ a[1][1] = p.name /\ b[1][1] = q.name /\ a[1][2] = b[1][2]
      OBVIOUS
    <3> HIDE DEF a, b
    <3>6. Mirror(R, a, b)
      <4>1. \A k : k \in 1..1 => k = 1
        OBVIOUS
      <4> QED BY <2>7, <3>4, <3>5, <4>1 DEF Mirror
    <3> QED BY <3>3, <3>4, <3>6 DEF AlikeResults
  <2>8. CASE p.kind \in Compound
    <3>1. /\ MatchAtom[p][v] = UNION {Merged(Results(p, parts)) : parts \in Parts(p, v)}
          /\ MatchAtom[q][v] = UNION {Merged(Results(q, parts)) : parts \in Parts(p, v)}
      <4>1. Parts(p, v) = Parts(q, v)
        BY PartsAlike
      <4> QED BY <2>1, <2>8, <4>1, MatchKinds
    <3>2. CASE Parts(p, v) = {}
      <4>1. MatchAtom[p][v] = {} /\ MatchAtom[q][v] = {}
        BY <3>1, <3>2
      <4> QED BY <2>3, <4>1
    <3>3. CASE Parts(p, v) # {}
      <4>1. PICK parts : Parts(p, v) = {parts}
        BY <3>3, OneParts
      <4>2. MatchAtom[p][v] = Merged(Results(p, parts)) /\ MatchAtom[q][v] = Merged(Results(q, parts))
        BY <3>1, <4>1
      <4>3. parts \in Seq(Subjects) /\ Len(parts) = Len(p.items)
        BY <4>1, PartsThere
      <4>4. \A i \in DOMAIN p.items : MatchAlikeIn(p.items[i])
        BY <1>1
      <4> QED BY <4>2, <4>3, <4>4, ResultsAlike
    <3> QED BY <3>2, <3>3
  <2> QED BY <2>1, <2>2, <2>4, <2>5, <2>6, <2>7, <2>8
<1> HIDE DEF T
<1>2. Patterns \subseteq T
  BY <1>1, PatternInduction
<1> QED BY <1>2 DEF T

-----------------------------------------------------------------------------
(* The names of patterns that are alike, and their slots.                  *)

\* Two sequences of names that R pairs, place by place.
Twin(R, s, t) ==
  /\ s \in Seq(Idents) /\ t \in Seq(Idents) /\ Len(s) = Len(t)
  /\ \A k \in 1..Len(s) : <<s[k], t[k]>> \in R

\* A pairing finds a name in one sequence where it finds its pair in the other.
LEMMA TwinHolds ==
  ASSUME NEW R \in Pairings, NEW s, NEW t, Twin(R, s, t), NEW n, NEW m, <<n, m>> \in R
  PROVE  /\ \A k \in 1..Len(s) : s[k] = n <=> t[k] = m
         /\ n \in ToSet(s) <=> m \in ToSet(t)
         /\ Latest(n, s) = Latest(m, t)
<1>1. s \in Seq(Idents) /\ t \in Seq(Idents) /\ Len(s) = Len(t)
  BY DEF Twin
<1>2. ASSUME NEW k \in 1..Len(s) PROVE s[k] = n <=> t[k] = m
  <2>1. <<s[k], t[k]>> \in R
    BY DEF Twin
  <2> QED BY <2>1, OneToOne
<1>3. n \in ToSet(s) <=> m \in ToSet(t)
  BY <1>1, <1>2, SetOfSequence
<1>4. DOMAIN s = 1..Len(s) /\ DOMAIN t = 1..Len(s)
  BY <1>1
<1>5. Latest(n, s) = Latest(m, t)
  BY <1>2, <1>4, Zenon DEF Latest
<1> QED BY <1>2, <1>3, <1>5

\* A name more on each side.
LEMMA TwinAppend ==
  ASSUME NEW R \in Pairings, NEW s, NEW t, Twin(R, s, t), NEW n, NEW m, <<n, m>> \in R
  PROVE  Twin(R, Append(s, n), Append(t, m))
<1>1. s \in Seq(Idents) /\ t \in Seq(Idents) /\ Len(s) = Len(t) /\ n \in Idents /\ m \in Idents
  BY OneToOne DEF Twin
<1> DEFINE x == Append(s, n)
           y == Append(t, m)
<1>2. /\ x \in Seq(Idents) /\ y \in Seq(Idents) /\ Len(x) = Len(s) + 1 /\ Len(y) = Len(s) + 1
      /\ Len(s) \in Nat
  BY <1>1
<1>3. x[Len(s) + 1] = n /\ \A k \in 1..Len(s) : x[k] = s[k]
  BY <1>1
<1>4. y[Len(s) + 1] = m /\ \A k \in 1..Len(s) : y[k] = t[k]
  BY <1>1
<1> HIDE DEF x, y
<1>5. ASSUME NEW k \in 1..Len(x) PROVE <<x[k], y[k]>> \in R
  <2>1. k \in 1..Len(s) \/ k = Len(s) + 1
    BY <1>2
  <2> QED BY <1>3, <1>4, <2>1 DEF Twin
<1>6. Twin(R, x, y)
  BY <1>2, <1>5 DEF Twin
<1> QED BY <1>6 DEF x, y

BindersAlikeIn(p) ==
  \A q \in Patterns, s, t \in Seq(Idents) : \A R \in LikePattern[p][q] :
    Twin(R, s, t) => Twin(R, Binders[p][s], Binders[q][t])

\* The items of patterns that are alike bind names that the pairing pairs.
LEMMA WalksAlike ==
  ASSUME NEW p \in Patterns, NEW q \in Patterns, NEW R \in LikePattern[p][q],
         \A i \in DOMAIN p.items : BindersAlikeIn(p.items[i]),
         NEW s \in Seq(Idents), NEW t \in Seq(Idents), Twin(R, s, t)
  PROVE  Twin(R, Walk(Walks(p), s), Walk(Walks(q), t))
<1> DEFINE ps == Walks(p)
           qs == Walks(q)
           len == Len(p.items)
<1>1. /\ len = Len(q.items)
      /\ \A i \in DOMAIN p.items : R \in LikePattern[p.items[i]][q.items[i]]
  BY LikePatternIs
<1>2. /\ DOMAIN p.items = 1..len /\ len \in Nat /\ DOMAIN q.items = 1..Len(q.items)
      /\ \A i \in DOMAIN q.items : q.items[i] \in Patterns
  BY ItemsThere
<1>3. Len(ps) = len /\ \A i \in 1..len : ps[i] = Binders[p.items[i]]
  BY <1>2 DEF Walks
<1>4. Len(qs) = len /\ \A i \in 1..len : qs[i] = Binders[q.items[i]]
  BY <1>1, <1>2 DEF Walks
<1> HIDE DEF ps, qs
<1>5. PICK f : f[0] = s /\ (\A i \in 1..Len(ps) : f[i] = ps[i][f[i - 1]]) /\ Walk(ps, s) = f[Len(ps)]
  BY <1>2, <1>3, WalkUnfolds
<1>6. PICK g : g[0] = t /\ (\A i \in 1..Len(qs) : g[i] = qs[i][g[i - 1]]) /\ Walk(qs, t) = g[Len(qs)]
  BY <1>2, <1>4, WalkUnfolds, SMTT(60)
<1> DEFINE T == {n \in Nat : n <= len => Twin(R, f[n], g[n])}
<1> HIDE DEF len
<1>7. 0 \in T
  BY <1>5, <1>6
<1>8. ASSUME NEW n \in Nat, n \in T PROVE n + 1 \in T
  <2> SUFFICES ASSUME n + 1 <= len PROVE Twin(R, f[n + 1], g[n + 1])
    OBVIOUS
  <2>1. n + 1 \in 1..len /\ (n + 1) - 1 = n /\ n <= len
    BY <1>2
  <2>2. f[n + 1] = Binders[p.items[n + 1]][f[n]] /\ g[n + 1] = Binders[q.items[n + 1]][g[n]]
    BY <1>3, <1>4, <1>5, <1>6, <2>1
  <2>3. Twin(R, f[n], g[n])
    BY <1>8, <2>1
  <2>4. f[n] \in Seq(Idents) /\ g[n] \in Seq(Idents)
    BY <2>3 DEF Twin
  <2>5. q.items[n + 1] \in Patterns /\ R \in LikePattern[p.items[n + 1]][q.items[n + 1]] /\ BindersAlikeIn(p.items[n + 1])
    BY <1>1, <1>2, <2>1
  <2> QED BY <2>2, <2>3, <2>4, <2>5 DEF BindersAlikeIn
<1> HIDE DEF T
<1>9. Nat \subseteq T
  BY <1>7, <1>8, UpFromZero
<1>10. Twin(R, f[len], g[len])
  BY <1>2, <1>9 DEF T
<1>11. Walk(ps, s) = f[len] /\ Walk(qs, t) = g[len]
  BY <1>3, <1>4, <1>5, <1>6
<1> QED BY <1>10, <1>11 DEF ps, qs

\* Patterns that are alike bind as many names, which the pairing pairs.
LEMMA BindersAlike == \A p \in Patterns : BindersAlikeIn(p)
<1> DEFINE T == {p \in Patterns : BindersAlikeIn(p)}
<1>1. ASSUME NEW p \in Patterns, \A i \in DOMAIN p.items : p.items[i] \in T PROVE p \in T
  <2> SUFFICES ASSUME NEW q \in Patterns, NEW s \in Seq(Idents), NEW t \in Seq(Idents), NEW R \in LikePattern[p][q],
                      Twin(R, s, t)
               PROVE  Twin(R, Binders[p][s], Binders[q][t])
    BY DEF BindersAlikeIn
  <2>1. R \in Pairings /\ ((p.name = "" /\ q.name = "") \/ <<p.name, q.name>> \in R)
    BY LikePatternIs
  <2>2. CASE <<p.name, q.name>> \in R
    <3>1. p.name \in Idents /\ q.name \in Idents /\ (p.name \in ToSet(s) <=> q.name \in ToSet(t))
      <4>1. p.name \in Idents /\ q.name \in Idents
        BY <2>1, <2>2, OneToOne
      <4>2. p.name \in ToSet(s) <=> q.name \in ToSet(t)
        <5>1. R \in Pairings /\ Twin(R, s, t) /\ <<p.name, q.name>> \in R
          BY <2>1, <2>2
        <5> QED BY <5>1, TwinHolds
      <4> QED BY <4>1, <4>2
    <3>2. /\ Binders[p][s] = IF p.name \notin ToSet(s) THEN Append(s, p.name) ELSE s
          /\ Binders[q][t] = IF q.name \notin ToSet(t) THEN Append(t, q.name) ELSE t
      BY <3>1, NamedBinds
    <3>3. Twin(R, Append(s, p.name), Append(t, q.name))
      BY <2>1, <2>2, TwinAppend
    <3> QED BY <3>1, <3>2, <3>3
  <2>3. CASE p.name = "" /\ q.name = ""
    <3>1. p.name \notin Idents /\ q.name \notin Idents
      BY <2>3, PatternsAssumption
    <3>2. Binders[p][s] = Walk(Walks(p), s) /\ Binders[q][t] = Walk(Walks(q), t)
      BY <3>1, UnnamedBinds
    <3>3. \A i \in DOMAIN p.items : BindersAlikeIn(p.items[i])
      BY <1>1
    <3> QED BY <3>2, <3>3, WalksAlike
  <2> QED BY <2>1, <2>2, <2>3
<1> HIDE DEF T
<1>2. Patterns \subseteq T
  BY <1>1, PatternInduction
<1> QED BY <1>2 DEF T

Locals(p) == Binders[p][<<>>]

\* R pairs the names of s with the names of t, and nothing else.
Paired(R, s, t) == R \in Pairings /\ Twin(R, s, t) /\ R \subseteq ToSet(s) \X ToSet(t)

\* The binders of patterns that are alike are paired.
LEMMA RenamesPaired ==
  ASSUME NEW p \in Patterns, NEW q \in Patterns, NEW R, Renames(R, p, q)
  PROVE  Paired(R, Locals(p), Locals(q))
<1>1. R \in LikePattern[p][q] /\ R \subseteq Bound(p) \X Bound(q)
  BY DEF Renames
<1>2. R \in Pairings
  BY <1>1, LikePatternIs
<1>3. <<>> \in Seq(Idents) /\ Twin(R, <<>>, <<>>)
  BY DEF Twin
<1>4. Twin(R, Locals(p), Locals(q))
  BY <1>1, <1>3, BindersAlike DEF BindersAlikeIn, Locals
<1> QED BY <1>1, <1>2, <1>4 DEF Paired, Bound, Locals

\* A name has one slot if it is there, and none if it is not.
LEMMA LatestThere ==
  ASSUME NEW s \in Seq(Idents), NEW n
  PROVE  /\ \A k \in Latest(n, s) : k \in 1..Len(s) /\ s[k] = n
         /\ Latest(n, s) = {} <=> n \notin ToSet(s)
         /\ \A k, l \in Latest(n, s) : k = l
<1>1. DOMAIN s = 1..Len(s) /\ Len(s) \in Nat
  OBVIOUS
<1>2. \A k \in Latest(n, s) : k \in 1..Len(s) /\ s[k] = n
  BY <1>1 DEF Latest
<1>3. ASSUME NEW k \in Latest(n, s), NEW l \in Latest(n, s) PROVE k = l
  <2>1. k \in 1..Len(s) /\ l \in 1..Len(s) /\ k <= l /\ l <= k
    BY <1>1, <1>2 DEF Latest
  <2> QED BY <2>1
<1>4. Latest(n, s) # {} => n \in ToSet(s)
  BY <1>1, <1>2 DEF ToSet
<1>6. \A j \in 1..Len(s) : Len(s) - j \in 0..Len(s)
  BY <1>1
<1>5. ASSUME n \in ToSet(s) PROVE Latest(n, s) # {}
  <2> DEFINE D == {d \in 0..Len(s) : \E k \in 1..Len(s) : s[k] = n /\ d = Len(s) - k}
  <2>1. PICK k \in 1..Len(s) : s[k] = n
    BY <1>5, SetOfSequence
  <2>2. Len(s) - k \in D /\ D \subseteq Nat
    BY <1>1, <2>1
  <2>3. PICK d \in D : \A j \in D : d <= j
    <3> HIDE DEF D
    <3> QED BY <2>2, LeastOf
  <2>4. PICK l \in 1..Len(s) : s[l] = n /\ d = Len(s) - l
    OBVIOUS
  <2>5. ASSUME NEW j \in 1..Len(s), s[j] = n PROVE j <= l
    <3>1. Len(s) - j \in D
      BY <1>6, <2>5
    <3>2. Len(s) - l <= Len(s) - j
      BY <2>3, <2>4, <3>1
    <3> HIDE DEF D
    <3> QED BY <1>1, <3>2
  <2>6. l \in Latest(n, s)
    BY <1>1, <2>4, <2>5 DEF Latest
  <2> QED BY <2>6
<1> QED BY <1>2, <1>3, <1>4, <1>5

\* A name that is in the later of two sequences has its slot there, any other
\* has the slot it has in the earlier.
LEMMA LatestConcat ==
  ASSUME NEW s \in Seq(Idents), NEW t \in Seq(Idents), NEW n
  PROVE  /\ n \in ToSet(t) => Latest(n, s \o t) = {Len(s) + k : k \in Latest(n, t)}
         /\ n \notin ToSet(t) => Latest(n, s \o t) = Latest(n, s)
<1> DEFINE c == s \o t
<1>1. /\ DOMAIN s = 1..Len(s) /\ DOMAIN t = 1..Len(t) /\ DOMAIN c = 1..(Len(s) + Len(t))
      /\ Len(s) \in Nat /\ Len(t) \in Nat
      /\ \A k \in 1..Len(s) : c[k] = s[k]
      /\ \A k \in 1..Len(t) : c[Len(s) + k] = t[k]
  OBVIOUS
<1>2. ASSUME NEW k \in 1..(Len(s) + Len(t)), k \notin 1..Len(s) PROVE k - Len(s) \in 1..Len(t) /\ k = Len(s) + (k - Len(s))
  BY <1>1, <1>2
<1>3. ASSUME NEW k \in 1..Len(t) PROVE Len(s) + k \in 1..(Len(s) + Len(t)) /\ Len(s) + k \notin 1..Len(s)
  BY <1>1
<1>4. ASSUME NEW k \in 1..Len(s) PROVE k \in 1..(Len(s) + Len(t))
  BY <1>1
<1> HIDE DEF c
<1>5. ASSUME n \in ToSet(t) PROVE Latest(n, c) = {Len(s) + k : k \in Latest(n, t)}
  <2>1. PICK l \in Latest(n, t) : l \in 1..Len(t) /\ t[l] = n
    BY <1>5, LatestThere
  <2>2. \A k \in 1..Len(t) : t[k] = n => k <= l
    BY <1>1, <2>1 DEF Latest
  <2>3. Latest(n, t) = {l}
    <3>1. \A k \in Latest(n, t) : k = l
      BY <2>1, LatestThere, Zenon
    <3> QED BY <2>1, <3>1
  <2>4. Len(s) + l \in DOMAIN c /\ c[Len(s) + l] = n
    BY <1>1, <1>3, <2>1
  <2>5. ASSUME NEW k \in DOMAIN c, c[k] = n PROVE k <= Len(s) + l
    <3>1. CASE k \in 1..Len(s)
      BY <1>1, <2>1, <3>1
    <3>2. CASE k \notin 1..Len(s)
      <4>1. k - Len(s) \in 1..Len(t) /\ k = Len(s) + (k - Len(s))
        BY <1>1, <1>2, <3>2
      <4>2. t[k - Len(s)] = n
        BY <1>1, <2>5, <4>1
      <4>3. k - Len(s) <= l
        BY <2>2, <4>1, <4>2
      <4> QED BY <1>1, <2>1, <4>1, <4>3
    <3> QED BY <3>1, <3>2
  <2>6. Len(s) + l \in Latest(n, c)
    BY <2>4, <2>5 DEF Latest
  <2>7. ASSUME NEW k \in Latest(n, c) PROVE k = Len(s) + l
    <3>1. k \in DOMAIN c /\ c[k] = n /\ Len(s) + l <= k
      BY <2>4, <2>7 DEF Latest
    <3>2. k <= Len(s) + l
      BY <2>5, <3>1
    <3> QED BY <1>1, <2>1, <3>1, <3>2
  <2> QED BY <2>3, <2>6, <2>7
<1>6. ASSUME n \notin ToSet(t) PROVE Latest(n, c) = Latest(n, s)
  <2>1. ASSUME NEW k \in DOMAIN c, c[k] = n PROVE k \in DOMAIN s /\ s[k] = n
    <3>1. CASE k \in 1..Len(s)
      BY <1>1, <2>1, <3>1
    <3>2. CASE k \notin 1..Len(s)
      <4>1. k - Len(s) \in 1..Len(t) /\ k = Len(s) + (k - Len(s))
        BY <1>1, <1>2, <3>2
      <4>2. t[k - Len(s)] = n
        BY <1>1, <2>1, <4>1
      <4>3. t[k - Len(s)] \in ToSet(t)
        BY <1>1, <4>1 DEF ToSet
      <4> QED BY <1>6, <4>2, <4>3
    <3> QED BY <3>1, <3>2
  <2>2. ASSUME NEW k \in DOMAIN s, s[k] = n PROVE k \in DOMAIN c /\ c[k] = n
    BY <1>1, <1>4, <2>2
  <2> QED BY <2>1, <2>2, Zenon DEF Latest
<1> QED BY <1>5, <1>6 DEF c

\* Names are paired when and only when they have the same slot.
LEMMA PairedSlots ==
  ASSUME NEW R, NEW s, NEW t, Paired(R, s, t), NEW n, NEW m
  PROVE  /\ <<n, m>> \in R <=> n \in ToSet(s) /\ Latest(n, s) = Latest(m, t)
         /\ Mentions(R, n, m) <=> n \in ToSet(s) \/ m \in ToSet(t)
<1>1. /\ R \in Pairings /\ Twin(R, s, t) /\ R \subseteq ToSet(s) \X ToSet(t)
      /\ s \in Seq(Idents) /\ t \in Seq(Idents) /\ Len(s) = Len(t)
  BY DEF Paired, Twin
<1>2. ASSUME <<n, m>> \in R PROVE n \in ToSet(s) /\ Latest(n, s) = Latest(m, t)
  <2>1. n \in ToSet(s)
    BY <1>1, <1>2
  <2>2. Latest(n, s) = Latest(m, t)
    BY <1>1, <1>2, TwinHolds
  <2> QED BY <2>1, <2>2
<1>3. ASSUME n \in ToSet(s), Latest(n, s) = Latest(m, t) PROVE <<n, m>> \in R
  <2>1. PICK k \in Latest(n, s) : k \in 1..Len(s) /\ s[k] = n
    BY <1>1, <1>3, LatestThere
  <2>2. t[k] = m
    BY <1>1, <1>3, <2>1, LatestThere
  <2>3. <<s[k], t[k]>> \in R
    BY <1>1, <2>1 DEF Twin
  <2> QED BY <2>1, <2>2, <2>3
<1>4. ASSUME Mentions(R, n, m) PROVE n \in ToSet(s) \/ m \in ToSet(t)
  <2>1. PICK a \in R : a[1] = n \/ a[2] = m
    BY <1>4 DEF Mentions
  <2>2. a[1] \in ToSet(s) /\ a[2] \in ToSet(t)
    BY <1>1
  <2> QED BY <2>1, <2>2
<1>5. ASSUME n \in ToSet(s) \/ m \in ToSet(t) PROVE Mentions(R, n, m)
  <2>1. PICK k \in 1..Len(s) : s[k] = n \/ t[k] = m
    BY <1>1, <1>5, SetOfSequence
  <2>2. <<s[k], t[k]>> \in R
    BY <1>1, <2>1 DEF Twin
  <2>3. <<s[k], t[k]>>[1] = s[k] /\ <<s[k], t[k]>>[2] = t[k]
    OBVIOUS
  <2> QED BY <2>1, <2>2, <2>3 DEF Mentions
<1> QED BY <1>2, <1>3, <1>4, <1>5

-----------------------------------------------------------------------------
(* Keys of patterns.                                                       *)

\* The names that p and q bind have slots in S and T, the same where R pairs them.
Seated(R, p, q, S, T) ==
  /\ Bound(p) \subseteq ToSet(S) /\ Bound(q) \subseteq ToSet(T)
  /\ \A n \in Bound(p), m \in Bound(q) : <<n, m>> \in R <=> Latest(n, S) = Latest(m, T)

SameNames(R, p, q) == (p.name = "" /\ q.name = "") \/ <<p.name, q.name>> \in R

\* The slots of two patterns' own names are the same when R pairs the names.
LEMMA SlotsPaired ==
  ASSUME NEW R \in Pairings, NEW p \in Patterns, NEW q \in Patterns, NEW S \in Seq(Idents), NEW T \in Seq(Idents),
         Seated(R, p, q, S, T)
  PROVE  Latest(p.name, S) = Latest(q.name, T) <=> SameNames(R, p, q)
<1>1. /\ p.name \in Idents => Bound(p) = {p.name}
      /\ q.name \in Idents => Bound(q) = {q.name}
  BY BoundIs
<1>2. /\ p.name \notin Idents => p.name = ""
      /\ q.name \notin Idents => q.name = ""
      /\ p.name \in Idents => p.name # ""
      /\ q.name \in Idents => q.name # ""
  BY ItemsThere
<1>3. ToSet(S) \subseteq Idents /\ ToSet(T) \subseteq Idents
  BY SetOfSequence
<1>4. ASSUME p.name \notin Idents PROVE Latest(p.name, S) = {}
  <2>1. p.name \notin ToSet(S)
    BY <1>3, <1>4
  <2> QED BY <2>1, LatestThere
<1>5. ASSUME q.name \notin Idents PROVE Latest(q.name, T) = {}
  <2>1. q.name \notin ToSet(T)
    BY <1>3, <1>5
  <2> QED BY <2>1, LatestThere
<1>6. ASSUME p.name \in Idents PROVE Latest(p.name, S) # {}
  <2>1. p.name \in ToSet(S)
    BY <1>1, <1>6 DEF Seated
  <2> QED BY <2>1, LatestThere
<1>7. ASSUME q.name \in Idents PROVE Latest(q.name, T) # {}
  <2>1. q.name \in ToSet(T)
    BY <1>1, <1>7 DEF Seated
  <2> QED BY <2>1, LatestThere
<1>8. <<p.name, q.name>> \in R => p.name \in Idents /\ q.name \in Idents
  BY DEF Pairings
<1>9. ASSUME p.name \in Idents, q.name \in Idents
      PROVE  Latest(p.name, S) = Latest(q.name, T) <=> <<p.name, q.name>> \in R
  <2>1. p.name \in Bound(p) /\ q.name \in Bound(q)
    BY <1>1, <1>9
  <2> QED BY <2>1 DEF Seated
<1> QED BY <1>2, <1>4, <1>5, <1>6, <1>7, <1>8, <1>9 DEF SameNames

PatternKeysOf(p, scope) == [i \in DOMAIN p.items |-> PatternKey[p.items[i]][scope]]

\* When two patterns have the same key.
LEMMA PatternKeyIs ==
  ASSUME NEW p \in Patterns, NEW q \in Patterns, NEW S \in Seq(Idents), NEW T \in Seq(Idents)
  PROVE  PatternKey[p][S] = PatternKey[q][T] <=>
           /\ p.kind = q.kind /\ p.keys = q.keys
           /\ p.literal.value = q.literal.value
           /\ Latest(p.name, S) = Latest(q.name, T)
           /\ PatternKeysOf(p, S) = PatternKeysOf(q, T)
<1>1. PatternKey[p] = PatternKeyBody(PatternKey, p) /\ PatternKey[q] = PatternKeyBody(PatternKey, q)
  BY PatternKeyUnfolds
<1>2. PatternKey[p][S] = [kind |-> p.kind, slot |-> Latest(p.name, S), literal |-> p.literal.value, keys |-> p.keys,
                          items |-> PatternKeysOf(p, S)]
  BY <1>1 DEF PatternKeyBody, Slots, Spelling, PatternKeysOf
<1>3. PatternKey[q][T] = [kind |-> q.kind, slot |-> Latest(q.name, T), literal |-> q.literal.value, keys |-> q.keys,
                          items |-> PatternKeysOf(q, T)]
  BY <1>1 DEF PatternKeyBody, Slots, Spelling, PatternKeysOf
<1> QED BY <1>2, <1>3

\* An interval from one tells where it ends.
LEMMA SameInterval ==
  ASSUME NEW k \in Nat, NEW l \in Nat, 1..k = 1..l
  PROVE  k = l
OBVIOUS

\* Items have the same keys when there are as many and each has the key of the other.
LEMMA PatternKeysAre ==
  ASSUME NEW p \in Patterns, NEW q \in Patterns, NEW S, NEW T
  PROVE  PatternKeysOf(p, S) = PatternKeysOf(q, T) <=>
           /\ Len(p.items) = Len(q.items)
           /\ \A i \in DOMAIN p.items : PatternKey[p.items[i]][S] = PatternKey[q.items[i]][T]
<1>1. /\ DOMAIN p.items = 1..Len(p.items) /\ Len(p.items) \in Nat
      /\ DOMAIN q.items = 1..Len(q.items) /\ Len(q.items) \in Nat
  BY ItemsThere
<1>2. /\ DOMAIN PatternKeysOf(p, S) = 1..Len(p.items)
      /\ \A i \in DOMAIN p.items : PatternKeysOf(p, S)[i] = PatternKey[p.items[i]][S]
  BY <1>1 DEF PatternKeysOf
<1>3. /\ DOMAIN PatternKeysOf(q, T) = 1..Len(q.items)
      /\ \A i \in DOMAIN q.items : PatternKeysOf(q, T)[i] = PatternKey[q.items[i]][T]
  BY <1>1 DEF PatternKeysOf
<1>4. ASSUME PatternKeysOf(p, S) = PatternKeysOf(q, T)
      PROVE  /\ Len(p.items) = Len(q.items)
             /\ \A i \in DOMAIN p.items : PatternKey[p.items[i]][S] = PatternKey[q.items[i]][T]
  <2>1. 1..Len(p.items) = 1..Len(q.items)
    BY <1>2, <1>3, <1>4
  <2>2. Len(p.items) = Len(q.items)
    BY <1>1, <2>1, SameInterval
  <2> QED BY <1>1, <1>2, <1>3, <1>4, <2>2
<1>5. ASSUME Len(p.items) = Len(q.items),
             \A i \in DOMAIN p.items : PatternKey[p.items[i]][S] = PatternKey[q.items[i]][T]
      PROVE  PatternKeysOf(p, S) = PatternKeysOf(q, T)
  BY <1>1, <1>5 DEF PatternKeysOf
<1> QED BY <1>4, <1>5

KeyIsLikeIn(p) ==
  \A q \in Patterns, S, T \in Seq(Idents), R \in Pairings :
    Seated(R, p, q, S, T) => (PatternKey[p][S] = PatternKey[q][T] <=> R \in LikePattern[p][q])

\* Patterns have the same key just when the pairing of their slots makes them alike.
LEMMA PatternKeyIsLike == \A p \in Patterns : KeyIsLikeIn(p)
<1> DEFINE D == {p \in Patterns : KeyIsLikeIn(p)}
<1>1. ASSUME NEW p \in Patterns, \A i \in DOMAIN p.items : p.items[i] \in D PROVE p \in D
  <2> SUFFICES ASSUME NEW q \in Patterns, NEW S \in Seq(Idents), NEW T \in Seq(Idents), NEW R \in Pairings,
                      Seated(R, p, q, S, T)
               PROVE  PatternKey[p][S] = PatternKey[q][T] <=> R \in LikePattern[p][q]
    BY DEF KeyIsLikeIn
  <2>1. Latest(p.name, S) = Latest(q.name, T) <=> SameNames(R, p, q)
    BY SlotsPaired
  <2>2. ASSUME Len(p.items) = Len(q.items), NEW i \in DOMAIN p.items
        PROVE  PatternKey[p.items[i]][S] = PatternKey[q.items[i]][T] <=> R \in LikePattern[p.items[i]][q.items[i]]
    <3>1. i \in DOMAIN q.items
      BY <2>2, ItemsThere
    <3>2. /\ KeyIsLikeIn(p.items[i]) /\ q.items[i] \in Patterns
          /\ Bound(p.items[i]) \subseteq Bound(p) /\ Bound(q.items[i]) \subseteq Bound(q)
      BY <1>1, <3>1, ItemsThere, BoundIs
    <3>3. Seated(R, p.items[i], q.items[i], S, T)
      BY <3>2 DEF Seated
    <3> QED BY <3>2, <3>3 DEF KeyIsLikeIn
  <2>3. PatternKeysOf(p, S) = PatternKeysOf(q, T) <=>
           /\ Len(p.items) = Len(q.items)
           /\ \A i \in DOMAIN p.items : R \in LikePattern[p.items[i]][q.items[i]]
    <3>1. PatternKeysOf(p, S) = PatternKeysOf(q, T) <=>
           /\ Len(p.items) = Len(q.items)
           /\ \A i \in DOMAIN p.items : PatternKey[p.items[i]][S] = PatternKey[q.items[i]][T]
      BY PatternKeysAre
    <3> QED BY <2>2, <3>1
  <2>4. PatternKey[p][S] = PatternKey[q][T] <=>
           /\ p.kind = q.kind /\ p.keys = q.keys
           /\ p.literal.value = q.literal.value
           /\ Latest(p.name, S) = Latest(q.name, T)
           /\ PatternKeysOf(p, S) = PatternKeysOf(q, T)
    BY PatternKeyIs
  <2>5. R \in LikePattern[p][q] <=>
           /\ p.kind = q.kind /\ p.keys = q.keys /\ Len(p.items) = Len(q.items)
           /\ p.literal.value = q.literal.value
           /\ SameNames(R, p, q)
           /\ \A i \in DOMAIN p.items : R \in LikePattern[p.items[i]][q.items[i]]
    BY LikePatternIs DEF SameNames
  <2> QED BY <2>1, <2>3, <2>4, <2>5, Zenon
<1> HIDE DEF D
<1>2. Patterns \subseteq D
  BY <1>1, PatternInduction
<1> QED BY <1>2 DEF D

-----------------------------------------------------------------------------
(* Keys of expressions.                                                    *)

\* The innermost pairing decides, if it mentions one of the names.
LEMMA RelatedAppend ==
  ASSUME NEW layers \in Seq(Pairings), NEW R \in Pairings, NEW n, NEW m
  PROVE  /\ Mentions(R, n, m) => (Related(n, m, Append(layers, R)) <=> <<n, m>> \in R)
         /\ ~Mentions(R, n, m) => (Related(n, m, Append(layers, R)) <=> Related(n, m, layers))
<1> DEFINE more == Append(layers, R)
           len == Len(layers)
<1>1. /\ DOMAIN layers = 1..len /\ DOMAIN more = 1..(len + 1) /\ len \in Nat
      /\ more[len + 1] = R /\ \A k \in 1..len : more[k] = layers[k]
  OBVIOUS
<1> HIDE DEF more, len
<1>2. \A k \in 1..(len + 1) : k \in 1..len \/ k = len + 1
  BY <1>1
<1>3. /\ len + 1 \in 1..(len + 1)
      /\ \A k \in 1..len : k \in 1..(len + 1) /\ len + 1 > k
  BY <1>1
<1>4. ASSUME <<n, m>> \in R PROVE Related(n, m, more)
  <2>1. \A j \in 1..(len + 1) : ~(j > len + 1)
    BY <1>1
  <2> QED BY <1>1, <1>3, <1>4, <2>1 DEF Related
<1>5. ASSUME Mentions(R, n, m), Related(n, m, more) PROVE <<n, m>> \in R
  <2>1. CASE \E k \in 1..(len + 1) : <<n, m>> \in more[k] /\ \A j \in 1..(len + 1) : j > k => ~Mentions(more[j], n, m)
    <3>1. PICK k \in 1..(len + 1) : <<n, m>> \in more[k] /\ \A j \in 1..(len + 1) : j > k => ~Mentions(more[j], n, m)
      BY <2>1
    <3>2. k = len + 1
      BY <1>1, <1>2, <1>3, <1>5, <3>1
    <3> QED BY <1>1, <3>1, <3>2
  <2>2. CASE \A j \in 1..(len + 1) : ~Mentions(more[j], n, m)
    BY <1>1, <1>3, <1>5, <2>2
  <2> QED BY <1>1, <1>5, <2>1, <2>2 DEF Related
<1>6. ASSUME ~Mentions(R, n, m) PROVE Related(n, m, more) <=> Related(n, m, layers)
  <2>1. <<n, m>> \notin R
    <3>1. <<n, m>>[1] = n /\ <<n, m>>[2] = m
      OBVIOUS
    <3> QED BY <1>6, <3>1 DEF Mentions
  <2>2. ASSUME NEW k \in 1..len
        PROVE  /\ <<n, m>> \in more[k] <=> <<n, m>> \in layers[k]
               /\ (\A j \in 1..(len + 1) : j > k => ~Mentions(more[j], n, m)) <=>
                    (\A j \in 1..len : j > k => ~Mentions(layers[j], n, m))
    BY <1>1, <1>2, <1>3, <1>6
  <2>3. (\A j \in 1..(len + 1) : ~Mentions(more[j], n, m)) <=> (\A j \in 1..len : ~Mentions(layers[j], n, m))
    BY <1>1, <1>2, <1>3, <1>6
  <2>4. (\E k \in 1..(len + 1) : <<n, m>> \in more[k] /\ \A j \in 1..(len + 1) : j > k => ~Mentions(more[j], n, m)) <=>
          (\E k \in 1..len : <<n, m>> \in layers[k] /\ \A j \in 1..len : j > k => ~Mentions(layers[j], n, m))
    <3>1. <<n, m>> \notin more[len + 1]
      BY <1>1, <2>1
    <3> QED BY <1>2, <1>3, <2>2, <3>1
  <2> QED BY <1>1, <2>3, <2>4 DEF Related
<1> QED BY <1>4, <1>5, <1>6 DEF more

\* The pairings relate just the names that the scopes give the same reference.
Fits(layers, S, T) ==
  /\ layers \in Seq(Pairings) /\ S \in Seq(Idents) /\ T \in Seq(Idents) /\ Len(S) = Len(T)
  /\ \A n, m \in Idents : Related(n, m, layers) <=> Reference(n, S) = Reference(m, T)

\* When two names have the same reference.
LEMMA ReferenceIs ==
  ASSUME NEW S \in Seq(Idents), NEW T \in Seq(Idents), NEW n, NEW m
  PROVE  Reference(n, S) = Reference(m, T) <=>
           Latest(n, S) = Latest(m, T) /\ (Latest(n, S) = {} => n = m)
BY DEF Reference, Slots

\* A name that is there has one slot, above zero.
LEMMA OneSlot ==
  ASSUME NEW s \in Seq(Idents), NEW n \in ToSet(s)
  PROVE  \E k \in Nat \ {0} : Latest(n, s) = {k}
<1>1. PICK k \in Latest(n, s) : k \in 1..Len(s)
  BY LatestThere
<1>2. \A l \in Latest(n, s) : l = k
  BY LatestThere
<1>3. k \in Nat \ {0}
  BY <1>1
<1> QED BY <1>2, <1>3

\* Around everything, only equal names are related.
LEMMA NothingFits == Fits(<<>>, <<>>, <<>>)
<1>1. <<>> \in Seq(Pairings) /\ <<>> \in Seq(Idents)
  OBVIOUS
<1>2. ASSUME NEW n \in Idents, NEW m \in Idents
      PROVE  Related(n, m, <<>>) <=> Reference(n, <<>>) = Reference(m, <<>>)
  <2>1. Related(n, m, <<>>) <=> n = m
    BY DEF Related
  <2>2. Latest(n, <<>>) = {} /\ Latest(m, <<>>) = {}
    BY DEF Latest
  <2> QED BY <1>1, <2>1, <2>2, ReferenceIs
<1> QED BY <1>1, <1>2 DEF Fits

\* What fits a scope, with the pairing of names that come into it, fits the
\* scope they come into.
LEMMA FitsExtends ==
  ASSUME NEW layers, NEW S, NEW T, Fits(layers, S, T), NEW R, NEW s, NEW t, Paired(R, s, t)
  PROVE  Fits(Append(layers, R), S \o s, T \o t)
<1>1. /\ layers \in Seq(Pairings) /\ S \in Seq(Idents) /\ T \in Seq(Idents) /\ Len(S) = Len(T)
      /\ R \in Pairings /\ s \in Seq(Idents) /\ t \in Seq(Idents) /\ Len(s) = Len(t)
  BY DEF Fits, Paired, Twin
<1>2. /\ Append(layers, R) \in Seq(Pairings) /\ S \o s \in Seq(Idents) /\ T \o t \in Seq(Idents)
      /\ Len(S \o s) = Len(T \o t) /\ Len(S) \in Nat
  <2>1. Append(layers, R) \in Seq(Pairings)
    BY <1>1, AppendProperties
  <2>2. S \o s \in Seq(Idents) /\ Len(S \o s) = Len(S) + Len(s)
    BY <1>1, ConcatProperties
  <2>3. T \o t \in Seq(Idents) /\ Len(T \o t) = Len(T) + Len(t)
    BY <1>1, ConcatProperties
  <2> QED BY <1>1, <2>1, <2>2, <2>3
<1>3. ASSUME NEW n \in Idents, NEW m \in Idents
      PROVE  Related(n, m, Append(layers, R)) <=> Reference(n, S \o s) = Reference(m, T \o t)
  <2>1. Reference(n, S \o s) = Reference(m, T \o t) <=>
          Latest(n, S \o s) = Latest(m, T \o t) /\ (Latest(n, S \o s) = {} => n = m)
    <3>1. S \o s \in Seq(Idents) /\ T \o t \in Seq(Idents)
      BY <1>2
    <3> DEFINE X == S \o s
               Y == T \o t
    <3> HIDE DEF X, Y
    <3>2. Reference(n, X) = Reference(m, Y) <=> Latest(n, X) = Latest(m, Y) /\ (Latest(n, X) = {} => n = m)
      <4>1. X \in Seq(Idents) /\ Y \in Seq(Idents)
        BY <3>1 DEF X, Y
      <4> QED BY <4>1, ReferenceIs
    <3> QED BY <3>2 DEF X, Y
  <2>2. /\ <<n, m>> \in R <=> n \in ToSet(s) /\ Latest(n, s) = Latest(m, t)
        /\ Mentions(R, n, m) <=> n \in ToSet(s) \/ m \in ToSet(t)
    BY PairedSlots
  <2>3. /\ n \in ToSet(s) => Latest(n, S \o s) = {Len(S) + k : k \in Latest(n, s)}
        /\ n \notin ToSet(s) => Latest(n, S \o s) = Latest(n, S)
    BY <1>1, LatestConcat
  <2>4. /\ m \in ToSet(t) => Latest(m, T \o t) = {Len(S) + k : k \in Latest(m, t)}
        /\ m \notin ToSet(t) => Latest(m, T \o t) = Latest(m, T)
    BY <1>1, LatestConcat
  <2>5. /\ n \in ToSet(s) => \E k \in Nat \ {0} : Latest(n, s) = {k}
        /\ m \in ToSet(t) => \E k \in Nat \ {0} : Latest(m, t) = {k}
    BY <1>1, OneSlot
  <2>6. /\ \A k \in Latest(n, S) : k \in Nat /\ k <= Len(S)
        /\ \A k \in Latest(m, T) : k \in Nat /\ k <= Len(S)
    BY <1>1, LatestThere
  <2>7. CASE ~Mentions(R, n, m)
    <3>1. Related(n, m, Append(layers, R)) <=> Related(n, m, layers)
      BY <1>1, <2>7, RelatedAppend
    <3>2. Related(n, m, layers) <=> Reference(n, S) = Reference(m, T)
      BY DEF Fits
    <3>3. Reference(n, S) = Reference(m, T) <=>
            Latest(n, S) = Latest(m, T) /\ (Latest(n, S) = {} => n = m)
      BY <1>1, ReferenceIs
    <3> QED BY <2>1, <2>2, <2>3, <2>4, <2>7, <3>1, <3>2, <3>3
  <2>8. CASE Mentions(R, n, m)
    <3>1. Related(n, m, Append(layers, R)) <=> <<n, m>> \in R
      BY <1>1, <2>8, RelatedAppend
    <3>2. CASE n \in ToSet(s) /\ m \in ToSet(t)
      <4>1. PICK k \in Nat \ {0} : Latest(n, s) = {k}
        BY <2>5, <3>2
      <4>2. PICK l \in Nat \ {0} : Latest(m, t) = {l}
        BY <2>5, <3>2
      <4>3. Latest(n, S \o s) = {Len(S) + k} /\ Latest(m, T \o t) = {Len(S) + l}
        BY <2>3, <2>4, <3>2, <4>1, <4>2
      <4>4. Len(S) + k = Len(S) + l <=> k = l
        <5>1. Len(S) \in Nat
          BY <1>2
        <5> QED BY ONLY <5>1, k \in Nat \ {0}, l \in Nat \ {0}
      <4> QED BY <2>1, <2>2, <3>1, <3>2, <4>1, <4>2, <4>3, <4>4
    <3>3. CASE n \in ToSet(s) /\ m \notin ToSet(t)
      <4>1. PICK k \in Nat \ {0} : Latest(n, s) = {k}
        BY <2>5, <3>3
      <4>2. Latest(n, S \o s) = {Len(S) + k} /\ Latest(m, T \o t) = Latest(m, T)
        BY <2>3, <2>4, <3>3, <4>1
      <4>3. Len(S) + k \notin Latest(m, T)
        BY <1>2, <2>6
      <4>4. Latest(m, t) = {}
        BY <1>1, <3>3, LatestThere
      <4> QED BY <2>1, <2>2, <3>1, <4>1, <4>2, <4>3, <4>4
    <3>4. CASE n \notin ToSet(s) /\ m \in ToSet(t)
      <4>1. PICK k \in Nat \ {0} : Latest(m, t) = {k}
        BY <2>5, <3>4
      <4>2. Latest(m, T \o t) = {Len(S) + k} /\ Latest(n, S \o s) = Latest(n, S)
        BY <2>3, <2>4, <3>4, <4>1
      <4>3. Len(S) + k \notin Latest(n, S)
        BY <1>2, <2>6
      <4> QED BY <2>1, <2>2, <3>1, <3>4, <4>2, <4>3
    <3> QED BY <2>2, <2>8, <3>2, <3>3, <3>4
  <2> QED BY <2>7, <2>8
<1> QED BY <1>2, <1>3 DEF Fits

\* The names a pattern binds are its locals.
LEMMA LocalsThere ==
  ASSUME NEW p \in Patterns
  PROVE  Locals(p) \in Seq(Idents) /\ ToSet(Locals(p)) = Bound(p)
<1>1. <<>> \in Seq(Idents)
  OBVIOUS
<1>2. Locals(p) \in Seq(Idents)
  BY <1>1, BindersSet DEF BindersSays, Locals
<1> QED BY <1>2 DEF Locals, Bound

\* The slots of locals are the same in scopes that are as long when they are
\* the same among the locals.
LEMMA LocalSlots ==
  ASSUME NEW p \in Patterns, NEW q \in Patterns, NEW S \in Seq(Idents), NEW T \in Seq(Idents), Len(S) = Len(T),
         NEW n \in Bound(p), NEW m \in Bound(q)
  PROVE  Latest(n, S \o Locals(p)) = Latest(m, T \o Locals(q)) <=> Latest(n, Locals(p)) = Latest(m, Locals(q))
<1> DEFINE s == Locals(p)
           t == Locals(q)
<1>1. s \in Seq(Idents) /\ n \in ToSet(s)
  BY LocalsThere
<1>2. t \in Seq(Idents) /\ m \in ToSet(t)
  BY LocalsThere
<1> HIDE DEF s, t
<1>3. PICK k \in Nat \ {0} : Latest(n, s) = {k}
  BY <1>1, OneSlot
<1>4. PICK l \in Nat \ {0} : Latest(m, t) = {l}
  BY <1>2, OneSlot
<1>5. Latest(n, S \o s) = {Len(S) + i : i \in {k}}
  <2>1. Latest(n, S \o s) = {Len(S) + i : i \in Latest(n, s)}
    BY <1>1, LatestConcat
  <2> QED BY <1>3, <2>1
<1>6. Latest(m, T \o t) = {Len(S) + i : i \in {l}}
  <2>1. Latest(m, T \o t) = {Len(T) + i : i \in Latest(m, t)}
    BY <1>2, LatestConcat
  <2> QED BY <1>4, <2>1
<1>7. Len(S) + k = Len(S) + l <=> k = l
  <2>1. Len(S) \in Nat
    OBVIOUS
  <2> QED BY ONLY <2>1, k \in Nat \ {0}, l \in Nat \ {0}
<1>8. Latest(n, S \o s) = Latest(m, T \o t) <=> Latest(n, s) = Latest(m, t)
  BY <1>3, <1>4, <1>5, <1>6, <1>7, ZenonT(60)
<1> QED BY <1>8 DEF s, t

\* Parameters have the same key, in scopes that are as long, when one renames
\* the other.
LEMMA LocalsKeyed ==
  ASSUME NEW p \in Patterns, NEW q \in Patterns, NEW S \in Seq(Idents), NEW T \in Seq(Idents), Len(S) = Len(T)
  PROVE  PatternKey[p][S \o Locals(p)] = PatternKey[q][T \o Locals(q)] <=> \E R \in Pairings : Renames(R, p, q)
<1> DEFINE X == S \o Locals(p)
           Y == T \o Locals(q)
<1>1. X \in Seq(Idents) /\ Bound(p) \subseteq ToSet(X)
  <2>1. Locals(p) \in Seq(Idents) /\ ToSet(Locals(p)) = Bound(p)
    BY LocalsThere
  <2>2. ToSet(X) = ToSet(S) \cup ToSet(Locals(p))
    BY <2>1, SetOfSequence
  <2>3. X \in Seq(Idents)
    BY <2>1, ConcatProperties
  <2> QED BY <2>1, <2>2, <2>3
<1>2. Y \in Seq(Idents) /\ Bound(q) \subseteq ToSet(Y)
  <2>1. Locals(q) \in Seq(Idents) /\ ToSet(Locals(q)) = Bound(q)
    BY LocalsThere
  <2>2. ToSet(Y) = ToSet(T) \cup ToSet(Locals(q))
    BY <2>1, SetOfSequence
  <2>3. Y \in Seq(Idents)
    BY <2>1, ConcatProperties
  <2> QED BY <2>1, <2>2, <2>3
<1>3. ASSUME NEW n \in Bound(p), NEW m \in Bound(q)
      PROVE  Latest(n, X) = Latest(m, Y) <=> Latest(n, Locals(p)) = Latest(m, Locals(q))
  BY LocalSlots
<1> HIDE DEF X, Y
<1>4. ASSUME NEW R \in Pairings, Renames(R, p, q) PROVE PatternKey[p][X] = PatternKey[q][Y]
  <2>1. Paired(R, Locals(p), Locals(q)) /\ R \in LikePattern[p][q]
    BY <1>4, RenamesPaired DEF Renames
  <2>2. ASSUME NEW n \in Bound(p), NEW m \in Bound(q) PROVE <<n, m>> \in R <=> Latest(n, X) = Latest(m, Y)
    <3>1. <<n, m>> \in R <=> n \in ToSet(Locals(p)) /\ Latest(n, Locals(p)) = Latest(m, Locals(q))
      BY <2>1, PairedSlots
    <3>2. n \in ToSet(Locals(p))
      BY LocalsThere
    <3> QED BY <1>3, <3>1, <3>2
  <2>3. Seated(R, p, q, X, Y)
    BY <1>1, <1>2, <2>2 DEF Seated
  <2> QED BY <1>1, <1>2, <2>1, <2>3, PatternKeyIsLike DEF KeyIsLikeIn
<1>5. ASSUME PatternKey[p][X] = PatternKey[q][Y] PROVE \E R \in Pairings : Renames(R, p, q)
  <2> DEFINE R == {a \in Bound(p) \X Bound(q) : Latest(a[1], Locals(p)) = Latest(a[2], Locals(q))}
  <2>1. ASSUME NEW a \in R, NEW b \in R PROVE a[1] = b[1] <=> a[2] = b[2]
    <3>1. /\ a[1] \in ToSet(Locals(p)) /\ b[1] \in ToSet(Locals(p)) /\ Locals(p) \in Seq(Idents)
          /\ a[2] \in ToSet(Locals(q)) /\ b[2] \in ToSet(Locals(q)) /\ Locals(q) \in Seq(Idents)
      BY LocalsThere
    <3>2. /\ Latest(a[1], Locals(p)) = Latest(a[2], Locals(q))
          /\ Latest(b[1], Locals(p)) = Latest(b[2], Locals(q))
      OBVIOUS
    <3> HIDE DEF R
    <3>3. PICK k \in Nat \ {0} : Latest(a[1], Locals(p)) = {k}
      BY <3>1, OneSlot
    <3>4. PICK l \in Nat \ {0} : Latest(b[1], Locals(p)) = {l}
      BY <3>1, OneSlot
    <3>5. Locals(p)[k] = a[1] /\ Locals(p)[l] = b[1]
      BY <3>1, <3>3, <3>4, LatestThere
    <3>6. Locals(q)[k] = a[2] /\ Locals(q)[l] = b[2]
      <4>1. k \in Latest(a[2], Locals(q)) /\ l \in Latest(b[2], Locals(q))
        BY <3>2, <3>3, <3>4
      <4> QED BY <3>1, <4>1, LatestThere
    <3>7. a[1] = b[1] => {k} = {l}
      BY <3>3, <3>4
    <3>8. a[2] = b[2] => {k} = {l}
      BY <3>2, <3>3, <3>4
    <3> QED BY <3>5, <3>6, <3>7, <3>8
  <2>2. R \in Pairings
    <3>1. R \subseteq Idents \X Idents
      BY BoundIs
    <3> QED BY <2>1, <3>1 DEF Pairings
  <2>3. ASSUME NEW n \in Bound(p), NEW m \in Bound(q) PROVE <<n, m>> \in R <=> Latest(n, X) = Latest(m, Y)
    BY <1>3
  <2>4. R \subseteq Bound(p) \X Bound(q)
    OBVIOUS
  <2> HIDE DEF R
  <2>5. Seated(R, p, q, X, Y)
    BY <1>1, <1>2, <2>3 DEF Seated
  <2>6. R \in LikePattern[p][q]
    BY <1>1, <1>2, <1>5, <2>2, <2>5, PatternKeyIsLike DEF KeyIsLikeIn
  <2> QED BY <2>2, <2>4, <2>6 DEF Renames
<1>6. PatternKey[p][X] = PatternKey[q][Y] <=> \E R \in Pairings : Renames(R, p, q)
  BY <1>4, <1>5
<1> QED BY <1>6 DEF X, Y

\* When layers make two expressions alike, kind by kind.
LEMMA LikeExpressionIs ==
  ASSUME NEW e \in Expressions, NEW f \in Expressions, NEW layers \in Seq(Pairings)
  PROVE  /\ layers \in LikeExpression[e][f] => e.kind = f.kind
         /\ e.kind = "Var" /\ f.kind = "Var" =>
              (layers \in LikeExpression[e][f] <=> Related(e.name, f.name, layers))
         /\ e.kind = "Literal" /\ f.kind = "Literal" =>
              (layers \in LikeExpression[e][f] <=> e.literal.value = f.literal.value)
         /\ e.kind = "Binary" /\ f.kind = "Binary" =>
              (layers \in LikeExpression[e][f] <=>
                 /\ e.op = f.op
                 /\ layers \in LikeExpression[e.left][f.left]
                 /\ layers \in LikeExpression[e.right][f.right])
         /\ e.kind = "Apply" /\ f.kind = "Apply" =>
              (layers \in LikeExpression[e][f] <=>
                 /\ \E R \in Pairings : /\ Renames(R, e.param, f.param)
                                        /\ Append(layers, R) \in LikeExpression[e.body][f.body]
                 /\ layers \in LikeExpression[e.arg][f.arg])
<1>1. LikeExpression[e][f] = LikeExpressionBody(LikeExpression, e)[f]
  BY LikeExpressionUnfolds
<1>2. layers \in LikeExpression[e][f] => e.kind = f.kind
  BY <1>1, Zenon DEF LikeExpressionBody
<1>3. ASSUME e.kind = "Var", f.kind = "Var"
      PROVE  layers \in LikeExpression[e][f] <=> Related(e.name, f.name, layers)
  BY <1>1, <1>3 DEF LikeExpressionBody
<1>4. ASSUME e.kind = "Literal", f.kind = "Literal"
      PROVE  layers \in LikeExpression[e][f] <=> e.literal.value = f.literal.value
  <2>1. e.literal \in Literals /\ f.literal \in Literals
    BY <1>4, ExpressionFacts
  <2>2. SameLiteral(e.literal, f.literal) <=> e.literal.value = f.literal.value
    BY <2>1 DEF SameLiteral, Literals
  <2>3. layers \in LikeExpression[e][f] <=> SameLiteral(e.literal, f.literal)
    BY <1>1, <1>4 DEF LikeExpressionBody
  <2> QED BY <2>2, <2>3
<1>5. ASSUME e.kind = "Binary", f.kind = "Binary"
      PROVE  layers \in LikeExpression[e][f] <=>
               /\ e.op = f.op
               /\ layers \in LikeExpression[e.left][f.left]
               /\ layers \in LikeExpression[e.right][f.right]
  BY <1>1, <1>5 DEF LikeExpressionBody
<1>6. ASSUME e.kind = "Apply", f.kind = "Apply"
      PROVE  layers \in LikeExpression[e][f] <=>
               /\ \E R \in Pairings : /\ Renames(R, e.param, f.param)
                                      /\ Append(layers, R) \in LikeExpression[e.body][f.body]
               /\ layers \in LikeExpression[e.arg][f.arg]
  BY <1>1, <1>6 DEF LikeExpressionBody
<1> QED BY <1>2, <1>3, <1>4, <1>5, <1>6

\* The key of an expression, kind by kind.
LEMMA ExpressionKeyIs ==
  ASSUME NEW e \in Expressions, NEW S \in Seq(Idents)
  PROVE  /\ e.kind = "Var" => ExpressionKey[e][S] = [kind |-> e.kind, name |-> Reference(e.name, S)]
         /\ e.kind = "Literal" => ExpressionKey[e][S] = [kind |-> e.kind, literal |-> e.literal.value]
         /\ e.kind = "Binary" =>
              ExpressionKey[e][S] = [kind |-> e.kind, op |-> e.op, left |-> ExpressionKey[e.left][S],
                                     right |-> ExpressionKey[e.right][S]]
         /\ e.kind = "Apply" =>
              ExpressionKey[e][S] = [kind |-> e.kind, param |-> PatternKey[e.param][S \o Locals(e.param)],
                                     body |-> ExpressionKey[e.body][S \o Locals(e.param)],
                                     arg |-> ExpressionKey[e.arg][S]]
<1>1. ExpressionKey[e] = ExpressionKeyBody(ExpressionKey, e)
  BY ExpressionKeyUnfolds
<1>2. ASSUME e.kind = "Var" PROVE ExpressionKey[e][S] = [kind |-> e.kind, name |-> Reference(e.name, S)]
  BY <1>1, <1>2 DEF ExpressionKeyBody
<1>3. ASSUME e.kind = "Literal" PROVE ExpressionKey[e][S] = [kind |-> e.kind, literal |-> e.literal.value]
  BY <1>1, <1>3 DEF ExpressionKeyBody, Spelling
<1>4. ASSUME e.kind = "Binary"
      PROVE  ExpressionKey[e][S] = [kind |-> e.kind, op |-> e.op, left |-> ExpressionKey[e.left][S],
                                    right |-> ExpressionKey[e.right][S]]
  BY <1>1, <1>4 DEF ExpressionKeyBody
<1>5. ASSUME e.kind = "Apply"
      PROVE  ExpressionKey[e][S] = [kind |-> e.kind, param |-> PatternKey[e.param][S \o Locals(e.param)],
                                    body |-> ExpressionKey[e.body][S \o Locals(e.param)],
                                    arg |-> ExpressionKey[e.arg][S]]
  BY <1>1, <1>5 DEF ExpressionKeyBody, LambdaScope, Locals
<1> QED BY <1>2, <1>3, <1>4, <1>5

\* The key of an expression tells its kind.
LEMMA ExpressionKeyKind ==
  ASSUME NEW e \in Expressions, NEW S \in Seq(Idents)
  PROVE  ExpressionKey[e][S].kind = e.kind
<1>1. e.kind \in {"Var", "Literal", "Binary", "Apply"}
  BY ExpressionFacts
<1>2. CASE e.kind = "Var"
  <2>1. ExpressionKey[e][S] = [kind |-> e.kind, name |-> Reference(e.name, S)]
    BY <1>2, ExpressionKeyIs
  <2> QED BY <2>1
<1>3. CASE e.kind = "Literal"
  <2>1. ExpressionKey[e][S] = [kind |-> e.kind, literal |-> e.literal.value]
    BY <1>3, ExpressionKeyIs
  <2> QED BY <2>1
<1>4. CASE e.kind = "Binary"
  <2>1. ExpressionKey[e][S] = [kind |-> e.kind, op |-> e.op, left |-> ExpressionKey[e.left][S],
                               right |-> ExpressionKey[e.right][S]]
    BY <1>4, ExpressionKeyIs
  <2> QED BY <2>1
<1>5. CASE e.kind = "Apply"
  <2>1. ExpressionKey[e][S] = [kind |-> e.kind, param |-> PatternKey[e.param][S \o Locals(e.param)],
                               body |-> ExpressionKey[e.body][S \o Locals(e.param)],
                               arg |-> ExpressionKey[e.arg][S]]
    BY <1>5, ExpressionKeyIs
  <2> QED BY <2>1
<1> QED BY <1>1, <1>2, <1>3, <1>4, <1>5

KeyIsLikeWithin(e) ==
  \A f \in Expressions, layers \in Seq(Pairings), S, T \in Seq(Idents) :
    Fits(layers, S, T) => (ExpressionKey[e][S] = ExpressionKey[f][T] <=> layers \in LikeExpression[e][f])

\* Applications have the same key just when they are alike, if what they are
\* made of does.
LEMMA ApplicationKeyed ==
  ASSUME NEW e \in Expressions, NEW f \in Expressions, e.kind = "Apply", f.kind = "Apply",
         KeyIsLikeWithin(e.body), KeyIsLikeWithin(e.arg),
         NEW layers, NEW S, NEW T, Fits(layers, S, T)
  PROVE  ExpressionKey[e][S] = ExpressionKey[f][T] <=> layers \in LikeExpression[e][f]
<1> DEFINE p == e.param
           q == f.param
           X == S \o Locals(p)
           Y == T \o Locals(q)
<1>1. /\ p \in Patterns /\ e.body \in Expressions /\ e.arg \in Expressions
      /\ q \in Patterns /\ f.body \in Expressions /\ f.arg \in Expressions
  BY ExpressionFacts
<1>2. layers \in Seq(Pairings) /\ S \in Seq(Idents) /\ T \in Seq(Idents) /\ Len(S) = Len(T)
  BY DEF Fits
<1>3. ExpressionKey[e][S] = ExpressionKey[f][T] <=>
        /\ PatternKey[p][X] = PatternKey[q][Y]
        /\ ExpressionKey[e.body][X] = ExpressionKey[f.body][Y]
        /\ ExpressionKey[e.arg][S] = ExpressionKey[f.arg][T]
  <2>1. ExpressionKey[e][S] = [kind |-> e.kind, param |-> PatternKey[p][X], body |-> ExpressionKey[e.body][X],
                               arg |-> ExpressionKey[e.arg][S]]
    BY <1>2, ExpressionKeyIs
  <2>2. ExpressionKey[f][T] = [kind |-> f.kind, param |-> PatternKey[q][Y], body |-> ExpressionKey[f.body][Y],
                               arg |-> ExpressionKey[f.arg][T]]
    BY <1>2, ExpressionKeyIs
  <2> QED BY <2>1, <2>2
<1>4. layers \in LikeExpression[e][f] <=>
        /\ \E R \in Pairings : Renames(R, p, q) /\ Append(layers, R) \in LikeExpression[e.body][f.body]
        /\ layers \in LikeExpression[e.arg][f.arg]
  BY <1>2, LikeExpressionIs
<1>5. PatternKey[p][X] = PatternKey[q][Y] <=> \E R \in Pairings : Renames(R, p, q)
  BY <1>1, <1>2, LocalsKeyed
<1>6. ASSUME NEW R \in Pairings, Renames(R, p, q)
      PROVE  ExpressionKey[e.body][X] = ExpressionKey[f.body][Y] <=> Append(layers, R) \in LikeExpression[e.body][f.body]
  <2>1. Paired(R, Locals(p), Locals(q))
    BY <1>1, <1>6, RenamesPaired
  <2>2. Fits(Append(layers, R), X, Y)
    BY <2>1, FitsExtends
  <2>3. Append(layers, R) \in Seq(Pairings) /\ X \in Seq(Idents) /\ Y \in Seq(Idents)
    BY <2>2 DEF Fits
  <2>4. e.body \in Expressions /\ f.body \in Expressions
    BY <1>1
  <2> DEFINE more == Append(layers, R)
  <2> HIDE DEF X, Y, p, q, more
  <2>5. more \in Seq(Pairings) /\ Fits(more, X, Y)
    BY <2>2, <2>3 DEF more
  <2>6. ExpressionKey[e.body][X] = ExpressionKey[f.body][Y] <=> more \in LikeExpression[e.body][f.body]
    BY <2>3, <2>4, <2>5 DEF KeyIsLikeWithin
  <2> QED BY <2>6 DEF more
<1>7. ExpressionKey[e.arg][S] = ExpressionKey[f.arg][T] <=> layers \in LikeExpression[e.arg][f.arg]
  BY <1>1, <1>2 DEF KeyIsLikeWithin
<1> HIDE DEF X, Y
<1> QED BY <1>3, <1>4, <1>5, <1>6, <1>7

\* Expressions have the same key, in scopes that the layers fit, just when the
\* layers make them alike.
LEMMA ExpressionKeyIsLike == \A e \in Expressions : KeyIsLikeWithin(e)
<1> DEFINE D == {e \in Expressions : KeyIsLikeWithin(e)}
<1>1. ASSUME NEW e \in Expressions, Inside(e) \subseteq D PROVE e \in D
  <2> SUFFICES ASSUME NEW f \in Expressions, NEW layers \in Seq(Pairings), NEW S \in Seq(Idents), NEW T \in Seq(Idents),
                      Fits(layers, S, T)
               PROVE  ExpressionKey[e][S] = ExpressionKey[f][T] <=> layers \in LikeExpression[e][f]
    BY DEF KeyIsLikeWithin
  <2>1. e.kind \in {"Var", "Literal", "Binary", "Apply"} /\ f.kind \in {"Var", "Literal", "Binary", "Apply"}
    BY ExpressionFacts
  <2>2. CASE e.kind # f.kind
    <3>1. ExpressionKey[e][S].kind = e.kind
      BY ExpressionKeyKind
    <3>2. ExpressionKey[f][T].kind = f.kind
      BY ExpressionKeyKind
    <3>3. layers \notin LikeExpression[e][f]
      BY <2>2, LikeExpressionIs
    <3> QED BY <2>2, <3>1, <3>2, <3>3
  <2>3. CASE e.kind = "Var" /\ f.kind = "Var"
    <3>1. e.name \in Idents /\ f.name \in Idents
      BY <2>3, ExpressionFacts
    <3>2. Related(e.name, f.name, layers) <=> Reference(e.name, S) = Reference(f.name, T)
      BY <3>1 DEF Fits
    <3>3. ExpressionKey[e][S] = [kind |-> e.kind, name |-> Reference(e.name, S)]
      BY <2>3, ExpressionKeyIs
    <3>4. ExpressionKey[f][T] = [kind |-> f.kind, name |-> Reference(f.name, T)]
      BY <2>3, ExpressionKeyIs
    <3>5. layers \in LikeExpression[e][f] <=> Related(e.name, f.name, layers)
      BY <2>3, LikeExpressionIs
    <3> QED BY <2>3, <3>2, <3>3, <3>4, <3>5
  <2>4. CASE e.kind = "Literal" /\ f.kind = "Literal"
    <3>1. ExpressionKey[e][S] = [kind |-> e.kind, literal |-> e.literal.value]
      BY <2>4, ExpressionKeyIs
    <3>2. ExpressionKey[f][T] = [kind |-> f.kind, literal |-> f.literal.value]
      BY <2>4, ExpressionKeyIs
    <3>3. layers \in LikeExpression[e][f] <=> e.literal.value = f.literal.value
      BY <2>4, LikeExpressionIs
    <3> QED BY <2>4, <3>1, <3>2, <3>3
  <2>5. CASE e.kind = "Binary" /\ f.kind = "Binary"
    <3>1. e.left \in D /\ e.right \in D
      BY <1>1, <2>5 DEF Inside
    <3>2. f.left \in Expressions /\ f.right \in Expressions
      BY <2>5, ExpressionFacts
    <3>3. /\ ExpressionKey[e.left][S] = ExpressionKey[f.left][T] <=> layers \in LikeExpression[e.left][f.left]
          /\ ExpressionKey[e.right][S] = ExpressionKey[f.right][T] <=> layers \in LikeExpression[e.right][f.right]
      BY <3>1, <3>2 DEF KeyIsLikeWithin
    <3>4. ExpressionKey[e][S] = [kind |-> e.kind, op |-> e.op, left |-> ExpressionKey[e.left][S],
                                 right |-> ExpressionKey[e.right][S]]
      BY <2>5, ExpressionKeyIs
    <3>5. ExpressionKey[f][T] = [kind |-> f.kind, op |-> f.op, left |-> ExpressionKey[f.left][T],
                                 right |-> ExpressionKey[f.right][T]]
      BY <2>5, ExpressionKeyIs
    <3>6. layers \in LikeExpression[e][f] <=>
            /\ e.op = f.op
            /\ layers \in LikeExpression[e.left][f.left]
            /\ layers \in LikeExpression[e.right][f.right]
      BY <2>5, LikeExpressionIs
    <3> QED BY <2>5, <3>3, <3>4, <3>5, <3>6
  <2>6. CASE e.kind = "Apply" /\ f.kind = "Apply"
    <3>1. e.body \in D /\ e.arg \in D
      BY <1>1, <2>6 DEF Inside
    <3>2. KeyIsLikeWithin(e.body) /\ KeyIsLikeWithin(e.arg)
      BY <3>1
    <3> QED BY <2>6, <3>2, ApplicationKeyed
  <2> QED BY <2>1, <2>2, <2>3, <2>4, <2>5, <2>6
<1> HIDE DEF D
<1>2. Expressions \subseteq D
  BY <1>1, ExpressionInduction
<1> QED BY <1>2 DEF D

-----------------------------------------------------------------------------
(* Keys of clauses.                                                        *)

\* The parts of a clause.
LEMMA ClauseFacts ==
  ASSUME NEW c \in ClauseRecords
  PROVE  /\ c.pattern \in Patterns /\ AsTuple(c.pattern) \in Patterns
         /\ c.guard \in Seq(Expressions) /\ Len(c.guard) <= 1
         /\ Len(c.guard) \in Nat /\ DOMAIN c.guard = 1..Len(c.guard)
         /\ \A i \in DOMAIN c.guard : c.guard[i] \in Expressions
<1>1. /\ c.pattern \in Patterns /\ AsTuple(c.pattern) \in Patterns
      /\ c.guard \in Seq(Expressions) /\ Len(c.guard) <= 1
  BY Zenon DEF ClauseRecords
<1>2. Len(c.guard) \in Nat /\ DOMAIN c.guard = 1..Len(c.guard) /\ \A i \in DOMAIN c.guard : c.guard[i] \in Expressions
  <2>1. c.guard \in Seq(Expressions)
    BY <1>1
  <2> QED BY <2>1
<1> QED BY <1>1, <1>2

GuardKeys(guard, scope) == [i \in DOMAIN guard |-> ExpressionKey[guard[i]][scope]]

\* Guards have the same keys, in scopes that the layers fit, just when the
\* layers make them alike.
LEMMA GuardsKeyed ==
  ASSUME NEW c \in ClauseRecords, NEW d \in ClauseRecords, NEW layers, NEW S, NEW T, Fits(layers, S, T)
  PROVE  GuardKeys(c.guard, S) = GuardKeys(d.guard, T) <=>
           /\ Len(c.guard) = Len(d.guard)
           /\ \A i \in DOMAIN c.guard : layers \in LikeExpression[c.guard[i]][d.guard[i]]
<1> DEFINE g == c.guard
           h == d.guard
<1>1. Len(g) \in Nat /\ DOMAIN g = 1..Len(g) /\ \A i \in 1..Len(g) : g[i] \in Expressions
  BY ClauseFacts
<1>2. Len(h) \in Nat /\ DOMAIN h = 1..Len(h) /\ \A i \in 1..Len(h) : h[i] \in Expressions
  BY ClauseFacts
<1>3. layers \in Seq(Pairings) /\ S \in Seq(Idents) /\ T \in Seq(Idents)
  BY DEF Fits
<1> HIDE DEF g, h
<1>4. ASSUME Len(g) = Len(h), NEW i \in 1..Len(g)
      PROVE  ExpressionKey[g[i]][S] = ExpressionKey[h[i]][T] <=> layers \in LikeExpression[g[i]][h[i]]
  <2>1. g[i] \in Expressions /\ h[i] \in Expressions
    BY <1>1, <1>2, <1>4
  <2> QED BY <1>3, <2>1, ExpressionKeyIsLike DEF KeyIsLikeWithin
<1>5. /\ DOMAIN GuardKeys(g, S) = 1..Len(g) /\ \A i \in 1..Len(g) : GuardKeys(g, S)[i] = ExpressionKey[g[i]][S]
      /\ DOMAIN GuardKeys(h, T) = 1..Len(h) /\ \A i \in 1..Len(h) : GuardKeys(h, T)[i] = ExpressionKey[h[i]][T]
  BY <1>1, <1>2 DEF GuardKeys
<1>6. ASSUME GuardKeys(g, S) = GuardKeys(h, T)
      PROVE  Len(g) = Len(h) /\ \A i \in 1..Len(g) : layers \in LikeExpression[g[i]][h[i]]
  <2>1. 1..Len(g) = 1..Len(h)
    BY <1>5, <1>6
  <2>2. Len(g) = Len(h)
    BY <1>1, <1>2, <2>1, SameInterval
  <2>3. ASSUME NEW i \in 1..Len(g) PROVE ExpressionKey[g[i]][S] = ExpressionKey[h[i]][T]
    BY <1>5, <1>6, <2>1
  <2> QED BY <1>4, <2>2, <2>3
<1>7. ASSUME Len(g) = Len(h), \A i \in 1..Len(g) : layers \in LikeExpression[g[i]][h[i]]
      PROVE  GuardKeys(g, S) = GuardKeys(h, T)
  <2>1. \A i \in 1..Len(g) : ExpressionKey[g[i]][S] = ExpressionKey[h[i]][T]
    BY <1>4, <1>7
  <2> QED BY <1>1, <1>2, <1>7, <2>1 DEF GuardKeys
<1>8. GuardKeys(g, S) = GuardKeys(h, T) <=>
        Len(g) = Len(h) /\ \A i \in DOMAIN g : layers \in LikeExpression[g[i]][h[i]]
  BY <1>1, <1>6, <1>7
<1> QED BY <1>8 DEF g, h

(***************************************************************************)
(* The dispatch key of a clause tells what it is up to the names it binds  *)
(* and the spelling of its literals, no more and no less: the slots that   *)
(* dispatch_key assigns while it walks the patterns forget just the names. *)
(***************************************************************************)
THEOREM KeyIsAlpha ==
  \A c, d \in ClauseRecords : ClauseKey(c) = ClauseKey(d) <=> SameUpToNames(c, d)
<1> SUFFICES ASSUME NEW c \in ClauseRecords, NEW d \in ClauseRecords
             PROVE  ClauseKey(c) = ClauseKey(d) <=> SameUpToNames(c, d)
  OBVIOUS
<1> DEFINE p == AsTuple(c.pattern)
           q == AsTuple(d.pattern)
           X == <<>> \o Locals(p)
           Y == <<>> \o Locals(q)
<1>1. p \in Patterns /\ q \in Patterns /\ <<>> \in Seq(Idents)
  BY ClauseFacts
<1>2. ClauseKey(c) = [pattern |-> PatternKey[p][X], guard |-> GuardKeys(c.guard, X)]
  BY DEF ClauseKey, LambdaScope, Locals, GuardKeys
<1>3. ClauseKey(d) = [pattern |-> PatternKey[q][Y], guard |-> GuardKeys(d.guard, Y)]
  BY DEF ClauseKey, LambdaScope, Locals, GuardKeys
<1> HIDE DEF p, q
<1>4. PatternKey[p][X] = PatternKey[q][Y] <=> \E R \in Pairings : Renames(R, p, q)
  <2>1. Len(<<>>) = Len(<<>>)
    OBVIOUS
  <2> QED BY <1>1, <2>1, LocalsKeyed
<1>5. ASSUME NEW R \in Pairings, Renames(R, p, q)
      PROVE  GuardKeys(c.guard, X) = GuardKeys(d.guard, Y) <=>
               /\ Len(c.guard) = Len(d.guard)
               /\ \A i \in DOMAIN c.guard : <<R>> \in LikeExpression[c.guard[i]][d.guard[i]]
  <2>1. Paired(R, Locals(p), Locals(q))
    BY <1>1, <1>5, RenamesPaired
  <2>2. Fits(Append(<<>>, R), X, Y)
    BY <2>1, NothingFits, FitsExtends
  <2>3. Append(<<>>, R) = <<R>>
    OBVIOUS
  <2> HIDE DEF X, Y
  <2>4. Fits(<<R>>, X, Y)
    BY <2>2, <2>3
  <2> QED BY <2>4, GuardsKeyed
<1>6. SameUpToNames(c, d) <=>
        \E R \in Pairings :
          /\ Renames(R, p, q)
          /\ Len(c.guard) = Len(d.guard)
          /\ \A i \in DOMAIN c.guard : <<R>> \in LikeExpression[c.guard[i]][d.guard[i]]
  BY DEF SameUpToNames, p, q
<1> HIDE DEF X, Y
<1>7. ClauseKey(c) = ClauseKey(d) <=>
        PatternKey[p][X] = PatternKey[q][Y] /\ GuardKeys(c.guard, X) = GuardKeys(d.guard, Y)
  BY <1>2, <1>3
<1> QED BY <1>4, <1>5, <1>6, <1>7

-----------------------------------------------------------------------------
(* Guards that are alike have the same value.                              *)

Failures == {Fails("error"), Fails("unsupported")}

\* The value of an expression, kind by kind.
LEMMA EvalIs ==
  ASSUME NEW e \in Expressions, NEW scope \in Bindings
  PROVE  /\ e.kind = "Var" =>
              Eval[e][scope] = IF Lookup(e.name, scope) = {}
                               THEN Fails("error")
                               ELSE CHOOSE v \in Lookup(e.name, scope) : TRUE
         /\ e.kind = "Literal" => Eval[e][scope] = e.literal.value
         /\ e.kind = "Binary" => Eval[e][scope] = Operate(e.op, Eval[e.left][scope], Eval[e.right][scope])
         /\ e.kind = "Apply" =>
              LET arg == Eval[e.arg][scope]
                  bindings == MatchAtom[e.param][arg]
              IN  Eval[e][scope] = IF arg.kind = "fails" THEN arg
                                   ELSE IF bindings = {} THEN Fails("unsupported")
                                   ELSE Eval[e.body][scope \o CHOOSE b \in bindings : TRUE]
<1>1. Eval[e] = EvalBody(Eval, e)
  BY EvalUnfolds
<1>2. ASSUME e.kind = "Var"
      PROVE  Eval[e][scope] = IF Lookup(e.name, scope) = {}
                              THEN Fails("error")
                              ELSE CHOOSE v \in Lookup(e.name, scope) : TRUE
  BY <1>1, <1>2 DEF EvalBody
<1>3. ASSUME e.kind = "Literal" PROVE Eval[e][scope] = e.literal.value
  BY <1>1, <1>3 DEF EvalBody
<1>4. ASSUME e.kind = "Binary"
      PROVE  Eval[e][scope] = Operate(e.op, Eval[e.left][scope], Eval[e.right][scope])
  BY <1>1, <1>4 DEF EvalBody
<1>5. ASSUME e.kind = "Apply"
      PROVE  LET arg == Eval[e.arg][scope]
                 bindings == MatchAtom[e.param][arg]
             IN  Eval[e][scope] = IF arg.kind = "fails" THEN arg
                                  ELSE IF bindings = {} THEN Fails("unsupported")
                                  ELSE Eval[e.body][scope \o CHOOSE b \in bindings : TRUE]
  BY <1>1, <1>5 DEF EvalBody, NoMatch
<1> QED BY <1>2, <1>3, <1>4, <1>5

\* What a name is bound to is a value.
LEMMA LookupThere ==
  ASSUME NEW scope \in Bindings, NEW n
  PROVE  /\ Lookup(n, scope) \subseteq Subjects
         /\ Lookup(n, scope) = {} <=> Latest(n, NamesOf(scope)) = {}
<1>1. NamesOf(scope) \in Seq(Idents) /\ Len(NamesOf(scope)) = Len(scope)
  BY NamesThere
<1>2. \A k \in Latest(n, NamesOf(scope)) : k \in 1..Len(scope)
  BY <1>1, LatestThere
<1>3. \A k \in 1..Len(scope) : scope[k][2] \in Subjects
  BY NamesThere
<1> QED BY <1>2, <1>3 DEF Lookup

\* An operation gives a value or fails.
LEMMA OperateThere ==
  ASSUME Atoms \subseteq Subjects, NEW op \in {"==", ">"},
         NEW l \in Subjects \cup Failures, NEW r \in Subjects \cup Failures
  PROVE  Operate(op, l, r) \in Subjects \cup Failures
<1>1. ASSUME NEW b \in BOOLEAN PROVE Boolean(b) \in Subjects
  BY DEF Boolean, Atoms
<1>2. Fails("unsupported") \in Failures
  BY DEF Failures
<1>3. (r \in Equals[l]) \in BOOLEAN /\ (l.n > r.n) \in BOOLEAN
  OBVIOUS
<1>4. Boolean(r \in Equals[l]) \in Subjects /\ Boolean(l.n > r.n) \in Subjects
  BY <1>1, <1>3
<1> HIDE DEF Boolean, Failures
<1> QED BY <1>2, <1>4 DEF Operate

EvalThereIn(e) == \A scope \in Bindings : Eval[e][scope] \in Subjects \cup Failures

\* An expression has a value or fails.
LEMMA EvalThere == \A e \in Expressions : EvalThereIn(e)
<1> DEFINE D == {e \in Expressions : EvalThereIn(e)}
<1>1. ASSUME NEW e \in Expressions, Inside(e) \subseteq D PROVE e \in D
  <2> SUFFICES ASSUME NEW scope \in Bindings PROVE Eval[e][scope] \in Subjects \cup Failures
    BY DEF EvalThereIn
  <2>1. e.kind \in {"Var", "Literal", "Binary", "Apply"}
    BY ExpressionFacts
  <2>2. Atoms \subseteq Subjects
    BY AtomsThere
  <2>3. Fails("error") \in Failures /\ Fails("unsupported") \in Failures
    BY DEF Failures
  <2>4. CASE e.kind = "Var"
    <3>1. Lookup(e.name, scope) \subseteq Subjects
      BY LookupThere
    <3>2. Eval[e][scope] = IF Lookup(e.name, scope) = {}
                           THEN Fails("error")
                           ELSE CHOOSE v \in Lookup(e.name, scope) : TRUE
      BY <2>4, EvalIs
    <3> QED BY <2>3, <3>1, <3>2
  <2>5. CASE e.kind = "Literal"
    <3>1. e.literal.value \in Atoms
      BY <2>5, ExpressionFacts DEF Literals
    <3>2. Eval[e][scope] = e.literal.value
      BY <2>5, EvalIs
    <3> QED BY <2>2, <3>1, <3>2
  <2>6. CASE e.kind = "Binary"
    <3>1. e.left \in D /\ e.right \in D /\ e.op \in {"==", ">"}
      BY <1>1, <2>6, ExpressionFacts DEF Inside
    <3>2. Eval[e.left][scope] \in Subjects \cup Failures /\ Eval[e.right][scope] \in Subjects \cup Failures
      BY <3>1 DEF EvalThereIn
    <3>3. Eval[e][scope] = Operate(e.op, Eval[e.left][scope], Eval[e.right][scope])
      BY <2>6, EvalIs
    <3> QED BY <2>2, <3>1, <3>2, <3>3, OperateThere
  <2>7. CASE e.kind = "Apply"
    <3> DEFINE arg == Eval[e.arg][scope]
               bindings == MatchAtom[e.param][arg]
               chosen == CHOOSE b \in bindings : TRUE
    <3>1. e.body \in D /\ e.arg \in D /\ e.param \in Patterns
      BY <1>1, <2>7, ExpressionFacts DEF Inside
    <3>2. arg \in Subjects \cup Failures
      BY <3>1 DEF EvalThereIn
    <3>3. Eval[e][scope] = IF arg.kind = "fails" THEN arg
                           ELSE IF bindings = {} THEN Fails("unsupported")
                           ELSE Eval[e.body][scope \o chosen]
      BY <2>7, EvalIs
    <3> HIDE DEF arg, bindings, chosen
    <3>4. ASSUME arg.kind # "fails", bindings # {} PROVE Eval[e.body][scope \o chosen] \in Subjects \cup Failures
      <4>1. arg \in Subjects
        BY <3>2, <3>4 DEF Failures, Fails
      <4>2. Binds(bindings, Bound(e.param))
        BY <3>1, <4>1, MatchBinds DEF MatchBindsIn, bindings
      <4>3. chosen \in bindings
        BY <3>4 DEF chosen
      <4>4. chosen \in Bindings
        BY <4>2, <4>3 DEF Binds
      <4>5. scope \o chosen \in Bindings
        BY <4>4, BindingsConcat
      <4> QED BY <3>1, <4>5 DEF EvalThereIn
    <3> QED BY <2>3, <3>2, <3>3, <3>4
  <2> QED BY <2>1, <2>4, <2>5, <2>6, <2>7
<1> HIDE DEF D
<1>2. Expressions \subseteq D
  BY <1>1, ExpressionInduction
<1> QED BY <1>2 DEF D

\* A name that the later of two bindings bind is looked up there.
LEMMA LookupConcat ==
  ASSUME NEW scope \in Bindings, NEW a \in Bindings, NEW n
  PROVE  /\ n \in ToSet(NamesOf(a)) => Lookup(n, scope \o a) = Lookup(n, a)
         /\ n \notin ToSet(NamesOf(a)) => Lookup(n, scope \o a) = Lookup(n, scope)
<1> DEFINE c == scope \o a
           s == NamesOf(scope)
           t == NamesOf(a)
<1>1. s \in Seq(Idents) /\ Len(s) = Len(scope) /\ Len(scope) \in Nat
  BY NamesThere
<1>2. t \in Seq(Idents) /\ Len(t) = Len(a) /\ Len(a) \in Nat
  BY NamesThere
<1>3. NamesOf(c) = s \o t
  BY NamesConcat
<1>4. \A k \in 1..(Len(scope) + Len(a)) : c[k] = IF k <= Len(scope) THEN scope[k] ELSE a[k - Len(scope)]
  BY BindingsConcat
<1> HIDE DEF c, s, t
<1>5. ASSUME n \in ToSet(t) PROVE Lookup(n, c) = Lookup(n, a)
  <2>1. Latest(n, s \o t) = {Len(s) + k : k \in Latest(n, t)}
    BY <1>1, <1>2, <1>5, LatestConcat
  <2>2. ASSUME NEW k \in Latest(n, t) PROVE c[Len(s) + k] = a[k]
    <3>1. k \in 1..Len(a)
      BY <1>2, LatestThere
    <3>2. Len(s) + k \in 1..(Len(scope) + Len(a)) /\ ~(Len(s) + k <= Len(scope)) /\ (Len(s) + k) - Len(scope) = k
      BY <1>1, <1>2, <3>1
    <3> QED BY <1>4, <3>2
  <2>3. Lookup(n, c) = {c[k][2] : k \in {Len(s) + k : k \in Latest(n, t)}}
    BY <1>3, <2>1 DEF Lookup
  <2>4. Lookup(n, a) = {a[k][2] : k \in Latest(n, t)}
    BY DEF Lookup, t
  <2> QED BY <2>2, <2>3, <2>4
<1>6. ASSUME n \notin ToSet(t) PROVE Lookup(n, c) = Lookup(n, scope)
  <2>1. Latest(n, s \o t) = Latest(n, s)
    BY <1>1, <1>2, <1>6, LatestConcat
  <2>2. ASSUME NEW k \in Latest(n, s) PROVE c[k] = scope[k]
    <3>1. k \in 1..Len(scope)
      BY <1>1, LatestThere
    <3>2. k \in 1..(Len(scope) + Len(a)) /\ k <= Len(scope)
      BY <1>1, <1>2, <3>1
    <3> QED BY <1>4, <3>2
  <2>3. Lookup(n, c) = {c[k][2] : k \in Latest(n, s)}
    BY <1>3, <2>1 DEF Lookup
  <2>4. Lookup(n, scope) = {scope[k][2] : k \in Latest(n, s)}
    BY DEF Lookup, s
  <2> QED BY <2>2, <2>3, <2>4
<1> QED BY <1>5, <1>6 DEF c, t

\* Related names have the same values.
Agree(layers, scope, other) ==
  \A n, m \in Idents : Related(n, m, layers) => Lookup(n, scope) = Lookup(m, other)

\* Scopes agree on the names that a match of either side brings into them.
LEMMA AgreeExtends ==
  ASSUME NEW layers \in Seq(Pairings), NEW scope \in Bindings, NEW other \in Bindings, Agree(layers, scope, other),
         NEW R, NEW a, NEW b, Mirror(R, a, b), Paired(R, NamesOf(a), NamesOf(b))
  PROVE  Agree(Append(layers, R), scope \o a, other \o b)
<1>1. a \in Bindings /\ b \in Bindings /\ R \in Pairings /\ Twin(R, NamesOf(a), NamesOf(b))
  BY DEF Mirror, Paired
<1> SUFFICES ASSUME NEW n \in Idents, NEW m \in Idents, Related(n, m, Append(layers, R))
             PROVE  Lookup(n, scope \o a) = Lookup(m, other \o b)
  BY DEF Agree
<1> DEFINE s == NamesOf(a)
           t == NamesOf(b)
<1>2. /\ <<n, m>> \in R <=> n \in ToSet(s) /\ Latest(n, s) = Latest(m, t)
      /\ Mentions(R, n, m) <=> n \in ToSet(s) \/ m \in ToSet(t)
  BY PairedSlots
<1>3. /\ n \in ToSet(s) => Lookup(n, scope \o a) = Lookup(n, a)
      /\ n \notin ToSet(s) => Lookup(n, scope \o a) = Lookup(n, scope)
  BY <1>1, LookupConcat
<1>4. /\ m \in ToSet(t) => Lookup(m, other \o b) = Lookup(m, b)
      /\ m \notin ToSet(t) => Lookup(m, other \o b) = Lookup(m, other)
  BY <1>1, LookupConcat
<1>5. s \in Seq(Idents) /\ t \in Seq(Idents) /\ Len(s) = Len(a)
  BY <1>1, NamesThere
<1>6. CASE ~Mentions(R, n, m)
  <2>1. Related(n, m, layers)
    BY <1>1, <1>6, RelatedAppend
  <2>2. Lookup(n, scope) = Lookup(m, other)
    BY <2>1 DEF Agree
  <2> QED BY <1>2, <1>3, <1>4, <1>6, <2>2
<1>7. CASE Mentions(R, n, m)
  <2>1. <<n, m>> \in R
    BY <1>1, <1>7, RelatedAppend
  <2>2. n \in ToSet(s) /\ Latest(n, s) = Latest(m, t)
    BY <1>2, <2>1
  <2>3. m \in ToSet(t)
    BY <1>5, <2>2, LatestThere
  <2>4. ASSUME NEW k \in Latest(n, s) PROVE a[k][2] = b[k][2]
    <3>1. k \in 1..Len(a)
      BY <1>5, LatestThere
    <3> QED BY <3>1 DEF Mirror
  <2>5. Lookup(n, a) = {a[k][2] : k \in Latest(n, s)} /\ Lookup(m, b) = {b[k][2] : k \in Latest(n, s)}
    BY <2>2 DEF Lookup
  <2>6. Lookup(n, a) = Lookup(m, b)
    BY <2>4, <2>5
  <2> QED BY <1>3, <1>4, <2>2, <2>3, <2>6
<1> QED BY <1>6, <1>7

\* What alike results bind is paired as the patterns' names are.
LEMMA MirrorPaired ==
  ASSUME NEW R \in Pairings, NEW a, NEW b, Mirror(R, a, b), R \subseteq ToSet(NamesOf(a)) \X ToSet(NamesOf(b))
  PROVE  Paired(R, NamesOf(a), NamesOf(b))
<1>1. a \in Bindings /\ b \in Bindings /\ Len(a) = Len(b)
  BY DEF Mirror
<1>2. /\ NamesOf(a) \in Seq(Idents) /\ Len(NamesOf(a)) = Len(a)
      /\ \A k \in 1..Len(a) : NamesOf(a)[k] = a[k][1]
  BY <1>1, NamesThere
<1>3. /\ NamesOf(b) \in Seq(Idents) /\ Len(NamesOf(b)) = Len(a)
      /\ \A k \in 1..Len(a) : NamesOf(b)[k] = b[k][1]
  BY <1>1, NamesThere
<1>4. Twin(R, NamesOf(a), NamesOf(b))
  BY <1>2, <1>3 DEF Mirror, Twin
<1> QED BY <1>4 DEF Paired

\* Two results are both no match, or one match each that are the same up to
\* the names of R and bind just those.
SameResults(R, A, B) ==
  (A = {} /\ B = {}) \/ \E a, b \in Bindings : A = {a} /\ B = {b} /\ Mirror(R, a, b) /\ Paired(R, NamesOf(a), NamesOf(b))

\* Alike results that bind the names of two patterns that R renames.
LEMMA RenamedResults ==
  ASSUME NEW p \in Patterns, NEW q \in Patterns, NEW R \in Pairings, Renames(R, p, q), NEW A, NEW B,
         AlikeResults(R, A, B), Binds(A, Bound(p)), Binds(B, Bound(q))
  PROVE  SameResults(R, A, B)
<1>1. CASE A = {} /\ B = {}
  BY <1>1 DEF SameResults
<1>2. CASE ~(A = {} /\ B = {})
  <2>1. PICK a, b \in Bindings : A = {a} /\ B = {b} /\ Mirror(R, a, b)
    BY <1>2 DEF AlikeResults
  <2>2. ToSet(NamesOf(a)) = Bound(p) /\ ToSet(NamesOf(b)) = Bound(q)
    BY <2>1 DEF Binds
  <2>3. R \subseteq Bound(p) \X Bound(q)
    BY DEF Renames
  <2>4. Paired(R, NamesOf(a), NamesOf(b))
    BY <2>1, <2>2, <2>3, MirrorPaired
  <2> QED BY <2>1, <2>4 DEF SameResults
<1> QED BY <1>1, <1>2

EvalAlikeIn(e) ==
  \A f \in Expressions, layers \in Seq(Pairings), scope, other \in Bindings :
    layers \in LikeExpression[e][f] /\ Agree(layers, scope, other) => Eval[e][scope] = Eval[f][other]

\* Applications that are alike have the same value, if what they are made of does.
LEMMA ApplicationAlike ==
  ASSUME NEW e \in Expressions, NEW f \in Expressions, e.kind = "Apply", f.kind = "Apply",
         EvalAlikeIn(e.body), EvalAlikeIn(e.arg),
         NEW layers \in Seq(Pairings), NEW scope \in Bindings, NEW other \in Bindings,
         layers \in LikeExpression[e][f], Agree(layers, scope, other)
  PROVE  Eval[e][scope] = Eval[f][other]
<1> DEFINE arg == Eval[e.arg][scope]
           A == MatchAtom[e.param][arg]
           B == MatchAtom[f.param][arg]
<1>1. /\ e.param \in Patterns /\ e.body \in Expressions /\ e.arg \in Expressions
      /\ f.param \in Patterns /\ f.body \in Expressions /\ f.arg \in Expressions
  BY ExpressionFacts
<1>2. PICK R \in Pairings : Renames(R, e.param, f.param) /\ Append(layers, R) \in LikeExpression[e.body][f.body]
  BY LikeExpressionIs
<1>3. layers \in LikeExpression[e.arg][f.arg]
  BY LikeExpressionIs
<1>4. Eval[f.arg][other] = arg
  BY <1>1, <1>3 DEF EvalAlikeIn
<1>5. Eval[e][scope] = IF arg.kind = "fails" THEN arg
                       ELSE IF A = {} THEN Fails("unsupported")
                       ELSE Eval[e.body][scope \o CHOOSE b \in A : TRUE]
  BY EvalIs
<1>6. Eval[f][other] = IF arg.kind = "fails" THEN arg
                       ELSE IF B = {} THEN Fails("unsupported")
                       ELSE Eval[f.body][other \o CHOOSE b \in B : TRUE]
  <2> DEFINE arg2 == Eval[f.arg][other]
             B2 == MatchAtom[f.param][arg2]
  <2>1. Eval[f][other] = IF arg2.kind = "fails" THEN arg2
                         ELSE IF B2 = {} THEN Fails("unsupported")
                         ELSE Eval[f.body][other \o CHOOSE b \in B2 : TRUE]
    BY EvalIs
  <2>2. arg2 = arg
    BY <1>4
  <2> HIDE DEF arg, arg2
  <2> QED BY <2>1, <2>2
<1>7. arg \in Subjects \cup Failures
  BY <1>1, EvalThere DEF EvalThereIn
<1> HIDE DEF arg, A, B
<1>8. ASSUME arg.kind # "fails" PROVE SameResults(R, A, B)
  <2>1. arg \in Subjects
    BY <1>7, <1>8 DEF Failures, Fails
  <2>2. R \in LikePattern[e.param][f.param]
    BY <1>2 DEF Renames
  <2>3. AlikeResults(R, A, B)
    BY <1>1, <2>1, <2>2, MatchAlike DEF MatchAlikeIn, A, B
  <2>4. Binds(A, Bound(e.param)) /\ Binds(B, Bound(f.param))
    BY <1>1, <2>1, MatchBinds DEF MatchBindsIn, A, B
  <2> QED BY <1>1, <1>2, <2>3, <2>4, RenamedResults
<1>9. CASE arg.kind = "fails"
  BY <1>5, <1>6, <1>9
<1>10. CASE arg.kind # "fails" /\ A = {}
  <2>1. B = {}
    BY <1>8, <1>10 DEF SameResults
  <2> QED BY <1>5, <1>6, <1>10, <2>1
<1>11. CASE arg.kind # "fails" /\ A # {}
  <2>1. PICK a, b \in Bindings : A = {a} /\ B = {b} /\ Mirror(R, a, b) /\ Paired(R, NamesOf(a), NamesOf(b))
    BY <1>8, <1>11 DEF SameResults
  <2>2. Eval[e][scope] = Eval[e.body][scope \o a]
    <3>1. (CHOOSE x \in A : TRUE) = a
      BY <2>1
    <3> QED BY <1>5, <1>11, <3>1
  <2>3. Eval[f][other] = Eval[f.body][other \o b]
    <3>1. (CHOOSE x \in B : TRUE) = b /\ B # {}
      BY <2>1
    <3> QED BY <1>6, <1>11, <3>1
  <2>4. Agree(Append(layers, R), scope \o a, other \o b)
    BY <2>1, AgreeExtends
  <2>5. scope \o a \in Bindings /\ other \o b \in Bindings
    BY <2>1, BindingsConcat
  <2>6. Append(layers, R) \in Seq(Pairings)
    BY AppendProperties
  <2> DEFINE more == Append(layers, R)
             x == scope \o a
             y == other \o b
  <2> HIDE DEF more, x, y
  <2>7. more \in Seq(Pairings) /\ x \in Bindings /\ y \in Bindings /\ Agree(more, x, y)
        /\ more \in LikeExpression[e.body][f.body]
    BY <1>2, <2>4, <2>5, <2>6 DEF more, x, y
  <2>8. Eval[e.body][x] = Eval[f.body][y]
    BY <1>1, <2>7 DEF EvalAlikeIn
  <2> QED BY <2>2, <2>3, <2>8 DEF x, y
<1> QED BY <1>9, <1>10, <1>11

\* Expressions that are alike have the same value, where the names that are
\* related have.
LEMMA EvalAlike == \A e \in Expressions : EvalAlikeIn(e)
<1> DEFINE D == {e \in Expressions : EvalAlikeIn(e)}
<1>1. ASSUME NEW e \in Expressions, Inside(e) \subseteq D PROVE e \in D
  <2> SUFFICES ASSUME NEW f \in Expressions, NEW layers \in Seq(Pairings), NEW scope \in Bindings, NEW other \in Bindings,
                      layers \in LikeExpression[e][f], Agree(layers, scope, other)
               PROVE  Eval[e][scope] = Eval[f][other]
    BY DEF EvalAlikeIn
  <2>1. e.kind \in {"Var", "Literal", "Binary", "Apply"} /\ e.kind = f.kind
    BY ExpressionFacts, LikeExpressionIs
  <2>2. CASE e.kind = "Var"
    <3>7. e.kind = "Var" /\ f.kind = "Var"
      BY <2>1, <2>2
    <3>1. e.name \in Idents /\ f.name \in Idents
      BY <2>1, <2>2, ExpressionFacts
    <3>2. Related(e.name, f.name, layers)
      BY <2>1, <2>2, LikeExpressionIs
    <3>3. Lookup(e.name, scope) = Lookup(f.name, other)
      BY <3>1, <3>2 DEF Agree
    <3>4. Eval[e][scope] = IF Lookup(e.name, scope) = {} THEN Fails("error")
                           ELSE CHOOSE v \in Lookup(e.name, scope) : TRUE
      BY <2>2, EvalIs
    <3>5. Eval[f][other] = IF Lookup(f.name, other) = {} THEN Fails("error")
                           ELSE CHOOSE v \in Lookup(f.name, other) : TRUE
      BY <3>7, EvalIs
    <3> QED BY <3>3, <3>4, <3>5
  <2>3. CASE e.kind = "Literal"
    <3>7. e.kind = "Literal" /\ f.kind = "Literal"
      BY <2>1, <2>3
    <3>1. e.literal.value = f.literal.value
      BY <2>1, <2>3, LikeExpressionIs
    <3>2. Eval[e][scope] = e.literal.value
      BY <3>7, EvalIs
    <3>3. Eval[f][other] = f.literal.value
      BY <3>7, EvalIs
    <3> QED BY <3>1, <3>2, <3>3
  <2>4. CASE e.kind = "Binary"
    <3>7. e.kind = "Binary" /\ f.kind = "Binary"
      BY <2>1, <2>4
    <3>1. /\ e.op = f.op
          /\ layers \in LikeExpression[e.left][f.left]
          /\ layers \in LikeExpression[e.right][f.right]
      BY <2>1, <2>4, LikeExpressionIs
    <3>2. e.left \in D /\ e.right \in D
      BY <1>1, <2>4 DEF Inside
    <3>3. f.left \in Expressions /\ f.right \in Expressions
      BY <2>1, <2>4, ExpressionFacts
    <3>4. Eval[e.left][scope] = Eval[f.left][other] /\ Eval[e.right][scope] = Eval[f.right][other]
      BY <3>1, <3>2, <3>3 DEF EvalAlikeIn
    <3>5. Eval[e][scope] = Operate(e.op, Eval[e.left][scope], Eval[e.right][scope])
      BY <2>4, EvalIs
    <3>6. Eval[f][other] = Operate(f.op, Eval[f.left][other], Eval[f.right][other])
      BY <3>7, EvalIs
    <3> QED BY <3>1, <3>4, <3>5, <3>6
  <2>5. CASE e.kind = "Apply"
    <3>7. e.kind = "Apply" /\ f.kind = "Apply"
      BY <2>1, <2>5
    <3>1. e.body \in D /\ e.arg \in D
      BY <1>1, <2>5 DEF Inside
    <3>2. EvalAlikeIn(e.body) /\ EvalAlikeIn(e.arg)
      BY <3>1
    <3> QED BY <3>2, <3>7, ApplicationAlike
  <2> QED BY <2>1, <2>2, <2>3, <2>4, <2>5
<1> HIDE DEF D
<1>2. Expressions \subseteq D
  BY <1>1, ExpressionInduction
<1> QED BY <1>2 DEF D

-----------------------------------------------------------------------------
(* Clauses that are alike take the same arguments.                         *)

\* A tuple has no name of its own, and matches item by item.
LEMMA TupleMatch ==
  ASSUME NEW c \in ClauseRecords, NEW args
  PROVE  LET p == AsTuple(c.pattern)
         IN  /\ p \in Patterns /\ p.name = "" /\ p.kind = "Tuple"
             /\ Match(c.pattern, args) = IF Len(p.items) = Len(args) THEN Merged(Results(p, args)) ELSE {}
<1>1. AsTuple(c.pattern) \in Patterns
  BY ClauseFacts
<1>2. AsTuple(c.pattern).kind = "Tuple"
  BY DEF AsTuple
<1>3. AsTuple(c.pattern).name = ""
  BY <1>1, <1>2, PatternFacts
<1>4. Match(c.pattern, args) = IF Len(AsTuple(c.pattern).items) = Len(args)
                               THEN Merged(Results(AsTuple(c.pattern), args)) ELSE {}
  BY DEF Match, Results, NoMatch
<1> QED BY <1>1, <1>2, <1>3, <1>4

\* The matches of clauses of which one renames the other.
LEMMA ClausesMatchAlike ==
  ASSUME NEW c \in ClauseRecords, NEW d \in ClauseRecords, NEW R \in Pairings,
         Renames(R, AsTuple(c.pattern), AsTuple(d.pattern)), NEW args \in Seq(Subjects)
  PROVE  SameResults(R, Match(c.pattern, args), Match(d.pattern, args))
<1> DEFINE p == AsTuple(c.pattern)
           q == AsTuple(d.pattern)
<1>1. /\ p \in Patterns /\ p.name = ""
      /\ Match(c.pattern, args) = IF Len(p.items) = Len(args) THEN Merged(Results(p, args)) ELSE {}
  BY TupleMatch
<1>2. /\ q \in Patterns /\ q.name = ""
      /\ Match(d.pattern, args) = IF Len(q.items) = Len(args) THEN Merged(Results(q, args)) ELSE {}
  BY TupleMatch
<1> HIDE DEF p, q
<1>3. R \in LikePattern[p][q] /\ Renames(R, p, q)
  BY DEF Renames, p, q
<1>4. Len(p.items) = Len(q.items)
  BY <1>1, <1>2, <1>3, LikePatternIs
<1>5. CASE Len(p.items) # Len(args)
  BY <1>1, <1>2, <1>4, <1>5 DEF SameResults
<1>6. CASE Len(p.items) = Len(args)
  <2>1. \A x \in Patterns : \A i \in DOMAIN x.items : MatchAlikeIn(x.items[i]) /\ MatchBindsIn(x.items[i])
    BY MatchAlike, MatchBinds, ItemsThere
  <2>2. AlikeResults(R, Merged(Results(p, args)), Merged(Results(q, args)))
    BY <1>1, <1>2, <1>3, <1>6, <2>1, ResultsAlike
  <2>3. Binds(Merged(Results(p, args)), BoundUpTo(p, Len(p.items)))
    BY <1>1, <1>6, <2>1, ResultsBind
  <2>4. Binds(Merged(Results(q, args)), BoundUpTo(q, Len(q.items)))
    BY <1>2, <1>4, <1>6, <2>1, ResultsBind
  <2>5. Bound(p) = BoundUpTo(p, Len(p.items)) /\ Bound(q) = BoundUpTo(q, Len(q.items))
    <3>1. "" \notin Idents
      BY PatternsAssumption
    <3> QED BY <1>1, <1>2, <3>1, BoundIs
  <2>6. SameResults(R, Merged(Results(p, args)), Merged(Results(q, args)))
    BY <1>1, <1>2, <1>3, <2>2, <2>3, <2>4, <2>5, RenamedResults
  <2> QED BY <1>1, <1>2, <1>4, <1>6, <2>6
<1> QED BY <1>5, <1>6

\* What a clause that matches makes of its guard.
Judged(value) == IF value.kind = "fails" THEN value.why ELSE IF Truthy(value) THEN "yes" ELSE "no"

\* Takes, case by case.
LEMMA TakesIs ==
  ASSUME NEW c, NEW args, NEW globals
  PROVE  /\ Match(c.pattern, args) = {} => Takes(c, args, globals) = "no"
         /\ Match(c.pattern, args) # {} /\ c.guard = <<>> => Takes(c, args, globals) = "yes"
         /\ Match(c.pattern, args) # {} /\ c.guard # <<>> =>
              Takes(c, args, globals) = Judged(Eval[c.guard[1]][globals \o CHOOSE b \in Match(c.pattern, args) : TRUE])
BY DEF Takes, NoMatch, NoGuard, Judged

(***************************************************************************)
(* Clauses that differ only in the names they bind and the spelling of     *)
(* their literals take the same arguments, and fail on the same ones: the  *)
(* group may drop the second of them and no call can tell.                 *)
(***************************************************************************)
THEOREM AlikeTakeAlike ==
  \A c, d \in ClauseRecords, args \in Seq(Subjects), globals \in Bindings :
    SameUpToNames(c, d) => Takes(c, args, globals) = Takes(d, args, globals)
<1> SUFFICES ASSUME NEW c \in ClauseRecords, NEW d \in ClauseRecords, NEW args \in Seq(Subjects),
                    NEW globals \in Bindings, SameUpToNames(c, d)
             PROVE  Takes(c, args, globals) = Takes(d, args, globals)
  OBVIOUS
<1>1. PICK R \in Pairings :
        /\ Renames(R, AsTuple(c.pattern), AsTuple(d.pattern))
        /\ Len(c.guard) = Len(d.guard)
        /\ \A i \in DOMAIN c.guard : <<R>> \in LikeExpression[c.guard[i]][d.guard[i]]
  BY DEF SameUpToNames
<1> DEFINE A == Match(c.pattern, args)
           B == Match(d.pattern, args)
<1>2. SameResults(R, A, B)
  BY <1>1, ClausesMatchAlike
<1>3. /\ c.guard \in Seq(Expressions) /\ d.guard \in Seq(Expressions)
      /\ c.guard = <<>> <=> d.guard = <<>>
      /\ c.guard # <<>> => 1 \in DOMAIN c.guard /\ c.guard[1] \in Expressions /\ d.guard[1] \in Expressions
  <2>1. c.guard \in Seq(Expressions) /\ d.guard \in Seq(Expressions)
    BY ClauseFacts
  <2>2. c.guard = <<>> <=> d.guard = <<>>
    BY <1>1, <2>1, EmptySeq
  <2>3. ASSUME c.guard # <<>> PROVE 1 \in DOMAIN c.guard /\ c.guard[1] \in Expressions
    BY <2>1, <2>3
  <2>4. ASSUME d.guard # <<>> PROVE 1 \in DOMAIN d.guard /\ d.guard[1] \in Expressions
    BY <2>1, <2>4
  <2> QED BY <2>1, <2>2, <2>3, <2>4
<1>4. /\ A = {} => Takes(c, args, globals) = "no"
      /\ A # {} /\ c.guard = <<>> => Takes(c, args, globals) = "yes"
      /\ A # {} /\ c.guard # <<>> =>
           Takes(c, args, globals) = Judged(Eval[c.guard[1]][globals \o CHOOSE b \in A : TRUE])
  BY TakesIs
<1>5. /\ B = {} => Takes(d, args, globals) = "no"
      /\ B # {} /\ d.guard = <<>> => Takes(d, args, globals) = "yes"
      /\ B # {} /\ d.guard # <<>> =>
           Takes(d, args, globals) = Judged(Eval[d.guard[1]][globals \o CHOOSE b \in B : TRUE])
  BY TakesIs
<1> HIDE DEF A, B
<1>6. CASE A = {}
  <2>1. B = {}
    BY <1>2, <1>6 DEF SameResults
  <2> QED BY <1>4, <1>5, <1>6, <2>1
<1>7. CASE A # {} /\ c.guard = <<>>
  <2>1. B # {}
    BY <1>2, <1>7 DEF SameResults
  <2> QED BY <1>3, <1>4, <1>5, <1>7, <2>1
<1>8. CASE A # {} /\ c.guard # <<>>
  <2>1. PICK a, b \in Bindings : A = {a} /\ B = {b} /\ Mirror(R, a, b) /\ Paired(R, NamesOf(a), NamesOf(b))
    BY <1>2, <1>8 DEF SameResults
  <2>2. Agree(<<>>, globals, globals)
    BY DEF Agree, Related
  <2>3. <<>> \in Seq(Pairings) /\ Append(<<>>, R) = <<R>> /\ <<R>> \in Seq(Pairings)
    OBVIOUS
  <2>4. Agree(<<R>>, globals \o a, globals \o b)
    <3>1. Agree(Append(<<>>, R), globals \o a, globals \o b)
      BY <2>1, <2>2, <2>3, AgreeExtends
    <3> QED BY <2>3, <3>1
  <2>5. globals \o a \in Bindings /\ globals \o b \in Bindings
    BY <2>1, BindingsConcat
  <2> DEFINE x == globals \o a
             y == globals \o b
             layers == <<R>>
             g == c.guard[1]
             h == d.guard[1]
  <2>6. g \in Expressions /\ h \in Expressions /\ layers \in LikeExpression[g][h]
    BY <1>1, <1>3, <1>8
  <2>7. layers \in Seq(Pairings) /\ x \in Bindings /\ y \in Bindings /\ Agree(layers, x, y)
    BY <2>3, <2>4, <2>5
  <2> HIDE DEF x, y, layers, g, h
  <2>8. Eval[g][x] = Eval[h][y]
    BY <2>6, <2>7, EvalAlike DEF EvalAlikeIn
  <2>9. (CHOOSE z \in A : TRUE) = a /\ (CHOOSE z \in B : TRUE) = b /\ B # {}
    BY <2>1
  <2>10. Takes(c, args, globals) = Judged(Eval[g][x])
    BY <1>4, <1>8, <2>9 DEF g, x
  <2>11. Takes(d, args, globals) = Judged(Eval[h][y])
    BY <1>3, <1>5, <1>8, <2>9 DEF h, y
  <2> QED BY <2>8, <2>10, <2>11
<1> QED BY <1>6, <1>7, <1>8

-----------------------------------------------------------------------------
(* The groups of a session.                                                *)

\* What the session takes for the key and the verdict of a clause.
LEMMA TableThere ==
  ASSUME NEW c \in Clauses
  PROVE  /\ ClauseTable[c] \in ClauseRecords
         /\ Key(c) = ClauseKey(ClauseTable[c])
         /\ \A args \in ArgLists : args \in Seq(Subjects) /\ Verdict(c, args) = Takes(ClauseTable[c], args, Globals)
BY DispatchAssumption

\* Clauses of one key are alike, and have one verdict.
LEMMA SameKey ==
  ASSUME NEW c \in Clauses, NEW d \in Clauses
  PROVE  /\ Key(c) = Key(d) <=> SameUpToNames(ClauseTable[c], ClauseTable[d])
         /\ Key(c) = Key(d) => \A args \in ArgLists : Verdict(c, args) = Verdict(d, args)
<1>1. /\ ClauseTable[c] \in ClauseRecords /\ Key(c) = ClauseKey(ClauseTable[c])
      /\ ClauseTable[d] \in ClauseRecords /\ Key(d) = ClauseKey(ClauseTable[d])
  BY TableThere
<1>2. Key(c) = Key(d) <=> SameUpToNames(ClauseTable[c], ClauseTable[d])
  BY <1>1, KeyIsAlpha
<1>3. ASSUME Key(c) = Key(d), NEW args \in ArgLists PROVE Verdict(c, args) = Verdict(d, args)
  <2>1. SameUpToNames(ClauseTable[c], ClauseTable[d])
    BY <1>2, <1>3
  <2>2. Globals \in Bindings /\ args \in Seq(Subjects)
    BY DispatchAssumption, TableThere
  <2>3. Takes(ClauseTable[c], args, Globals) = Takes(ClauseTable[d], args, Globals)
    BY <1>1, <2>1, <2>2, AlikeTakeAlike
  <2> QED BY <2>3, TableThere
<1> QED BY <1>2, <1>3

\* A call of an open group is answered when a clause of it does not pass.
LEMMA OpenAnswers ==
  ASSUME NEW g, g.open, g.clauses \in Seq(Clauses), NEW args,
         NEW k \in DOMAIN g.clauses, Verdict(g.clauses[k], args) # "no"
  PROVE  Answered(g, args)
<1> DEFINE T == {j \in DOMAIN g.clauses : Verdict(g.clauses[j], args) # "no"}
<1>1. T \subseteq Nat /\ T # {}
  OBVIOUS
<1>2. PICK m \in T : \A j \in T : m <= j
  <2> HIDE DEF T
  <2> QED BY <1>1, LeastOf
<1>3. Tried(g, args) = g.clauses
  BY DEF Tried
<1>4. m \in DOMAIN g.clauses /\ DOMAIN g.clauses = 1..Len(g.clauses) /\ Len(g.clauses) \in Nat
  OBVIOUS
<1>5. ASSUME NEW j \in 1..(m - 1) PROVE Verdict(g.clauses[j], args) = "no"
  <2>1. j \in DOMAIN g.clauses /\ ~(m <= j)
    BY <1>4
  <2> QED BY <1>2, <2>1
<1>6. Stops(g, args, m)
  BY <1>3, <1>5 DEF Stops
<1> QED BY <1>3, <1>4, <1>6 DEF Answered

(***************************************************************************)
(* A clause refused as a duplicate could never have been reached, whatever *)
(* its pattern and its guard are: an earlier clause of the group already   *)
(* takes what it would take.                                               *)
(***************************************************************************)
THEOREM DuplicatesAreDeadHolds == Spec => []DuplicatesAreDead
<1>1. ASSUME GroupsTypeOK PROVE DuplicatesAreDead
  <2> SUFFICES ASSUME NEW i \in DOMAIN groups, groups[i].open,
                      NEW clause \in Clauses, Repeated(groups[i], clause),
                      NEW args \in ArgLists, Verdict(clause, args) # "no"
               PROVE  Answered(groups[i], args)
    BY DEF DuplicatesAreDead
  <2>1. groups[i].clauses \in Seq(Clauses)
    BY <1>1, GroupTyped DEF GroupRecords
  <2>2. PICK k \in DOMAIN groups[i].clauses : Key(groups[i].clauses[k]) = Key(clause)
    BY DEF Repeated
  <2>3. groups[i].clauses[k] \in Clauses
    BY <2>1
  <2>4. Verdict(groups[i].clauses[k], args) = Verdict(clause, args)
    BY <2>2, <2>3, SameKey
  <2> QED BY <2>1, <2>4, OpenAnswers
<1> QED BY <1>1, GroupsTypeCorrect, PTL

(***************************************************************************)
(* No open group ever holds two clauses that differ only in the names they *)
(* bind and the spelling of their literals, however the group grew.        *)
(***************************************************************************)
THEOREM NoAlphaDuplicatesHolds == Spec => []NoAlphaDuplicates
<1>1. ASSUME GroupsTypeOK, DefinitionsDistinct PROVE NoAlphaDuplicates
  <2> SUFFICES ASSUME NEW i \in DOMAIN groups,
                      NEW j \in DOMAIN groups[i].clauses, NEW k \in DOMAIN groups[i].clauses,
                      groups[i].clauses[k] \in Alike[groups[i].clauses[j]]
               PROVE  j = k
    BY DEF NoAlphaDuplicates
  <2>1. groups[i].clauses \in Seq(Clauses)
    BY <1>1, GroupTyped DEF GroupRecords
  <2>2. groups[i].clauses[j] \in Clauses /\ groups[i].clauses[k] \in Clauses
    BY <2>1
  <2>3. SameUpToNames(ClauseTable[groups[i].clauses[j]], ClauseTable[groups[i].clauses[k]])
    BY <2>2 DEF Alike
  <2>4. Key(groups[i].clauses[j]) = Key(groups[i].clauses[k])
    BY <2>2, <2>3, SameKey
  <2>5. KeysUnique(groups[i])
    BY <1>1 DEF DefinitionsDistinct
  <2> QED BY <2>4, <2>5 DEF KeysUnique
<1> QED BY <1>1, GroupsTypeCorrect, DefinitionsDistinctHolds, PTL
=============================================================================
