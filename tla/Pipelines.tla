------------------------------ MODULE Pipelines ------------------------------
(***************************************************************************)
(* What the stages of a Flow (src/flow.hpp) compute on whole sequences,    *)
(* eagerly and without state: what the lazy kernel of the module Flow is   *)
(* compared with.                                                          *)
(*                                                                         *)
(* A pipeline is a sequence of nodes [op, up, n]: what a node does, the    *)
(* node it pulls from (0 for a source) and the count of take and drop.     *)
(* Recursion is over positions and by recursive functions, which the       *)
(* proofs can unfold.                                                      *)
(***************************************************************************)
EXTENDS Integers, Sequences

Sources == {"stdin", "list", "evolve"}
Stages == {"lines", "map", "option", "filter", "take", "drop", "scan", "keep_some", "each"}

NodeRecords == [op : Sources \cup Stages, up : Nat, n : Int]

\* A stage pulls from an earlier node; a source starts at its first item.
WellFormed(nodes) ==
  /\ nodes \in Seq(NodeRecords)
  /\ \A n \in DOMAIN nodes :
       IF nodes[n].op \in Sources THEN nodes[n].up = 0 /\ nodes[n].n = 0 ELSE nodes[n].up \in 1..(n - 1)

-----------------------------------------------------------------------------
\* Items are tagged: raw integers, and the Outcomes some and none.
Raw(x) == <<"raw", x>>
None == <<"none", 0>>
Items == {"raw", "some", "none"} \X Int

\* The callbacks of a program.
Inc(v) == <<v[1], v[2] + 1>>
IsOdd(v) == v[2] % 2 = 1
Option(v) == IF IsOdd(v) THEN <<"some", v[2]>> ELSE None

-----------------------------------------------------------------------------
\* What a stage makes of the whole sequence of its items.

AtLeast0(k) == IF k > 0 THEN k ELSE 0

\* The items at the given positions, in order.
Kept(s, positions) ==
  LET First[i \in 0..Len(s)] ==
        IF i = 0 THEN <<>> ELSE IF i \in positions THEN Append(First[i - 1], s[i]) ELSE First[i - 1]
  IN  First[Len(s)]

\* The sums of the first items.
Totals(s) ==
  LET Total[i \in 0..Len(s)] == IF i = 0 THEN 0 ELSE Total[i - 1] + s[i][2]
  IN  Total

Applied(node, s) ==
  LET k == AtLeast0(node.n) IN
  CASE node.op = "map"    -> [i \in DOMAIN s |-> Inc(s[i])]
    [] node.op = "option" -> [i \in DOMAIN s |-> Option(s[i])]
    [] node.op = "filter" -> Kept(s, {i \in DOMAIN s : IsOdd(s[i])})
    [] node.op = "take"   -> SubSeq(s, 1, IF k < Len(s) THEN k ELSE Len(s))
    [] node.op = "drop"   -> SubSeq(s, k + 1, Len(s))
    [] node.op = "scan"   -> [i \in DOMAIN s |-> Raw(Totals(s)[i])]
    [] node.op = "keep_some" ->
         LET some == Kept(s, {i \in DOMAIN s : s[i] # None})
         IN  [i \in DOMAIN some |-> Raw(some[i][2])]
    [] OTHER -> s

-----------------------------------------------------------------------------
\* A whole pipeline.

\* The nodes from n down to its source.
Path(nodes, n) ==
  LET From[m \in 0..Len(nodes)] == IF m = 0 THEN {} ELSE {m} \cup From[nodes[m].up]
  IN  From[n]

SourceOf(nodes, n) == CHOOSE m \in Path(nodes, n) : nodes[m].up = 0

\* What n makes of the given items of its source.
Reference(nodes, n, items) ==
  LET Made[m \in 0..Len(nodes)] == IF m = 0 THEN items ELSE Applied(nodes[m], Made[nodes[m].up])
  IN  Made[n]

\* The first k items of a source: a source counts, from an offset on.
Counted(k, offset) == [i \in 1..k |-> Raw(i + offset)]
=============================================================================
