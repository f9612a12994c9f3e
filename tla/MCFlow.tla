------------------------------- MODULE MCFlow -------------------------------
(* Programs over one chain of stages, with a sibling of one of its nodes and *)
(* a second Flow over stdin.                                                 *)
EXTENDS Flow

CONSTANTS ChainLength, Counts

Node(op, up, n) == [op |-> op, up |-> up, n |-> n]

Plain == Stages \ {"take", "drop"}
StageChoices == (Plain \X {0}) \cup ({"take", "drop"} \X Counts)
Chains == UNION {[1..k -> StageChoices] : k \in 0..ChainLength}

\* Node 1 is the source, i + 1 the i-th stage, then the sibling and the
\* second Flow over stdin.
NodesFor(source, chain, branch) ==
  <<Node(source, 0, 0)>>
    \o [i \in DOMAIN chain |-> Node(chain[i][1], i, chain[i][2])]
    \o <<Node("take", branch, 1), Node("stdin", 0, 0)>>

\* An unbounded source needs a take at the end of the chain.
Bounded(source, chain) ==
  source = "evolve" => chain # <<>> /\ chain[Len(chain)][1] = "take"

\* The chain and its sibling in both orders, or the chain twice; then what is
\* left of stdin.
TerminalsFor(last) == {<<last, last + 1, last + 2>>, <<last + 1, last, last + 2>>, <<last, last, last + 2>>}

AllPrograms ==
  {[nodes |-> NodesFor(source, chain, branch), terminals |-> ts] :
     <<source, chain, branch, ts>> \in
       UNION {{source} \X {chain} \X (1..(Len(chain) + 1)) \X TerminalsFor(Len(chain) + 1) :
                <<source, chain>> \in {sc \in Sources \X Chains : Bounded(sc[1], sc[2])}}}
=============================================================================
