------------------------------ MODULE Dispatch ------------------------------
(***************************************************************************)
(* A session whose clauses are those of Patterns: what the groups of the   *)
(* session take for a key and for a verdict is what the dispatch key and   *)
(* the matching of each clause give.                                       *)
(***************************************************************************)
EXTENDS Session, Patterns

CONSTANTS
  ClauseTable,   \* the pattern and the guard of each clause
  Globals        \* the bindings around the clauses

ASSUME DispatchAssumption ==
  /\ ClauseTable \in [Clauses -> ClauseRecords]
  /\ ArgLists \subseteq Seq(Subjects)
  /\ Globals \in Bindings
  /\ \A c \in Clauses : Key(c) = ClauseKey(ClauseTable[c])
  /\ \A c \in Clauses, args \in ArgLists : Verdict(c, args) = Takes(ClauseTable[c], args, Globals)

Alike == [c \in Clauses |-> {d \in Clauses : SameUpToNames(ClauseTable[c], ClauseTable[d])}]

(***************************************************************************)
(* No open group ever holds two clauses that differ only in the names they *)
(* bind and the spelling of their literals.                                *)
(***************************************************************************)
NoAlphaDuplicates ==
  \A i \in DOMAIN groups : \A j, k \in DOMAIN groups[i].clauses :
    groups[i].clauses[k] \in Alike[groups[i].clauses[j]] => j = k
=============================================================================
