------------------------------- MODULE Groups -------------------------------
(***************************************************************************)
(* The names of a session and the function groups they are bound to.       *)
(*                                                                         *)
(* A group is one shared callable.  An ordinary group holds one member per *)
(* arity, each with its own clauses; an open group holds one list of       *)
(* clauses.  Assignment copies the binding, so several names may reach one *)
(* group, and a definition extends a group only through a name the group   *)
(* was defined under.  What a clause is, its dispatch key and whether it   *)
(* takes an argument list are constants: the module Patterns gives them    *)
(* for TLC, the proofs assume nothing about them.                          *)
(***************************************************************************)
EXTENDS Naturals, Sequences

CONSTANTS
  Names,
  Docs,            \* the docstrings a definition may carry
  NoDoc,
  PreludeGroups,   \* the groups the session starts with
  Clauses,
  ArgLists,        \* the argument lists of calls
  Key(_),          \* the dispatch key of a clause
  Verdict(_, _)    \* a clause and an argument list: "yes", "no", "error" or "unsupported"

ASSUME NoDocAssumption == NoDoc \notin Docs

ASSUME VerdictAssumption ==
  \A c \in Clauses, args \in ArgLists : Verdict(c, args) \in {"yes", "no", "error", "unsupported"}

Members == [arity : Nat, clauses : Seq(Clauses)]
GroupRecords ==
  [name : Names, open : BOOLEAN, doc : Docs \cup {NoDoc}, members : Seq(Members), clauses : Seq(Clauses)]

Ordinary(n, doc, member) ==
  [name |-> n, open |-> FALSE, doc |-> doc, members |-> <<member>>, clauses |-> <<>>]
Open(n, clauses) ==
  [name |-> n, open |-> TRUE, doc |-> NoDoc, members |-> <<>>, clauses |-> clauses]

\* The prelude defines each of its names once, for one arity.
ASSUME PreludeAssumption ==
  /\ PreludeGroups \in Seq(GroupRecords)
  /\ \A i \in DOMAIN PreludeGroups : Len(PreludeGroups[i].members) = 1 /\ PreludeGroups[i].clauses = <<>>
  /\ \A i, j \in DOMAIN PreludeGroups : PreludeGroups[i].name = PreludeGroups[j].name => i = j

VARIABLES
  env,       \* the binding of each name
  groups,    \* every group made so far, in order
  answer     \* what the last statement gave

groupVars == <<env, groups, answer>>

Unbound == [kind |-> "unbound", id |-> 0]
Data == [kind |-> "data", id |-> 0]
Group(i) == [kind |-> "group", id |-> i]

\* A statement gives a value to show, Nil, a value with no rendering, a
\* runtime error, a Flow error or nothing at all.
Values == {"value", "nil", "hidden"}
Answers == Values \cup {"error", "flow", "unsupported"}

GroupsInit ==
  /\ env = [n \in Names |->
              IF \E i \in DOMAIN PreludeGroups : PreludeGroups[i].name = n
              THEN Group(CHOOSE i \in DOMAIN PreludeGroups : PreludeGroups[i].name = n)
              ELSE Unbound]
  /\ groups = PreludeGroups
  /\ answer = "value"

-----------------------------------------------------------------------------
\* Dispatch.

\* The clauses of g that a call with these arguments tries, in order.
Tried(g, args) ==
  IF g.open
  THEN g.clauses
  ELSE IF \E m \in DOMAIN g.members : g.members[m].arity = Len(args)
  THEN g.members[CHOOSE m \in DOMAIN g.members :
                   /\ g.members[m].arity = Len(args)
                   /\ \A k \in 1..(m - 1) : g.members[k].arity # Len(args)].clauses
  ELSE <<>>

\* c is the first clause that does not pass, by its pattern or its guard.
Stops(g, args, c) ==
  /\ c \in DOMAIN Tried(g, args)
  /\ Verdict(Tried(g, args)[c], args) # "no"
  /\ \A k \in 1..(c - 1) : Verdict(Tried(g, args)[k], args) = "no"

Answered(g, args) == \E c \in DOMAIN Tried(g, args) : Stops(g, args, c)

\* invoke_closure: the result of the clause chosen may be anything.
Invoke(g, args) ==
  \/ \E c \in DOMAIN Tried(g, args) :
       /\ Stops(g, args, c)
       /\ IF Verdict(Tried(g, args)[c], args) = "yes"
          THEN answer' \in Answers
          ELSE answer' = Verdict(Tried(g, args)[c], args)
  \/ ~Answered(g, args) /\ answer' = "unsupported"

-----------------------------------------------------------------------------
\* Statements.

IsGroup(n) == env[n].kind = "group"
GroupOf(n) == groups[env[n].id]

\* A definition of n extends what n is bound to.
Extends(n, open) ==
  IsGroup(n) /\ GroupOf(n).open = open /\ GroupOf(n).name = n

DocConflict(n, doc) == GroupOf(n).doc # NoDoc /\ doc # NoDoc /\ GroupOf(n).doc # doc

\* mutant: only the arities added later are compared.
DuplicateOverload(n, arity) ==
  \E m \in 2..Len(GroupOf(n).members) : GroupOf(n).members[m].arity = arity

DuplicateArity(n, arity) ==
  \E m \in DOMAIN GroupOf(n).members : GroupOf(n).members[m].arity = arity

FunctionRefused(n, arity, doc) ==
  \/ IsGroup(n) /\ GroupOf(n).open
  \/ Extends(n, FALSE) /\ (DocConflict(n, doc) \/ DuplicateArity(n, arity))

\* Bind n to a new group.
Install(n, group) ==
  /\ groups' = Append(groups, group)
  /\ env' = [env EXCEPT ![n] = Group(Len(groups) + 1)]

Extended(g, member, doc) ==
  [g EXCEPT !.members = Append(@, member), !.doc = IF doc = NoDoc THEN @ ELSE doc]

DefineFunction(n, arity, clauses, doc) ==
  LET member == [arity |-> arity, clauses |-> clauses]
  IN  \/ /\ FunctionRefused(n, arity, doc)
         /\ answer' = "error"
         /\ UNCHANGED <<env, groups>>
      \/ /\ ~FunctionRefused(n, arity, doc)
         /\ answer' = "hidden"
         /\ IF Extends(n, FALSE)
            THEN /\ groups' = [groups EXCEPT ![env[n].id] = Extended(@, member, doc)]
                 /\ UNCHANGED env
            ELSE Install(n, Ordinary(n, doc, member))

Kept(n) == IF Extends(n, TRUE) THEN GroupOf(n).clauses ELSE <<>>

\* Each new clause is compared with every earlier one.
DuplicateClause(kept, new) ==
  LET all == kept \o new
  IN  \E i, j \in DOMAIN all : i < j /\ j > Len(kept) /\ Key(all[i]) = Key(all[j])

\* mutant: the newest clauses come first.
DefineOpenInFront(n, clauses, sourceNamed) ==
  \/ /\ DuplicateClause(Kept(n), clauses)
     /\ answer' = IF sourceNamed THEN "error" ELSE "unsupported"
     /\ UNCHANGED <<env, groups>>
  \/ /\ ~DuplicateClause(Kept(n), clauses)
     /\ answer' = "hidden"
     /\ IF Extends(n, TRUE)
        THEN groups' = [groups EXCEPT ![env[n].id].clauses = clauses \o Kept(n)] /\ UNCHANGED env
        ELSE Install(n, Open(n, clauses))

\* mutant: clauses are added to the group while they are being compared.
DefineOpenInPlace(n, clauses, sourceNamed) ==
  /\ answer' = IF ~DuplicateClause(Kept(n), clauses) THEN "hidden"
               ELSE IF sourceNamed THEN "error" ELSE "unsupported"
  /\ IF Extends(n, TRUE)
     THEN groups' = [groups EXCEPT ![env[n].id].clauses = Kept(n) \o clauses] /\ UNCHANGED env
     ELSE Install(n, Open(n, clauses))

\* The error names the source; without a source name it is unsupported.
DefineOpen(n, clauses, sourceNamed) ==
  \/ /\ DuplicateClause(Kept(n), clauses)
     /\ answer' = IF sourceNamed THEN "error" ELSE "unsupported"
     /\ UNCHANGED <<env, groups>>
  \/ /\ ~DuplicateClause(Kept(n), clauses)
     /\ answer' = "hidden"
     /\ IF Extends(n, TRUE)
        THEN groups' = [groups EXCEPT ![env[n].id].clauses = Kept(n) \o clauses] /\ UNCHANGED env
        ELSE Install(n, Open(n, clauses))

\* n = from.
AssignName(n, from) ==
  /\ IF env[from] = Unbound
     THEN answer' = "error" /\ UNCHANGED env
     ELSE /\ env' = [env EXCEPT ![n] = env[from]]
          /\ answer' = IF IsGroup(from) THEN "hidden" ELSE "value"
  /\ UNCHANGED groups

\* n = an expression that gives data or fails.
AssignData(n, outcome) ==
  /\ env' = IF outcome \in Values THEN [env EXCEPT ![n] = Data] ELSE env
  /\ answer' = outcome
  /\ UNCHANGED groups

Expression(outcome) == answer' = outcome /\ UNCHANGED <<env, groups>>

CallName(n, args) ==
  /\ IF IsGroup(n) THEN Invoke(GroupOf(n), args) ELSE answer' = "unsupported"
  /\ UNCHANGED <<env, groups>>

-----------------------------------------------------------------------------
\* Properties.

GroupsTypeOK ==
  /\ groups \in Seq(GroupRecords)
  /\ env \in [Names -> {Unbound, Data} \cup {Group(i) : i \in DOMAIN groups}]
  /\ answer \in Answers

(***************************************************************************)
(* However a group grew, through whichever names and over however many     *)
(* submissions, no two members of it have one arity and no two of its      *)
(* clauses one dispatch key: a call can never depend on which came first.  *)
(***************************************************************************)
ArityUnique(g) ==
  \A i, j \in DOMAIN g.members : g.members[i].arity = g.members[j].arity => i = j

KeysUnique(g) ==
  \A i, j \in DOMAIN g.clauses : Key(g.clauses[i]) = Key(g.clauses[j]) => i = j

DefinitionsDistinct == \A i \in DOMAIN groups : ArityUnique(groups[i]) /\ KeysUnique(groups[i])

Keeps(g, h, args) ==
  \A c \in DOMAIN Tried(g, args) :
    Stops(g, args, c) => Stops(h, args, c) /\ Tried(h, args)[c] = Tried(g, args)[c]

(***************************************************************************)
(* What a group answers it answers for good: no later statement, through   *)
(* any name, makes a call of the same closure reach another clause.  A     *)
(* callback that holds the closure runs what it was given.                 *)
(***************************************************************************)
ChoiceStable ==
  [][\A i \in DOMAIN groups : groups'[i] # groups[i] =>
       \A args \in ArgLists : Keeps(groups[i], groups'[i], args)]_groupVars

(***************************************************************************)
(* A statement that fails, a definition of several clauses among them,     *)
(* leaves every name and every group as it was.                            *)
(***************************************************************************)
RejectedChangesNothing ==
  [][answer' \notin Values => UNCHANGED <<env, groups>>]_groupVars

Repeated(g, clause) == \E k \in DOMAIN g.clauses : Key(g.clauses[k]) = Key(clause)

(***************************************************************************)
(* A clause refused as a duplicate could never have been reached: whatever *)
(* it would take, an earlier clause of the group takes already.            *)
(***************************************************************************)
DuplicatesAreDead ==
  \A i \in DOMAIN groups : groups[i].open =>
    \A clause \in Clauses : Repeated(groups[i], clause) =>
      \A args \in ArgLists : Verdict(clause, args) # "no" => Answered(groups[i], args)
=============================================================================
