---------------------------- MODULE SessionProofs ----------------------------
(***************************************************************************)
(* The groups of a session stay distinct and stable, whatever the names,   *)
(* the clauses, their keys and what they take.                             *)
(***************************************************************************)
EXTENDS Session, TLAPS

\* The steps that reach the groups.
GroupsStep ==
  \/ \E s \in Statements : Execute(s)
  \/ \E args \in ArgLists : CallName(Main, args)
  \/ UNCHANGED groupVars

\* Every step of a session is, for the groups, a step of theirs.
LEMMA StepReaches == [Next]_vars => GroupsStep
<1> SUFFICES ASSUME [Next]_vars PROVE GroupsStep
  OBVIOUS
<1>1. ASSUME NEW line \in Lines, ReadLine(line) PROVE GroupsStep
  BY <1>1 DEF ReadLine, GroupsStep
<1>2. ASSUME NEW source \in Sources, ReadSource(source) PROVE GroupsStep
  BY <1>2 DEF ReadSource, GroupsStep
<1>3. CASE EndOfScript
  BY <1>3 DEF EndOfScript, GroupsStep
<1>4. CASE RunStatement
  BY <1>4 DEF RunStatement, GroupsStep
<1>5. CASE FinishSource
  <2>1. MainArgs \subseteq ArgLists
    BY MainAssumption DEF MainArgs
  <2> QED BY <1>5, <2>1 DEF FinishSource, GroupsStep
<1>6. CASE UNCHANGED vars
  BY <1>6 DEF vars, GroupsStep
<1> QED BY <1>1, <1>2, <1>3, <1>4, <1>5, <1>6 DEF Next

-----------------------------------------------------------------------------
\* Types.

Referents == {Unbound, Data} \cup {Group(i) : i \in DOMAIN groups}

\* The types at first.
LEMMA GroupsInitTyped == GroupsInit => GroupsTypeOK
<1> SUFFICES ASSUME GroupsInit PROVE GroupsTypeOK
  OBVIOUS
<1>1. groups \in Seq(GroupRecords)
  BY PreludeAssumption DEF GroupsInit
<1>2. env \in [Names -> Referents]
  <2> SUFFICES ASSUME NEW n \in Names PROVE env[n] \in Referents
    BY DEF GroupsInit
  <2>1. CASE \E i \in DOMAIN PreludeGroups : PreludeGroups[i].name = n
    <3> DEFINE p == CHOOSE i \in DOMAIN PreludeGroups : PreludeGroups[i].name = n
    <3>1. p \in DOMAIN groups
      BY <2>1 DEF GroupsInit
    <3>2. env[n] = Group(p)
      BY <2>1 DEF GroupsInit
    <3> QED BY <3>1, <3>2 DEF Referents
  <2>2. CASE ~(\E i \in DOMAIN PreludeGroups : PreludeGroups[i].name = n)
    BY <2>2 DEF GroupsInit, Referents
  <2> QED BY <2>1, <2>2
<1>3. answer \in Answers
  BY DEF GroupsInit, Answers, Values
<1> QED BY <1>1, <1>2, <1>3 DEF GroupsTypeOK, Referents

\* The fields of a group.
LEMMA GroupTyped ==
  ASSUME GroupsTypeOK, NEW i \in DOMAIN groups
  PROVE  /\ groups[i] \in GroupRecords
         /\ groups[i].members \in Seq(Members) /\ groups[i].clauses \in Seq(Clauses)
<1>1. groups[i] \in GroupRecords
  BY DEF GroupsTypeOK
<1> QED BY <1>1 DEF GroupRecords

\* A name bound to a group names one of the groups.
LEMMA GroupOfTyped ==
  ASSUME GroupsTypeOK, NEW n \in Names, IsGroup(n)
  PROVE  env[n].id \in DOMAIN groups /\ GroupOf(n) \in GroupRecords
<1>1. PICK i \in DOMAIN groups : env[n] = Group(i)
  BY DEF GroupsTypeOK, IsGroup, Unbound, Data
<1>2. env[n].id = i
  BY <1>1 DEF Group
<1> QED BY <1>1, <1>2 DEF GroupsTypeOK, GroupOf

\* A group is added and the name is bound to it.
LEMMA InstallTyped ==
  ASSUME GroupsTypeOK, NEW n \in Names, NEW g \in GroupRecords, Install(n, g)
  PROVE  groups' \in Seq(GroupRecords) /\ env' \in [Names -> Referents']
<1>1. groups \in Seq(GroupRecords)
  BY DEF GroupsTypeOK
<1>2. groups' \in Seq(GroupRecords) /\ DOMAIN groups' = 1..(Len(groups) + 1) /\ DOMAIN groups = 1..Len(groups)
  BY <1>1 DEF Install
<1>3. ASSUME NEW m \in Names PROVE env'[m] \in Referents'
  <2>1. CASE m = n
    BY <1>1, <1>2, <2>1 DEF Install, Referents, GroupsTypeOK
  <2>2. CASE m # n
    <3>1. env'[m] = env[m] /\ env[m] \in Referents
      BY <2>2 DEF Install, GroupsTypeOK, Referents
    <3> QED BY <3>1, <1>1, <1>2 DEF Referents
  <2> QED BY <2>1, <2>2
<1>4. DOMAIN env' = Names /\ env' = [m \in Names |-> env'[m]]
  BY DEF Install, GroupsTypeOK
<1> QED BY <1>2, <1>3, <1>4

\* A group is replaced by another record: the bindings stay typed.
LEMMA ReplaceTyped ==
  ASSUME GroupsTypeOK, NEW i \in DOMAIN groups, NEW g \in GroupRecords,
         groups' = [groups EXCEPT ![i] = g], UNCHANGED env
  PROVE  groups' \in Seq(GroupRecords) /\ env' \in [Names -> Referents']
<1>1. groups \in Seq(GroupRecords)
  BY DEF GroupsTypeOK
<1>2. groups' \in Seq(GroupRecords) /\ DOMAIN groups' = DOMAIN groups
  BY <1>1
<1> QED BY <1>2 DEF GroupsTypeOK, Referents

-----------------------------------------------------------------------------
\* What each statement does to the groups.

\* An ordinary group gets a member of a new arity.
Gains(i, member, doc) ==
  /\ i \in DOMAIN groups /\ ~groups[i].open
  /\ \A m \in DOMAIN groups[i].members : groups[i].members[m].arity # member.arity
  /\ groups' = [groups EXCEPT ![i] = Extended(groups[i], member, doc)]

\* An open group gets clauses of new keys.
Grows(i, new) ==
  /\ i \in DOMAIN groups /\ groups[i].open
  /\ ~DuplicateClause(groups[i].clauses, new)
  /\ groups' = [groups EXCEPT ![i].clauses = groups[i].clauses \o new]

\* A function definition changes nothing, extends a group or installs one.
LEMMA FunctionEffect ==
  ASSUME GroupsTypeOK, NEW n \in Names, NEW arity \in Nat, NEW clauses \in Seq(Clauses),
         NEW doc \in Docs \cup {NoDoc}, DefineFunction(n, arity, clauses, doc)
  PROVE  LET member == [arity |-> arity, clauses |-> clauses]
         IN  /\ answer' \in Answers
             /\ \/ UNCHANGED <<env, groups>>
                \/ Gains(env[n].id, member, doc) /\ UNCHANGED env
                \/ Install(n, Ordinary(n, doc, member))
<1> DEFINE member == [arity |-> arity, clauses |-> clauses]
<1>1. answer' \in Answers
  BY DEF DefineFunction, Answers, Values
<1>2. CASE FunctionRefused(n, arity, doc)
  BY <1>1, <1>2 DEF DefineFunction
<1>3. CASE ~FunctionRefused(n, arity, doc) /\ Extends(n, FALSE)
  <2>1. env[n].id \in DOMAIN groups /\ ~GroupOf(n).open
    BY <1>3, GroupOfTyped DEF Extends
  <2>2. \A m \in DOMAIN GroupOf(n).members : GroupOf(n).members[m].arity # member.arity
    BY <1>3 DEF FunctionRefused, DuplicateArity
  <2>3. groups' = [groups EXCEPT ![env[n].id] = Extended(groups[env[n].id], member, doc)] /\ UNCHANGED env
    BY <1>3 DEF DefineFunction
  <2>4. Gains(env[n].id, member, doc)
    BY <2>1, <2>2, <2>3 DEF Gains, GroupOf
  <2> QED BY <1>1, <2>3, <2>4
<1>4. CASE ~FunctionRefused(n, arity, doc) /\ ~Extends(n, FALSE)
  BY <1>1, <1>4 DEF DefineFunction
<1> QED BY <1>2, <1>3, <1>4

\* An open definition changes nothing, adds clauses or installs a group.
LEMMA OpenEffect ==
  ASSUME GroupsTypeOK, NEW n \in Names, NEW clauses \in Seq(Clauses), NEW named \in BOOLEAN,
         DefineOpen(n, clauses, named)
  PROVE  /\ answer' \in Answers
         /\ \/ UNCHANGED <<env, groups>>
            \/ Grows(env[n].id, clauses) /\ UNCHANGED env
            \/ Install(n, Open(n, clauses)) /\ ~DuplicateClause(<<>>, clauses)
<1>1. answer' \in Answers
  BY DEF DefineOpen, Answers, Values
<1>2. CASE DuplicateClause(Kept(n), clauses)
  BY <1>1, <1>2 DEF DefineOpen
<1>3. CASE ~DuplicateClause(Kept(n), clauses) /\ Extends(n, TRUE)
  <2>1. env[n].id \in DOMAIN groups /\ GroupOf(n).open
    BY <1>3, GroupOfTyped DEF Extends
  <2>2. Kept(n) = groups[env[n].id].clauses
    BY <1>3 DEF Kept, GroupOf
  <2>3. groups' = [groups EXCEPT ![env[n].id].clauses = Kept(n) \o clauses] /\ UNCHANGED env
    BY <1>3 DEF DefineOpen
  <2>4. Grows(env[n].id, clauses)
    BY <1>3, <2>1, <2>2, <2>3 DEF Grows, GroupOf
  <2> QED BY <1>1, <2>3, <2>4
<1>4. CASE ~DuplicateClause(Kept(n), clauses) /\ ~Extends(n, TRUE)
  <2>1. Kept(n) = <<>>
    BY <1>4 DEF Kept
  <2> QED BY <1>1, <1>4, <2>1 DEF DefineOpen
<1> QED BY <1>2, <1>3, <1>4

\* A new group is distinct: it has one member, or clauses that were compared.
Fresh(g) == g \in GroupRecords /\ ArityUnique(g) /\ KeysUnique(g)

Effect ==
  \/ UNCHANGED groups /\ env' \in [Names -> Referents]
  \/ \E i \in DOMAIN groups, member \in Members, doc \in Docs \cup {NoDoc} : Gains(i, member, doc) /\ UNCHANGED env
  \/ \E i \in DOMAIN groups, new \in Seq(Clauses) : Grows(i, new) /\ UNCHANGED env
  \/ \E n \in Names, g \in GroupRecords : Fresh(g) /\ Install(n, g)

\* A new ordinary group has one member.
LEMMA OrdinaryFresh ==
  ASSUME NEW n \in Names, NEW doc \in Docs \cup {NoDoc}, NEW member \in Members
  PROVE  Fresh(Ordinary(n, doc, member))
<1> DEFINE g == Ordinary(n, doc, member)
<1>1. g \in GroupRecords
  BY DEF Ordinary, GroupRecords
<1>2. DOMAIN g.members = {1} /\ DOMAIN g.clauses = {}
  BY DEF Ordinary
<1> QED BY <1>1, <1>2 DEF Fresh, ArityUnique, KeysUnique

\* A new open group has distinct clauses.
LEMMA OpenFresh ==
  ASSUME NEW n \in Names, NEW clauses \in Seq(Clauses), ~DuplicateClause(<<>>, clauses)
  PROVE  Fresh(Open(n, clauses))
<1> DEFINE g == Open(n, clauses)
<1>1. g \in GroupRecords
  BY DEF Open, GroupRecords
<1>2. g.clauses = clauses /\ DOMAIN g.members = {}
  BY DEF Open
<1>3. <<>> \o clauses = clauses /\ Len(<<>>) = 0 /\ DOMAIN clauses = 1..Len(clauses) /\ Len(clauses) \in Nat
  OBVIOUS
<1>4. KeysUnique(g)
  <2> SUFFICES ASSUME NEW i \in DOMAIN clauses, NEW j \in DOMAIN clauses,
                      Key(clauses[i]) = Key(clauses[j]), i # j
               PROVE FALSE
    BY <1>2 DEF KeysUnique
  <2>1. i < j \/ j < i
    BY <1>3
  <2> QED BY <2>1, <1>3 DEF DuplicateClause
<1> QED BY <1>1, <1>2, <1>4 DEF Fresh, ArityUnique

\* Where arities are distinct, the first member of an arity is the only one.
LEMMA OnlyMember ==
  ASSUME NEW g, ~g.open, g.members \in Seq(Members), ArityUnique(g),
         NEW args, NEW m \in DOMAIN g.members, g.members[m].arity = Len(args)
  PROVE  Tried(g, args) = g.members[m].clauses
<1> DEFINE First(k) == /\ g.members[k].arity = Len(args)
                       /\ \A l \in 1..(k - 1) : g.members[l].arity # Len(args)
           p == CHOOSE k \in DOMAIN g.members : First(k)
<1>1. DOMAIN g.members = 1..Len(g.members) /\ Len(g.members) \in Nat
  OBVIOUS
<1>2. First(m)
  <2> SUFFICES ASSUME NEW l \in 1..(m - 1) PROVE g.members[l].arity # Len(args)
    OBVIOUS
  <2>1. l \in DOMAIN g.members /\ l # m
    BY <1>1
  <2> QED BY <2>1 DEF ArityUnique
<1>3. p \in DOMAIN g.members /\ First(p)
  BY <1>2
<1>4. p = m
  BY <1>3 DEF ArityUnique
<1>5. Tried(g, args) = g.members[p].clauses
  BY DEF Tried
<1> QED BY <1>4, <1>5

\* What a call tries are clauses.
LEMMA TriedTyped ==
  ASSUME NEW g \in GroupRecords, ArityUnique(g), NEW args
  PROVE  Tried(g, args) \in Seq(Clauses)
<1>1. g.clauses \in Seq(Clauses) /\ g.members \in Seq(Members)
  BY DEF GroupRecords
<1>2. ASSUME NEW m \in DOMAIN g.members PROVE g.members[m].clauses \in Seq(Clauses)
  <2>1. g.members[m] \in Members
    BY <1>1, <1>2
  <2> QED BY <2>1 DEF Members
<1>3. ASSUME NEW m \in DOMAIN g.members, ~g.open, g.members[m].arity = Len(args)
      PROVE  Tried(g, args) \in Seq(Clauses)
  <2>1. Tried(g, args) = g.members[m].clauses
    BY <1>1, <1>3, OnlyMember
  <2> QED BY <1>2, <2>1
<1>4. CASE g.open \/ ~(\E m \in DOMAIN g.members : g.members[m].arity = Len(args))
  BY <1>1, <1>4 DEF Tried
<1> QED BY <1>3, <1>4

\* A call changes no definition.
LEMMA CallEffect ==
  ASSUME GroupsTypeOK, DefinitionsDistinct, NEW n \in Names, NEW args \in ArgLists, CallName(n, args)
  PROVE  answer' \in Answers /\ UNCHANGED <<env, groups>>
<1>1. CASE IsGroup(n)
  <2> DEFINE g == GroupOf(n)
  <2>1. g \in GroupRecords /\ ArityUnique(g)
    BY <1>1, GroupOfTyped DEF DefinitionsDistinct, GroupOf
  <2>2. Tried(g, args) \in Seq(Clauses)
    BY <2>1, TriedTyped
  <2>3. ASSUME NEW c \in DOMAIN Tried(g, args), Stops(g, args, c)
        PROVE  Verdict(Tried(g, args)[c], args) \in Answers \cup {"yes"}
    <3>1. Tried(g, args)[c] \in Clauses
      BY <2>2
    <3> QED BY <3>1, <2>3, VerdictAssumption DEF Stops, Answers
  <2>4. Invoke(g, args)
    BY <1>1 DEF CallName
  <2>5. answer' \in Answers
    BY <2>3, <2>4 DEF Invoke, Answers
  <2> QED BY <2>5 DEF CallName
<1>2. CASE ~IsGroup(n)
  BY <1>2 DEF CallName, Answers
<1> QED BY <1>1, <1>2

\* The effects of every step on the groups.
LEMMA EffectOf ==
  ASSUME GroupsTypeOK, DefinitionsDistinct, GroupsStep
  PROVE  answer' \in Answers /\ Effect
<1>env. env \in [Names -> Referents] /\ answer \in Answers
  BY DEF GroupsTypeOK, Referents
<1>1. ASSUME NEW n \in Names, NEW args \in ArgLists, CallName(n, args) PROVE answer' \in Answers /\ Effect
  BY <1>1, <1>env, CallEffect DEF Effect
<1>2. ASSUME NEW s \in Statements, Execute(s) PROVE answer' \in Answers /\ Effect
  <2>1. CASE s.kind = "function"
    <3> DEFINE member == [arity |-> s.arity, clauses |-> s.clauses]
    <3>1. s.name \in Names /\ s.arity \in Nat /\ s.clauses \in Seq(Clauses) /\ s.doc \in Docs \cup {NoDoc}
      BY <2>1 DEF Statements
    <3>2. DefineFunction(s.name, s.arity, s.clauses, s.doc)
      BY <1>2, <2>1 DEF Execute
    <3>3. member \in Members
      BY <3>1 DEF Members
    <3>4. /\ answer' \in Answers
          /\ \/ UNCHANGED <<env, groups>>
             \/ Gains(env[s.name].id, member, s.doc) /\ UNCHANGED env
             \/ Install(s.name, Ordinary(s.name, s.doc, member))
      BY <3>1, <3>2, FunctionEffect
    <3>5. CASE UNCHANGED <<env, groups>>
      BY <3>4, <3>5, <1>env DEF Effect
    <3>6. CASE Gains(env[s.name].id, member, s.doc) /\ UNCHANGED env
      BY <3>1, <3>3, <3>4, <3>6 DEF Effect, Gains
    <3>7. CASE Install(s.name, Ordinary(s.name, s.doc, member))
      <4>1. Fresh(Ordinary(s.name, s.doc, member))
        BY <3>1, <3>3, OrdinaryFresh
      <4> QED BY <4>1, <3>1, <3>4, <3>7 DEF Effect, Fresh
    <3> QED BY <3>4, <3>5, <3>6, <3>7
  <2>2. CASE s.kind = "open"
    <3>1. s.name \in Names /\ s.clauses \in Seq(Clauses)
      BY <2>2 DEF Statements
    <3>2. DefineOpen(s.name, s.clauses, mode = "file") /\ (mode = "file") \in BOOLEAN
      BY <1>2, <2>2 DEF Execute
    <3>3. /\ answer' \in Answers
          /\ \/ UNCHANGED <<env, groups>>
             \/ Grows(env[s.name].id, s.clauses) /\ UNCHANGED env
             \/ Install(s.name, Open(s.name, s.clauses)) /\ ~DuplicateClause(<<>>, s.clauses)
      BY <3>1, <3>2, OpenEffect
    <3>4. CASE UNCHANGED <<env, groups>>
      BY <3>3, <3>4, <1>env DEF Effect
    <3>5. CASE Grows(env[s.name].id, s.clauses) /\ UNCHANGED env
      BY <3>1, <3>3, <3>5 DEF Effect, Grows
    <3>6. CASE Install(s.name, Open(s.name, s.clauses)) /\ ~DuplicateClause(<<>>, s.clauses)
      <4>1. Fresh(Open(s.name, s.clauses))
        BY <3>1, <3>6, OpenFresh
      <4> QED BY <4>1, <3>1, <3>3, <3>6 DEF Effect, Fresh
    <3> QED BY <3>3, <3>4, <3>5, <3>6
  <2>3. CASE s.kind = "alias"
    <3>1. s.name \in Names /\ s.from \in Names /\ AssignName(s.name, s.from)
      BY <1>2, <2>3 DEF Statements, Execute
    <3>2. env[s.from] \in Referents
      BY <3>1, <1>env
    <3>3. env' \in [Names -> Referents] /\ UNCHANGED groups
      BY <3>1, <3>2, <1>env DEF AssignName
    <3>4. answer' \in Answers
      BY <3>1 DEF AssignName, Answers, Values
    <3> QED BY <3>3, <3>4 DEF Effect
  <2>4. CASE s.kind = "assign"
    <3>1. s.name \in Names /\ s.outcome \in Answers /\ AssignData(s.name, s.outcome)
      BY <1>2, <2>4 DEF Statements, Execute
    <3>2. env' \in [Names -> Referents] /\ UNCHANGED groups
      BY <3>1, <1>env DEF AssignData, Referents
    <3> QED BY <3>1, <3>2 DEF Effect, AssignData
  <2>5. CASE s.kind = "call"
    <3>1. s.name \in Names /\ s.args \in ArgLists /\ CallName(s.name, s.args)
      BY <1>2, <2>5 DEF Statements, Execute
    <3> QED BY <3>1, <1>1
  <2>6. CASE s.kind = "expression"
    <3>1. s.outcome \in Answers /\ Expression(s.outcome)
      BY <1>2, <2>6 DEF Statements, Execute
    <3> QED BY <3>1, <1>env DEF Effect, Expression
  <2> QED BY <2>1, <2>2, <2>3, <2>4, <2>5, <2>6 DEF Statements
<1>3. CASE UNCHANGED groupVars
  BY <1>3, <1>env DEF Effect, groupVars
<1> QED BY <1>1, <1>2, <1>3, MainAssumption DEF GroupsStep

-----------------------------------------------------------------------------
\* The inductive invariant: types and distinct definitions.

\* There are no duplicates at first.
LEMMA InitDistinct == GroupsInit => DefinitionsDistinct
<1> SUFFICES ASSUME GroupsInit, NEW i \in DOMAIN groups
             PROVE ArityUnique(groups[i]) /\ KeysUnique(groups[i])
  BY DEF DefinitionsDistinct
<1>1. groups[i].members \in Seq(Members) /\ Len(groups[i].members) = 1 /\ groups[i].clauses = <<>>
  BY PreludeAssumption, GroupsInitTyped, GroupTyped DEF GroupsInit
<1>2. DOMAIN groups[i].members = {1} /\ DOMAIN groups[i].clauses = {}
  BY <1>1
<1> QED BY <1>2 DEF ArityUnique, KeysUnique

\* A group that gains a member is a group.
LEMMA GainsTyped ==
  ASSUME GroupsTypeOK, NEW i \in DOMAIN groups, NEW member \in Members, NEW doc \in Docs \cup {NoDoc}
  PROVE  Extended(groups[i], member, doc) \in GroupRecords
<1>1. groups[i] \in GroupRecords /\ Append(groups[i].members, member) \in Seq(Members)
  BY GroupTyped
<1> QED BY <1>1 DEF Extended, GroupRecords

\* A group that gains clauses is a group.
LEMMA GrowsTyped ==
  ASSUME GroupsTypeOK, NEW i \in DOMAIN groups, NEW new \in Seq(Clauses)
  PROVE  [groups[i] EXCEPT !.clauses = groups[i].clauses \o new] \in GroupRecords
<1>1. groups[i] \in GroupRecords /\ groups[i].clauses \o new \in Seq(Clauses)
  BY GroupTyped
<1> QED BY <1>1 DEF GroupRecords

\* Every step keeps the types.
LEMMA NextTyped ==
  ASSUME GroupsTypeOK, DefinitionsDistinct, GroupsStep
  PROVE  GroupsTypeOK'
<1>1. answer' \in Answers /\ Effect
  BY EffectOf
<1>2. SUFFICES groups' \in Seq(GroupRecords) /\ env' \in [Names -> Referents']
  BY <1>1 DEF GroupsTypeOK, Referents
<1>3. CASE UNCHANGED groups /\ env' \in [Names -> Referents]
  BY <1>3 DEF GroupsTypeOK, Referents
<1>4. ASSUME NEW i \in DOMAIN groups, NEW member \in Members, NEW doc \in Docs \cup {NoDoc},
             Gains(i, member, doc), UNCHANGED env
      PROVE  groups' \in Seq(GroupRecords) /\ env' \in [Names -> Referents']
  <2>1. groups' = [groups EXCEPT ![i] = Extended(groups[i], member, doc)]
    BY <1>4 DEF Gains
  <2> QED BY <1>4, <2>1, GainsTyped, ReplaceTyped
<1>5. ASSUME NEW i \in DOMAIN groups, NEW new \in Seq(Clauses), Grows(i, new), UNCHANGED env
      PROVE  groups' \in Seq(GroupRecords) /\ env' \in [Names -> Referents']
  <2>1. groups' = [groups EXCEPT ![i] = [groups[i] EXCEPT !.clauses = groups[i].clauses \o new]]
    BY <1>5 DEF Grows
  <2> QED BY <1>5, <2>1, GrowsTyped, ReplaceTyped
<1>6. ASSUME NEW n \in Names, NEW g \in GroupRecords, Install(n, g)
      PROVE  groups' \in Seq(GroupRecords) /\ env' \in [Names -> Referents']
  BY <1>6, InstallTyped
<1> QED BY <1>1, <1>3, <1>4, <1>5, <1>6 DEF Effect

\* A member gained is no duplicate.
LEMMA GainsDistinct ==
  ASSUME GroupsTypeOK, DefinitionsDistinct, NEW i, NEW member \in Members, NEW doc, Gains(i, member, doc)
  PROVE  DefinitionsDistinct'
<1> DEFINE g == groups[i]
           h == Extended(g, member, doc)
<1>1. i \in DOMAIN groups /\ g \in GroupRecords /\ g.members \in Seq(Members) /\ ArityUnique(g) /\ KeysUnique(g)
  BY GroupTyped DEF Gains, DefinitionsDistinct
<1>2. h.members = Append(g.members, member) /\ h.clauses = g.clauses
  BY <1>1 DEF Extended, GroupRecords
<1>3. ArityUnique(h)
  <2>1. \A m \in DOMAIN g.members : g.members[m].arity # member.arity
    BY DEF Gains
  <2>2. /\ DOMAIN h.members = 1..(Len(g.members) + 1) /\ DOMAIN g.members = 1..Len(g.members) /\ Len(g.members) \in Nat
        /\ h.members[Len(g.members) + 1] = member
        /\ \A k \in DOMAIN g.members : h.members[k] = g.members[k]
    BY <1>1, <1>2
  <2>3. \A k \in DOMAIN h.members : k \in DOMAIN g.members \/ k = Len(g.members) + 1
    BY <2>2
  <2> QED BY <1>1, <2>1, <2>2, <2>3 DEF ArityUnique
<1>4. KeysUnique(h)
  BY <1>1, <1>2 DEF KeysUnique
<1>5. groups' = [groups EXCEPT ![i] = h]
  BY DEF Gains
<1> QED BY <1>1, <1>3, <1>4, <1>5 DEF DefinitionsDistinct

\* Clauses gained are no duplicates.
LEMMA GrowsDistinct ==
  ASSUME GroupsTypeOK, DefinitionsDistinct, NEW i, NEW new \in Seq(Clauses), Grows(i, new)
  PROVE  DefinitionsDistinct'
<1> DEFINE g == groups[i]
           h == [g EXCEPT !.clauses = g.clauses \o new]
           all == g.clauses \o new
<1>1. i \in DOMAIN groups /\ g \in GroupRecords /\ g.clauses \in Seq(Clauses) /\ ArityUnique(g) /\ KeysUnique(g)
  BY GroupTyped DEF Grows, DefinitionsDistinct
<1>2. h.members = g.members /\ h.clauses = all
  BY <1>1 DEF GroupRecords
<1>3. ArityUnique(h)
  BY <1>1, <1>2 DEF ArityUnique
<1>4. KeysUnique(h)
  <2>1. /\ DOMAIN all = 1..(Len(g.clauses) + Len(new)) /\ Len(g.clauses) \in Nat
        /\ \A l \in 1..Len(g.clauses) : l \in DOMAIN g.clauses /\ all[l] = g.clauses[l]
    BY <1>1
  <2>2. ASSUME NEW j \in DOMAIN all, NEW k \in DOMAIN all, Key(all[j]) = Key(all[k])
        PROVE  ~(j < k)
    <3> SUFFICES ASSUME j < k PROVE FALSE
      OBVIOUS
    <3>1. CASE k > Len(g.clauses)
      BY <2>2, <3>1 DEF Grows, DuplicateClause
    <3>2. CASE ~(k > Len(g.clauses))
      <4>1. j \in 1..Len(g.clauses) /\ k \in 1..Len(g.clauses)
        BY <2>1, <3>2
      <4> QED BY <1>1, <2>1, <2>2, <4>1 DEF KeysUnique
    <3> QED BY <3>1, <3>2
  <2>3. \A j, k \in DOMAIN all : j < k \/ k < j \/ j = k
    BY <2>1
  <2>4. \A j, k \in DOMAIN all : Key(all[j]) = Key(all[k]) => j = k
    <3> HIDE DEF all
    <3> QED BY <2>2, <2>3
  <2> QED BY <1>2, <2>4 DEF KeysUnique
<1>5. groups' = [groups EXCEPT ![i] = h]
  BY DEF Grows
<1> QED BY <1>1, <1>3, <1>4, <1>5 DEF DefinitionsDistinct

\* A group installed has no duplicates.
LEMMA InstallDistinct ==
  ASSUME GroupsTypeOK, DefinitionsDistinct, NEW n, NEW g, Fresh(g), Install(n, g)
  PROVE  DefinitionsDistinct'
<1>1. groups \in Seq(GroupRecords)
  BY DEF GroupsTypeOK
<1>2. ASSUME NEW i \in DOMAIN groups'
      PROVE  ArityUnique(groups'[i]) /\ KeysUnique(groups'[i])
  <2>1. CASE i \in DOMAIN groups
    BY <1>1, <2>1 DEF Install, DefinitionsDistinct
  <2>2. CASE i \notin DOMAIN groups
    <3>1. groups'[i] = g
      BY <1>1, <2>2 DEF Install
    <3> QED BY <3>1 DEF Fresh
  <2> QED BY <2>1, <2>2
<1> QED BY <1>2 DEF DefinitionsDistinct

\* Every step keeps definitions distinct.
LEMMA NextDistinct ==
  ASSUME GroupsTypeOK, DefinitionsDistinct, GroupsStep
  PROVE  DefinitionsDistinct'
<1>1. Effect
  BY EffectOf
<1>2. CASE UNCHANGED groups
  BY <1>2 DEF DefinitionsDistinct
<1>3. ASSUME NEW i, NEW member \in Members, NEW doc, Gains(i, member, doc) PROVE DefinitionsDistinct'
  BY <1>3, GainsDistinct
<1>4. ASSUME NEW i, NEW new \in Seq(Clauses), Grows(i, new) PROVE DefinitionsDistinct'
  BY <1>4, GrowsDistinct
<1>5. ASSUME NEW n, NEW g, Fresh(g), Install(n, g) PROVE DefinitionsDistinct'
  BY <1>5, InstallDistinct
<1> QED BY <1>1, <1>2, <1>3, <1>4, <1>5 DEF Effect

GroupsInv == GroupsTypeOK /\ DefinitionsDistinct

\* The inductive invariant of groups.
LEMMA GroupsInvHolds == Spec => []GroupsInv
<1>1. Init => GroupsInv
  BY GroupsInitTyped, InitDistinct DEF Init, GroupsInv
<1>2. GroupsInv /\ [Next]_vars => GroupsInv'
  BY StepReaches, NextTyped, NextDistinct DEF GroupsInv
<1> QED BY <1>1, <1>2, PTL DEF Spec

(***************************************************************************)
(* Type correctness of what definitions, assignments and calls keep:       *)
(* eval_in_environment leaves every name bound to nothing, to data or to a *)
(* group that exists.                                                      *)
(***************************************************************************)
THEOREM GroupsTypeCorrect == Spec => []GroupsTypeOK
<1>1. GroupsInv => GroupsTypeOK
  BY DEF GroupsInv
<1> QED BY <1>1, GroupsInvHolds, PTL

(***************************************************************************)
(* However a group grew, no two of its members have one arity and no two   *)
(* of its clauses one dispatch key (FuncDef and OpenFuncDef of evaluate).  *)
(***************************************************************************)
THEOREM DefinitionsDistinctHolds == Spec => []DefinitionsDistinct
<1>1. GroupsInv => DefinitionsDistinct
  BY DEF GroupsInv
<1> QED BY <1>1, GroupsInvHolds, PTL

-----------------------------------------------------------------------------
\* What a group answers it answers for good.

ChoiceKept ==
  \A i \in DOMAIN groups : groups'[i] # groups[i] =>
    \A args \in ArgLists : Keeps(groups[i], groups'[i], args)

\* A member gained changes no choice made before.
LEMMA GainsKeep ==
  ASSUME GroupsTypeOK, DefinitionsDistinct, DefinitionsDistinct',
         NEW i, NEW member \in Members, NEW doc, Gains(i, member, doc)
  PROVE  ChoiceKept
<1> DEFINE g == groups[i]
           h == Extended(g, member, doc)
<1>1. i \in DOMAIN groups /\ g \in GroupRecords /\ g.members \in Seq(Members) /\ ArityUnique(g) /\ ~g.open
  BY GroupTyped DEF Gains, DefinitionsDistinct
<1>2. groups' = [groups EXCEPT ![i] = h] /\ groups'[i] = h /\ i \in DOMAIN groups'
  BY <1>1 DEF Gains
<1>3. h.members = Append(g.members, member) /\ h.members \in Seq(Members) /\ ~h.open
  BY <1>1 DEF Extended, GroupRecords
<1>4. ArityUnique(h)
  BY <1>2 DEF DefinitionsDistinct
<1>5. ASSUME NEW args PROVE Keeps(g, h, args)
  <2>1. ASSUME NEW m \in DOMAIN g.members, g.members[m].arity = Len(args)
        PROVE  Tried(g, args) = Tried(h, args)
    <3>1. m \in DOMAIN h.members /\ h.members[m] = g.members[m]
      BY <1>1, <1>3
    <3>2. Tried(g, args) = g.members[m].clauses
      BY <1>1, <2>1, OnlyMember
    <3>3. Tried(h, args) = h.members[m].clauses
      BY <1>3, <1>4, <2>1, <3>1, OnlyMember
    <3> QED BY <3>1, <3>2, <3>3
  <2>2. CASE \E m \in DOMAIN g.members : g.members[m].arity = Len(args)
    <3>1. Tried(g, args) = Tried(h, args)
      BY <2>1, <2>2
    <3> QED BY <3>1 DEF Keeps, Stops
  <2>3. CASE ~(\E m \in DOMAIN g.members : g.members[m].arity = Len(args))
    <3>1. DOMAIN Tried(g, args) = {}
      BY <1>1, <2>3 DEF Tried
    <3> QED BY <3>1 DEF Keeps
  <2> QED BY <2>2, <2>3
<1> QED BY <1>2, <1>5 DEF ChoiceKept

\* Clauses gained change no choice made before.
LEMMA GrowsKeep ==
  ASSUME GroupsTypeOK, DefinitionsDistinct, NEW i, NEW new \in Seq(Clauses), Grows(i, new)
  PROVE  ChoiceKept
<1> DEFINE g == groups[i]
           h == [g EXCEPT !.clauses = g.clauses \o new]
<1>1. i \in DOMAIN groups /\ g \in GroupRecords /\ g.clauses \in Seq(Clauses) /\ g.open
  BY GroupTyped DEF Grows
<1>2. groups' = [groups EXCEPT ![i] = h] /\ groups'[i] = h
  BY <1>1 DEF Grows
<1>3. h.clauses = g.clauses \o new /\ h.open
  BY <1>1 DEF GroupRecords
<1>4. ASSUME NEW args PROVE Keeps(g, h, args)
  <2>1. Tried(g, args) = g.clauses /\ Tried(h, args) = g.clauses \o new
    BY <1>1, <1>3 DEF Tried
  <2>2. /\ DOMAIN g.clauses = 1..Len(g.clauses) /\ Len(g.clauses) \in Nat
        /\ \A c \in DOMAIN g.clauses : c \in DOMAIN (g.clauses \o new) /\ (g.clauses \o new)[c] = g.clauses[c]
    BY <1>1
  <2>3. \A c \in DOMAIN g.clauses : \A k \in 1..(c - 1) : k \in DOMAIN g.clauses
    BY <2>2
  <2> QED BY <2>1, <2>2, <2>3 DEF Keeps, Stops
<1> QED BY <1>2, <1>4 DEF ChoiceKept

\* A group installed changes no choice of another.
LEMMA InstallKeeps ==
  ASSUME GroupsTypeOK, NEW n, NEW g, Install(n, g)
  PROVE  ChoiceKept
<1>1. groups \in Seq(GroupRecords)
  BY DEF GroupsTypeOK
<1>2. \A i \in DOMAIN groups : groups'[i] = groups[i]
  BY <1>1 DEF Install
<1> QED BY <1>2 DEF ChoiceKept

\* Every step keeps the choices made.
LEMMA StepKeeps == GroupsInv /\ [Next]_vars => ChoiceKept
<1> SUFFICES ASSUME GroupsTypeOK, DefinitionsDistinct, GroupsStep PROVE ChoiceKept
  BY StepReaches DEF GroupsInv
<1>1. Effect /\ DefinitionsDistinct'
  BY EffectOf, NextDistinct
<1>2. CASE UNCHANGED groups
  BY <1>2 DEF ChoiceKept
<1>3. ASSUME NEW i, NEW member \in Members, NEW doc, Gains(i, member, doc) PROVE ChoiceKept
  BY <1>1, <1>3, GainsKeep
<1>4. ASSUME NEW i, NEW new \in Seq(Clauses), Grows(i, new) PROVE ChoiceKept
  BY <1>4, GrowsKeep
<1>5. ASSUME NEW n, NEW g, Install(n, g) PROVE ChoiceKept
  BY <1>5, InstallKeeps
<1> QED BY <1>1, <1>2, <1>3, <1>4, <1>5 DEF Effect

(***************************************************************************)
(* No later statement makes a call of the same closure reach another       *)
(* clause: invoke_closure tries what was there before, in the same order.  *)
(***************************************************************************)
THEOREM ChoiceStableHolds == Spec => ChoiceStable
<1>1. GroupsInv /\ [Next]_vars => [ChoiceKept]_groupVars
  BY StepKeeps
<1>2. Spec => [][ChoiceKept]_groupVars
  BY <1>1, GroupsInvHolds, PTL DEF Spec
<1> QED BY <1>2 DEF ChoiceStable, ChoiceKept

-----------------------------------------------------------------------------
\* A statement that fails changes nothing.

Unchanged == answer' \notin Values => UNCHANGED <<env, groups>>

\* A step that answers no value changes no binding and no group.
LEMMA StepRejects == [Next]_vars => [Unchanged]_groupVars
<1> SUFFICES ASSUME GroupsStep PROVE [Unchanged]_groupVars
  BY StepReaches
<1>1. ASSUME NEW s \in Statements, Execute(s) PROVE Unchanged
  <2>1. CASE s.kind = "function"
    BY <1>1, <2>1 DEF Execute, DefineFunction, Values, Unchanged
  <2>2. CASE s.kind = "open"
    BY <1>1, <2>2 DEF Execute, DefineOpen, Values, Unchanged
  <2>3. CASE s.kind = "alias"
    BY <1>1, <2>3 DEF Execute, AssignName, Values, Unchanged
  <2>4. CASE s.kind = "assign"
    BY <1>1, <2>4 DEF Execute, AssignData, Unchanged
  <2>5. CASE s.kind = "call"
    BY <1>1, <2>5 DEF Execute, CallName, Unchanged
  <2>6. CASE s.kind = "expression"
    BY <1>1, <2>6 DEF Execute, Expression, Unchanged
  <2> QED BY <2>1, <2>2, <2>3, <2>4, <2>5, <2>6 DEF Statements
<1>2. ASSUME NEW args, CallName(Main, args) PROVE Unchanged
  BY <1>2 DEF CallName, Unchanged
<1> QED BY <1>1, <1>2 DEF GroupsStep

(***************************************************************************)
(* A refused definition or a failed evaluation leaves every name and every *)
(* group as it was: the checks of evaluate come before its first change.   *)
(***************************************************************************)
THEOREM RejectedChangesNothingHolds == Spec => RejectedChangesNothing
<1>1. Spec => [][Unchanged]_groupVars
  BY StepRejects, PTL DEF Spec
<1> QED BY <1>1 DEF RejectedChangesNothing, Unchanged

-----------------------------------------------------------------------------
\* Every phrase is submitted once and every submission answered once.

\* A program that runs is the one submission not yet answered.
ScriptInv ==
  mode = "repl" =>
    /\ pending \in Seq(Phrases)
    /\ submitted \in Nat /\ phrases = submitted + Len(pending)
    /\ echoes \in Nat /\ errors \in Nat /\ phase \in {"reading", "running", "over"}
    /\ phase = "reading" => echoes + errors = programs
    /\ phase = "running" => echoes + errors + 1 = programs

\* The invariant of a script at first.
LEMMA ScriptInit == Init => ScriptInv
<1> SUFFICES ASSUME Init PROVE ScriptInv
  OBVIOUS
<1>1. pending = <<>> /\ Len(<<>>) = 0 /\ <<>> \in Seq(Phrases)
  BY DEF Init, SessionInit
<1> QED BY <1>1 DEF Init, SessionInit, ScriptInv

\* Every step keeps the invariant of a script.
LEMMA ScriptNext == ScriptInv /\ [Next]_vars => ScriptInv'
<1> SUFFICES ASSUME ScriptInv, [Next]_vars, mode = "repl", mode' = mode PROVE ScriptInv'
  <2>1. [Next]_vars => mode' = mode
    BY DEF Next, vars, sessionVars, ReadLine, ReadSource, EndOfScript, RunStatement, FinishSource
  <2> QED BY <2>1 DEF ScriptInv
<1>1. ASSUME NEW line \in Lines, ReadLine(line) PROVE ScriptInv'
  <2> DEFINE text == pending \o line
  <2>1. /\ text \in Seq(Phrases) /\ Len(text) = Len(pending) + Len(line)
        /\ Len(pending) \in Nat /\ Len(line) \in Nat /\ Len(<<>>) = 0 /\ <<>> \in Seq(Phrases)
    BY LinesAssumption DEF ScriptInv
  <2>2. /\ submitted \in Nat /\ phrases = submitted + Len(pending)
        /\ echoes \in Nat /\ errors \in Nat /\ echoes + errors = programs
        /\ phrases' = phrases + Len(line) /\ echoes' = echoes /\ errors' = errors /\ phase = "reading"
    BY <1>1 DEF ReadLine, ScriptInv
  <2> HIDE DEF text
  <2>3. CASE Parses(text)
    <3>1. /\ pending' = <<>> /\ submitted' = submitted + Len(text)
          /\ \/ phase' = "reading" /\ programs' = programs
             \/ phase' = "running" /\ programs' = programs + 1
      BY <1>1, <2>3 DEF ReadLine, text
    <3> QED BY <2>1, <2>2, <3>1 DEF ScriptInv
  <2>4. CASE ~Parses(text)
    <3>1. pending' = text /\ UNCHANGED <<submitted, phase, programs>>
      BY <1>1, <2>4 DEF ReadLine, text
    <3> QED BY <2>1, <2>2, <3>1 DEF ScriptInv
  <2> QED BY <2>3, <2>4
<1>2. CASE EndOfScript
  BY <1>2 DEF EndOfScript, ScriptInv
<1>3. CASE RunStatement
  <2>1. AfterInScript /\ UNCHANGED <<pending, phrases, submitted, programs>> /\ phase = "running"
    BY <1>3 DEF RunStatement
  <2>2. echoes \in Nat /\ errors \in Nat /\ echoes + errors + 1 = programs
    BY <2>1 DEF ScriptInv
  <2>3. /\ echoes' \in Nat /\ errors' \in Nat
        /\ \/ phase' = "over"
           \/ phase' = "running" /\ echoes' + errors' = echoes + errors
           \/ phase' = "reading" /\ echoes' + errors' = echoes + errors + 1
    BY <2>1, <2>2 DEF AfterInScript, Over, Resume
  <2> QED BY <2>1, <2>2, <2>3 DEF ScriptInv
<1>4. CASE UNCHANGED vars
  BY <1>4 DEF vars, sessionVars, ScriptInv
<1>5. ASSUME NEW source \in Sources PROVE ~ReadSource(source)
  BY DEF ReadSource
<1>6. ~FinishSource
  BY DEF FinishSource, ScriptInv
<1> QED BY <1>1, <1>2, <1>3, <1>4, <1>5, <1>6 DEF Next

(***************************************************************************)
(* Whatever the parser accepts, try_repl submits every phrase once and     *)
(* answers every submission once before it reads on.                       *)
(***************************************************************************)
THEOREM SubmittedOnceHolds == Spec => []SubmittedOnce
<1>1. ScriptInv => SubmittedOnce
  BY DEF ScriptInv, SubmittedOnce
<1> QED BY <1>1, ScriptInit, ScriptNext, PTL DEF Spec
=============================================================================
