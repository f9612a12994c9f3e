SPECIFICATION Spec
CONSTANTS
  Names = {"f", "g", "sum", "main"}
  Docs = {"d1", "d2"}
  NoDoc = "none"
  PreludeGroups <- AllPrelude
  Clauses <- AllClauses
  ClauseTable <- AllTable
  Globals <- AllGlobals
  Idents <- AllIdents
  Depth = 3
  ArgLists <- AllArgs
  Key <- KeyOf
  Verdict <- VerdictOf
  Lines <- AllLines
  Sources <- AllSources
  MaxLines = 3
  Main = "main"
  Argv <- ArgvList
  NoArgs <- EmptyArgs
INVARIANTS
  DefinitionsDistinct
  DuplicatesAreDead
  NoAlphaDuplicates
  SubmittedOnce
PROPERTIES
  ChoiceStable
  RejectedChangesNothing
CHECK_DEADLOCK FALSE
