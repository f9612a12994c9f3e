SPECIFICATION Spec
CONSTANTS
  LimbBits = 7
  ChunkDigits = 2
  FractionBits = 2
  ExponentBits = 3
  PointFrom <- MCPointFrom
  PointTo = 2
  MaxNesting = 2
  MaxExponent = 3
  Shortest <- MCShortest
  Quoted <- MCQuoted
  Operands <- MCOperands
  Binaries <- MCBinaries
  MaxCount = 12
  Specs <- MCSpecs
  Alphabets <- MCAlphabets
  MaxText <- MCMaxText
  MaxValue <- MCMaxValue
  Beginnings <- MCBeginnings
  Identifiers <- MCIdentifiers
  Integers = {"1"}
  Strings = {"'s'"}
  Dotted <- MCDotted
  MaxDepth = 2
INVARIANTS
  ParsedAsWritten
  ComputedExactly
  EqualityCoherent
  DecoderMatchesGrammar
  Utf8Exact
  JsonRoundTrip
CHECK_DEADLOCK FALSE
