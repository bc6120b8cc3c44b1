SPECIFICATION Spec
CONSTANTS
  MaxPort = 11
  PortLength = 2
  MaxU64 = 3599
  Wide = {"wide"}
  Alphabet <- MCAlphabet
  MaxLength = 6
INVARIANTS
  TypeOK
  KeyTells
  NeverAFlag
  BracketsReadBack
  DisplayReadsBack
  DurationsAreExact
\* A text ends somewhere.
CHECK_DEADLOCK FALSE
