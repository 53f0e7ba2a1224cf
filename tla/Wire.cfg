SPECIFICATION Spec
CONSTANTS
  Format <- MCFormat
  JsonForgets <- MCJsonForgets
  CopiedWhole <- MCCopiedWhole
  MaxFields = 2
  MaxFaulty = 1
CHECK_DEADLOCK FALSE
INVARIANTS
  TypeOK
  SizeMatches
  RoundTrip
  DamageRejected
  HonestAccepted
  DeprecatedKept
  JsonRoundTrip
  NothingInvented
PROPERTIES DecodingEnds 
