SPECIFICATION Spec
CONSTANTS
  WordLog2 = 4
  WordBuckets = 4
  HashBits = 17
INVARIANTS
  LastSetIsHighest
  TrailingZerosIsLowest
  EnvelopeIsLeast
  FlagsAreStates
  HashIsPolynomial
  EveryHashOccurs
