CONSTANTS
  Request = {r1, r2}
  Token = {eos, a, b}
  Eos = eos
  NgramSize = 3
  MaxReqs = 2
  MaxTokens = 3
  MaxStream = 3
SPECIFICATION Spec
INVARIANT TypeOK
PROPERTY ImplementsNgramStream
