CONSTANTS
  a1 = a1
  a2 = a2
  Zero = Zero
  NumSlots = 1
  Alphabet <- OneAlphabet
  Kernel = 2
  Dilation = 2
  NumSpec = 2
  MaxModelLen = 5
  MaxChunk = 3
SPECIFICATION Spec
INVARIANTS
  TypeOK
  WindowIsEndOfStream
  EveryVerdictHasAWindow
PROPERTIES
  NullBlockUntouched
  ImplementsCausalConv
