CONSTANTS
  Zero = Zero
  Kernel = 2
  Dilation = 2
  NumSpec = 1
  Bounds <- MCBounds
  MaxPadding = 2
SPECIFICATION Spec
INVARIANTS
  OutputIsPerRequest
  StateIsPerRequest
  PaddingIsZero
