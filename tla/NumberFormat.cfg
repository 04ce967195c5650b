SPECIFICATION Spec
CONSTANTS
  IntBits = 16
  MaxDigits <- MCMaxDigits
  Samples <- MCSamples
  Arrays <- MCArrays
INVARIANTS PrintsValue
