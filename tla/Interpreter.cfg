SPECIFICATION Spec
CONSTANTS
  NaN = NaN
  PtrWidth = 4
  Instrs <- MCInstrs
  ByteWidth = 2
  TLSAddrs = {0, 1, 2}
  PtrBytes = 2
  MaxAccesses = 4
INVARIANTS
    ValuesExact
    FoldingExact
    TLSCoherent
