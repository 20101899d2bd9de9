SPECIFICATION Spec
CONSTANTS
  Pages = {p1, p2}
  MaxCalls = 2
SYMMETRY Symmetry
INVARIANTS
  OnlyGrantedWrites
  ReportsHold
PROPERTY
  NoUnaskedOverwrite
