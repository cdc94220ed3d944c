SPECIFICATION Spec
CONSTANTS
  Vbufs = {1, 2, 3, 4}
  VCs = {va, vb}
  None = None
  Window = 1
  MaxSends = 1
  MaxRecvs = 2
  Preserve = 2
  MaxStrays = 1
CONSTRAINT NothingLate
SYMMETRY VCSymmetry
INVARIANTS
  VbufsAreConserved
  PointersAreLive
  CreditsAddUp
  NothingStranded
  HearsThePeers
CHECK_DEADLOCK FALSE
