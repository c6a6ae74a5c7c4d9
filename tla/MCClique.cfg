CONSTANTS
  A = A  B = B  C = C  D = D
  Addresses = {Zero, A, B, C}
  Zero = Zero
  Genesis = {A, B}
  Epoch = 6
  Word = 1024
  MaxNumber = 8
  None = None
SPECIFICATION Spec
INVARIANTS TallyExact SealAgrees QuorumToSeal
PROPERTY MajorityRules
CHECK_DEADLOCK FALSE
