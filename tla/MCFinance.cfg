SPECIFICATION FinanceSpec
CONSTANTS
  m1 = m1
  m2 = m2
  m3 = m3
  b1 = b1
  s1 = s1
  s2 = s2
  r1 = r1
  p1 = p1
  None = None
  Movement <- MCMovement
  BankLine <- MCBankLine
  BankAmount <- MCBankAmount
  Session <- MCSession
  Amount <- MCAmount
  Drafted <- MCDrafted
  Registro <- MCRegistro
  Proposal <- MCProposal
INVARIANTS
  FinanceTypeOK
  OneActiveReversal
  BankMatchedOnce
  SettledByOneMovement
PROPERTY
  SettledStays
SYMMETRY MCSymmetry
CHECK_DEADLOCK FALSE
