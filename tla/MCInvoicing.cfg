SPECIFICATION InvoicingSpec
CONSTANTS
  c1 = c1
  c2 = c2
  x1 = x1
  i1 = i1
  p1 = p1
  p2 = p2
  f1 = f1
  f2 = f2
  s1 = s1
  s2 = s2
  None = None
  Cfdi <- MCCfdi
  Manual <- MCManual
  Ingreso <- MCIngreso
  Pago <- MCPago
  File <- MCFile
  Amount <- MCAmount
  Session <- MCSession
  Metodo <- MCMetodo
  MaxVersions = 1
  MaxCfdi = 2
INVARIANTS
  AccountsFollowPayments
  ReservedWithinIncome
  CommittedKeepsFiles
SYMMETRY MCSymmetry
CHECK_DEADLOCK FALSE
