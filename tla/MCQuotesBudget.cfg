SPECIFICATION Spec
CONSTANTS
  None = None
  s1 = s1
  s2 = s2
  a1 = a1
  a2 = a2
  b1 = b1
  g1 = g1
  g2 = g2
  h1 = h1
  f1 = f1
  f2 = f2
  k1 = k1
  Sesion <- Sesiones
  Acto <- Actos
  ActosFicha <- Fichas
  Captura <- Capturas
  Heredado = h1
  Propuesta <- Propuestas
  Archivo <- Archivos
  ClavePdf <- Claves
  MaxVersion = 2
  MaxEventos = 5
SYMMETRY Symmetry
PROPERTY
  AcceptedBudgetKept
CHECK_DEADLOCK FALSE
