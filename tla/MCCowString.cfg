SPECIFICATION Spec
CONSTANTS
  t1 = t1
  t2 = t2
  a1 = a1
  a2 = a2
  b1 = b1
  d = d
  Nobody = Nobody
  Null = Null
  Threads = {t1, t2}
  Strings = {a1, a2, b1, d}
  Owner <- TheOwners
  Blocks = {m1, m2, m3, m4, m5, m6}
  Texts = {x, y}
  MaxThrows = 1
SYMMETRY BlockSymmetry
INVARIANTS BlocksHeld CountsExact WriterAlone
PROPERTY ValueSemantics
