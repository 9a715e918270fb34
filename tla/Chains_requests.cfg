SPECIFICATION BoundedSpec
CONSTANTS
  d1 = d1
  d2 = d2
  c1 = c1
  c2 = c2
  s1 = s1
  s2 = s2
  t1 = t1
  t2 = t2
  Docs = {d1, d2}
  Chains = {c1, c2}
  Roles = {"order", "invoice"}
  Suppliers = {s1, s2}
  Txns = {t1, t2}
  NoDoc = NoDoc
  NoRole = NoRole
  NoSupplier = NoSupplier
SYMMETRY Symmetry
CHECK_DEADLOCK FALSE
VIEW View
INVARIANTS
  OneLink
  PrimariesAreLinked
  SuppliersAgree
  AnalysesAreOwn
PROPERTY OnlyDetachmentUnlinks
