\* Two dock() calls over two manifests whose loads share a document id, on either store,
\* with a restart and a clock that passes the first manifest's expiry.
SPECIFICATION Spec
CONSTANTS
  s1 = s1  s2 = s2  m1 = m1  m2 = m2
  p = p  q = q  i1 = i1  i2 = i2
  None = None
  Sessions = {s1, s2}
  Manifests = {m1, m2}
  Signed <- Rivals
  Partitions = {p, q}
  Ids = {i1, i2}
  Immutable = {q}
  MaxTime = 2
  MaxOps = 2
  MaxRestarts = 1
SYMMETRY Interchangeable
CHECK_DEADLOCK FALSE
INVARIANTS
  DockedOnce
  ReceiptsVerify
  ReceiptedDocumentsKept
  CommitsAreReceipted
