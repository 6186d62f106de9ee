\* Two partitions, two threads of one process and one of another, both kinds of
\* store, two adapter calls in any interleaving.
SPECIFICATION Spec
CONSTANTS
  p1 = p1
  p2 = p2
  t1 = t1
  t2 = t2
  t3 = t3
  k1 = k1
  k2 = k2
  d1 = d1
  d2 = d2
  Processes = {p1, p2}
  Threads = {t1, t2, t3}
  ProcessOf <- MCProcessOf
  Partitions = {k1, k2}
  NRegimes = 2
  Registrations <- MCRegistrations
  DocIds = {d1, d2}
  Batches <- MCBatches
  TopK = 1
  MaxCalls = 2
  AnyRegime = AnyRegime
  Ungated = Ungated
  Nobody = Nobody
SYMMETRY Symmetry
INVARIANTS
  RegimesApart
  BindingsHold
  BatchesAreWhole
  DestroyedIsGone
