SPECIFICATION BulkSpec
CONSTANTS
  m1 = m1  m2 = m2  w1 = w1  w2 = w2  h1 = h1  h2 = h2  t1 = t1  c1 = c1  c2 = c2  c3 = c3  b1 = b1
  Msgs = {m1, m2}
  Workers = {w1, w2}
  Handlers = {h1, h2}
  Ticks = {t1}
  HostOf <- OneOfEach
  Copies = {c1, c2, c3}
  MaxRetries = 1
  Faults = {"crash"}
  None = None
  Batches = {b1}
  BatchOf <- OneBatch
  Chunk = 1
  ReadFaults = TRUE
SYMMETRY Symmetry
INVARIANTS CompletedIsSettled OpenIsAttended
PROPERTIES ImplementsLifecycle
CHECK_DEADLOCK FALSE
