SPECIFICATION FairSpec
CONSTANTS
  m1 = m1  m2 = m2  w1 = w1  w2 = w2  h1 = h1  h2 = h2  t1 = t1  t2 = t2
  c1 = c1  c2 = c2  c3 = c3  c4 = c4
  Msgs = {m1}
  Workers = {w1, w2}
  Handlers = {h1, h2}
  Ticks = {t1, t2}
  HostOf <- OneHandlerAndTickEach
  Copies = {c1, c2, c3, c4}
  MaxRetries = 1
  Faults = {"crash", "disconnect"}
  None = None
INVARIANTS NotStranded
PROPERTIES EventuallySettled
