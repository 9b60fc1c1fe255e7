SPECIFICATION FairSpec
CONSTANTS
  r1 = r1  r2 = r2  n1 = n1  n2 = n2  f1 = f1  f2 = f2
  s1 = s1  s2 = s2  x1 = x1  x2 = x2
  Areas = {"templates", "editor", "batch", "logs", "configuration"}
  Clients = {r1, r2}
  MaxIds = 2
  Names = {n1, n2}
  Files = {f1, f2}
  Slug <- TwoFiles
  Statuses = {s1, s2}
  Recipients = {x1, x2}
  AnyStatus = s1
  NoRecipient = x1
  Slots = {1, 2}
  Faults = {"db", "storage", "late"}
  None = None
  a1 = a1  b1 = b1  t1 = t1  t2 = t2  w1 = w1  w2 = w2  u1 = u1  u2 = u2
  Accounts <- OneAccount
  Buckets <- OneBucket
  Templates <- TwoTemplates
  BucketOf <- Where
  NoBucket = NoBucket
  Starters = {w1, w2}
  Operators = {u1}
INVARIANTS StartedIsSeeded RowsKeepContent EditorKeepsContent
PROPERTIES CompletionShown LogsConverge
CHECK_DEADLOCK FALSE
