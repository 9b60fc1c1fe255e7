SPECIFICATION Spec
CONSTANTS
  r1 = r1  r2 = r2  k1 = k1  k2 = k2  k3 = k3  p1 = p1  v1 = v1  v2 = v2  d1 = d1  d2 = d2
  Areas = {"keys", "catalog", "webhooks"}
  Clients = {r1, r2}
  Keys = {k1, k2, k3}
  Accounts = {p1}
  Values = {v1, v2}
  Digests = {d1, d2}
  MaxRotations = 3
  Faults = {"db"}
  None = None
SYMMETRY Symmetry
INVARIANTS KeysRemain SyncConverges SnapshotIsKnown
