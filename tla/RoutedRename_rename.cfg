SPECIFICATION Spec
CONSTANTS
  a = a
  b = b
  new = new
  twin = twin
  A = A
  B = B
  N = N
  c1 = c1
  c2 = c2
  Free = Free
  Call = {c1, c2}
  Op = {a, b, new, twin}
  Path = {"p1", "p2", "p3", "p4"}
  Content = {A, B, N}
  ContentOf <- MCContentOf
  Candidates <- MCCandidates
  Stored = {a, b}
  StoredAt <- MCStoredAt
  MaxActs = 4
INVARIANTS BytesKept RowsFollow NameEarned
PROPERTIES NamesSettle
CHECK_DEADLOCK FALSE
