\* One key and three clients; leases of two instants over four.
SPECIFICATION Spec
CONSTANTS
  None = None
  Clients = {c1, c2, c3}
  OwnerId <- OwnId
  Keys = {1}
  Ttl = 2
  MaxTime = 4
SYMMETRY ClientSymmetry
INVARIANTS MutualExclusion
