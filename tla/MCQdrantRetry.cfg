CONSTANTS
  Epoch = 2
  MaxEpoch = 1
  TOpen = 99
  Instant = {0, 2}
  NLogical = 1
  Rid = {0, 1}
  ChainOf <- MCChainOf
  Absent = Absent
  Batches <- OneOpen
  CH = 1
  Retried = {"write", "supersede", "delete"}
  MaxWrites = 3
  MaxPending = 1
SPECIFICATION Spec
INVARIANT AtMostOneVersion
