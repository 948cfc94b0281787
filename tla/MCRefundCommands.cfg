\* Commands of three people lost, repeated and late, up to a second attempt to pay.
SPECIFICATION Spec
CONSTANTS
  client = client  ops = ops  super = super
  Client = client
  Payers = {ops, super}
  SuperAdmin = super
  Keys = {1, 2}
  MaxVersion = 7
  MaxRevision = 2
  MaxRequests = 2
  MaxUnderway = 2
INVARIANTS RefundsReachTheClientOnce RefundsWereAskedFor
\* The request is paid, or nobody asks for more.
CHECK_DEADLOCK FALSE
