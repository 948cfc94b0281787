\* A basket and a single order compete for an ordinary and a covering voucher.
SPECIFICATION FairSpec
CONSTANTS
  c1 = c1  c2 = c2  g1 = g1  g2 = g2  g3 = g3
  Carts = {c1, c2}
  GroupsOf <- MCGroupsOf
  Vouchers = {v1, v2}
  Covering = {v2}
  Rewards = {v2}
  Nothing = Nothing
INVARIANTS VouchersFundOnce DiscountsAreFunded GroupsMoveTogether
PROPERTIES SubmittedPromisesHold SubmittedPromisesEnd
\* Everything may be refunded and the campaign over.
CHECK_DEADLOCK FALSE
