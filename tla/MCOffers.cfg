\* Two publications of a quote, or a sample and its replacements, over three days.
SPECIFICATION Spec
CONSTANTS
  Shops = {s1, s2}
  Prices = {1, 2}
  CartIds = {c1, c2}
  NoShop = NoShop  NoCart = NoCart
  MaxOptions = 3
  Validity = 1
  HoldDays = {1, 2}
  MaxTime = 3
  MaxPublications = 2
  MaxDrafts = 3
SYMMETRY Interchangeable
INVARIANTS QuoteOrdersKeepTheOffer HeldPricesAreEarned SamplesAreUsedOnce
\* A quote may be ordered or cancelled on the last day.
CHECK_DEADLOCK FALSE
