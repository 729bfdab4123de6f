SPECIFICATION Spec
CONSTANTS
  Message = {keyed}
  Unkeyed = {}
  Delivery = {d1, d2}
  LeaseTTL = 1
  CompletedTTL = 3
PROPERTIES FinishedKeySuppressesDuplicates
