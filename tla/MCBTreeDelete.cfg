SPECIFICATION TreeSpec
CONSTANTS
  UNIQUE_KEYS = TRUE
  LEAF_CAPACITY = 4
  BRANCH_CAPACITY = 4
  Keys = {1, 2, 3, 4, 5, 6, 7}
  MaxItems = 7
INVARIANTS
  SelfTest
