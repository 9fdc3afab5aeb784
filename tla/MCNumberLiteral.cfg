SPECIFICATION NumberSpec
CONSTANTS
  WIDTH = 4
  MAX_EXPONENT = 5
  MaxLiteral = 4
  LiteralChars = {0, 1, 5, 6, 8, 9, 11, 14, 20, 21, 22}
CHECK_DEADLOCK FALSE
INVARIANT TooBigIsReported
