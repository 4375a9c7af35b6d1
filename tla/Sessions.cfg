CONSTANTS
  Tokens = {t1, t2, t3}
  NoToken = none
  ResetTokens = {k1}
  Browsers = {b1, b2}
  Workers = {w1, w2}
  First = w1
  Only = b1
  Grace = 1
  MaxNow = 2
SYMMETRY Alike
SPECIFICATION MCSpec
INVARIANTS TypeOK ReplacedIsRevoked NoSessionLost RotationIsExactWhenSerial
PROPERTY NoFalseAlarmWhenSerial
