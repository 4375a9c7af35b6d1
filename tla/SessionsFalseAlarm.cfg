CONSTANTS
  Tokens = {t1, t2, t3}
  NoToken = none
  ResetTokens = {k1}
  Browsers = {b1}
  Workers = {w1, w2}
  Grace = 1
  MaxNow = 2
SPECIFICATION Spec
PROPERTY NoFalseAlarm
