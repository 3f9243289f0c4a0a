\* Four sessions: the second is the first that can be in mode 3, and what it
\* leaves behind meets the fourth.  Up to two packets wait for their
\* acknowledgement.  The process may end.
SPECIFICATION Spec
CONSTANTS
  Text <- MCText
  MaxEncoder = 4
  MaxAck = 2
INVARIANTS
  UsedEncoderWhole
  FreedOnce
  DecoderFits
PROPERTIES
  MainReturns
  Exits
CHECK_DEADLOCK FALSE
