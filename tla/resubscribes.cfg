\* Subscribers come and go while a drop is handled.
\* The run ends when the last connection is used up.
SPECIFICATION Spec
CONSTANTS
  Keys = {k1, k2}
  Tokens = {t1, t2}
  Conns = {w1, w2, w3}
  Disturbances = {"overlap"}
SYMMETRY Symmetry
INVARIANTS
  EveryFeedResubscribed
CHECK_DEADLOCK FALSE
