\* Two feeds, two subscribers, three connections; drops during a recovery, drops
\* reported twice or to nobody, late reports of closes, and feeds let go before
\* their socket has opened.
\* The run ends when the last connection is used up.
SPECIFICATION Spec
CONSTANTS
  Keys = {k1, k2}
  Tokens = {t1, t2}
  Conns = {w1, w2, w3}
  Disturbances = {"again", "twice", "late", "early",
                  "unready"}
SYMMETRY Symmetry
INVARIANTS
  Covered
  OneCopy
  OnDemand
CHECK_DEADLOCK FALSE
