CONSTANTS
  Calls = {c1}
  Exts = {e1, e2}
  Local = {e1}
  NoOffer = NoOffer
  MaxPolls = 2
  MaxMissed = 1
SPECIFICATION Spec
INVARIANTS NoWaiterLost AskedOnce
PROPERTIES PollsAnswered ScreenClears
CHECK_DEADLOCK FALSE
