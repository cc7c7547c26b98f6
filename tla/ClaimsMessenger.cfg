\* Two users, one business: who may message it. One of them sends by hand.
CONSTANTS
  Pitcher = {a1, a2}
  Direct = {a1}
  Unclaimed = Unclaimed
SPECIFICATION ClaimsSpec
INVARIANT OneMessenger
CHECK_DEADLOCK FALSE
