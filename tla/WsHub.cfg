SPECIFICATION FairSpec
CONSTANTS
  w1 = w1  w2 = w2  e1 = e1  e2 = e2  e3 = e3 
  Client = {w1, w2}
  Sender = {e1, e2, e3}
  None = None
INVARIANTS HubInv GaplessDelivery 
PROPERTIES EventsPass LostClientIsForgotten
CHECK_DEADLOCK FALSE
