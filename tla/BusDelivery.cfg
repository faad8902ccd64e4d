\* The three buses: two publishers, two subscribers, channels of one, a lost connection.
SPECIFICATION BusesLiveSpec
CONSTANTS
  e1 = e1
  e2 = e2
  s1 = s1
  s2 = s2
  NoEvent = NoEvent
  Wants <- AllAndSome
  Events = {e1, e2}
  Subs = {s1, s2}
  Capacity = 1
  MaxDrops = 1
CHECK_DEADLOCK FALSE
INVARIANTS DeliveryIsSafe
PROPERTIES IsEventBus WireIsDelivered SubscribersAreServed
