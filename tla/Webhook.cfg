SPECIFICATION FairSpec
CONSTANTS
  e1 = e1
  e2 = e2
  e3 = e3
  s1 = s1
  Event = {e1, e2, e3}
  Subscription = {s1}
  SubscriptionOf <- AllOfOne
  Created <- Seconds
  Delivery = {d1, d2}
  MaxFailures = 1
  NoEvent = NoEvent
  Unlinked = Unlinked
INVARIANTS
  TypeOK
  NewestShows
  AckedIsProcessed
PROPERTIES
  ImplementsFeed
  EventsAreProcessed
