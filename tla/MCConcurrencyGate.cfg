\* Four calls, one slot as in production, two places in the queue.
CONSTANTS
  c1 = c1
  c2 = c2
  c3 = c3
  c4 = c4
  Calls <- FourCalls
  MaxActive = 1
  MaxQueue = 2
SPECIFICATION FairSpec
INVARIANT QueueHonest
PROPERTIES NoOvertaking EveryCallAnswered
