\* Two lanes, three slots, four requests; u2 and u3's clients stay, the others may leave.
SPECIFICATION FairSpec
CONSTANTS
  u1 = u1
  u2 = u2
  u3 = u3
  s1 = s1
  Requests <- MCRequests
  Streams <- MCStreams
  Leavers <- MCLeavers
  generation_concurrency = 2
  max_queued_requests = 3
  ChannelCapacity = 1
  MaxTokens = 1
INVARIANTS
  TypeOK
  PermitsConserved
  NoIdleLane
  QueueIsWaiting
  NeverCutOff
PROPERTIES
  IsAdmissionService
  SlotEventuallyReturned
  ClientEventuallyAnswered
\* Every request is sent at most once, so the model comes to rest.
CHECK_DEADLOCK FALSE
