CONSTANTS
  invite = invite
  info = info
  leg = leg
  Incoming <- Theirs
  Outgoing <- Ours
  Invites <- BothInvites
  Mixes <- Apart
  Timer = 2
  MaxAge = 2
  QueueMax = 1
SPECIFICATION Spec
CHECK_DEADLOCK FALSE
INVARIANTS TypeOK HandedUpOnce CancelledIsAnswered
PROPERTIES TimeoutIsLast EvictedIsSilent ReportedInTheEnd TxnsLeave
