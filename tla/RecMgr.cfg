SPECIFICATION Spec
CONSTANTS
  m1 = m1
  m2 = m2
  an = an
  Key = {m1, m2, an}
  Anonymous = {an}
  Autorec = {m2}
  Event <- EventOf
  Start <- StartAt
  End <- EndAt
  From <- FromAt
  To <- ToAt
  Pid = {1, 2}
  MaxAlive = 1
  MaxTime = 5
  MaxEvents = 3
INVARIANT RecTypeOK
INVARIANT NoOrphanSubscription
PROPERTY DataKept
PROPERTY LifecycleSpec
CHECK_DEADLOCK FALSE
