SPECIFICATION Spec
CONSTANTS
  c1 = c1
  c2 = c2
  c3 = c3
  Client = {c1, c2, c3}
  Stopper = c3
  MaxPush = 3
INVARIANT QueueTypeOK
INVARIANT NoLostWakeup
INVARIANT OneOutcome
PROPERTY ExecutorSpec
CHECK_DEADLOCK FALSE
