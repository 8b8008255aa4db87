SPECIFICATION Spec
CONSTANTS
  t1 = t1
  t2 = t2
  t3 = t3
  Threads = {t1, t2, t3}
  Cap = 2
  MaxReqs = 3
CHECK_DEADLOCK FALSE
INVARIANTS SlotsMatchWaiters DeniedOnlyOnItsVerdict VerdictObeyed
PROPERTIES EveryoneReturns
