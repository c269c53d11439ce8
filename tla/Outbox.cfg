CONSTANTS
  t1 = t1
  t2 = t2
  t3 = t3
  f1 = f1
  f2 = f2
  Text = {t1, t2}
  Flush = {f1, f2}
  NoText = NoText
SPECIFICATION OutboxSpec
INVARIANTS OutboxTypeOK SentIsKept
PROPERTY QueuedIsStored
