CONSTANTS
  w1 = w1
  w2 = w2
  t1 = t1
  t2 = t2
  m1 = m1
  None = None
  Workers = {w1, w2}
  NRLUASTATES = 2
  Tables = {t1, t2}
  Mails = {m1}
  Jobs = 1
  MaxOps = 3
  MaxShare = 2
  AllowSelfAlias = FALSE
  Checked = {"host", "callback"}
  NilLookups = 1

SPECIFICATION Spec
INVARIANT RefBalanced
PROPERTY PoolProgress MailReleased
