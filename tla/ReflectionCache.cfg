SPECIFICATION CacheSpec
CONSTANTS
  t1 = t1
  t2 = t2
  c1 = c1
  c2 = c2
  c3 = c3
  Undefined = Undefined
  Targets = {t1, t2}
  Calls = {c1, c2, c3}
  Ttls = {0, 2}
  MaxTime = 3
SYMMETRY Symmetric
INVARIANTS OneFetchPerTarget FailuresAreRetried AnswersAreFresh
