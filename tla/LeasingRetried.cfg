SPECIFICATION MCSpec
CONSTANTS
  Target = {t1, t2}
  Probe = {p1}
  Network = {n1, n2, n3}
  Watched = {n3}
  Asn = {1, 2}
  Quarantined = {2}
  ScreenReviewed = {}
  Prefix = {"p", "q"}
  Originates <- MCOriginates
  Reviewed <- MCReviewed
  None = None
INVARIANTS
  FailedIsRetried
