\* Three callers; policies and requests with and without a bound.
CONSTANTS
  t1 = t1
  t2 = t2
  t3 = t3
  Threads = {t1, t2, t3}
  Nobody = Nobody
  Ceilings = {0, 1}
  Requested = {0, 2}
  Absent = Absent
  MaxTime = 4
SPECIFICATION Spec
SYMMETRY ThreadSymmetry
INVARIANTS TypeOK TimestampMarksRun NoPileUp PolicyKept
PROPERTY IsRunGuard
