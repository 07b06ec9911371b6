SPECIFICATION Spec
CONSTANTS
  NumQueries = 2
  InitialWindowAge = 2
  MaxTime = 3
  MaxSubscriptions = 2
  Tasks = {t1, t2, t3}
  None = None
SYMMETRY TaskSymmetry
INVARIANT
  GeneratedTasksArePushed
