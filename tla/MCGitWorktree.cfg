CONSTANTS
  j1 = j1
  j2 = j2
  j3 = j3
  p1 = p1
  p2 = p2
  f1 = f1
  f2 = f2
  f3 = f3
  Nothing = Nothing
  Jobs = {j1, j2, j3}
  Plans = {p1, p2}
  Files = {f1, f2, f3}
  PlanOf <- SharedPlan
  FilesOf <- Packages
  DirOf <- Directory
  Workers = 2
  MaxCrashes = 1
SPECIFICATION Spec
INVARIANTS OwnPackages NothingElse
CHECK_DEADLOCK FALSE
