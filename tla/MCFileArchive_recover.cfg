SPECIFICATION Spec
CONSTANTS
  Name = {1, 2}
  Usage <- CallRecover
  MaxOps = 3
INVARIANTS FlagMeansTable
