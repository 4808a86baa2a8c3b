SPECIFICATION Spec
CONSTANTS
  Hooks = {h1, h2, h3}
  Patient = FALSE
  Programs = {"once", "twice", "reader", "waiter", "begin"}
  Files = {f0, f1, f2, f3, f4}
  NoFile = none
  Opened = f0
SYMMETRY HookSymmetry
INVARIANTS
  TypeOK
  LockedSavesSurvive
  NeverHalfLocked
  LockFreed
CHECK_DEADLOCK FALSE
