SPECIFICATION ProgramSpec
CONSTANT Programs <- MCPrograms
INVARIANTS
  NothingNeededIsDestroyed
  DestroyedOnce
  EndsClean
\* The programs end.
CHECK_DEADLOCK FALSE
