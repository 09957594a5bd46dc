\* A counter of two bits that goes round twice, with deletions and failing reads.
SPECIFICATION Spec
CONSTANTS
  Mod = 4
  Thresholds = {0, 1, 2}
  MaxHw = 9
INVARIANTS CountIsExact HistoryIsExact AlertIsExact
