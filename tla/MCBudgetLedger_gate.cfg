SPECIFICATION Spec
CONSTANTS
  s1 = s1
  s2 = s2
  chat = chat
  Slots <- MCSlots
  Unchecked <- MCUnchecked
  MaxHour = 2
  DayOf <- MCDayOf
  Costs = {0, 2}
  MaxCost = 2
  DailyUsd = 4
  HourlyUsd = 3
  DowngradeUsd = 2
  MaxArrivals = 5
  MaxRestarts = 1
SYMMETRY
  SlotSymmetry
INVARIANTS
  SpendCounted
  LedgerIsSpend
  OvershootBounded
PROPERTIES
  BlockedIffSpent
  NoDowngradeMissed
CHECK_DEADLOCK FALSE
