SPECIFICATION AllSpec
CONSTANTS
  Commands = 2
  DrawSlots = 1
  Addrs = {a1}
  Budgets <- MCBudgets
  Labels = {l1}
  Rings = {ring}
  Gfx = gfx
  MaxBatch = 1
  MaxIssued = 2
  MaxWaits = 2
INVARIANT WriteRemembered
