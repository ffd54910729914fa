SPECIFICATION FairSpec
CONSTANTS
    m1 = m1  m2 = m2  a1 = a1  a2 = a2  b1 = b1  l1 = l1
    Mitglied <- MCEin
    Sitz <- MCSitz  Plan <- MCPlan  PlanVon <- MCPlanVon  Rang <- MCRang
    Lauf <- MCLauf  Cron = Cron  Niemand = Niemand  Hand <- MCHand
    Doppelt = TRUE  MaxWechsel = 0  MaxStoerungen = 1
INVARIANTS TypeInv BelegtLaeuft
PROPERTIES TransaktionEndet
CHECK_DEADLOCK FALSE
