SPECIFICATION FairSpec
CONSTANTS
    m1 = m1  m2 = m2  a1 = a1  a2 = a2  b1 = b1  l1 = l1
    Mitglied <- MCMitglied
    Sitz <- MCSitz  Plan <- MCPlan  PlanVon <- MCPlanVon  Rang <- MCRang
    Lauf <- MCLauf  Cron = Cron  Niemand = Niemand  Hand <- MCKeine
    Doppelt = FALSE  MaxWechsel = 1  MaxStoerungen = 0
INVARIANTS GetrenntStimmt KeinWarten
PROPERTIES FuehrtSitzbuch WechselWirkt
CHECK_DEADLOCK FALSE
