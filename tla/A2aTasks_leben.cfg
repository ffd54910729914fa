SPECIFICATION FairSpec
CONSTANTS
    l1 = l1  l2 = l2  f1 = f1
    Laeufer <- MCLaeufer2
    Firma <- MCFirma1
    ABSTAENDE = 1
    MaxAdressen = 2  MaxAbstuerze = 1  MaxOeffnungen = 1
INVARIANTS TypeInv FaelligBleibt
PROPERTIES EndgueltigOhneWettlauf TaskEndet PushEndet
CHECK_DEADLOCK FALSE
