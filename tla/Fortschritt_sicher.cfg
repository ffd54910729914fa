SPECIFICATION Spec
CONSTANTS
    m1 = m1  m2 = m2  p1 = p1  a1 = a1
    Sendung <- MCSendung2
    Platz <- MCPlatz1
    Anfrage <- MCAnfrage1
    GRENZE = 1  GRENZE_ANFRAGE = 2
    MaxHand = 1  MaxStoerungen = 2
SYMMETRY Symm
INVARIANTS TypeInv FertigNichtAufgegeben 
CHECK_DEADLOCK FALSE
