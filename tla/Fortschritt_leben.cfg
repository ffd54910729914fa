SPECIFICATION FairSpec
CONSTANTS
    m1 = m1  m2 = m2  p1 = p1  a1 = a1
    Sendung <- MCSendung1
    Platz <- MCPlatz1
    Anfrage <- MCAnfrage1
    GRENZE = 1  GRENZE_ANFRAGE = 2
    MaxHand = 0  MaxStoerungen = 1
PROPERTIES NieEwigGelb NichtVergessen ToterUpstreamGibtAuf
CHECK_DEADLOCK FALSE
