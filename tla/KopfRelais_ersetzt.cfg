SPECIFICATION Spec
CONSTANTS
    i1 = i1  i2 = i2  k1 = k1  k2 = k2  k3 = k3  c1 = c1
    Keine = Keine
    Instanz <- MCEine
    Server <- MCOhne
    Verb <- MCVerb2
    Aufruf <- MCOhne
    MaxRisse = 1
    MaxStopps = 0
PROPERTY ErsetztIstErreichbar
CHECK_DEADLOCK FALSE
