SPECIFICATION Spec
CONSTANTS
    i1 = i1  i2 = i2  k1 = k1  k2 = k2  k3 = k3  c1 = c1
    Keine = Keine
    Instanz <- MCZwei
    Server <- MCEine
    Verb <- MCVerb3
    Aufruf <- MCAufruf
    MaxRisse = 1
    MaxStopps = 1
SYMMETRY Symmetrie
INVARIANTS TypeInv AufrufNurBeiKopf ListeVollstaendig
PROPERTY NurMitEigenemEnde
CHECK_DEADLOCK FALSE
