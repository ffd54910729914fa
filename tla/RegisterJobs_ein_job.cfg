SPECIFICATION Spec
CONSTANTS
    w1 = w1
    w2 = w2
    Niemand = Niemand
    Jobs <- MCJobs1
    Front <- MCKeine
    Worker <- MCWorker2
    Sterblich <- MCWorker2
    Kann <- MCKannAlles
    MaxVersuche = 2
    MaxWaisen = 1
SYMMETRY Symmetrie
INVARIANTS
    TypeInv
    ErledigtIstGeschrieben
    AufgegebenErstNachAllenVersuchen
PROPERTIES
    WiedervergabeNurNachAblauf
    FuehrtBuch
