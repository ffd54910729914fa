SPECIFICATION Spec
CONSTANTS
    agent = agent  radar = radar  profil = profil
    Name <- MCName3
    Gebunden <- MCGebunden
    MaxStoerungen = 2
SYMMETRY Symmetrie
INVARIANTS TypeInv PaketNichtVerloren UngestoertGanz
