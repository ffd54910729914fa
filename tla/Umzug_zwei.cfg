SPECIFICATION StilleSpec
CONSTANTS
    desktop = desktop  server = server  Niemand = Niemand
    Instanz <- MCInstanz2
    Teile = 3  FENSTER = 2
    MaxUmzuege = 2  MaxStille = 2  MaxRisse = 1
INVARIANTS TypeInv NurGanz OhneLuecke NieVerklemmt
PROPERTIES ZielEndet
CHECK_DEADLOCK FALSE
