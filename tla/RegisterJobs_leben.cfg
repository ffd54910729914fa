SPECIFICATION FairSpec
CONSTANTS
    w1 = w1
    w2 = w2
    Niemand = Niemand
    Jobs <- MCJobs2
    Front <- MCFront1
    Worker <- MCWorker1
    Sterblich <- MCWorker1
    Kann <- MCKannAlles
    MaxVersuche = 2
    MaxWaisen = 0
PROPERTIES
    LeaseEndet
    FrontHungertNicht
    WorkerKommtFrei
