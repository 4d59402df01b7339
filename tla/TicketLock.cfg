SPECIFICATION FairSpec
CONSTANTS
    Proc = {c1, c2, c3}
    Modulus = 5
INVARIANTS TypeOK MutualExclusion TicketDiscipline
PROPERTIES ImplementsFifoLock EveryTicketServed
