\* Three agents that overlap, two ports, terminations and faults.
SPECIFICATION FairSpec
CONSTANTS
    a1 = a1  a2 = a2  a3 = a3
    Agents = {a1, a2, a3}
    Port <- MCPort
    NoFile = NoFile
    Stale = Stale
    MaxTerms = 2
    MaxFaults = 1
INVARIANTS
    TypeOK
    OwnSocket
    CleanExit
PROPERTY
    AgentComesBack
