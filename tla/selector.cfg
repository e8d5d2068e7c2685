SPECIFICATION FairSpec
CONSTANTS
    h1 = h1
    h2 = h2
    Hosts = {h1, h2}
    prefer = h1
    Callers = {c1, c2}
INVARIANTS TypeOK SelectedWell StartedHasHost
PROPERTY RemovedHostAbandoned
