SPECIFICATION Spec
CONSTANTS
    Procs = {api, worker}
    Indexers = {api, worker}
    Servers = {api}
    Repos = {a, b}
    MaxChanges = 2
    MaxFaults = 1
INVARIANTS TypeOK ChangesAreKept PurgedStaysGone
PROPERTIES ChangesAreStored
