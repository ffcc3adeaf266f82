SPECIFICATION FairSpec
CONSTANTS
    c1 = c1
    c2 = c2
    read = read
    save = save
    watcher = watcher
    Tools <- MCTools
    DownloadTools <- MCDownloadTools
    Watcher = watcher
    Clients <- MCClients
    Wants <- MCWants
    Scripts <- MCScripts
    MaxDir = 2
INVARIANTS
    NobodyMissed
PROPERTIES
    EveryoneHears
CHECK_DEADLOCK FALSE
