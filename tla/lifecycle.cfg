SPECIFICATION FairSpec
CONSTANT MaxThreads = 3
INVARIANTS TypeOK ThreadsAccountedFor OnlyToldThreadsEnd
PROPERTIES StopEndsAll KeepsPolling
