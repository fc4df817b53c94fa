\* Two jobs contend for one semaphore and one thread; one outage.
CONSTANTS
    Jobs = {j1, j2}
    NoJob = NoJob
    Uploads <- FourUploads
    MaxOutages = 1
SPECIFICATION Spec
SYMMETRY Symmetry
INVARIANTS
    PendingIsRunnable
    OneRunningRow
    
    PurgeClearsRoot
    InputStaysOnDisk
    ExecutorServesHolder
    StagingReclaimed
PROPERTY
    ImplementsLifecycle
\* An idle server waits for requests.
CHECK_DEADLOCK FALSE
