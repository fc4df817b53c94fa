\* Two jobs, a recording and a memo, one outage, under the fairness of the host.
CONSTANTS
    Jobs = {j1, j2}
    NoJob = NoJob
    Uploads <- TwoUploads
    MaxOutages = 1
SPECIFICATION FairSpec
PROPERTIES
    EveryJobSettles
CHECK_DEADLOCK FALSE
