CONSTANTS
    Configs <- MCConfigs
    Statuses <- MCStatuses
    Headers <- MCHeaders
SPECIFICATION Spec
INVARIANTS
    TypeOK
    RetriesOnlyTransient
    ResultIsLastOutcome
    DiscardedBodiesClosed
    RetriesReportedAndCapped
PROPERTY
    RefinesRetryPolicy
