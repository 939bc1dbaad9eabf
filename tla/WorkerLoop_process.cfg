CONSTANTS
    MaxConcurrentJobs = 3
    MaxArrivals = 6
SPECIFICATION FairSpec
INVARIANTS
    TypeOK
    TasksBounded
    NoIdleSlot
PROPERTY QueueDrains
