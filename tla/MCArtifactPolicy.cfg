\* Four cases, three of them failures in two buckets; two runs into one directory.
CONSTANTS
    Cases <- MCCases
    BucketKey <- MCBucketKey
    NoBucket = NoBucket
    Policies <- MCPolicies
    MaxRuns = 2
SPECIFICATION Spec
INVARIANTS BucketsFaithful EvidenceKept
CHECK_DEADLOCK FALSE
