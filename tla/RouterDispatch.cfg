\* The router implements WorkflowDispatch, what it stores is complete and every
\* call ends; templates of other shapes.  No symmetry, which liveness checking does not allow.
SPECIFICATION FairSpec
CONSTANTS
    s1 = s1
    i1 = i1
    i2 = i2
    Calls = {c1, c2}
    Keys <- MCKeys
    StepIds <- MCStepIds
    Instances <- MCInstances
    Catalog <- OtherCatalog
    MaxSteps = 2
    MaxLostReplies = 1
    None = None
INVARIANT StoredInstanceIsComplete
PROPERTIES
    ImplementsDispatch
    EveryCallEnds
