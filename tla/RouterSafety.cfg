\* Two calls, a two-step template, changing definitions, crashes, failing
\* commands and one lost reply.
SPECIFICATION Spec
CONSTANTS
    s1 = s1
    i1 = i1
    i2 = i2
    Calls = {c1, c2}
    Keys <- MCKeys
    StepIds <- MCStepIds
    Instances <- MCInstances
    Catalog <- MCCatalog
    MaxSteps = 2
    MaxLostReplies = 1
    None = None
SYMMETRY Symmetric
INVARIANTS
    TypeOK
    QueuedStepsAreSaved
    FreshStepsAreTraceable
    QueueFollowsTemplate
    StoredInstanceIsComplete
    PushesAreBounded
PROPERTY GeneratedKeysAreFinal
