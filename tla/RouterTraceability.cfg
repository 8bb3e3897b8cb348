\* Two runs of one template share its step ids.
SPECIFICATION Spec
CONSTANTS
    s1 = s1
    i1 = i1
    i2 = i2
    Calls = {c1, c2}
    Keys <- MCKeys
    StepIds <- MCStepIds
    Instances <- MCInstances
    Catalog <- MCCatalog
    MaxSteps = 2
    MaxLostReplies = 0
    None = None
INVARIANT QueuedStepsAreTraceable
