SPECIFICATION Spec
CONSTANTS
    Deployments <- SomeDeployments
    MaxFailures = 1
    MaxDrafts = 1
INVARIANT TypeOK
INVARIANT NamesAreUnique
INVARIANT GlobalsAreLive
INVARIANT EnsuredIsWhole
INVARIANT CleanupIsComplete
INVARIANT LookupFindsTheLiving
