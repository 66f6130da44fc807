SPECIFICATION Spec
CONSTANTS
    Deployments <- SomeDeployments
    MaxFailures = 0
    MaxDrafts = 1
INVARIANT InnerWorldIsLive
