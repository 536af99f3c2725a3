SPECIFICATION Spec
CONSTANTS
    Configs <- MCConfigs
    FirstConfig <- Plain
    BadConfig = BadConfig
    None = None
    Keys = {k1, k2}
    NFiles = 2
    CacheLimit = 1
    MaxRevision = 3
INVARIANTS RevisionsNameConfigs NoLostUpdate AppliedOnce StackAgrees
SYMMETRY KeySymmetry
VIEW View
PROPERTIES ImplementsRegister
