\* Two harness processes against one etcd and one Policy Enforcer.
CONSTANTS
    p1 = p1
    p2 = p2
    Procs <- TwoProcs
    Chosen <- TwoChosen
    Options <- TwoOptions
    EflintConfig = EflintConfig
    Absent = Absent
    Missing = Missing
    Malformed = Malformed
    SomeText = SomeText
    ListOf <- MCListOf
    Manifests <- MCManifests
    Stewards <- MCStewards
    Texts <- MCTexts
    SharedRules <- MCRules
    Agreements <- MCAgreements
    Requested <- MCRequested
    Requester <- MCRequester
    Asserted <- MCAsserted
    FactsOf <- MCFactsOf
    Archetypes <- AllArchetypes
    Providers <- AllProviders
    Probed <- MCProbed
    Bodies <- FaultyBodies
    InitialStores <- MCStores
    MaxLate = 1
SPECIFICATION RunnerSpec
INVARIANTS SeederInv SeededInputsMatch ConfigHasModel RunnerInv VerdictTruthful ExitZeroSound
PROPERTY ImplementsTest
CHECK_DEADLOCK FALSE
