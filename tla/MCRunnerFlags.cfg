\* Flags: one process without gate and seeding, one that stops after seeding.
CONSTANTS
    p1 = p1
    p2 = p2
    Procs <- TwoProcs
    Chosen <- FlagChosen
    Options <- FlagOptions
    EflintConfig = EflintConfig
    Absent = Absent
    Missing = Missing
    Malformed = Malformed
    SomeText = SomeText
    ListOf <- MCListOf
    Manifests <- MCManifests
    Stewards <- MCStewards
    Texts <- MCTexts
    SharedRules <- MCRules
    Agreements <- MCAgreements
    Requested <- MCRequested
    Requester <- MCRequester
    Asserted <- MCAsserted
    FactsOf <- MCFactsOf
    Archetypes <- AllArchetypes
    Providers <- AllProviders
    Probed <- MCProbed
    Bodies <- FaultyBodies
    InitialStores <- FlagStores
    MaxLate = 0
SPECIFICATION RunnerSpec
PROPERTIES OnlyConsistentRunsWrite RunsEnd
CHECK_DEADLOCK FALSE
