\* All manifests; the phrases of one may be rejected.
CONSTANTS
    Manifests <- AllManifests
    Requester <- AllRequester
    Requested <- AllRequested
    Files <- AllFiles
    Mentioned <- AllMentioned
    ListedArchetypes <- AllListedArchetypes
    ListedProviders <- AllListedProviders
    Letters <- AllLetters
    Rejecting <- OnlyRejected
    NPhrases = 15
    MaxLines = 1
    Fixture <- TwoPhrases
    Place <- AllPlaces
SPECIFICATION DerivationSpec
INVARIANTS OracleExact HypothesisHolds DenialsAreTrue
PROPERTIES ServesOracle DerivationEnds
CHECK_DEADLOCK FALSE
