\* The manifest whose phrases may be rejected.
CONSTANTS
    Manifests <- OnlyRejected
    Requester <- AllRequester
    Requested <- AllRequested
    Files <- AllFiles
    Mentioned <- AllMentioned
    ListedArchetypes <- AllListedArchetypes
    ListedProviders <- AllListedProviders
    Letters <- AllLetters
    Rejecting <- OnlyRejected
    NPhrases = 15
    MaxLines = 1
    Fixture <- TwoPhrases
    Place <- AllPlaces
SPECIFICATION DerivationSpec
INVARIANT HoldsOnlyWhenConfirmed
CHECK_DEADLOCK FALSE
