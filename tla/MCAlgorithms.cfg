\* Two stewards, one archetype, one provider; texts of four lines.
CONSTANTS
    Missing = Missing
    SomeText = SomeText
    ListOf <- MCListOf
    Null = Null
    Odd = Odd
    Paths <- MCPaths
    Lower = {"a", "f", "g", "not", "ref"}
    Capitals = {"B", "True", "Not"}
    Value <- MCValue
    Stewards = {"VU", "UVA"}
    MCArchetypes = {"ComputeToData"}
    MCProviders = {"SURF"}
    Expectations <- MCExpectations
    Bodies <- MCBodies
    AssertionLists <- AssertionSets
    Directories <- MCDirectories
    CommandLines <- MCCommandLines
    Outcomes <- MCOutcomes
    TextLines <- MCTextLines
    MaxLines = 4
SPECIFICATION Spec
INVARIANTS OkIffSameStatements OkIsCoherent ApprovalCarriesToken OracleReadsPolicy GateReadsScenario ScriptReadsAlike CommentsFindLines ReportedOrRead InvariantsFound NothingLeftOut ExitZeroEarned
CHECK_DEADLOCK FALSE
