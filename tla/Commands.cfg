SPECIFICATION CommandsSpec
CHECK_DEADLOCK FALSE
CONSTANTS
    Hosts = {"api", "localhost", "x.localhost", "other"}
    Subdomains <- MCSubdomains
    Loopback = {"localhost"}
    Invocations <- MCInvocations
    MaxRequests = 3
    Execs <- TwoExecs
INVARIANTS
    TokenStaysSecure
    RunsAtMostOnce
    ReportedRunExists
    ExitMatchesRow
    SucceededHasOutput
PROPERTIES
    CommandEnds
