SPECIFICATION Spec
CHECK_DEADLOCK FALSE
CONSTANTS
    Requests <- MCRequests
    Facts <- MCFacts
    FirstWorld <- MCFirstWorld
    Providers = {"backplane", "kubeconfig"}
    Hosts = {"backplane.example", "x.backplane.example", "elsewhere.example"}
    Subdomains <- MCSubdomains
    Base <- MCBase
    MaxChanges = 2
INVARIANTS
    RightsFitCalls
    TokenStaysWithBackplane
    ReportTruthful
    ReportComplete
