SPECIFICATION Spec
CONSTANTS
    PdrIds = {pdr1, pdr2}
    UrrIds = {urr1, urr2}
    RuleIds = {far}
    Fails = {"create", "remove", "removeURR"}
    MaxRef = 2
    MaxReports = 1
INVARIANT KernelTracked
INVARIANT ReportsSent
INVARIANT FinalReportOnce
PROPERTY DissociationReported
SYMMETRY Symmetry
