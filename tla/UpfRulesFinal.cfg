SPECIFICATION Spec
CONSTANTS
    PdrIds = {pdr1, pdr2}
    UrrIds = {urr1}
    RuleIds = {far}
    Fails = {}
    MaxRef = 2
    MaxReports = 2
PROPERTY UpdatedDissociationReported
