SPECIFICATION Spec
CONSTANTS
    Report = {r1}
    Page = {p1, p2}
    MaxSubmits = 3
    MaxFailures = 1
SYMMETRY PageSymmetry
INVARIANTS LogIsAPath BothAuditsApproved DetailExplainsStatus
PROPERTIES PassedIsFinal OnlyRejectsMisplaceVerdicts
