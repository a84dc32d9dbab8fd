CONSTANTS
    j1 = j1
    j2 = j2
    None = None
    Jobs = {j1, j2}
    MaxUploads = 1
    MaxFaults = 1
SPECIFICATION Spec
INVARIANTS
    CancelledNeverPublishes
    OutcomeTellsHead
    CurrentHeadOneVersion
PROPERTIES
    PermitsComeBack
