SPECIFICATION Spec
CONSTANTS
    s1 = s1  s2 = s2  A = A  B = B  C = C
    Sessions = {s1, s2}
    DepartmentIds = {1, 2, 3}
    JobIds = {1, 2}
    EmployeeIds = {1, 2, 3, 4}
    Names = {A, B, C}
    NoRow = NoRow
    NoSnapshot = NoSnapshot
    Nobody = Nobody
    Batches <- MCBatches
    InitialTables <- MCInitialTables
    Saved <- MCSaved
    MaxLoads = 3
    MaxAdmin = 1
INVARIANTS TypeOK ReportsAgree ReportsForgetReset
PROPERTIES TransfersKeepReports LoadShowsInReports
SYMMETRY OneHandlerLikeAnother
