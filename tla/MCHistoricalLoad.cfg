SPECIFICATION FairLoadSpec
CONSTANTS
    s1 = s1  s2 = s2  ann = ann  A = A  B = B  d1 = d1
    Absent = Absent
    Malformed = Malformed
    NoRow = NoRow
    Sessions = {s1, s2}
    EmployeeIds = {ann}
    DimensionIds = {d1}
    OutOfRange = {}
    Names = {A, B}
    DepartmentBatches <- MCDepartmentBatches
    JobBatches <- MCJobBatches
    HireBatches <- MCHireBatches
    InitialDimensions <- MCDimensions
    StartTime = 2
    MaxLoads = 3
    MaxVersions = 6
    Uploads <- MCUploads
    NoUpload = NoUpload
    NotAscii = NotAscii
    Blank = Blank
    Ragged = Ragged
    IntOf <- MCIntOf
    MaxBatchSize = 2
    Nobody = Nobody
    NoSummary = NoSummary
    MaxRuns = 2
INVARIANTS LoadTypeOK ReportedLoadsCommitted SummaryAccountsForFiles CascadeIsFlagged
    CompleteRunLoadsFiles
PROPERTY EveryRunEnds
