SPECIFICATION Spec
CONSTANTS
    s1 = s1  ann = ann  bob = bob  A = A  B = B  d1 = d1  d2 = d2  d3 = d3
    Absent = Absent
    Malformed = Malformed
    NoRow = NoRow
    Sessions = {s1}
    EmployeeIds = {ann, bob}
    DimensionIds = {d1, d2, d3}
    OutOfRange = {bob, d3}
    Names = {A, B}
    DepartmentBatches <- MCDepartmentBatches
    JobBatches <- MCJobBatches
    HireBatches <- MCHireBatches
    InitialDimensions <- MCDimensions
    StartTime = 3
    MaxLoads = 3
    MaxVersions = 16
INVARIANTS TypeOK AnswerTellsOutcome
PROPERTIES ImplementsHistory EveryErrorReportedOnce
