SPECIFICATION Spec
CONSTANTS
    s1 = s1  s2 = s2  ann = ann  bob = bob  A = A  d1 = d1  d2 = d2
    Absent = Absent
    Malformed = Malformed
    NoRow = NoRow
    Sessions = {s1}
    EmployeeIds = {ann, bob}
    DimensionIds = {d1, d2}
    OutOfRange = {bob}
    Names = {A}
    DepartmentBatches = {}
    JobBatches = {}
    HireBatches <- MCHireBatches
    InitialDimensions <- MCDimensions
    StartTime = 2
    MaxLoads = 3
    MaxVersions = 6
PROPERTY BadRowDoesNotSinkBatch
