SPECIFICATION MigrationSpec
CONSTANTS
    s1 = s1  s2 = s2  ann = ann  A = A  d1 = d1  d2 = d2
    Absent = Absent
    Malformed = Malformed
    NoRow = NoRow
    Sessions = {s1, s2}
    EmployeeIds = {ann}
    DimensionIds = {d1, d2}
    OutOfRange = {}
    Names = {A}
    DepartmentBatches = {}
    JobBatches = {}
    HireBatches <- MCHireBatches
    InitialDimensions <- MCDimensions
    StartTime = 2
    MaxLoads = 4
    MaxVersions = 5
    NoColumns = NoColumns
    MaxMigrations = 1
INVARIANT OnlyBackfilledDisagree
PROPERTY MigrationsKeepFacts
SYMMETRY OneHandlerLikeAnother
