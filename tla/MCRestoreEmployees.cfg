SPECIFICATION Spec
CONSTANTS
    Admins = {a1}
    Ingester = i1
    Uploads <- MCUploads
    Populated <- MCPopulated
    NoFile = NoFile
    Torn = Torn
    MaxRequests = 2
    MaxIngests = 1
INVARIANT ExistingEmployeeHasVersion
