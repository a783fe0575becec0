SPECIFICATION OrderedSpec
CONSTANTS
    Admins = {a1}
    Ingester = i1
    Uploads <- NewHire
    Populated <- MCPopulated
    NoFile = NoFile
    Torn = Torn
    MaxRequests = 6
    MaxIngests = 1
INVARIANT BackupSetIsClean
