SPECIFICATION MCSpec
CONSTANTS
    Admins = {a1, a2}
    Ingester = i1
    Uploads <- MCUploads
    Populated <- MCPopulated
    NoFile = NoFile
    Torn = Torn
    MaxRequests = 7
    FewRequests = 3
    MaxIngests = 0
    Buttons <- MCButtons
    Elsewhere = {a1, a2}
    Nobody = Nobody
    NoClick = NoClick
    NoOutcome = NoOutcome
    NoContent = NoContent
INVARIANTS DownloadIsTheBackup SixRestoresRecover
SYMMETRY OneHandlerLikeAnother
