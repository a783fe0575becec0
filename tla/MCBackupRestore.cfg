SPECIFICATION FairSpec
CONSTANTS
    Admins = {a1, a2}
    Ingester = i1
    Uploads <- MCUploads
    Populated <- MCPopulated
    NoFile = NoFile
    Torn = Torn
    MaxRequests = 2
    MaxIngests = 1
INVARIANTS TypeOK RestoreInOrderRecovers AnswerTellsOutcome
PROPERTIES SequencesKeepAhead EveryRequestAnswered
