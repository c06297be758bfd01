SPECIFICATION Spec
CONSTANTS
    zip = zip
    picture = picture
    Files = {zip}
    Images = {picture}
    MaxFetches = 2
    MaxCaptures = 2
    MaxDownloads = 2
    MaxFaults = 1
INVARIANTS StoredFirst CommittedFirst
PROPERTIES QueueMoves
CHECK_DEADLOCK FALSE
