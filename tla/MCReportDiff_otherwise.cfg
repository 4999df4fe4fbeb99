\* A claim that fails: the move to https, whatever the page loads, is no regression.
CONSTANTS
    MinContentTags = 3
    Sites <- MCSites
    Edits <- MCEdits
SPECIFICATION Spec
INVARIANTS
    HttpsShows
CHECK_DEADLOCK FALSE
