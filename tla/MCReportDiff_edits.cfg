\* A site is audited, edited and audited again, and the reports are compared.
CONSTANTS
    MinContentTags = 3
    Sites <- MCSites
    Edits <- MCEdits
SPECIFICATION Spec
INVARIANTS
    ReportRepeats
    SiteDeltaExplained
    RepairShows
CHECK_DEADLOCK FALSE
