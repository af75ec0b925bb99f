SPECIFICATION Spec
CONSTANTS
    keep = keep
    t1 = t1
    t2 = t2
    Files = {keep, t1, t2}
    Keep = keep
    Never = Never
    MaxTexts = 3
    MaxCommits = 4
INVARIANT UntouchedFilesFollowHead
PROPERTY HistoriesAreKept
PROPERTY PullKeepsEdits
CHECK_DEADLOCK FALSE
