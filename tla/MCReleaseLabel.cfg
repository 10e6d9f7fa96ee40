\* git describe succeeds, as it does in any repository with a commit.
CONSTANTS
  MaxCommits = 3
  MaxRuns = 3
  GitMayFail = FALSE
  None = None
  Raised = Raised
SPECIFICATION Spec
INVARIANTS ReleaseFileNamesItsCommit
CHECK_DEADLOCK FALSE
