SPECIFICATION Spec
CONSTANTS
  Commits <- MCCommits
  Ancestors <- MCAncestors
  Root = "root"
  Developers = {ann}
INVARIANTS
  EveryCommitWasGreen
