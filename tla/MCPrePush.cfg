SPECIFICATION Spec
CONSTANTS
  Commits <- MCCommits
  Ancestors <- MCAncestors
  Root = "root"
  Developers = {ann, ben}
INVARIANTS
  TipWasGreen
PROPERTIES
  NeverRewritten
