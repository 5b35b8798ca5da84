CONSTANTS
  Files <- MCFiles
  Directories <- MCDirectories
  Above <- MCAbove
  Home <- MCHome
  Root = Root
  Outside = Outside
  Mounts <- MCMounts
  Behind <- MCBehind
  SkippedDirs <- MCSkipped
  GeneratedDirs <- MCGenerated
  ArtifactNames <- MCArtifacts
  ParsedNames <- MCParsed
  LargeDirFiles = 1
  LargeDirBytes = 2
  HugeBytes = 3
  Trees <- MCTrees
  MaxChanges = 2
SPECIFICATION Spec
INVARIANTS
  SmallDirectoriesAgree
  SourcesAreVisible
CHECK_DEADLOCK FALSE
