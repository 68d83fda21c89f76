CONSTANTS
  Workspace = 7
  TagSize = 5
  NoText = NoText
  Lines <- MCLines
  Tags <- MCTags
  Replacements <- MCReplacements
SPECIFICATION Spec
INVARIANTS
  ResultInWorkspace
  ReplacedIsReported
  SplitMergesBack
