SPECIFICATION MCSpec
CONSTANTS
  c1 = c1
  c2 = c2
  plain = plain
  secret = secret
  dotenv = dotenv
  NoText = NoText
  Tools <- MCTools
  ChildTools <- MCChildTools
  RiskyTools <- MCRisky
  Commands <- MCCommands
  Paths <- MCPaths
  Patterns <- MCPatterns
  SensitivePatterns <- MCSensitive
  Globs <- MCGlobs
  RuleSets <- MCRuleSets
  MaxSticky = 2
  Chars <- MCChars
  GlobPatterns <- MCGlobPatterns
  GlobTexts <- MCGlobTexts
INVARIANTS DenyRuleFinal PlanReadOnly Accountable Correct
PROPERTIES NeverReasked
