SPECIFICATION Spec
CONSTANTS
  Groups = {1, 2}
  Automatic = {2}
  Matches <- SomeMatches
  Questions <- SomeQuestions
  Width = 2
  MaxMatches = 2
  NoPrefix = NoPrefix
INVARIANT
  StaticPrefixesDisjoint
CHECK_DEADLOCK FALSE
