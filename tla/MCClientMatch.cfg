SPECIFICATION Spec
CONSTANTS
  Groups = {1, 2}
  Automatic = {2}
  Matches <- SomeMatches
  Questions <- SomeQuestions
  Width = 2
  MaxMatches = 3
  NoPrefix = NoPrefix
INVARIANTS
  ValidatedBuilds
  SortedStrictly
  MostSpecificDomain
  MostSpecificPrefix
\* The configuration is rejected, or the lists are complete.
CHECK_DEADLOCK FALSE
