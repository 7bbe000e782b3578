SPECIFICATION Spec
CONSTANTS
  Session = {s1, s2}
  Families <- MCFamilies
  MaxOutside = 1
SYMMETRY Sessions
INVARIANTS
  TypeOK
  TokensSettled
  AnswersTrue
PROPERTIES
  WritesWhatWasShown
  FieldsKept
CHECK_DEADLOCK FALSE
