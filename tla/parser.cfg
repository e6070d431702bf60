SPECIFICATION SentenceSpec
CONSTANTS
  Letters <- MCLetters
  Digits <- MCDigits
  num_errors_to_halt = 10
  Texts <- MCTexts
  Tools <- MCFollowed
INVARIANTS
  ErrorsAreJustified
  AcceptsOnlyPrograms
  NoHolesFromSyntax
  SurvivesSyntax
PROPERTY HaltsWithoutNegation
