SPECIFICATION SentenceSpec
CONSTANTS
  Letters <- MCLetters
  Digits <- MCDigits
  num_errors_to_halt = 10
  Texts <- MCNegated
  Tools <- MCFollowed
PROPERTY Halts
