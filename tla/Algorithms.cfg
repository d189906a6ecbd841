SPECIFICATION MCSpec
CONSTANTS
  Keys = {1, 2, 3, 4, 5, 6, 7, 8, 9, 10}
  Values = {1, 2, 3}
  MaxItems = 5
  Unset = unset
  None = none
  Atoi <- MCAtoi
  FirstChar <- MCFirstChar
  Digits <- MCDigits
  Flags <- ParserFlags
  Struct <- CommandStructs
  Appended <- AppendedTypes
  Convert <- ConvertText
  Texts <- MCTexts
  Lines <- MCLines
  Requests <- MCRequests
  PlainLines <- MCPlainLines
  Orders <- MCOrders
CHECK_DEADLOCK FALSE
INVARIANTS TreeIsRedBlack WalksInOrder BoundExact SortExact LastValueCounts FrontEndsAgree
