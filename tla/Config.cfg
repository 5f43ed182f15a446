SPECIFICATION FairSpec
CONSTANTS
  Tokens = {first, second}
  Own = Own
  None = None
  Offers <- MCOffers
  MaxDeaths = 1
  Absent = Absent
  Torn = Torn
INVARIANTS Paired TokenLasts KeepsTLS AnswersPanel
PROPERTY ComesUp
CHECK_DEADLOCK FALSE
