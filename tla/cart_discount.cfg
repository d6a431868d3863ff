\* Does the discount follow the quantities?
CONSTANTS
  Titles = {t1, t2}
  Prices <- MCPrices
  Codes <- MCCodes
  Texts <- MCTexts
  DiscountPercent = 10
  MaxLines = 2
  MaxNumber = 2
  MaxOrders = 1
SPECIFICATION Spec
INVARIANT DiscountIsPercent

CHECK_DEADLOCK FALSE
