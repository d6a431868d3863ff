\* The Cart screen with up to two lines.
CONSTANTS
  Titles = {t1, t2}
  Prices <- MCPrices
  Codes <- MCCodes
  Texts <- MCTexts
  DiscountPercent = 10
  MaxLines = 2
  MaxNumber = 2
  MaxOrders = 1
SPECIFICATION Spec
INVARIANTS TypeOK RowsAreLines BillCoversRows
PROPERTIES DiscountNeedsCode ImplementsBasket
CHECK_DEADLOCK FALSE
