\* Meals share price and image; UIKit hands out two cells at will.
CONSTANTS
  Docs <- MCDocs
  Parsable <- MCParsable
  Bundled <- MCBundled
  Recipe <- MCRecipe
  Price <- MCPrice
  Image <- MCImage
  Cells = {c1, c2}
  NoMeal = NoMeal
  MaxSnapshots = 2
  MaxReloads = 2
  MaxLines = 2
SPECIFICATION FairSpec
INVARIANTS TypeOK ShownRowsExist LinesAreTicks CartIsWhatWasTicked CartViewShowsLines UnwrapNeedsMistake
PROPERTY EarlyMealsAreShown
CHECK_DEADLOCK FALSE
