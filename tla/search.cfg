\* Snapshots while a text is typed.
CONSTANTS
  Restaurants <- MCRestaurants
  Category <- MCCategory
  Parsable <- MCParsable
  Bundled <- MCRestaurants
  All = All
  MaxSnapshots = 3
  Texts <- MCTexts
  Found <- MCFound
  NoText = NoText
  MaxBlocks = 2
SPECIFICATION Spec
INVARIANTS TypeOK IdleRowsAreCurrent
PROPERTIES IndexTrapNeedsGap
CHECK_DEADLOCK FALSE
