\* Two categories, snapshots of up to two listeners.
CONSTANTS
  Restaurants <- MCRestaurants
  Category <- MCCategory
  Parsable <- MCParsable
  Bundled <- SomeBundled
  All = All
  MaxSnapshots = 3
  Categories <- MCCategories
  MaxCategories = 2
SPECIFICATION Spec
INVARIANTS TypeOK IdsEndWithList RowsHaveIds
CHECK_DEADLOCK FALSE
