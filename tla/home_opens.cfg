\* Does a row open the restaurant it shows?
CONSTANTS
  Restaurants <- MCRestaurants
  Category <- MCCategory
  Parsable <- MCParsable
  Bundled <- AllBundled
  All = All
  MaxSnapshots = 2
  Categories <- MCCategories
  MaxCategories = 1
SPECIFICATION Spec
INVARIANT OpensWhatItShows
CHECK_DEADLOCK FALSE
