\* Does the forced unwrapping in didTapRemoveBtn succeed?
CONSTANTS
  Docs <- MCDocs
  Parsable <- MCParsable
  Bundled <- MCDocs
  Recipe <- MCRecipe
  Price <- MCPrice
  Image <- MCImage
  Cells = {c1, c2}
  NoMeal = NoMeal
  MaxSnapshots = 2
  MaxReloads = 2
  MaxLines = 4
SYMMETRY CellSymmetry
SPECIFICATION Spec
INVARIANT UnwrapsSucceed
CHECK_DEADLOCK FALSE
