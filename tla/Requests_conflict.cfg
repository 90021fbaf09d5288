SPECIFICATION Spec
CONSTANTS
  Recipe <- MCRecipe
  Leaves <- MCLeaves
  MaxGen = 2
  MaxMoves = 2
INVARIANT ConflictMeansNothingSent
CHECK_DEADLOCK FALSE
