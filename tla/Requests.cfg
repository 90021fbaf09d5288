SPECIFICATION Spec
CONSTANTS
  Recipe <- MCRecipe
  Leaves <- MCLeaves
  MaxGen = 2
  MaxMoves = 2
INVARIANTS
  TypeOK
  AllOrNothing
  NoRepeatUnlessDropped
  ActsOnANumber
PROPERTIES
  Answered
CHECK_DEADLOCK FALSE
