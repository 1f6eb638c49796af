CONSTANTS
    entityLength = 3
    Made = {2}
    MaxFeeds = 2
    LastSlotSheep = FALSE
SPECIFICATION Spec
INVARIANTS
  FoodForEveryBirth
