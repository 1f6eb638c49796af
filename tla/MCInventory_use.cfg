SPECIFICATION Spec
CONSTANTS
  log = log
  plank = plank
  pick = pick
  shears = shears
  wool = wool
  wheat = wheat
  pork = pork
  cooked = cooked
  hoe = hoe
  egg = egg
  seeds = seeds
  NoItem = NoItem
  HotbarSize = 2
  InventorySize = 0
  ChestSize = 0
  StackLimit = 2
  Pool = {0}
  HpDebt = 1
  AmountDebt = 1
  Items = {hoe, shears, wool, pork, cooked, wheat, egg}
  breaksIn <- TheBreaksIn
  stackSize <- TheStackSize
  toolType <- TheToolType
  craftingRecipes <- CraftingRecipes
  furnaceRecipes <- FurnaceRecipes
  Drops <- TheDrops
  Shears = shears
  Wheat = wheat
  Wool = wool
  Seeds = seeds
  InitiallySelected = wool
INVARIANTS
  HpBound
  SelectionNeverForeign
PROPERTIES
  JunkOnlyFromKnownSites
