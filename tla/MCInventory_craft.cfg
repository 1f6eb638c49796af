SPECIFICATION Spec
CONSTANTS
  log = log
  plank = plank
  pick = pick
  shears = shears
  wool = wool
  wheat = wheat
  pork = pork
  cooked = cooked
  hoe = hoe
  egg = egg
  seeds = seeds
  NoItem = NoItem
  HotbarSize = 2
  InventorySize = 1
  ChestSize = 1
  StackLimit = 2
  Pool = {0}
  HpDebt = 1
  AmountDebt = 1
  Items = {log, plank, pick}
  breaksIn <- TheBreaksIn
  stackSize <- TheStackSize
  toolType <- TheToolType
  craftingRecipes <- CraftingRecipes
  furnaceRecipes <- FurnaceRecipes
  Drops <- TheDrops
  Shears = shears
  Wheat = wheat
  Wool = wool
  Seeds = seeds
  InitiallySelected = log
INVARIANTS
  TypeOK
  StackLimitHolds
PROPERTIES
  CraftIsExact
  PickUpKeepsTheItem
  SwapOnlyRearranges
  NothingRepairsATool
