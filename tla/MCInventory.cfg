CONSTANTS
  laptop = laptop
  mouse = mouse
  Products <- MCProducts
  ReservationIds = {r1, r2, r3}
  Baskets <- MCBaskets
  InitialStock <- MCStock
SPECIFICATION InventorySpec
INVARIANTS
  InventoryTypeOK
  NoOversell
  StockConserved
PROPERTIES
  SettledIsFinal
  ImplementsPool
