CONSTANTS
  headphone = headphone
  case = case
  speaker = speaker
  audio = audio
  accessories = accessories
  home = home
  AnyCategory = any
  Categories = {any, audio, accessories, home}
  AddOnCategories = {accessories}
  Products <- MCProducts
  Price <- MCPrice
  Category <- MCCategory
  UpsellFor <- MCUpsellFor
  InitialStock <- MCStock
  Baskets <- MCBaskets
  ReservationIds = {r1, r2}
  Own = own
  Budgets <- MCBudgets
  InferredBudgets <- MCInferred
  RawQuantities <- MCQuantities
  DefaultBudget = 4
  AbsoluteMax = 7
  SearchLimit = 2
  NoProduct = nothing
SPECIFICATION BasketSpec
CHECK_DEADLOCK FALSE
INVARIANTS
  BasketTypeOK
  WithinCeilings
  ChecksAgree
  ShortForACause
