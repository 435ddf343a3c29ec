CONSTANTS
  Keys = {k1}
  Items = {x, y, z}
  NoList = NoList
  NoItem = NoItem
  Blank = Blank
  Methods = {"PushFirstItem", "PushLastItem", "GetList"}
  MaxLength = 3
SPECIFICATION Spec
INVARIANT ReadsAsDocumented
