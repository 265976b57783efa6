SPECIFICATION ScenarioSpec
CONSTANTS
  v1 = v1
  v2 = v2
  Missing = Missing
  Torn = Torn
  Foreign = Foreign
  Foreigners <- TheForeigners
  Directory = Directory
  Lines <- TheLines
  RecordForms <- TheForms
  Refs <- TheRefs
  Versions <- TheVersions
  Layouts <- TheLayouts
  Stocks <- TheStocks
  PacketFiles = {1, 2}
  Bundles = {1, 2}
  Checks <- TheChecks
  Walks <- TheWalks
  Orders <- TheOrders
  MaxLines = 2
  MaxWrites = 3
  MaxPackets = 2
INVARIANT
  PassColumnCountsPassed
CHECK_DEADLOCK FALSE
