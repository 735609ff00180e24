SPECIFICATION Spec
CONSTANTS
  Processes = {server, converter, other}
  Server = server
  Converter = converter
  Binaries = {"older", "old", "new"}
  OldShips = 2
  Ships <- MCShips
  Writes = {w1, w2}
  MaxStops = 2
  None = None
INVARIANTS SchemaIsRecorded BootsDoNotCollide SwitchesCarryEveryWrite DatabasesStayWhole
PROPERTIES ServersKnowTheSchema
