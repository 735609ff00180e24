SPECIFICATION Spec
CONSTANTS
  Processes = {server, converter}
  Server = server
  Converter = converter
  Binaries = {"older", "old", "new"}
  OldShips = 1
  Ships <- MCShips
  Writes = {w1, w2}
  MaxStops = 1
  None = None
PROPERTY RollbackBoots
