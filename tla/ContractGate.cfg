SPECIFICATION Spec
CONSTANTS
  r1 = r1
  r2 = r2
  t0 = t0
  t2 = t2
  Unset = Unset
  NoSchema = NoSchema
  NoData = NoData
  NoLimit = NoLimit
  NoExport = NoExport
  Module = "here"
  Consts <- MCConsts
  Imports <- MCImports
  Passes <- MCPasses
  Computed <- MCComputed
  Entries <- MCEntries
  Values <- MCValues
  FieldOrder <- MCFieldOrder
  UnreliableLimit = 1
  Careful = TRUE
INVARIANTS
  RecordsLoad
  ClientsServed
  FramesAreRead
  IssuesAreTrue
