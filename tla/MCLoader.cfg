CONSTANTS
  h1 = h1
  h2 = h2
  h3 = h3
  Hashes = {h1, h2, h3}
  Types = {"data", "type"}
  Size <- MCSize
  Loadable <- MCLoadable
  Exporting <- MCExporting
  CONTEXT = 4
  PAGES = 9
SPECIFICATION Spec
INVARIANTS LibraryIntact RightSymbol OffsetIsSum
