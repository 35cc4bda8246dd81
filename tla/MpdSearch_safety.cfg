SPECIFICATION Spec
CONSTANTS
  Fields = {"artist", "album"}
  DefaultField = "artist"
  Supported = {"find", "search", "list", "playlistfind", "playlistsearch", "count"}
  MaxConstraints = 2
  MaxDepth = 2
  None = None
INVARIANTS
  ReadAsAsked
  NoRequestLeft
  NoEmptySearch
