SPECIFICATION SongsSpec
CONSTANTS
  MaxLines = 4
  Tags = {"artist", "album"}
  Bytes = {"a", "_", "[", "]", "|", "&", "#"}
  MaxFormat = 6
  Room = 3
INVARIANTS TypeOK AllIsGiven NothingHalf ReplyIsOver PrintsWhatIsMeant FullOrWhole
