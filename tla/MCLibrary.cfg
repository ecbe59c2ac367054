SPECIFICATION LibrarySpec
CONSTANTS
    ScreenW = 5
    ScreenH = 4
    Places <- MCPlaces
    Sizes = {0, 1, 3, 9}
    Glyph = 2
    Texts <- MCTexts
    Shades = {0, 1, 2, 7, 127, 128, 254, 255}
    Parts <- MCParts
    Rows = {0, 1, 2, 3, 5, 9}
    Side = 3
    LastByte = 4
    Letters = {97, 98}
    Width = 8
    LongWidth = 12
    Numbers = {0, 9, 10, 16, 127, 128, 255, 256, 266}
    MaxPieces = 2
    Page = 4
    Buffer = 100
    Reach = 40
    VAddrs = {0, 3, 30}
    FileSize = 5
    Slack = 3
    FileOffsets = {0, 2}
    FileSizes = {0, 3}
    MemSizes = {1, 5}
    MaxSegments = 2
    MaxCode = 5
    scr_w = 400
    scr_h = 240
    ProbeXs = {0, 100, 260, 390}
    ProbeYs = {10, 26, 60, 190}
    BmpData = 24
    BmpSides = {0, 1, 2, 3, 4}
    MaxMods = 3
    ModRoom = 3
    ModLists <- MCModLists
    Modes <- MCModes
    ByteValues = 2
    Registers = {0, 1, 5, 10, 12, 15}
    Halves = {0, 1, 2, 3}
    Slots = 3
    BrkBlock = 4
    BrkRequests = 3
    Bytes = {"a", "b"}
    ReadRoom = {0, 1, 2, 3, 5, 7}
    MaxFound = 2
    MaxChunk = 3
    Typings <- MCTypings
    KeyLists <- MCKeyLists
    NotesSize = 8
    NotesColumns = 3
    LINE_LEN = 8
    MAX_LINES = 3
    MAX_ARGS = 2
    RowsShown = 2
INVARIANTS
    PicturesExact
    TextExact
    LoadsExact
    MachineExact
CHECK_DEADLOCK FALSE
