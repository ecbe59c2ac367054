SPECIFICATION DevicesSpec
CONSTANTS
    Delta <- MCDelta
    MaxReports = 3
    MaxKeys = 1
    HasUsb = TRUE
    Width = 4
    Edge = 2
    BufferSize = 3
    Characters <- MCCharacters
    LineSize = 4
    MaxPresses = 5
    PoolSize = 3
    Looks = 2
    Ports = 3
    MaxAddress = 127
    MaxDevices = 16
    Configurations <- MCConfigurations
    MousePresent = TRUE
    MaxTicks = 2
    HeapUnits = 16
    HeaderUnits = 2
    Asked = {1, 2, 3, 5, 15}
    Columns = 4
    Rows = 2
    TabStop = 2
    Marks <- MCMarks
    MaxPuts = 6
    MAX_PHOTOS = 3
    SLIDESHOW_INTERVAL = 4
    WALLPAPER_COUNT = 3
    FadeStep = 100
    MaxClicks = 4
    Cells = 4
    CursorSide = 2
    ArrowSide = 1
    Radix <- MCRadix
    StartTime = 150
    MaxSeconds = 40
    DeviceSet <- MCDeviceSet
    DeviceName <- MCDeviceName
    MAX_DEVICES = 2
INVARIANTS
    Framed
    MotionKept
    KeysInOrder
    UsbExact
    DriversMeetInterrupts
    ChainTiles
    ConsoleTrue
    NeverBehind
    StaleAtPointer
    MenusAndPhotos
    ListedIsFound
PROPERTIES
    TransfersReturn
    InterruptsServed
    FadeEnds
CHECK_DEADLOCK FALSE
