SPECIFICATION Spec
CONSTANTS
    Program = {p, q}
    FileName <- MCFileName
    FileLength <- MCFileLength
    Path <- MCPath
    Image <- MCImage
    TableSize = 6
    MaxHeld = 3
    ReadSize <- MCReadSize
    DirRoom <- MCDirRoom
SYMMETRY ProgramSymmetry
INVARIANT DescriptorsKept
CHECK_DEADLOCK FALSE
