SPECIFICATION Spec
CONSTANTS
    n1 = n1  n2 = n2  n3 = n3
    f1 = f1  f2 = f2  f3 = f3  f4 = f4
    rootVnode = rootVnode  null = null  relative = relative  tmpfs = tmpfs
    a = a  b = b  dot = dot  dotdot = dotdot  slash = slash
    NodeIds = {n1, n2, n3}
    RootVnode = rootVnode
    NULL = null
    MaxFs = 1
    FsNames = {tmpfs}
    Tmpfs = tmpfs
    Names = {a, dot, dotdot}
    Dot = dot
    DotDot = dotdot
    RootName = slash
    Stored <- MCStored
    Paths <- MCPaths
    Relative = relative
    FileIds = {f1, f2, f3}
    OPEN_MAX = 3
    OpenFlags = {"O_RDONLY", "O_RDWR", "O_WRONLY"}
    Counts = {0, 1, 2}
    MaxSize = 2
    MinCount <- MCMinCount
VIEW WithoutRet
INVARIANTS TypeOK RefcountExact OffsetWithinSize OneSlotPerFile FdZeroDead
PROPERTIES GrowthByWriter RootStaysShut
CHECK_DEADLOCK FALSE
