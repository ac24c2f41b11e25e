SPECIFICATION NsSpec
CONSTANTS
    n1 = n1  n2 = n2  n3 = n3  n4 = n4
    rootVnode = rootVnode  null = null  relative = relative
    tmpfs = tmpfs  otherfs = otherfs  thirdfs = thirdfs
    a = a  b = b  cut = cut  long = long
    dot = dot  dotdot = dotdot  slash = slash
    NodeIds = {n1, n2, n3, n4}
    RootVnode = rootVnode
    NULL = null
    MaxFs = 1
    FsNames = {tmpfs}
    Tmpfs = tmpfs
    Names = {cut, long, dot, dotdot}
    Dot = dot
    DotDot = dotdot
    RootName = slash
    Stored <- MCStored
    PathLen = 2
    Paths <- MCPaths
    Relative = relative
VIEW WithoutRet
INVARIANTS UniqueSiblings
