SPECIFICATION Spec
CONSTANTS
    R = R
    A = A
    B = B
    i1 = i1
    i2 = i2
    p1 = p1
    p2 = p2
    p3 = p3
    p4 = p4
    m31 = m31
    m24 = m24
    Self = R
    NoRid = NoRid
    Unwritten = Unwritten
    NoIface = NoIface
    IfMask = m31
    Routers <- mcRouters
    Ifaces <- lineIfaces
    IfPrefix <- lineIfPrefix
    Peer <- linePeer
    StaticRoutes <- mcNoStatic
    Lsus <- calmLsus
    SeqSpace = 2
    NbrLife = 1
    InitLife = 1
    RouterLife = 1
    LsuTicks = 1
INVARIANTS
    NoReadAfterFree
