SPECIFICATION Spec
CONSTANTS
    Pieces <- AllPieces
    Proxies <- AllProxies
    Urls <- AllUrls
    Mimes <- AllMimes
    Script <- ScriptName
    BufSize = 7
    Beyond <- AllBeyond
CHECK_DEADLOCK FALSE
INVARIANTS
    WellNested
    PageClosed
    LinkRight
