SPECIFICATION RequestSpec
CONSTANTS
    Bits = 3
    Width = 16
    AnyHost = AnyHost
    NoSlash = NoSlash
    Unparsable = Unparsable
    Hosts <- MCHosts
    Deflect <- MCDeflect
    Payloads <- MCPayloads
    Lists <- MCLists
    Clients <- MCClients
    Before <- MCBefore
    After <- MCAfter
    Jars <- MCJars
INVARIANTS CookieReturned EncodeInBounds SubnetMatch
PROPERTY CheckEnds
CHECK_DEADLOCK FALSE
