\* Both servers, two workers each, three sockets of two addresses or of unknown
\* origin, two connections per address.
CONSTANTS
    s1 = s1
    s2 = s2
    s3 = s3
    irc = irc
    ws = ws
    ip1 = ip1
    ip2 = ip2
    unknown = unknown
    Socks = {s1, s2, s3}
    Servers = {irc, ws}
    WsServers = {ws}
    Ips = {ip1, ip2}
    Unknown = unknown
    MaxPerIp = 2
    ThreadCount = 2
    PeerMaxHook = TRUE
    NULL = NULL
SPECIFICATION FairSpec
INVARIANTS TypeOK SlotsExact PerIpLimit EvenlyDealt
PROPERTIES RefusalsJustified SlotsReturned
CHECK_DEADLOCK FALSE
