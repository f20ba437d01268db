\* One registration on a process with a pool of one connection: main.go reads the
\* pool's size from DB_MAX_OPEN_CONNS, and the migrations' driver keeps one.
CONSTANTS
    s1 = s1
    s2 = s2
    k1 = k1
    k2 = k2
    u1 = u1
    u2 = u2
    Servers <- MCServers
    Registrations <- MCRegistrations
    Uses <- MCUses
    Emails = {mail}
    None = None
    Latest = 2
    MaxOpen <- MCPoolOfOne
    Loads <- MCOneRequest
SPECIFICATION MCDrainsEnd
PROPERTIES RequestsEnd
