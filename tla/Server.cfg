\* Two processes over two migrations, two registrations of one email and two uses,
\* in the loads of MCLoads.
CONSTANTS
    s1 = s1
    s2 = s2
    k1 = k1
    k2 = k2
    u1 = u1
    u2 = u2
    Servers <- MCServers
    Registrations <- MCRegistrations
    Uses <- MCUses
    Emails = {mail}
    None = None
    Latest = 2
    MaxOpen <- MCMaxOpen
    Loads <- MCLoads
SPECIFICATION ServerFairSpec
INVARIANTS ServerTypeOK OneActiveKey RevokedOnce LateRequestsRefused KeysAsAnswered
    ServesOnlyMigrated DirtyOnlyByAccident
PROPERTIES ImplementsRegistry RequestsEnd
