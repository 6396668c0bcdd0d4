SPECIFICATION FairSpec
CONSTANTS
    c1 = c1
    c2 = c2
    c3 = c3
    agent_slot = agent_slot
    slow = slow
    fast = fast
    Peer = {c1, c2, c3, agent_slot}
    AgentSlot = agent_slot
    StartLevel = 2
    Capacity = {3}
    Settings = {slow}
    MaxRooms = 1
    MaxId = 3
    FirstPort = 1
    LastPort = 3
VIEW View
INVARIANTS
    FullRoomHasLaunch
    RosterComplete
    OwnIdentity
    AddressWellFormed
PROPERTIES
    ServerKeptWhileOccupied
    FullRoomStarts
