SPECIFICATION Spec
CONSTANTS
    c1 = c1
    c2 = c2
    c3 = c3
    agent_slot = agent_slot
    slow = slow
    fast = fast
    Peer = {c1, c2, agent_slot}
    AgentSlot = agent_slot
    StartLevel = 2
    Capacity = {2}
    Settings = {slow, fast}
    MaxRooms = 2
    MaxId = 2
    FirstPort = 1
    LastPort = 3
SYMMETRY Symmetry
VIEW View
INVARIANTS
    TypeOK
    FrontExists
    ServerMatchesRoom
    ServersNotShared
    MembersKnowServer
PROPERTIES
    KeepsPromise
