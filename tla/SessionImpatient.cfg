SPECIFICATION Spec
CONSTANTS
    c1 = c1
    c2 = c2
    agent_slot = agent_slot
    fast = fast
    Peer = {c1, c2, agent_slot}
    me = c1
    AgentSlot = agent_slot
    StartLevel = 2
    Capacity = {2}
    Settings = {fast}
    MaxRooms = 1
    MaxId = 2
    FirstPort = 0
    Typable = {1}
    MaxCommands = 1
    MaxMoves = 5
VIEW View
PROPERTIES
    ConnectionAwaited
