SPECIFICATION Spec
CONSTANTS
    NULL = NULL
    ChatCap = 1
    my_id = 2
    Peers = {1, 3, 4}
    Options <- MCOptions
INVARIANTS RelayListsAgree NobodyWaitsInVain
