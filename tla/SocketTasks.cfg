SPECIFICATION FairSpec
CONSTANTS
    Conns = {c1, c2}
    MaxMsgs = 2
    MaxSent = 3
    MaxPress = 1
    SOCKETQUEUE_LENTH = 2
    Disturbances = {"reset"}
PROPERTIES
    GuiNotStarved
    ShownInOrder
