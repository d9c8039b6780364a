CONSTANTS
    Users = {u1, u2, u3}
    Requests = {p1, p2}
    MaxRows = 3
    Emojis = {e1, e2}
    Talks = {"direct"}
    MaxEdits = 2
    MaxUserReactions = 2
SPECIFICATION ChatSpec
INVARIANTS ChatIsCounted MessageIsCounted
PROPERTIES LastToLeaveCloses DeletedIsNotEdited
CHECK_DEADLOCK FALSE
SYMMETRY Interchangeable
