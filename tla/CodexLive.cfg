CONSTANTS
    c1 = c1
    c2 = c2
    c3 = c3
    c4 = c4
    r1 = r1
    r2 = r2
    q1 = q1
    None = None
    Clients = {c1, c2}
    Requests = {r1}
    Questions = {}
    Ops = {"send", "unqueue", "reply", "interrupt", "stop"}
    Central = FALSE
    Deadline = TRUE
SPECIFICATION FairSpec
CHECK_DEADLOCK FALSE
PROPERTY SlotSettles
 
