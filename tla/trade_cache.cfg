CONSTANTS
    Threads = {t1, t2}
    Names = {"n1", "n2"}
    MaxId = 2
    MaxFaults = 1
    Users = 3
    Batch = 2
    Kinds = {"trade"}
SPECIFICATION Spec
INVARIANT CountsAgree
CHECK_DEADLOCK FALSE
