SPECIFICATION MCSpec
CONSTANTS
    m1 = m1  m2 = m2
    Part = {"provisioning"}
    Session = {s1, s2}
    NoOrg = NoOrg
    NoUser = NoUser
    NoName = NoName
    Null = Null
    Absent = Absent
    Client = {"app", "web"}
    Confidential = {"app"}
    Scope = {read, write}
    Request = {r1, r2}
    CodeLife = 0
    AccessLife = 0
    RefreshLife = 0
    MaxNow = 1
    MaxCodes = 1
    MaxAccess = 3
    MaxFaults = 1
SYMMETRY Symmetry
INVARIANT OrganizationsAreOnesOwn
CHECK_DEADLOCK FALSE
