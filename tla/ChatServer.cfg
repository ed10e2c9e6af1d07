\* Three sessions of two clients, two workers, three User objects, 2 x 2 sectors.
CONSTANTS
    s1 = s1
    s2 = s2
    s3 = s3
    acc1 = acc1
    acc2 = acc2
    u1 = u1
    u2 = u2
    u3 = u3
    w1 = w1
    w2 = w2
    Sessions = {s1, s2, s3}
    AccountOf <- MCAccountOf
    NoAccount = NoAccount
    Users = {u1, u2, u3}
    Workers = {w1, w2}
    Acceptor = Acceptor
    Nobody = Nobody
    MaxX = 2
    MaxY = 2
    MaxUser = 1
SPECIFICATION Spec
SYMMETRY Symmetry
INVARIANTS
    AccountsAgree
    SectorsAgree
    PooledIsUnused
    CountersAgree
    NoCircularWait
PROPERTY
    OnlyDuplicateLoginCrashes
\* Every session of the run has left, or the server has crashed.
CHECK_DEADLOCK FALSE
