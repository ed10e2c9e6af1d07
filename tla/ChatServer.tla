----------------------------- MODULE ChatServer -----------------------------
(***************************************************************************)
(* ChatServer and PacketProcessor: users, accounts, sectors, counters and  *)
(* their locks.  The accept thread calls OnClientJoin, a worker OnRecv or  *)
(* OnClientLeave, under the contract of SessionService: per session one    *)
(* callback at a time, join first and leave last.                          *)
(*                                                                         *)
(* A step ends where the thread may have to wait: it acquires one lock, or *)
(* runs from the last acquisition of a critical section to its releases.   *)
(* m_accountMapSRW is never held across a wait, so its sections are one    *)
(* step; only a login that crashes keeps it.  CrashDump::Crash() stops its *)
(* thread, the others run until the process has ended.  Packets sent, and  *)
(* DisconnectSession after a refused packet, are the business of NetServer:*)
(* here any session without a callback may leave.                          *)
(***************************************************************************)
EXTENDS Integers, FiniteSets

CONSTANTS Sessions,     \* SS_ID: one per connection
          AccountOf,    \* the account number the client of a session uses
          NoAccount,    \* -1, the account number of a new User object
          Users,        \* User objects, recycled by m_userPool
          Workers,      \* threads that run OnRecv and OnClientLeave
          Acceptor,     \* the thread that runs OnClientJoin
          Nobody,       \* no thread, no User, no session
          MaxX, MaxY,   \* SECTOR_MAX_X, SECTOR_MAX_Y
          MaxUser       \* m_maxUser

Threads  == Workers \cup {Acceptor}
Accounts == {AccountOf[s] : s \in Sessions}

ASSUME NamesAssumption  == /\ Acceptor \notin Workers
                           /\ Nobody \notin Threads \cup Users \cup Sessions
                           /\ NoAccount \notin Accounts
ASSUME FiniteAssumption == IsFiniteSet(Sessions) /\ IsFiniteSet(Users)
                                                 /\ IsFiniteSet(Workers)
ASSUME GridAssumption   == MaxX \in Nat \ {0} /\ MaxY \in Nat \ {0} /\ MaxUser \in Nat

VARIABLES
    \* fields of ChatServer; the free list of m_userPool
    m_userMap, m_accountMap, m_connectCnt, m_loginCnt, pool,
    \* fields of the User objects; g_SectorList
    user, g_SectorList,
    \* who holds a lock exclusively, who shares it
    exclusive, shared,
    \* the callbacks a session has seen
    stage,
    \* the threads: location, session served, its User, the request, sectors to lock
    pc, sid, cur, req, todo

counters == <<m_connectCnt, m_loginCnt>>
maps     == <<m_userMap, m_accountMap>>
locks    == <<exclusive, shared>>
thread   == <<pc, sid, cur, req, todo>>
vars     == <<maps, counters, pool, user, g_SectorList, locks, stage, thread>>

\* Sectors are <<y, x>>; Outside is what InitUser sets.
Grid    == (0 .. MaxY - 1) \X (0 .. MaxX - 1)
Outside == <<-1, -1>>
Before(p, q) == p[1] < q[1] \/ (p[1] = q[1] /\ p[2] < q[2])

\* m_userMapSRW, the critical section of a User, g_SectorLock.
MapLock       == <<"map", 0, 0>>
UserLock(u)   == <<"user", u, u>>
SectorLock(p) == <<"sector", p[1], p[2]>>
Locks == {MapLock} \cup {UserLock(u) : u \in Users} \cup {SectorLock(p) : p \in Grid}

Free(l)     == exclusive[l] = Nobody /\ shared[l] = {}
Sharable(l) == exclusive[l] = Nobody

\* What a client sends; it knows its account number from the login server.  A
\* packet of a wrong type or length is refused like one out of the grid.
Requests(s) ==
    LET Request(type, Pos) == [type : {type}, account : {AccountOf[s]}, pos : Pos] IN
    Request("login", {Outside}) \cup Request("move", Grid \cup {Outside})
                                \cup Request("chat", {Outside})
NoRequest == [type |-> "none", account |-> NoAccount, pos |-> Outside]

Stages == {"none", "join", "idle", "recv", "leave", "gone"}
Locations == {"idle", "create_lock", "create_map", "create_cnt",
              "acq_map", "acq_user", "login", "login_dec", "login_inc",
              "move_lock", "chat_lock", "release",
              "del_map", "del_lock", "del_sector", "del_unlock", "del_account",
              "del_cnt", "del_free", "crash"}
-----------------------------------------------------------------------------
\* A User as its constructor makes it.
NewUser == [ssid |-> Nobody, login |-> FALSE, inSector |-> FALSE,
            accountNo |-> NoAccount, pos |-> Outside]

Init ==
    /\ m_userMap = [s \in Sessions |-> Nobody]
    /\ m_accountMap = [a \in Accounts |-> Nobody]
    /\ m_connectCnt = 0
    /\ m_loginCnt = 0
    /\ pool = Users
    /\ user = [u \in Users |-> NewUser]
    /\ g_SectorList = [p \in Grid |-> {}]
    /\ exclusive = [l \in Locks |-> Nobody]
    /\ shared = [l \in Locks |-> {}]
    /\ stage = [s \in Sessions |-> "none"]
    /\ pc = [t \in Threads |-> "idle"]
    /\ sid = [t \in Threads |-> Nobody]
    /\ cur = [t \in Threads |-> Nobody]
    /\ req = [t \in Threads |-> NoRequest]
    /\ todo = [t \in Threads |-> {}]

Goto(t, l) == pc' = [pc EXCEPT ![t] = l] /\ UNCHANGED <<sid, cur, req, todo>>

\* A callback starts, and returns.
Call(t, s, l, r) == /\ pc' = [pc EXCEPT ![t] = l]
                    /\ sid' = [sid EXCEPT ![t] = s]
                    /\ req' = [req EXCEPT ![t] = r]
                    /\ UNCHANGED todo
Return(t, st) == /\ stage' = [stage EXCEPT ![sid[t]] = st]
                 /\ pc' = [pc EXCEPT ![t] = "idle"]
                 /\ sid' = [sid EXCEPT ![t] = Nobody]
                 /\ cur' = [cur EXCEPT ![t] = Nobody]
                 /\ req' = [req EXCEPT ![t] = NoRequest]
                 /\ UNCHANGED todo
-----------------------------------------------------------------------------
(* OnConnectionRequest, OnClientJoin and CreateUser *)

\* CNetServer asks OnConnectionRequest before it makes the session; a connection it
\* refuses leaves no trace here.
Join(s) ==
    /\ pc[Acceptor] = "idle" /\ stage[s] = "none"
    /\ m_loginCnt <= MaxUser
    /\ \E u \in pool : /\ pool' = pool \ {u}
                       /\ cur' = [cur EXCEPT ![Acceptor] = u]
    /\ stage' = [stage EXCEPT ![s] = "join"]
    /\ Call(Acceptor, s, "create_lock", NoRequest)
    /\ UNCHANGED <<maps, counters, user, g_SectorList, locks>>

\* The account number of the last session stays in the object.
InitUser(u, s) == [user EXCEPT ![u] = [@ EXCEPT !.ssid = s, !.pos = Outside,
                                                !.login = FALSE, !.inSector = FALSE]]

CreateLock ==
    /\ pc[Acceptor] = "create_lock"
    /\ LET u == cur[Acceptor] IN
        /\ Free(UserLock(u))
        /\ exclusive' = [exclusive EXCEPT ![UserLock(u)] = Acceptor]
        /\ user' = InitUser(u, sid[Acceptor])
    /\ Goto(Acceptor, "create_map")
    /\ UNCHANGED <<maps, counters, pool, g_SectorList, shared, stage>>

CreateInsert ==
    /\ pc[Acceptor] = "create_map"
    /\ Free(MapLock)
    /\ LET s == sid[Acceptor] IN
        IF m_userMap[s] # Nobody
          THEN Goto(Acceptor, "crash") /\ UNCHANGED <<m_userMap, exclusive>>
          ELSE /\ m_userMap' = [m_userMap EXCEPT ![s] = cur[Acceptor]]
               /\ exclusive' = [exclusive EXCEPT ![UserLock(cur[Acceptor])] = Nobody]
               /\ Goto(Acceptor, "create_cnt")
    /\ UNCHANGED <<m_accountMap, counters, pool, user, g_SectorList, shared, stage>>

CreateCount ==
    /\ pc[Acceptor] = "create_cnt"
    /\ m_connectCnt' = m_connectCnt + 1
    /\ Return(Acceptor, "idle")
    /\ UNCHANGED <<maps, m_loginCnt, pool, user, g_SectorList, locks>>
-----------------------------------------------------------------------------
(* OnRecv: AcquireUser, the handler of the packet, ReleaseUser *)

Recv(t, s) ==
    /\ pc[t] = "idle" /\ stage[s] = "idle"
    /\ stage' = [stage EXCEPT ![s] = "recv"]
    /\ \E r \in Requests(s) : Call(t, s, "acq_map", r)
    /\ UNCHANGED <<maps, counters, pool, user, g_SectorList, locks, cur>>

AcquireMap(t) ==
    /\ pc[t] = "acq_map"
    /\ Sharable(MapLock)
    /\ LET u == m_userMap[sid[t]] IN
        IF u = Nobody
          THEN Goto(t, "crash") /\ UNCHANGED shared
          ELSE /\ shared' = [shared EXCEPT ![MapLock] = @ \cup {t}]
               /\ cur' = [cur EXCEPT ![t] = u]
               /\ pc' = [pc EXCEPT ![t] = "acq_user"]
               /\ UNCHANGED <<sid, req, todo>>
    /\ UNCHANGED <<maps, counters, pool, user, g_SectorList, exclusive, stage>>

\* GetSectorAround.
Around(p) == {q \in Grid : /\ q[1] - p[1] \in {-1, 0, 1}
                           /\ q[2] - p[2] \in {-1, 0, 1}}

\* The sectors ProcSectorMove locks: where the user goes and where it is.
FromAndTo(u, to) == {to} \cup (IF user[u].inSector THEN {user[u].pos} ELSE {})

\* A packet refused by its handler leaves the state alone.
LoginAccepted(u)   == ~user[u].login
MoveAccepted(u, r) == r.account = user[u].accountNo /\ r.pos \in Grid
ChatAccepted(u, r) == r.account = user[u].accountNo

\* The handler starts at location l with the sectors to lock.
Handle(t, l, sectors) == /\ pc' = [pc EXCEPT ![t] = l]
                         /\ todo' = [todo EXCEPT ![t] = sectors]
                         /\ UNCHANGED <<sid, cur, req>>

AcquireUser(t) ==
    /\ pc[t] = "acq_user"
    /\ Free(UserLock(cur[t]))
    /\ exclusive' = [exclusive EXCEPT ![UserLock(cur[t])] = t]
    /\ shared' = [shared EXCEPT ![MapLock] = @ \ {t}]
    /\ LET u == cur[t]
           r == req[t] IN
        CASE r.type = "login" /\ LoginAccepted(u)   -> Handle(t, "login", {})
          [] r.type = "move"  /\ MoveAccepted(u, r) -> Handle(t, "move_lock", FromAndTo(u, r.pos))
          [] r.type = "chat"  /\ ChatAccepted(u, r) -> Handle(t, "chat_lock", Around(user[u].pos))
          [] OTHER                                  -> Goto(t, "release")
    /\ UNCHANGED <<maps, counters, pool, user, g_SectorList, stage>>

ReleaseUser(t) ==
    /\ pc[t] = "release"
    /\ exclusive' = [exclusive EXCEPT ![UserLock(cur[t])] = Nobody]
    /\ Return(t, "idle")
    /\ UNCHANGED <<maps, counters, pool, user, g_SectorList, shared>>
-----------------------------------------------------------------------------
(* ProcLogin *)

\* m_accountMapSRW: a login that crashed did so in its critical section.
AccountMapFree == \A o \in Workers : pc[o] = "crash" => req[o].type # "login"

\* An account that is logged in already crashes the server.
LoginAccount(t) ==
    /\ pc[t] = "login" /\ AccountMapFree
    /\ LET a == req[t].account IN
        IF m_accountMap[a] # Nobody
          THEN Goto(t, "crash") /\ UNCHANGED m_accountMap
          ELSE /\ m_accountMap' = [m_accountMap EXCEPT ![a] = sid[t]]
               /\ Goto(t, "login_dec")
    /\ UNCHANGED <<m_userMap, counters, pool, user, g_SectorList, locks, stage>>

\* Mutant: a user that logs in is still counted as connected only.
LoginDec_Kept(t) ==
    /\ pc[t] = "login_dec"
    /\ Goto(t, "login_inc")
    /\ UNCHANGED <<maps, counters, pool, user, g_SectorList, locks, stage>>

LoginDec(t) ==
    /\ pc[t] = "login_dec"
    /\ m_connectCnt' = m_connectCnt - 1
    /\ Goto(t, "login_inc")
    /\ UNCHANGED <<maps, m_loginCnt, pool, user, g_SectorList, locks, stage>>

\* Mutant: SetAccountNo is forgotten.
LoginInc_NoAccount(t) ==
    /\ pc[t] = "login_inc"
    /\ m_loginCnt' = m_loginCnt + 1
    /\ user' = [user EXCEPT ![cur[t]].login = TRUE]
    /\ Goto(t, "release")
    /\ UNCHANGED <<maps, m_connectCnt, pool, g_SectorList, locks, stage>>

LoginInc(t) ==
    /\ pc[t] = "login_inc"
    /\ m_loginCnt' = m_loginCnt + 1
    /\ user' = [user EXCEPT ![cur[t]] = [@ EXCEPT !.login = TRUE,
                                                  !.accountNo = req[t].account]]
    /\ Goto(t, "release")
    /\ UNCHANGED <<maps, m_connectCnt, pool, g_SectorList, locks, stage>>
-----------------------------------------------------------------------------
(* ProcSectorMove, and SendMessageAround for ProcMessage *)

\* Mutant: the destination is locked first, without the sort.
NextSector_Unsorted(t) ==
    IF req[t].pos \in todo[t] THEN req[t].pos
    ELSE CHOOSE p \in todo[t] : \A q \in todo[t] \ {p} : Before(p, q)

\* Sectors are locked in the order of y, then x.
NextSector(t) == CHOOSE p \in todo[t] : \A q \in todo[t] \ {p} : Before(p, q)

TakeSector(t) == /\ todo' = [todo EXCEPT ![t] = @ \ {NextSector(t)}]
                 /\ UNCHANGED <<pc, sid, cur, req>>
LeaveSectors(t) == /\ pc' = [pc EXCEPT ![t] = "release"]
                   /\ todo' = [todo EXCEPT ![t] = {}]
                   /\ UNCHANGED <<sid, cur, req>>

\* Each acquisition but the last.
MoveLock(t) ==
    /\ pc[t] = "move_lock" /\ Cardinality(todo[t]) > 1
    /\ Free(SectorLock(NextSector(t)))
    /\ exclusive' = [exclusive EXCEPT ![SectorLock(NextSector(t))] = t]
    /\ TakeSector(t)
    /\ UNCHANGED <<maps, counters, pool, user, g_SectorList, shared, stage>>

\* A user that is in no sector is removed from none, and the crash of Sector_AddUser
\* for a user that is in one cannot follow a removal.
Sector_RemoveUser(list, u) == IF user[u].inSector
                                THEN [list EXCEPT ![user[u].pos] = @ \ {u}] ELSE list
Sector_AddUser(list, u, p) == [list EXCEPT ![p] = @ \cup {u}]

\* With the last lock: Sector_RemoveUser, MoveSector, Sector_AddUser, unlock.
Move(t) ==
    /\ pc[t] = "move_lock" /\ Cardinality(todo[t]) = 1
    /\ Free(SectorLock(NextSector(t)))
    /\ LET u == cur[t]
           to == req[t].pos IN
        /\ g_SectorList' = Sector_AddUser(Sector_RemoveUser(g_SectorList, u), u, to)
        /\ user' = [user EXCEPT ![u] = [@ EXCEPT !.inSector = TRUE, !.pos = to]]
    /\ exclusive' = [l \in Locks |-> IF exclusive[l] = t /\ l # UserLock(cur[t])
                                       THEN Nobody ELSE exclusive[l]]
    /\ LeaveSectors(t)
    /\ UNCHANGED <<maps, counters, pool, shared, stage>>

ChatLock(t) ==
    /\ pc[t] = "chat_lock" /\ Cardinality(todo[t]) > 1
    /\ Sharable(SectorLock(NextSector(t)))
    /\ shared' = [shared EXCEPT ![SectorLock(NextSector(t))] = @ \cup {t}]
    /\ TakeSector(t)
    /\ UNCHANGED <<maps, counters, pool, user, g_SectorList, exclusive, stage>>

\* With the last lock: SendPacket to every User of the sectors, then unlock.
Chat(t) ==
    /\ pc[t] = "chat_lock" /\ Cardinality(todo[t]) = 1
    /\ Sharable(SectorLock(NextSector(t)))
    /\ shared' = [l \in Locks |-> shared[l] \ {t}]
    /\ LeaveSectors(t)
    /\ UNCHANGED <<maps, counters, pool, user, g_SectorList, exclusive, stage>>
-----------------------------------------------------------------------------
(* OnClientLeave and DeleteUser *)

Leave(t, s) ==
    /\ pc[t] = "idle" /\ stage[s] = "idle"
    /\ stage' = [stage EXCEPT ![s] = "leave"]
    /\ Call(t, s, "del_map", NoRequest)
    /\ UNCHANGED <<maps, counters, pool, user, g_SectorList, locks, cur>>

DeleteMap(t) ==
    /\ pc[t] = "del_map"
    /\ Free(MapLock)
    /\ exclusive' = [exclusive EXCEPT ![MapLock] = t]
    /\ LET u == m_userMap[sid[t]] IN
        IF u = Nobody
          THEN Goto(t, "crash")
          ELSE /\ cur' = [cur EXCEPT ![t] = u]
               /\ pc' = [pc EXCEPT ![t] = "del_lock"]
               /\ UNCHANGED <<sid, req, todo>>
    /\ UNCHANGED <<maps, counters, pool, user, g_SectorList, shared, stage>>

\* Mutant: the User stays in its sector.
DeleteLock_KeepSector(t) ==
    /\ pc[t] = "del_lock"
    /\ Free(UserLock(cur[t]))
    /\ exclusive' = [exclusive EXCEPT ![UserLock(cur[t])] = t, ![MapLock] = Nobody]
    /\ m_userMap' = [m_userMap EXCEPT ![sid[t]] = Nobody]
    /\ Goto(t, "del_unlock")
    /\ UNCHANGED <<m_accountMap, counters, pool, user, g_SectorList, shared, stage>>

\* The User is locked and out of the map, the map is unlocked.
DeleteLock(t) ==
    /\ pc[t] = "del_lock"
    /\ Free(UserLock(cur[t]))
    /\ exclusive' = [exclusive EXCEPT ![UserLock(cur[t])] = t, ![MapLock] = Nobody]
    /\ m_userMap' = [m_userMap EXCEPT ![sid[t]] = Nobody]
    /\ Goto(t, IF user[cur[t]].inSector THEN "del_sector" ELSE "del_unlock")
    /\ UNCHANGED <<m_accountMap, counters, pool, user, g_SectorList, shared, stage>>

\* Mutant: ResetInSector without the removal from the list.
DeleteSector_FlagOnly(t) ==
    /\ pc[t] = "del_sector"
    /\ Free(SectorLock(user[cur[t]].pos))
    /\ user' = [user EXCEPT ![cur[t]].inSector = FALSE]
    /\ Goto(t, "del_unlock")
    /\ UNCHANGED <<maps, counters, pool, g_SectorList, locks, stage>>

DeleteSector(t) ==
    /\ pc[t] = "del_sector"
    /\ Free(SectorLock(user[cur[t]].pos))
    /\ g_SectorList' = Sector_RemoveUser(g_SectorList, cur[t])
    /\ user' = [user EXCEPT ![cur[t]].inSector = FALSE]
    /\ Goto(t, "del_unlock")
    /\ UNCHANGED <<maps, counters, pool, locks, stage>>

\* Mutant: the account of a user that logged in is not erased.
DeleteUnlock_KeepAccount(t) ==
    /\ pc[t] = "del_unlock"
    /\ exclusive' = [exclusive EXCEPT ![UserLock(cur[t])] = Nobody]
    /\ Goto(t, "del_cnt")
    /\ UNCHANGED <<maps, counters, pool, user, g_SectorList, shared, stage>>

\* From here on the object is used without its lock.
DeleteUnlock(t) ==
    /\ pc[t] = "del_unlock"
    /\ exclusive' = [exclusive EXCEPT ![UserLock(cur[t])] = Nobody]
    /\ Goto(t, IF user[cur[t]].login THEN "del_account" ELSE "del_cnt")
    /\ UNCHANGED <<maps, counters, pool, user, g_SectorList, shared, stage>>

DeleteAccount(t) ==
    /\ pc[t] = "del_account" /\ AccountMapFree
    /\ m_accountMap' = [a \in Accounts |-> IF a = user[cur[t]].accountNo THEN Nobody
                                                                         ELSE m_accountMap[a]]
    /\ Goto(t, "del_cnt")
    /\ UNCHANGED <<m_userMap, counters, pool, user, g_SectorList, locks, stage>>

DeleteCount(t) ==
    /\ pc[t] = "del_cnt"
    /\ IF user[cur[t]].login
         THEN m_loginCnt' = m_loginCnt - 1 /\ UNCHANGED m_connectCnt
         ELSE m_connectCnt' = m_connectCnt - 1 /\ UNCHANGED m_loginCnt
    /\ user' = [user EXCEPT ![cur[t]].login = FALSE]
    /\ Goto(t, "del_free")
    /\ UNCHANGED <<maps, pool, g_SectorList, locks, stage>>

DeleteFree(t) ==
    /\ pc[t] = "del_free"
    /\ pool' = pool \cup {cur[t]}
    /\ Return(t, "gone")
    /\ UNCHANGED <<maps, counters, user, g_SectorList, locks>>
-----------------------------------------------------------------------------
AcceptorStep == (\E s \in Sessions : Join(s)) \/ CreateLock \/ CreateInsert \/ CreateCount

WorkerStep(t) ==
    \/ \E s \in Sessions : Recv(t, s) \/ Leave(t, s)
    \/ AcquireMap(t) \/ AcquireUser(t) \/ ReleaseUser(t)
    \/ LoginAccount(t) \/ LoginDec(t) \/ LoginInc(t)
    \/ MoveLock(t) \/ Move(t) \/ ChatLock(t) \/ Chat(t)
    \/ DeleteMap(t) \/ DeleteLock(t) \/ DeleteSector(t) \/ DeleteUnlock(t)
    \/ DeleteAccount(t) \/ DeleteCount(t) \/ DeleteFree(t)

Next == AcceptorStep \/ \E t \in Workers : WorkerStep(t)

Spec == Init /\ [][Next]_vars
-----------------------------------------------------------------------------
(* Properties *)

\* Every variable has its type.
TypeOK ==
    /\ m_userMap \in [Sessions -> Users \cup {Nobody}]
    /\ m_accountMap \in [Accounts -> Sessions \cup {Nobody}]
    /\ m_connectCnt \in Int /\ m_loginCnt \in Int
    /\ pool \subseteq Users
    /\ user \in [Users -> [ssid : Sessions \cup {Nobody}, login : BOOLEAN,
                           inSector : BOOLEAN, accountNo : Accounts \cup {NoAccount},
                           pos : Grid \cup {Outside}]]
    /\ g_SectorList \in [Grid -> SUBSET Users]
    /\ exclusive \in [Locks -> Threads \cup {Nobody}]
    /\ shared \in [Locks -> SUBSET Threads]
    /\ stage \in [Sessions -> Stages]
    /\ pc \in [Threads -> Locations]
    /\ sid \in [Threads -> Sessions \cup {Nobody}]
    /\ cur \in [Threads -> Users \cup {Nobody}]
    /\ req \in [Threads -> {NoRequest} \cup UNION {Requests(s) : s \in Sessions}]
    /\ todo \in [Threads -> SUBSET Grid]

\* OnRecv and OnClientLeave find their user and OnClientJoin a new id, whatever the
\* threads do: the only crash is that of a login whose account belongs to another
\* session that is connected or about to be deleted (ProcPacket.cpp:84-88), never a
\* left-over entry of a session that is gone or an entry of its own.
OnlyDuplicateLoginCrashes == [][\A t \in Threads : pc[t] # "crash" /\ pc'[t] = "crash" =>
    /\ pc[t] = "login"
    /\ \E r \in Sessions \ {sid[t]} : /\ AccountOf[r] = AccountOf[sid[t]]
                                      /\ m_accountMap[AccountOf[r]] = r
                                      /\ stage[r] \notin {"none", "gone"}]_vars

\* User u stands for a logged-in session: from the increment of m_loginCnt to the
\* erasure of its account.
UsedAt(u, ls) == \E t \in Workers : cur[t] = u /\ pc[t] \in ls
LoggedIn(u)   == user[u].login /\ ~UsedAt(u, {"del_cnt", "del_free"})

\* m_accountMap and the users agree: an entry belongs to the user of that session
\* which logged in with that account, or is being written by its login.
AccountsAgree ==
    /\ \A a \in Accounts : m_accountMap[a] # Nobody =>
        \E u \in Users : /\ user[u].ssid = m_accountMap[a]
                         /\ \/ LoggedIn(u) /\ user[u].accountNo = a
                            \/ UsedAt(u, {"login_dec", "login_inc"})
    /\ \A u \in Users : LoggedIn(u) => m_accountMap[user[u].accountNo] = user[u].ssid

\* A sector's list holds exactly the users whose position it is: no user is in two
\* lists or in none while its flag says otherwise, whoever moves or leaves.
SectorsAgree == \A p \in Grid, u \in Users :
    u \in g_SectorList[p] <=> user[u].inSector /\ user[u].pos = p

\* A User in the pool is referenced by nobody: no map, no list, no thread and no
\* lock.  SendMessageSector and DeleteUser, which use a User they do not own or
\* have unlocked, never touch a recycled one.
PooledIsUnused == \A u \in pool :
    /\ \A s \in Sessions : m_userMap[s] # u
    /\ \A p \in Grid : u \notin g_SectorList[p]
    /\ \A t \in Threads : cur[t] # u
    /\ Free(UserLock(u))

\* m_connectCnt and m_loginCnt count the users, but for the steps a thread is
\* still going to take: OnConnectionRequest decides by m_loginCnt.
CountersAgree ==
    LET At(ls) == Cardinality({t \in Threads : pc[t] \in ls})
        In(f)  == Cardinality({u \in Users \ pool : user[u].login = f}) IN
    /\ m_loginCnt = In(TRUE)
    /\ m_connectCnt + At({"create_lock", "create_map", "create_cnt",
                          "login_inc", "del_free"}) = In(FALSE)

\* Which lock t waits for, and whom it waits for.
Wants(t) == CASE pc[t] \in {"create_map", "acq_map", "del_map"}      -> MapLock
              [] pc[t] \in {"create_lock", "acq_user", "del_lock"}   -> UserLock(cur[t])
              [] pc[t] \in {"move_lock", "chat_lock"}                -> SectorLock(NextSector(t))
              [] pc[t] = "del_sector"                                -> SectorLock(user[cur[t]].pos)
Waiting(t) == pc[t] \in {"create_map", "acq_map", "del_map", "create_lock", "acq_user",
                         "del_lock", "move_lock", "chat_lock", "del_sector"}
BlockedBy(t, o) == /\ Waiting(t)
                   /\ \/ exclusive[Wants(t)] = o
                      \/ o \in shared[Wants(t)] /\ pc[t] \notin {"acq_map", "chat_lock"}

\* No deadlock: no set of threads waits for each other, although CreateUser takes a
\* user's lock before the map's and AcquireUser and DeleteUser the other way round.
NoCircularWait == \A T \in (SUBSET Threads) \ {{}} :
    \E t \in T : \A o \in T : ~BlockedBy(t, o)

\* A User's lock is never waited for: the callbacks of a session do not overlap, and
\* a recycled object is unlocked.  This is why the inverted order in CreateUser does
\* no harm and why AcquireUser may wait with the map locked.
UserLockUncontended == \A t \in Threads :
    pc[t] \in {"create_lock", "acq_user", "del_lock"} => Free(UserLock(cur[t]))

\* A user is in a sector only after its login: ProcSectorMove expects "the first
\* move after the login" (ProcPacket.cpp:159) and tests the account number, which
\* User::User makes -1 and InitUser leaves alone.
InSectorIsLoggedIn == \A u \in Users : user[u].inSector => user[u].login

=============================================================================
