--------------------------- MODULE ChatServerProof ---------------------------
(***************************************************************************)
(* The users, accounts, sectors and locks of ChatServer agree, for any     *)
(* number of sessions, User objects and workers and any grid.              *)
(*                                                                         *)
(* The argument.  A User object has one owner at a time: the pool, the     *)
(* accept thread before it is in m_userMap, m_userMap, or the worker that  *)
(* took it out of the map to delete it.  A session is served by one thread *)
(* at a time, so no two threads work on one User; hence its lock is free   *)
(* when a thread asks for it, and what a handler read of the User before   *)
(* a wait still holds after it.                                            *)
(***************************************************************************)
EXTENDS ChatServer, FiniteSetTheorems, TLAPS

UserType == [ssid : Sessions \cup {Nobody}, login : BOOLEAN, inSector : BOOLEAN,
             accountNo : Accounts \cup {NoAccount}, pos : Grid \cup {Outside}]

\* Where a thread is in OnClientJoin; in a handler, with the User locked; in
\* OnClientLeave with the User out of the map.
CreateLocs  == {"create_lock", "create_map", "create_cnt"}
HandlerLocs == {"login", "login_dec", "login_inc", "move_lock", "chat_lock", "release",
                "crash"}
DeleteLocs  == {"del_sector", "del_unlock", "del_account", "del_cnt", "del_free"}
RecvLocs    == {"acq_map", "acq_user"} \cup HandlerLocs
LeaveLocs   == {"del_map", "del_lock"} \cup DeleteLocs

\* Where a thread holds the lock of its User.
LockedLocs == HandlerLocs \cup {"create_map", "del_sector", "del_unlock"}

\* A thread in a callback serves a session that is in this callback.
ServedBy(t) ==
    /\ pc[t] = "idle" <=> sid[t] = Nobody
    /\ pc[t] = "idle" => cur[t] = Nobody
    /\ pc[t] \in CreateLocs => t = Acceptor /\ stage[sid[t]] = "join"
    /\ pc[t] \in RecvLocs => /\ t # Acceptor /\ stage[sid[t]] = "recv"
                             /\ req[t] \in Requests(sid[t])
    /\ pc[t] \in LeaveLocs => t # Acceptor /\ stage[sid[t]] = "leave"
Served == \A t \in Threads : ServedBy(t)

\* No session is served by two threads, no User worked on by two.
Apart == \A t, o \in Threads : t # o =>
    /\ sid[t] # Nobody => sid[t] # sid[o]
    /\ cur[t] # Nobody => cur[t] # cur[o]

\* m_userMap has the Users of the sessions between join and leave.
UserOf(s) ==
    /\ m_userMap[s] # Nobody => user[m_userMap[s]].ssid = s /\ m_userMap[s] \notin pool
    /\ stage[s] \in {"none", "gone"} => m_userMap[s] = Nobody
    /\ stage[s] \in {"idle", "recv"} => m_userMap[s] # Nobody
UserMap == \A s \in Sessions : UserOf(s)

\* The User a thread works on is its session's, and whose it is.
CurrentOf(t) ==
    /\ pc[t] \in {"acq_map", "del_map"} => cur[t] = Nobody
    /\ pc[t] = "del_map" => m_userMap[sid[t]] # Nobody
    /\ pc[t] \in {"create_cnt", "acq_user", "del_lock"} \cup HandlerLocs =>
           cur[t] # Nobody /\ m_userMap[sid[t]] = cur[t]
    /\ pc[t] \in {"create_lock", "create_map"} \cup DeleteLocs =>
           cur[t] # Nobody /\ cur[t] \notin pool /\ m_userMap[sid[t]] = Nobody
    /\ pc[t] \in {"create_map"} \cup DeleteLocs => user[cur[t]].ssid = sid[t]
    /\ pc[t] = "create_lock" => \A s \in Sessions : m_userMap[s] # cur[t]
Current == \A t \in Threads : CurrentOf(t)

\* What the thread knows of the flags of its User.
FlagsOf(t) ==
    /\ pc[t] \in {"create_lock", "create_map", "del_unlock", "del_account", "del_cnt",
                  "del_free"} => ~user[cur[t]].inSector
    /\ pc[t] \in {"create_lock", "create_map", "login", "login_dec", "login_inc",
                  "del_free"} => ~user[cur[t]].login
    /\ pc[t] = "del_account" => user[cur[t]].login
    /\ pc[t] = "del_sector" => user[cur[t]].inSector
    /\ pc[t] = "move_lock" => req[t].pos \in Grid
Flags == \A t \in Threads : FlagsOf(t)

\* A User in the pool is worked on by nobody and is in no sector.
Pooled == \A u \in pool : /\ \A t \in Threads : cur[t] # u
                          /\ ~user[u].inSector /\ ~user[u].login

\* The lock of a User is held by the thread that works on it, and never shared.
UserLocks == \A u \in Users :
    /\ shared[UserLock(u)] = {}
    /\ exclusive[UserLock(u)] # Nobody =>
           LET t == exclusive[UserLock(u)] IN cur[t] = u /\ pc[t] \in LockedLocs

Ownership == Served /\ Apart /\ UserMap /\ Current /\ Flags /\ Pooled /\ UserLocks
-----------------------------------------------------------------------------
\* The lock of the map, those of the users and those of the sectors are different.
LEMMA LocksDistinct ==
    /\ MapLock \in Locks
    /\ \A u \in Users : UserLock(u) \in Locks /\ UserLock(u) # MapLock
    /\ \A u, v \in Users : UserLock(u) = UserLock(v) => u = v
    /\ \A u \in Users : \A p : UserLock(u) # SectorLock(p)
  BY DEF Locks, MapLock, UserLock, SectorLock

\* The accept thread is no worker, and Nobody is none of the names.
LEMMA ThreadsDistinct ==
    /\ Acceptor \in Threads /\ Workers \subseteq Threads /\ Acceptor \notin Workers
    /\ Nobody \notin Threads /\ Nobody \notin Users /\ Nobody \notin Sessions
  BY NamesAssumption DEF Threads

\* The types the steps below rest on.
LEMMA OwnershipTypes ==
    ASSUME TypeOK
    PROVE  /\ pc \in [Threads -> Locations] /\ sid \in [Threads -> Sessions \cup {Nobody}]
           /\ cur \in [Threads -> Users \cup {Nobody}] /\ stage \in [Sessions -> Stages]
           /\ m_userMap \in [Sessions -> Users \cup {Nobody}] /\ pool \subseteq Users
           /\ DOMAIN req = Threads /\ DOMAIN user = Users
           /\ exclusive \in [Locks -> Threads \cup {Nobody}] /\ DOMAIN shared = Locks
  BY DEF TypeOK

-----------------------------------------------------------------------------
(* A step of thread t is for one session s and one User u that no other thread  *)
(* serves or works on: what the other threads know stays true.                  *)

\* Session s and User u are t's.
Mine(t, s, u) ==
    /\ s \in Sessions /\ u \in Users /\ cur[t] \in {u, Nobody}
    /\ \A o \in Threads \ {t} : sid[o] # s /\ cur[o] # u
    /\ \A r \in Sessions \ {s} : m_userMap[r] # u

\* The step leaves the other threads, sessions and Users alone.
Touches(t, s, u) ==
    /\ \A o \in Threads \ {t} : /\ pc'[o] = pc[o] /\ sid'[o] = sid[o]
                                /\ cur'[o] = cur[o] /\ req'[o] = req[o]
    /\ \A r \in Sessions \ {s} : stage'[r] = stage[r] /\ m_userMap'[r] = m_userMap[r]
    /\ \A v \in Users \ {u} : /\ user'[v] = user[v]
                              /\ exclusive'[UserLock(v)] = exclusive[UserLock(v)]
    /\ \A v \in Users : shared'[UserLock(v)] = shared[UserLock(v)]
    /\ pool' \ {u} = pool \ {u}

\* What t has to show of the state it leaves.
Own(t, s, u) ==
    /\ sid[t] \in {s, Nobody} /\ cur[t] \in {u, Nobody} /\ m_userMap[s] \in {u, Nobody}
    /\ ServedBy(t) /\ CurrentOf(t) /\ FlagsOf(t) /\ UserOf(s)
    /\ u \in pool => cur[t] # u /\ ~user[u].inSector /\ ~user[u].login
    /\ exclusive[UserLock(u)] \in {t, Nobody}
    /\ exclusive[UserLock(u)] = t => cur[t] = u /\ pc[t] \in LockedLocs

\* A step of t that touches only what is its own keeps Ownership, if t keeps its part.
LEMMA Frame ==
    ASSUME TypeOK, Ownership, NEW t \in Threads, NEW s, NEW u,
           Mine(t, s, u), Touches(t, s, u), Own(t, s, u)'
    PROVE  Ownership'
<1> USE ThreadsDistinct, OwnershipTypes DEF Ownership, Mine, Touches, Own
<1>1. ASSUME NEW o \in Threads \ {t} PROVE ServedBy(o)'
  BY DEF Served, ServedBy, CreateLocs, RecvLocs, HandlerLocs, LeaveLocs, DeleteLocs
<1>2. Served'
  BY <1>1 DEF Served
<1>3. Apart'
  BY DEF Apart
<1>4. ASSUME NEW r \in Sessions \ {s} PROVE UserOf(r)'
  BY DEF UserMap, UserOf
<1>5. UserMap'
  BY <1>4 DEF UserMap
<1>6. ASSUME NEW o \in Threads \ {t} PROVE CurrentOf(o)'
  BY DEF Current, CurrentOf, Served, ServedBy, CreateLocs, RecvLocs, HandlerLocs,
         LeaveLocs, DeleteLocs
<1>7. Current'
  BY <1>6 DEF Current
<1>8. ASSUME NEW o \in Threads \ {t} PROVE FlagsOf(o)'
  BY DEF Flags, FlagsOf, Current, CurrentOf, HandlerLocs, DeleteLocs
<1>9. Flags'
  BY <1>8 DEF Flags
<1>10. Pooled'
  BY DEF Pooled
<1>11. UserLocks'
  BY LocksDistinct DEF UserLocks
<1>12. QED
  BY <1>2, <1>3, <1>5, <1>7, <1>9, <1>10, <1>11

\* A session no other thread serves, and its User or the one its thread has, are t's.
LEMMA SessionIsMine ==
    ASSUME TypeOK, Ownership, NEW t \in Threads, NEW s \in Sessions,
           \A o \in Threads \ {t} : sid[o] # s, cur[t] = Nobody, m_userMap[s] # Nobody
    PROVE  Mine(t, s, m_userMap[s])
  BY ThreadsDistinct, OwnershipTypes
     DEF Mine, Ownership, Current, CurrentOf, UserMap, UserOf, Served, ServedBy,
         Locations, CreateLocs, HandlerLocs, RecvLocs, LeaveLocs, DeleteLocs

\* A thread owns the session it serves and the User it works on.
LEMMA CurrentIsMine ==
    ASSUME TypeOK, Ownership, NEW t \in Threads, cur[t] # Nobody
    PROVE  Mine(t, sid[t], cur[t])
  BY ThreadsDistinct, OwnershipTypes
     DEF Mine, Ownership, Apart, Current, CurrentOf, UserMap, UserOf, Served, ServedBy,
         Locations, CreateLocs, HandlerLocs, RecvLocs, LeaveLocs, DeleteLocs

-----------------------------------------------------------------------------
(* Each action keeps Ownership. *)

\* OnClientJoin takes a User from the pool.
LEMMA JoinKeeps ==
    ASSUME TypeOK, Ownership, NEW s \in Sessions, Join(s) PROVE Ownership'
<1> USE ThreadsDistinct, OwnershipTypes, LocksDistinct
    DEF Join, Call, maps, locks, counters, Ownership
<1>1. PICK u \in pool : pool' = pool \ {u} /\ cur' = [cur EXCEPT ![Acceptor] = u]
  OBVIOUS
<1>2. Mine(Acceptor, s, u)
  BY DEF Mine, Served, ServedBy, Pooled, UserMap, UserOf, Locations, CreateLocs,
         HandlerLocs, DeleteLocs, RecvLocs, LeaveLocs, LockedLocs
<1>3. Touches(Acceptor, s, u)
  BY <1>1 DEF Touches
<1>4. Own(Acceptor, s, u)'
  BY <1>1, <1>2
     DEF Own, Mine, ServedBy, CurrentOf, FlagsOf, UserMap, UserOf, Pooled, UserLocks,
         CreateLocs, HandlerLocs, DeleteLocs, RecvLocs, LeaveLocs, LockedLocs
<1>5. QED
  BY <1>2, <1>3, <1>4, Frame

\* OnRecv and OnClientLeave start for a session nobody serves.
LEMMA CallKeeps ==
    ASSUME TypeOK, Ownership, NEW t \in Workers, NEW s \in Sessions,
           Recv(t, s) \/ Leave(t, s)
    PROVE  Ownership'
<1> USE ThreadsDistinct, OwnershipTypes, LocksDistinct
    DEF Recv, Leave, Call, maps, locks, counters, Ownership
<1>1. PICK u \in Users : u = m_userMap[s]
  BY DEF UserMap, UserOf
<1>2. Mine(t, s, u)
  BY <1>1, SessionIsMine
     DEF Served, ServedBy, Locations, CreateLocs, HandlerLocs, DeleteLocs, RecvLocs,
         LeaveLocs, LockedLocs
<1>3. Touches(t, s, u)
  BY DEF Touches
<1>4. Own(t, s, u)'
  BY <1>1, <1>2
     DEF Own, Mine, Served, ServedBy, CurrentOf, FlagsOf, UserMap, UserOf, Pooled,
         UserLocks, CreateLocs, HandlerLocs, DeleteLocs, RecvLocs, LeaveLocs, LockedLocs
<1>5. QED
  BY <1>2, <1>3, <1>4, Frame

\* The lookup in m_userMap finds the session's User; a delete takes it out.
LEMMA FindKeeps ==
    ASSUME TypeOK, Ownership, NEW t \in Workers, AcquireMap(t) \/ DeleteMap(t)
    PROVE  Ownership'
<1> USE ThreadsDistinct, OwnershipTypes, LocksDistinct
    DEF AcquireMap, DeleteMap, maps, locks, counters, Ownership
<1>1. PICK s \in Sessions, u \in Users : s = sid[t] /\ u = m_userMap[s]
  BY DEF Served, ServedBy, Current, CurrentOf, UserMap, UserOf, CreateLocs, HandlerLocs,
         DeleteLocs, RecvLocs, LeaveLocs, LockedLocs
<1>2. Mine(t, s, u)
  BY <1>1, SessionIsMine DEF Apart, Current, CurrentOf
<1>3. Touches(t, s, u)
  BY <1>1 DEF Touches
<1>4. Own(t, s, u)'
  BY <1>1, <1>2
     DEF Own, Mine, Served, ServedBy, CurrentOf, FlagsOf, UserMap, UserOf, Pooled,
         UserLocks, CreateLocs, HandlerLocs, DeleteLocs, RecvLocs, LeaveLocs, LockedLocs
<1>5. QED
  BY <1>2, <1>3, <1>4, Frame

\* The steps of CreateUser and OnClientJoin.
LEMMA CreateKeeps ==
    ASSUME TypeOK, Ownership, cur[Acceptor] # Nobody,
           CreateLock \/ CreateInsert \/ CreateCount
    PROVE  Ownership'
<1> USE ThreadsDistinct, OwnershipTypes, LocksDistinct
    DEF maps, locks, counters, Ownership
<1>1. PICK s \in Sessions, u \in Users : s = sid[Acceptor] /\ u = cur[Acceptor]
  BY DEF Served, ServedBy
<1>2. Mine(Acceptor, s, u)
  BY <1>1, CurrentIsMine
<1>3. CASE CreateLock
  <2>1. Touches(Acceptor, s, u)
    BY <1>1, <1>3 DEF CreateLock, Goto, Touches, InitUser
  <2>2. user[u] \in UserType
    BY DEF TypeOK, UserType
  <2>3. Own(Acceptor, s, u)'
    BY <1>1, <1>2, <1>3, <2>2
       DEF CreateLock, Goto, InitUser, UserType, Own, Mine, Served, ServedBy, Current,
           CurrentOf, Flags, FlagsOf, UserMap, UserOf, Pooled, UserLocks, CreateLocs,
           HandlerLocs, DeleteLocs, RecvLocs, LeaveLocs, LockedLocs
  <2>4. QED
    BY <1>2, <2>1, <2>3, Frame
<1>4. CASE CreateInsert
  <2>1. Touches(Acceptor, s, u)
    BY <1>1, <1>4 DEF CreateInsert, Goto, Touches
  <2>2. Own(Acceptor, s, u)'
    BY <1>1, <1>2, <1>4
       DEF CreateInsert, Goto, Own, Mine, Served, ServedBy, Current, CurrentOf, Flags,
           FlagsOf, UserMap, UserOf, Pooled, UserLocks, CreateLocs, HandlerLocs,
           DeleteLocs, RecvLocs, LeaveLocs, LockedLocs
  <2>3. QED
    BY <1>2, <2>1, <2>2, Frame
<1>5. CASE CreateCount
  <2>1. Touches(Acceptor, s, u)
    BY <1>1, <1>5 DEF CreateCount, Return, Touches
  <2>2. Own(Acceptor, s, u)'
    BY <1>1, <1>2, <1>5
       DEF CreateCount, Return, Own, Mine, Served, ServedBy, Current, CurrentOf, Flags,
           FlagsOf, UserMap, UserOf, Pooled, UserLocks, CreateLocs, HandlerLocs,
           DeleteLocs, RecvLocs, LeaveLocs, LockedLocs
  <2>3. QED
    BY <1>2, <2>1, <2>2, Frame
<1>6. QED
  BY <1>3, <1>4, <1>5

\* The steps of OnRecv once the User is found.
LEMMA HandlerKeeps ==
    ASSUME TypeOK, Ownership, NEW t \in Workers, cur[t] # Nobody,
           \/ AcquireUser(t) \/ ReleaseUser(t) \/ LoginAccount(t) \/ LoginDec(t) \/ LoginInc(t)
           \/ MoveLock(t) \/ Move(t) \/ ChatLock(t) \/ Chat(t)
    PROVE  Ownership'
<1> USE ThreadsDistinct, OwnershipTypes, LocksDistinct
    DEF maps, locks, counters, Ownership
<1>1. PICK s \in Sessions, u \in Users : s = sid[t] /\ u = cur[t]
  BY DEF Served, ServedBy
<1>2. Mine(t, s, u)
  BY <1>1, CurrentIsMine
<1>3. CASE AcquireUser(t)
  <2>1. Touches(t, s, u)
    BY <1>1, <1>3 DEF AcquireUser, Goto, Handle, LoginAccepted, MoveAccepted, Touches
  <2>2. Own(t, s, u)'
    BY <1>1, <1>2, <1>3
       DEF AcquireUser, Goto, Handle, LoginAccepted, MoveAccepted, Own, Mine, Served,
           ServedBy, Current, CurrentOf, Flags, FlagsOf, UserMap, UserOf, Pooled,
           UserLocks, CreateLocs, HandlerLocs, DeleteLocs, RecvLocs, LeaveLocs,
           LockedLocs
  <2>3. QED
    BY <1>2, <2>1, <2>2, Frame
<1>4. CASE ReleaseUser(t)
  <2>1. Touches(t, s, u)
    BY <1>1, <1>4 DEF ReleaseUser, Return, Touches
  <2>2. Own(t, s, u)'
    BY <1>1, <1>2, <1>4
       DEF ReleaseUser, Return, Own, Mine, Served, ServedBy, Current, CurrentOf, Flags,
           FlagsOf, UserMap, UserOf, Pooled, UserLocks, CreateLocs, HandlerLocs,
           DeleteLocs, RecvLocs, LeaveLocs, LockedLocs
  <2>3. QED
    BY <1>2, <2>1, <2>2, Frame
<1>5. CASE LoginAccount(t)
  <2>1. Touches(t, s, u)
    BY <1>1, <1>5 DEF LoginAccount, Goto, Touches
  <2>2. Own(t, s, u)'
    BY <1>1, <1>2, <1>5
       DEF LoginAccount, Goto, Own, Mine, Served, ServedBy, Current, CurrentOf, Flags,
           FlagsOf, UserMap, UserOf, Pooled, UserLocks, CreateLocs, HandlerLocs,
           DeleteLocs, RecvLocs, LeaveLocs, LockedLocs
  <2>3. QED
    BY <1>2, <2>1, <2>2, Frame
<1>6. CASE LoginDec(t)
  <2>1. Touches(t, s, u)
    BY <1>1, <1>6 DEF LoginDec, Goto, Touches
  <2>2. Own(t, s, u)'
    BY <1>1, <1>2, <1>6
       DEF LoginDec, Goto, Own, Mine, Served, ServedBy, Current, CurrentOf, Flags,
           FlagsOf, UserMap, UserOf, Pooled, UserLocks, CreateLocs, HandlerLocs,
           DeleteLocs, RecvLocs, LeaveLocs, LockedLocs
  <2>3. QED
    BY <1>2, <2>1, <2>2, Frame
<1>7. CASE LoginInc(t)
  <2>1. Touches(t, s, u)
    BY <1>1, <1>7 DEF LoginInc, Goto, Touches
  <2>2. user[u] \in UserType
    BY DEF TypeOK, UserType
  <2>3. Own(t, s, u)'
    BY <1>1, <1>2, <1>7, <2>2
       DEF LoginInc, Goto, UserType, Own, Mine, Served, ServedBy, Current, CurrentOf,
           Flags, FlagsOf, UserMap, UserOf, Pooled, UserLocks, CreateLocs, HandlerLocs,
           DeleteLocs, RecvLocs, LeaveLocs, LockedLocs
  <2>4. QED
    BY <1>2, <2>1, <2>3, Frame
<1>8. CASE MoveLock(t)
  <2>1. Touches(t, s, u)
    BY <1>1, <1>8 DEF MoveLock, TakeSector, Touches
  <2>2. Own(t, s, u)'
    BY <1>1, <1>2, <1>8
       DEF MoveLock, TakeSector, Own, Mine, Served, ServedBy, Current, CurrentOf, Flags,
           FlagsOf, UserMap, UserOf, Pooled, UserLocks, CreateLocs, HandlerLocs,
           DeleteLocs, RecvLocs, LeaveLocs, LockedLocs
  <2>3. QED
    BY <1>2, <2>1, <2>2, Frame
<1>9. CASE Move(t)
  <2>1. Touches(t, s, u)
    BY <1>1, <1>9 DEF Move, LeaveSectors, Touches, UserLocks
  <2>2. user[u] \in UserType
    BY DEF TypeOK, UserType
  <2>3. Own(t, s, u)'
    BY <1>1, <1>2, <1>9, <2>2
       DEF Move, LeaveSectors, UserType, Own, Mine, Served, ServedBy, Current, CurrentOf,
           Flags, FlagsOf, UserMap, UserOf, Pooled, UserLocks, CreateLocs, HandlerLocs,
           DeleteLocs, RecvLocs, LeaveLocs, LockedLocs
  <2>4. QED
    BY <1>2, <2>1, <2>3, Frame
<1>10. CASE ChatLock(t)
  <2>1. Touches(t, s, u)
    BY <1>1, <1>10 DEF ChatLock, TakeSector, Touches
  <2>2. Own(t, s, u)'
    BY <1>1, <1>2, <1>10
       DEF ChatLock, TakeSector, Own, Mine, Served, ServedBy, Current, CurrentOf, Flags,
           FlagsOf, UserMap, UserOf, Pooled, UserLocks, CreateLocs, HandlerLocs,
           DeleteLocs, RecvLocs, LeaveLocs, LockedLocs
  <2>3. QED
    BY <1>2, <2>1, <2>2, Frame
<1>11. CASE Chat(t)
  <2>1. Touches(t, s, u)
    BY <1>1, <1>11 DEF Chat, LeaveSectors, Touches, UserLocks
  <2>2. Own(t, s, u)'
    BY <1>1, <1>2, <1>11
       DEF Chat, LeaveSectors, Own, Mine, Served, ServedBy, Current, CurrentOf, Flags,
           FlagsOf, UserMap, UserOf, Pooled, UserLocks, CreateLocs, HandlerLocs,
           DeleteLocs, RecvLocs, LeaveLocs, LockedLocs
  <2>3. QED
    BY <1>2, <2>1, <2>2, Frame
<1>12. QED
  BY <1>3, <1>4, <1>5, <1>6, <1>7, <1>8, <1>9, <1>10, <1>11

\* The steps of DeleteUser and OnClientLeave once the User is found.
LEMMA DeleteKeeps ==
    ASSUME TypeOK, Ownership, NEW t \in Workers, cur[t] # Nobody,
           \/ DeleteLock(t) \/ DeleteSector(t) \/ DeleteUnlock(t) \/ DeleteAccount(t)
           \/ DeleteCount(t) \/ DeleteFree(t)
    PROVE  Ownership'
<1> USE ThreadsDistinct, OwnershipTypes, LocksDistinct
    DEF maps, locks, counters, Ownership
<1>1. PICK s \in Sessions, u \in Users : s = sid[t] /\ u = cur[t]
  BY DEF Served, ServedBy
<1>2. Mine(t, s, u)
  BY <1>1, CurrentIsMine
<1>3. CASE DeleteLock(t)
  <2>1. Touches(t, s, u)
    BY <1>1, <1>3 DEF DeleteLock, Goto, Touches
  <2>2. Own(t, s, u)'
    BY <1>1, <1>2, <1>3
       DEF DeleteLock, Goto, Own, Mine, Served, ServedBy, Current, CurrentOf, Flags,
           FlagsOf, UserMap, UserOf, Pooled, UserLocks, CreateLocs, HandlerLocs,
           DeleteLocs, RecvLocs, LeaveLocs, LockedLocs
  <2>3. QED
    BY <1>2, <2>1, <2>2, Frame
<1>4. CASE DeleteSector(t)
  <2>1. Touches(t, s, u)
    BY <1>1, <1>4 DEF DeleteSector, Goto, Touches
  <2>2. user[u] \in UserType
    BY DEF TypeOK, UserType
  <2>3. Own(t, s, u)'
    BY <1>1, <1>2, <1>4, <2>2
       DEF DeleteSector, Goto, UserType, Own, Mine, Served, ServedBy, Current, CurrentOf,
           Flags, FlagsOf, UserMap, UserOf, Pooled, UserLocks, CreateLocs, HandlerLocs,
           DeleteLocs, RecvLocs, LeaveLocs, LockedLocs
  <2>4. QED
    BY <1>2, <2>1, <2>3, Frame
<1>5. CASE DeleteUnlock(t)
  <2>1. Touches(t, s, u)
    BY <1>1, <1>5 DEF DeleteUnlock, Goto, Touches
  <2>2. Own(t, s, u)'
    BY <1>1, <1>2, <1>5
       DEF DeleteUnlock, Goto, Own, Mine, Served, ServedBy, Current, CurrentOf, Flags,
           FlagsOf, UserMap, UserOf, Pooled, UserLocks, CreateLocs, HandlerLocs,
           DeleteLocs, RecvLocs, LeaveLocs, LockedLocs
  <2>3. QED
    BY <1>2, <2>1, <2>2, Frame
<1>6. CASE DeleteAccount(t)
  <2>1. Touches(t, s, u)
    BY <1>1, <1>6 DEF DeleteAccount, Goto, Touches
  <2>2. Own(t, s, u)'
    BY <1>1, <1>2, <1>6
       DEF DeleteAccount, Goto, Own, Mine, Served, ServedBy, Current, CurrentOf, Flags,
           FlagsOf, UserMap, UserOf, Pooled, UserLocks, CreateLocs, HandlerLocs,
           DeleteLocs, RecvLocs, LeaveLocs, LockedLocs
  <2>3. QED
    BY <1>2, <2>1, <2>2, Frame
<1>7. CASE DeleteCount(t)
  <2>1. Touches(t, s, u)
    BY <1>1, <1>7 DEF DeleteCount, Goto, Touches
  <2>2. user[u] \in UserType
    BY DEF TypeOK, UserType
  <2>3. Own(t, s, u)'
    BY <1>1, <1>2, <1>7, <2>2
       DEF DeleteCount, Goto, UserType, Own, Mine, Served, ServedBy, Current, CurrentOf,
           Flags, FlagsOf, UserMap, UserOf, Pooled, UserLocks, CreateLocs, HandlerLocs,
           DeleteLocs, RecvLocs, LeaveLocs, LockedLocs
  <2>4. QED
    BY <1>2, <2>1, <2>3, Frame
<1>8. CASE DeleteFree(t)
  <2>1. Touches(t, s, u)
    BY <1>1, <1>8 DEF DeleteFree, Return, Touches
  <2>2. Own(t, s, u)'
    BY <1>1, <1>2, <1>8
       DEF DeleteFree, Return, Own, Mine, Served, ServedBy, Current, CurrentOf, Flags,
           FlagsOf, UserMap, UserOf, Pooled, UserLocks, CreateLocs, HandlerLocs,
           DeleteLocs, RecvLocs, LeaveLocs, LockedLocs
  <2>3. QED
    BY <1>2, <2>1, <2>2, Frame
<1>9. QED
  BY <1>3, <1>4, <1>5, <1>6, <1>7, <1>8

-----------------------------------------------------------------------------
(* Types, and the sectors. *)

\* A request names the account of its session and a position of the grid or outside.
LEMMA RequestFacts ==
    /\ \A s \in Sessions : \A r \in Requests(s) :
           r.account = AccountOf[s] /\ r.pos \in Grid \cup {Outside}
    /\ NoRequest.account = NoAccount /\ NoRequest.pos = Outside
  BY DEF Requests, NoRequest

RequestType == {NoRequest} \cup UNION {Requests(s) : s \in Sessions}

\* A User in a sector is in one of the grid.
InGrid == \A u \in Users : user[u].inSector => user[u].pos \in Grid

\* Steps that touch neither a User nor the sectors.
LEMMA UserSteps ==
    [Next]_vars => \/ UNCHANGED <<user, g_SectorList>>
                   \/ CreateLock
                   \/ \E t \in Workers : \/ LoginInc(t) \/ Move(t)
                                         \/ DeleteSector(t) \/ DeleteCount(t)
  BY DEF Next, AcceptorStep, WorkerStep, vars, Join, CreateInsert, CreateCount, Recv,
         Leave, AcquireMap, AcquireUser, ReleaseUser, LoginAccount, LoginDec, MoveLock,
         ChatLock, Chat, DeleteMap, DeleteLock, DeleteUnlock, DeleteAccount, DeleteFree

\* What the handlers write to a User keeps its type.
LEMMA UpdatedUser ==
    ASSUME NEW r \in UserType
    PROVE  /\ \A s \in Sessions : [r EXCEPT !.ssid = s, !.pos = Outside, !.login = FALSE,
                                            !.inSector = FALSE] \in UserType
           /\ \A a \in Accounts : [r EXCEPT !.login = TRUE, !.accountNo = a] \in UserType
           /\ \A p \in Grid : [r EXCEPT !.inSector = TRUE, !.pos = p] \in UserType
           /\ [r EXCEPT !.inSector = FALSE] \in UserType
           /\ [r EXCEPT !.login = FALSE] \in UserType
<1>1. \A s \in Sessions : [r EXCEPT !.ssid = s, !.pos = Outside, !.login = FALSE,
                                    !.inSector = FALSE] \in UserType
  BY DEF UserType
<1>2. \A a \in Accounts : [r EXCEPT !.login = TRUE, !.accountNo = a] \in UserType
  BY DEF UserType
<1>3. \A p \in Grid : [r EXCEPT !.inSector = TRUE, !.pos = p] \in UserType
  BY DEF UserType
<1>4. [r EXCEPT !.inSector = FALSE] \in UserType
  BY DEF UserType
<1>5. [r EXCEPT !.login = FALSE] \in UserType
  BY DEF UserType
<1>6. QED
  BY <1>1, <1>2, <1>3, <1>4, <1>5

\* What a step does to a User and to the sectors, in terms of types alone.
LEMMA NextUserType ==
    ASSUME TypeOK, Ownership, InGrid, [Next]_vars
    PROVE  /\ user' \in [Users -> UserType] /\ g_SectorList' \in [Grid -> SUBSET Users]
           /\ InGrid'
<1>1. /\ user \in [Users -> UserType] /\ g_SectorList \in [Grid -> SUBSET Users]
      /\ \A t \in Threads : sid[t] \in Sessions \cup {Nobody}
      /\ \A t \in Threads : cur[t] \in Users \cup {Nobody}
  BY DEF TypeOK, UserType
<1>2. CASE UNCHANGED <<user, g_SectorList>>
  BY <1>1, <1>2 DEF InGrid
<1>3. CASE CreateLock
  <2>1. cur[Acceptor] \in Users /\ sid[Acceptor] \in Sessions
    BY <1>1, <1>3, ThreadsDistinct
       DEF CreateLock, Ownership, Served, ServedBy, Current, CurrentOf
  <2>2. user' = InitUser(cur[Acceptor], sid[Acceptor]) /\ UNCHANGED g_SectorList
    BY <1>3 DEF CreateLock
  <2>3. user' \in [Users -> UserType]
    BY <1>1, <2>1, <2>2, UpdatedUser DEF InitUser
  <2>4. InGrid'
    BY <1>1, <2>1, <2>2 DEF InGrid, InitUser, UserType
  <2>5. QED
    BY <1>1, <2>2, <2>3, <2>4
<1>4. ASSUME NEW t \in Workers, pc[t] \in HandlerLocs \cup DeleteLocs
      PROVE  cur[t] \in Users
  BY <1>1, <1>4, ThreadsDistinct DEF Ownership, Current, CurrentOf
<1>5. ASSUME NEW t \in Workers, pc[t] \in HandlerLocs
      PROVE  /\ req[t].account \in Accounts
             /\ req[t].pos \in Grid \cup {Outside}
  <2>1. sid[t] \in Sessions /\ req[t] \in Requests(sid[t])
    BY <1>1, <1>5, ThreadsDistinct DEF Ownership, Served, ServedBy, RecvLocs, HandlerLocs
  <2>2. QED
    BY <2>1, RequestFacts DEF Accounts
<1>6. ASSUME NEW t \in Workers, LoginInc(t)
      PROVE  user' \in [Users -> UserType] /\ UNCHANGED g_SectorList /\ InGrid'
  <2>1. cur[t] \in Users /\ req[t].account \in Accounts
    BY <1>4, <1>5, <1>6 DEF LoginInc, HandlerLocs
  <2>2. /\ user' = [user EXCEPT ![cur[t]] = [@ EXCEPT !.login = TRUE,
                                                       !.accountNo = req[t].account]]
        /\ UNCHANGED g_SectorList
    BY <1>6 DEF LoginInc
  <2>3. user' \in [Users -> UserType]
    BY <1>1, <2>1, <2>2, UpdatedUser
  <2>4. InGrid'
    BY <1>1, <2>1, <2>2 DEF InGrid, UserType
  <2>5. QED
    BY <2>2, <2>3, <2>4
<1>7. ASSUME NEW t \in Workers, Move(t)
      PROVE  /\ user' \in [Users -> UserType] /\ g_SectorList' \in [Grid -> SUBSET Users]
             /\ InGrid'
  <2>1. cur[t] \in Users /\ req[t].pos \in Grid
    BY <1>4, <1>7, ThreadsDistinct
       DEF Move, HandlerLocs, Ownership, Flags, FlagsOf, DeleteLocs
  <2>2. /\ user' = [user EXCEPT ![cur[t]] = [@ EXCEPT !.inSector = TRUE,
                                                       !.pos = req[t].pos]]
        /\ g_SectorList' = Sector_AddUser(Sector_RemoveUser(g_SectorList, cur[t]),
                                          cur[t], req[t].pos)
    BY <1>7 DEF Move
  <2>3. user' \in [Users -> UserType]
    BY <1>1, <2>1, <2>2, UpdatedUser
  <2>4. InGrid'
    BY <1>1, <2>1, <2>2 DEF InGrid, UserType
  <2>5. g_SectorList' \in [Grid -> SUBSET Users]
    BY <1>1, <2>1, <2>2 DEF Sector_AddUser, Sector_RemoveUser
  <2>6. QED
    BY <2>3, <2>4, <2>5
<1>8. ASSUME NEW t \in Workers, DeleteSector(t)
      PROVE  /\ user' \in [Users -> UserType] /\ g_SectorList' \in [Grid -> SUBSET Users]
             /\ InGrid'
  <2>1. cur[t] \in Users
    BY <1>4, <1>8 DEF DeleteSector, DeleteLocs
  <2>2. /\ user' = [user EXCEPT ![cur[t]] = [@ EXCEPT !.inSector = FALSE]]
        /\ g_SectorList' = Sector_RemoveUser(g_SectorList, cur[t])
    BY <1>8 DEF DeleteSector
  <2>3. user' \in [Users -> UserType]
    BY <1>1, <2>1, <2>2, UpdatedUser
  <2>4. InGrid'
    BY <1>1, <2>1, <2>2 DEF InGrid, UserType
  <2>5. g_SectorList' \in [Grid -> SUBSET Users]
    BY <1>1, <2>1, <2>2 DEF Sector_RemoveUser
  <2>6. QED
    BY <2>3, <2>4, <2>5
<1>9. ASSUME NEW t \in Workers, DeleteCount(t)
      PROVE  user' \in [Users -> UserType] /\ UNCHANGED g_SectorList /\ InGrid'
  <2>1. cur[t] \in Users
    BY <1>4, <1>9 DEF DeleteCount, DeleteLocs
  <2>2. /\ user' = [user EXCEPT ![cur[t]] = [@ EXCEPT !.login = FALSE]]
        /\ UNCHANGED g_SectorList
    BY <1>9 DEF DeleteCount
  <2>3. user' \in [Users -> UserType]
    BY <1>1, <2>1, <2>2, UpdatedUser
  <2>4. InGrid'
    BY <1>1, <2>1, <2>2 DEF InGrid, UserType
  <2>5. QED
    BY <2>2, <2>3, <2>4
<1>10. QED
  BY <1>1, <1>2, <1>3, <1>6, <1>7, <1>8, <1>9, UserSteps

\* Every variable keeps its type.
LEMMA NextTypeOK ==
    ASSUME TypeOK, Ownership, InGrid, [Next]_vars PROVE TypeOK' /\ InGrid'
<1>1. /\ user' \in [Users -> UserType] /\ g_SectorList' \in [Grid -> SUBSET Users] /\ InGrid'
  BY NextUserType
<1> DEFINE Rest ==
        /\ m_userMap \in [Sessions -> Users \cup {Nobody}]
        /\ m_accountMap \in [Accounts -> Sessions \cup {Nobody}]
        /\ m_connectCnt \in Int /\ m_loginCnt \in Int
        /\ pool \subseteq Users
        /\ exclusive \in [Locks -> Threads \cup {Nobody}]
        /\ shared \in [Locks -> SUBSET Threads]
        /\ stage \in [Sessions -> Stages]
        /\ pc \in [Threads -> Locations]
        /\ sid \in [Threads -> Sessions \cup {Nobody}]
        /\ cur \in [Threads -> Users \cup {Nobody}]
        /\ req \in [Threads -> RequestType]
        /\ todo \in [Threads -> SUBSET Grid]
<1>2. Rest
  BY DEF TypeOK, RequestType
<1>3. /\ NoRequest \in RequestType
      /\ \A s \in Sessions : \A r \in Requests(s) : r \in RequestType
  BY DEF RequestType
<1>4. Rest'
  <2> USE <1>2, <1>3, ThreadsDistinct DEF Goto, maps, counters, locks, thread
  <2>1. ASSUME NEW s \in Sessions, Join(s) PROVE Rest'
    BY <2>1 DEF Join, Call, Stages, Locations
  <2>2. CASE CreateLock
    BY <2>2 DEF CreateLock, Locations
  <2>3. CASE CreateInsert
    <3>1. sid[Acceptor] \in Sessions /\ cur[Acceptor] \in Users
      BY <2>3 DEF CreateInsert, Ownership, Served, ServedBy, Current, CurrentOf
    <3>2. QED
      BY <2>3, <3>1 DEF CreateInsert, Locations
  <2>4. CASE CreateCount
    <3>1. m_connectCnt' \in Int /\ m_loginCnt' = m_loginCnt
      BY <2>4 DEF CreateCount
    <3>2. QED
      BY <2>4, <3>1 DEF CreateCount, Return, Stages, Locations
  <2>5. ASSUME NEW t \in Workers, NEW s \in Sessions, Recv(t, s) PROVE Rest'
    BY <2>5 DEF Recv, Call, Stages, Locations
  <2>6. ASSUME NEW t \in Workers, NEW s \in Sessions, Leave(t, s) PROVE Rest'
    BY <2>6 DEF Leave, Call, Stages, Locations
  <2>7. ASSUME NEW t \in Workers, AcquireMap(t) PROVE Rest'
    <3>1. m_userMap[sid[t]] \in Users \cup {Nobody}
      BY <2>7 DEF AcquireMap, Ownership, Served, ServedBy
    <3>2. QED
      BY <2>7, <3>1 DEF AcquireMap, Locations
  <2>8. ASSUME NEW t \in Workers, AcquireUser(t) PROVE Rest'
    <3>1. FromAndTo(cur[t], req[t].pos) \in SUBSET Grid \/ ~MoveAccepted(cur[t], req[t])
      <4>1. cur[t] \in Users
        BY <2>8 DEF AcquireUser, Ownership, Current, CurrentOf
      <4>2. user[cur[t]].inSector => user[cur[t]].pos \in Grid
        BY <4>1 DEF InGrid
      <4>3. QED
        BY <4>2 DEF FromAndTo, MoveAccepted
    <3>2. Around(user[cur[t]].pos) \in SUBSET Grid /\ {} \in SUBSET Grid
      BY DEF Around
    <3>3. PICK l \in Locations, S \in SUBSET Grid :
              /\ pc' = [pc EXCEPT ![t] = l]
              /\ todo' = [todo EXCEPT ![t] = S] \/ todo' = todo
              /\ UNCHANGED <<sid, cur, req>>
      BY <2>8, <3>1, <3>2 DEF AcquireUser, Handle, Locations
    <3>4. QED
      BY <2>8, <3>3 DEF AcquireUser
  <2>9. ASSUME NEW t \in Workers, ReleaseUser(t) PROVE Rest'
    BY <2>9 DEF ReleaseUser, Return, Stages, Locations
  <2>10. ASSUME NEW t \in Workers, LoginAccount(t) PROVE Rest'
    <3>1. sid[t] \in Sessions /\ req[t].account \in Accounts
      <4>1. sid[t] \in Sessions /\ req[t] \in Requests(sid[t])
        BY <2>10 DEF LoginAccount, Ownership, Served, ServedBy, RecvLocs, HandlerLocs
      <4>2. QED
        BY <4>1, RequestFacts DEF Accounts
    <3>2. QED
      BY <2>10, <3>1 DEF LoginAccount, Locations
  <2>11. ASSUME NEW t \in Workers, LoginDec(t) PROVE Rest'
    BY <2>11 DEF LoginDec, Locations
  <2>12. ASSUME NEW t \in Workers, LoginInc(t) PROVE Rest'
    BY <2>12 DEF LoginInc, Locations
  <2>13. ASSUME NEW t \in Workers, MoveLock(t) PROVE Rest'
    BY <2>13 DEF MoveLock, TakeSector
  <2>14. ASSUME NEW t \in Workers, Move(t) PROVE Rest'
    BY <2>14 DEF Move, LeaveSectors, Locations
  <2>15. ASSUME NEW t \in Workers, ChatLock(t) PROVE Rest'
    BY <2>15 DEF ChatLock, TakeSector
  <2>16. ASSUME NEW t \in Workers, Chat(t) PROVE Rest'
    BY <2>16 DEF Chat, LeaveSectors, Locations
  <2>17. ASSUME NEW t \in Workers, DeleteMap(t) PROVE Rest'
    <3>1. m_userMap[sid[t]] \in Users \cup {Nobody}
      BY <2>17 DEF DeleteMap, Ownership, Served, ServedBy
    <3>2. QED
      BY <2>17, <3>1 DEF DeleteMap, Locations
  <2>18. ASSUME NEW t \in Workers, DeleteLock(t) PROVE Rest'
    BY <2>18 DEF DeleteLock, Locations
  <2>19. ASSUME NEW t \in Workers, DeleteSector(t) PROVE Rest'
    BY <2>19 DEF DeleteSector, Locations
  <2>20. ASSUME NEW t \in Workers, DeleteUnlock(t) PROVE Rest'
    BY <2>20 DEF DeleteUnlock, Locations
  <2>21. ASSUME NEW t \in Workers, DeleteAccount(t) PROVE Rest'
    BY <2>21 DEF DeleteAccount, Locations
  <2>22. ASSUME NEW t \in Workers, DeleteCount(t) PROVE Rest'
    BY <2>22 DEF DeleteCount, Locations
  <2>23. ASSUME NEW t \in Workers, DeleteFree(t) PROVE Rest'
    <3>1. cur[t] \in Users
      BY <2>23 DEF DeleteFree, Ownership, Current, CurrentOf, DeleteLocs
    <3>2. QED
      BY <2>23, <3>1 DEF DeleteFree, Return, Stages, Locations
  <2>24. CASE UNCHANGED vars
    BY <2>24 DEF vars
  <2>25. QED
    BY <2>1, <2>2, <2>3, <2>4, <2>5, <2>6, <2>7, <2>8, <2>9, <2>10, <2>11, <2>12,
       <2>13, <2>14, <2>15, <2>16, <2>17, <2>18, <2>19, <2>20, <2>21, <2>22, <2>23,
       <2>24
       DEF Next, AcceptorStep, WorkerStep
<1>5. QED
  BY <1>1, <1>4 DEF TypeOK, UserType, RequestType

\* A User's fields after a step, where they are used below.
LEMMA UserFields ==
    ASSUME TypeOK, Ownership
    PROVE  /\ \A u \in Users : user[u] \in UserType
           /\ \A t \in Workers : pc[t] \in HandlerLocs \cup DeleteLocs => cur[t] \in Users
           /\ CreateLock => cur[Acceptor] \in Users /\ sid[Acceptor] \in Sessions
BY ThreadsDistinct
   DEF TypeOK, UserType, Ownership, Served, ServedBy, Current, CurrentOf, CreateLock

\* Every step keeps the users' positions and the sectors' lists in agreement.
LEMMA SectorsStep ==
    ASSUME TypeOK, Ownership, InGrid, SectorsAgree, [Next]_vars PROVE SectorsAgree'
<1>1. /\ \A u \in Users : user[u] \in UserType
      /\ \A t \in Workers : pc[t] \in HandlerLocs \cup DeleteLocs => cur[t] \in Users
      /\ CreateLock => cur[Acceptor] \in Users /\ sid[Acceptor] \in Sessions
      /\ DOMAIN user = Users
  BY UserFields DEF TypeOK
<1>2. g_SectorList \in [Grid -> SUBSET Users]
  BY DEF TypeOK
<1> SUFFICES ASSUME NEW p \in Grid, NEW u \in Users
             PROVE  u \in g_SectorList'[p] <=> user'[u].inSector /\ user'[u].pos = p
  BY DEF SectorsAgree
<1>3. u \in g_SectorList[p] <=> user[u].inSector /\ user[u].pos = p
  BY DEF SectorsAgree
<1>4. CASE UNCHANGED <<user, g_SectorList>>
  BY <1>3, <1>4
<1>5. CASE CreateLock
  <2>1. ~user[cur[Acceptor]].inSector
    BY <1>5, ThreadsDistinct DEF CreateLock, Ownership, Flags, FlagsOf
  <2>2. u # cur[Acceptor] => user'[u] = user[u]
    BY <1>1, <1>5 DEF CreateLock, InitUser
  <2>3. u = cur[Acceptor] => ~user'[u].inSector
    BY <1>1, <1>5 DEF CreateLock, InitUser, UserType
  <2>4. QED
    BY <1>3, <1>5, <2>1, <2>2, <2>3 DEF CreateLock
<1>6. ASSUME NEW t \in Workers, LoginInc(t)
      PROVE  u \in g_SectorList'[p] <=> user'[u].inSector /\ user'[u].pos = p
  <2>1. user'[u].inSector = user[u].inSector /\ user'[u].pos = user[u].pos
    BY <1>1, <1>6 DEF LoginInc, UserType
  <2>2. QED
    BY <1>3, <1>6, <2>1 DEF LoginInc
<1>7. ASSUME NEW t \in Workers, Move(t)
      PROVE  u \in g_SectorList'[p] <=> user'[u].inSector /\ user'[u].pos = p
  <2>1. cur[t] \in Users /\ req[t].pos \in Grid
    BY <1>1, <1>7, ThreadsDistinct DEF Move, HandlerLocs, Ownership, Flags, FlagsOf
  <2>2. u # cur[t] => user'[u] = user[u]
    BY <1>1, <1>7, <2>1 DEF Move
  <2>3. u = cur[t] => user'[u].inSector /\ user'[u].pos = req[t].pos
    BY <1>1, <1>7, <2>1 DEF Move, UserType
  <2>4. u # cur[t] => (u \in g_SectorList'[p] <=> u \in g_SectorList[p])
    BY <1>2, <1>7, <2>1 DEF Move, Sector_AddUser, Sector_RemoveUser
  <2>5. u = cur[t] => (u \in g_SectorList'[p] <=> p = req[t].pos)
    BY <1>2, <1>3, <1>7, <2>1 DEF Move, Sector_AddUser, Sector_RemoveUser
  <2>6. QED
    BY <1>3, <2>2, <2>3, <2>4, <2>5
<1>8. ASSUME NEW t \in Workers, DeleteSector(t)
      PROVE  u \in g_SectorList'[p] <=> user'[u].inSector /\ user'[u].pos = p
  <2>1. cur[t] \in Users
    BY <1>1, <1>8 DEF DeleteSector, DeleteLocs
  <2>2. u # cur[t] => user'[u] = user[u]
    BY <1>1, <1>8, <2>1 DEF DeleteSector
  <2>3. u = cur[t] => ~user'[u].inSector
    BY <1>1, <1>8, <2>1 DEF DeleteSector, UserType
  <2>4. u # cur[t] => (u \in g_SectorList'[p] <=> u \in g_SectorList[p])
    BY <1>2, <1>8, <2>1 DEF DeleteSector, Sector_RemoveUser
  <2>5. u = cur[t] => u \notin g_SectorList'[p]
    BY <1>2, <1>3, <1>8, <2>1 DEF DeleteSector, Sector_RemoveUser
  <2>6. QED
    BY <1>3, <2>2, <2>3, <2>4, <2>5
<1>9. ASSUME NEW t \in Workers, DeleteCount(t)
      PROVE  u \in g_SectorList'[p] <=> user'[u].inSector /\ user'[u].pos = p
  <2>1. user'[u].inSector = user[u].inSector /\ user'[u].pos = user[u].pos
    BY <1>1, <1>9 DEF DeleteCount, UserType
  <2>2. QED
    BY <1>3, <1>9, <2>1 DEF DeleteCount
<1>10. QED
  BY <1>4, <1>5, <1>6, <1>7, <1>8, <1>9, UserSteps

-----------------------------------------------------------------------------
\* All that the theorems need.
IInv == TypeOK /\ InGrid /\ Ownership /\ SectorsAgree

\* It holds when the server starts, and in every step.
LEMMA InitIInv == Init => IInv
<1> SUFFICES ASSUME Init PROVE IInv
  OBVIOUS
<1> USE ThreadsDistinct DEF Init
<1>1. TypeOK
  BY DEF TypeOK, NewUser, NoRequest, Stages, Locations
<1>2. InGrid /\ SectorsAgree
  BY DEF InGrid, SectorsAgree, NewUser
<1>3. Served /\ Apart /\ Current /\ Flags
  BY DEF Served, ServedBy, Apart, Current, CurrentOf, Flags, FlagsOf, CreateLocs,
         HandlerLocs, DeleteLocs, RecvLocs, LeaveLocs
<1>4. UserMap /\ Pooled /\ UserLocks
  BY LocksDistinct DEF UserMap, UserOf, Pooled, UserLocks, NewUser
<1>5. QED
  BY <1>1, <1>2, <1>3, <1>4 DEF IInv, Ownership

\* Who owns what stays true in every step.
LEMMA OwnershipStep ==
    ASSUME TypeOK, Ownership, [Next]_vars PROVE Ownership'
<1>1. CASE AcceptorStep
  <2>1. CreateLock \/ CreateInsert \/ CreateCount => cur[Acceptor] # Nobody
    BY ThreadsDistinct
       DEF CreateLock, CreateInsert, CreateCount, Ownership, Current, CurrentOf
  <2>2. QED
    BY <1>1, <2>1, JoinKeeps, CreateKeeps DEF AcceptorStep
<1>2. ASSUME NEW t \in Workers, WorkerStep(t) PROVE Ownership'
  <2>1. pc[t] \in {"acq_user", "del_lock"} \cup HandlerLocs \cup DeleteLocs => cur[t] # Nobody
    BY ThreadsDistinct DEF Ownership, Current, CurrentOf
  <2>2. AcquireUser(t) \/ ReleaseUser(t) \/ LoginAccount(t) \/ LoginDec(t) \/ LoginInc(t)
          \/ MoveLock(t) \/ Move(t) \/ ChatLock(t) \/ Chat(t) => Ownership'
    BY <2>1, HandlerKeeps
       DEF AcquireUser, ReleaseUser, LoginAccount, LoginDec, LoginInc, MoveLock, Move,
           ChatLock, Chat, HandlerLocs
  <2>3. DeleteLock(t) \/ DeleteSector(t) \/ DeleteUnlock(t) \/ DeleteAccount(t)
          \/ DeleteCount(t) \/ DeleteFree(t) => Ownership'
    BY <2>1, DeleteKeeps
       DEF DeleteLock, DeleteSector, DeleteUnlock, DeleteAccount, DeleteCount,
           DeleteFree, DeleteLocs
  <2>4. QED
    BY <1>2, <2>2, <2>3, CallKeeps, FindKeeps DEF WorkerStep
<1>3. CASE UNCHANGED vars
  BY <1>3
     DEF vars, maps, locks, thread, Ownership, Served, ServedBy, Apart, UserMap, UserOf,
         Current, CurrentOf, Flags, FlagsOf, Pooled, UserLocks
<1>4. QED
  BY <1>1, <1>2, <1>3 DEF Next

\* Every step keeps the inductive invariant.
LEMMA NextIInv == IInv /\ [Next]_vars => IInv'
  BY NextTypeOK, OwnershipStep, SectorsStep DEF IInv

\* The inductive invariant holds in every behaviour.
LEMMA IInvCorrect == Spec => []IInv
  BY InitIInv, NextIInv, PTL DEF Spec

\* Every variable of the chat server keeps its type: in particular a handler works on a
\* User object and locks sectors of the grid (ChatServer.cpp:143-388, ProcPacket.cpp).
THEOREM TypeCorrect == Spec => []TypeOK
<1>1. IInv => TypeOK
  BY DEF IInv
<1>2. QED
  BY <1>1, IInvCorrect, PTL

\* No map, list, thread or lock refers to a User in the pool: DeleteUser erases it from
\* m_userMap and its sector before FreeUser (ChatServer.cpp:339-388), and uses it
\* after its unlock (369) as the only thread that can.
THEOREM PooledCorrect == Spec => []PooledIsUnused
<1>1. IInv => PooledIsUnused
  <2> SUFFICES ASSUME IInv, NEW u \in pool
               PROVE  /\ \A s \in Sessions : m_userMap[s] # u
                      /\ \A p \in Grid : u \notin g_SectorList[p]
                      /\ \A t \in Threads : cur[t] # u
                      /\ Free(UserLock(u))
    BY DEF PooledIsUnused
  <2>1. u \in Users /\ u # Nobody /\ exclusive[UserLock(u)] \in Threads \cup {Nobody}
    BY ThreadsDistinct, LocksDistinct DEF IInv, TypeOK
  <2>2. \A s \in Sessions : m_userMap[s] # u
    BY <2>1 DEF IInv, Ownership, UserMap, UserOf
  <2>3. \A p \in Grid : u \notin g_SectorList[p]
    BY <2>1 DEF IInv, SectorsAgree, Ownership, Pooled
  <2>4. \A t \in Threads : cur[t] # u
    BY DEF IInv, Ownership, Pooled
  <2>5. Free(UserLock(u))
    BY <2>1, <2>4 DEF IInv, Ownership, UserLocks, Free
  <2>6. QED
    BY <2>2, <2>3, <2>4, <2>5
<1>2. QED
  BY <1>1, IInvCorrect, PTL

\* Nobody waits for a User.
LEMMA UserLockFree == ASSUME IInv PROVE UserLockUncontended
<1> SUFFICES ASSUME NEW t \in Threads, pc[t] \in {"create_lock", "acq_user", "del_lock"}
             PROVE  Free(UserLock(cur[t]))
  BY DEF UserLockUncontended
<1>1. cur[t] \in Users /\ cur[t] # Nobody
  BY DEF IInv, TypeOK, Ownership, Current, CurrentOf
<1>2. exclusive[UserLock(cur[t])] \in Threads \cup {Nobody}
  BY <1>1, LocksDistinct DEF IInv, TypeOK
<1>3. pc[t] \notin LockedLocs
  BY DEF LockedLocs, HandlerLocs
<1>4. QED
  BY <1>1, <1>2, <1>3 DEF IInv, Ownership, UserLocks, Apart, Free

\* A User's lock is free whenever a thread asks for it: CreateUser's order (the User,
\* then the map, ChatServer.cpp:307-331) is the opposite of AcquireUser's (279-290)
\* and DeleteUser's (339-362), and does no harm because nobody waits for a User.
THEOREM LockUncontended == Spec => []UserLockUncontended
<1>1. IInv => UserLockUncontended
  BY UserLockFree
<1>2. QED
  BY <1>1, IInvCorrect, PTL

\* A sector's list holds exactly the users that are there, although Sector_RemoveUser
\* and Sector_AddUser change two lists and two fields under different locks
\* (ProcPacket.cpp:150-207, ChatServer.cpp:362-368).
THEOREM SectorsCorrect == Spec => []SectorsAgree
<1>1. IInv => SectorsAgree
  BY DEF IInv
<1>2. QED
  BY <1>1, IInvCorrect, PTL

-----------------------------------------------------------------------------
(***************************************************************************)
(* The threads of ChatServer never wait for each other in a circle, for    *)
(* any number of workers and any grid.                                     *)
(*                                                                         *)
(* The argument.  Nobody waits for a User (ChatServerProof), so who holds  *)
(* the map's lock goes on.  Who holds a sector waits at most for a sector  *)
(* after it, because todo loses its least sector first; of the threads     *)
(* that wait for sectors, one that waits for the last of them is blocked   *)
(* by no other.                                                            *)
(***************************************************************************)

SectorLocs == {"move_lock", "chat_lock"}

\* What a thread that holds the map's lock, or locks of sectors, is doing.
HeldBy(t) ==
    /\ exclusive[MapLock] = t => pc[t] \in {"del_lock", "crash"}
    /\ t \in shared[MapLock] => pc[t] = "acq_user"
    /\ \A p \in Grid :
           /\ exclusive[SectorLock(p)] = t => pc[t] = "move_lock"
           /\ t \in shared[SectorLock(p)] => pc[t] = "chat_lock"
           /\ exclusive[SectorLock(p)] = t \/ t \in shared[SectorLock(p)] =>
                  \A q \in todo[t] : Before(p, q)
    /\ pc[t] \in SectorLocs => todo[t] # {}
Holders == \A t \in Threads : HeldBy(t)

\* The lock of a sector is its own.
LEMMA SectorLocks ==
    /\ \A p \in Grid : /\ SectorLock(p) \in Locks /\ SectorLock(p) # MapLock
                       /\ \A q \in Grid : SectorLock(p) = SectorLock(q) => p = q
                       /\ \A u : SectorLock(p) # UserLock(u)
  BY DEF Locks, SectorLock, MapLock, UserLock, Grid

-----------------------------------------------------------------------------
(* The order of sectors. *)

\* The sectors are totally ordered, row by row.
LEMMA BeforeIsOrder ==
    /\ \A p \in Grid : ~Before(p, p)
    /\ \A p, q \in Grid : p # q => Before(p, q) \/ Before(q, p)
    /\ \A p, q, r \in Grid : Before(p, q) /\ Before(q, r) => Before(p, r)
  BY GridAssumption DEF Before, Grid

\* The grid is finite, so a collection of its subsets has a minimal one.
LEMMA MinimalSet ==
    ASSUME NEW C \in SUBSET (SUBSET Grid), C # {}
    PROVE  \E A \in C : \A B \in C : B \subseteq A => B = A
<1>1. IsFiniteSet(Grid)
  <2>1. MaxY - 1 \in Int /\ MaxX - 1 \in Int
    BY GridAssumption
  <2>2. IsFiniteSet(0 .. MaxY - 1) /\ IsFiniteSet(0 .. MaxX - 1)
    BY <2>1, FS_Interval
  <2>3. QED
    BY <2>2, FS_Product DEF Grid
<1>2. IsWellFoundedOn(StrictSubsetOrdering(Grid), SUBSET Grid)
  BY <1>1, FS_StrictSubsetOrderingWellFounded, FS_FiniteSubsetsOfFinite
<1>3. PICK A \in C : \A B \in C : ~(<<B, A>> \in StrictSubsetOrdering(Grid))
  BY <1>2, WFMin
<1>4. QED
  BY <1>3 DEF StrictSubsetOrdering

\* A set of sectors has a least one.
LEMMA LeastSector ==
    ASSUME NEW S \in SUBSET Grid, S # {}
    PROVE  \E p \in S : \A q \in S \ {p} : Before(p, q)
<1> DEFINE Below(p) == {q \in Grid : Before(q, p)}
<1>1. {Below(p) : p \in S} \in SUBSET (SUBSET Grid) /\ {Below(p) : p \in S} # {}
  OBVIOUS
<1>2. PICK A \in {Below(p) : p \in S} :
          \A B \in {Below(p) : p \in S} : B \subseteq A => B = A
  BY <1>1, MinimalSet
<1>3. PICK p \in S : A = Below(p)
  BY <1>2
<1>4. ASSUME NEW q \in S \ {p}, ~Before(p, q) PROVE FALSE
  <2>1. Before(q, p) /\ ~Before(q, q)
    BY <1>4, BeforeIsOrder
  <2>2. Below(q) \subseteq Below(p)
    BY <2>1, BeforeIsOrder
  <2>3. Below(q) = Below(p)
    BY <1>2, <1>3, <2>2
  <2>4. QED
    BY <2>1, <2>3
<1>5. QED
  BY <1>4

\* A set of sectors has a last one.
LEMMA LastSector ==
    ASSUME NEW S \in SUBSET Grid, S # {}
    PROVE  \E p \in S : \A q \in S : ~Before(p, q)
<1> DEFINE Above(p) == {q \in Grid : Before(p, q)}
<1>1. {Above(p) : p \in S} \in SUBSET (SUBSET Grid) /\ {Above(p) : p \in S} # {}
  OBVIOUS
<1>2. PICK A \in {Above(p) : p \in S} :
          \A B \in {Above(p) : p \in S} : B \subseteq A => B = A
  BY <1>1, MinimalSet
<1>3. PICK p \in S : A = Above(p)
  BY <1>2
<1>4. ASSUME NEW q \in S, Before(p, q) PROVE FALSE
  <2>1. Above(q) \subseteq Above(p)
    BY <1>4, BeforeIsOrder
  <2>2. Above(q) = Above(p)
    BY <1>2, <1>3, <2>1
  <2>3. q \in Above(p) /\ q \notin Above(q)
    BY <1>4, BeforeIsOrder
  <2>4. QED
    BY <2>2, <2>3
<1>5. QED
  BY <1>4

\* The sort of GetSectorAround and ProcSectorMove: the next sector is the least.
LEMMA NextIsLeast ==
    ASSUME TypeOK, NEW t \in Threads, todo[t] # {}
    PROVE  /\ NextSector(t) \in todo[t] /\ NextSector(t) \in Grid
           /\ \A q \in todo[t] \ {NextSector(t)} : Before(NextSector(t), q)
<1>1. todo[t] \in SUBSET Grid
  BY DEF TypeOK
<1>2. QED
  BY <1>1, LeastSector DEF NextSector

\* A set with more than one element has one besides x.
LEMMA MoreThanOne ==
    ASSUME NEW S, Cardinality(S) > 1, NEW x PROVE S \ {x} # {}
<1>1. Cardinality({}) = 0 /\ Cardinality({x}) = 1
  BY FS_EmptySet, FS_Singleton
<1>2. S # {} /\ S # {x}
  BY <1>1
<1>3. QED
  BY <1>2

-----------------------------------------------------------------------------
\* A step of thread t takes and releases locks for t alone.
OnlyFor(t) ==
    /\ \A o \in Threads \ {t} : pc'[o] = pc[o] /\ todo'[o] = todo[o]
    /\ \A l \in Locks : \A o \in Threads \ {t} :
           /\ exclusive'[l] = o => exclusive[l] = o
           /\ o \in shared'[l] => o \in shared[l]

\* A step that gives no lock to another thread keeps Holders, if t keeps its part.
LEMMA HoldersFrame ==
    ASSUME Holders, NEW t \in Threads, OnlyFor(t), HeldBy(t)' PROVE Holders'
<1>1. ASSUME NEW o \in Threads \ {t} PROVE HeldBy(o)'
  BY <1>1, LocksDistinct, SectorLocks DEF Holders, HeldBy, OnlyFor
<1>2. QED
  BY <1>1 DEF Holders

\* Who holds what stays true in every step.
LEMMA HoldersStep ==
    ASSUME IInv, Holders, [Next]_vars PROVE Holders'
<1>1. /\ pc \in [Threads -> Locations] /\ todo \in [Threads -> SUBSET Grid]
      /\ exclusive \in [Locks -> Threads \cup {Nobody}]
      /\ shared \in [Locks -> SUBSET Threads]
  BY DEF IInv, TypeOK
<1> USE ThreadsDistinct, LocksDistinct, SectorLocks
    DEF maps, locks, counters, Goto
<1>2. ASSUME NEW s \in Sessions, Join(s) PROVE Holders'
  <2>1. OnlyFor(Acceptor) /\ HeldBy(Acceptor)'
    BY <1>1, <1>2 DEF Join, Call, OnlyFor, Holders, HeldBy, SectorLocs
  <2>2. QED
    BY <2>1, HoldersFrame
<1>3. CASE CreateLock
  <2>1. cur[Acceptor] \in Users
    BY <1>3 DEF CreateLock, IInv, TypeOK, Ownership, Current, CurrentOf
  <2>2. OnlyFor(Acceptor) /\ HeldBy(Acceptor)'
    BY <1>1, <1>3, <2>1 DEF CreateLock, OnlyFor, Holders, HeldBy, SectorLocs
  <2>3. QED
    BY <2>2, HoldersFrame
<1>4. CASE CreateInsert
  <2>1. cur[Acceptor] \in Users
    BY <1>4 DEF CreateInsert, IInv, TypeOK, Ownership, Current, CurrentOf
  <2>2. OnlyFor(Acceptor) /\ HeldBy(Acceptor)'
    BY <1>1, <1>4, <2>1 DEF CreateInsert, OnlyFor, Holders, HeldBy, SectorLocs
  <2>3. QED
    BY <2>2, HoldersFrame
<1>5. CASE CreateCount
  <2>1. OnlyFor(Acceptor) /\ HeldBy(Acceptor)'
    BY <1>1, <1>5 DEF CreateCount, Return, OnlyFor, Holders, HeldBy, SectorLocs
  <2>2. QED
    BY <2>1, HoldersFrame
<1>6. ASSUME NEW t \in Workers, WorkerStep(t) PROVE Holders'
  <2> SUFFICES OnlyFor(t) /\ HeldBy(t)'
    BY HoldersFrame
  <2>1. ASSUME NEW s \in Sessions, Recv(t, s) \/ Leave(t, s) PROVE OnlyFor(t) /\ HeldBy(t)'
    BY <1>1, <2>1 DEF Recv, Leave, Call, OnlyFor, Holders, HeldBy, SectorLocs
  <2>2. CASE AcquireMap(t)
    BY <1>1, <2>2 DEF AcquireMap, OnlyFor, Holders, HeldBy, SectorLocs
  <2>3. CASE AcquireUser(t)
    <3>1. cur[t] \in Users /\ cur[t] # Nobody
      BY <2>3 DEF AcquireUser, IInv, TypeOK, Ownership, Current, CurrentOf
    <3>2. /\ FromAndTo(cur[t], req[t].pos) # {}
          /\ Around(user[cur[t]].pos) # {}
      <4>1. user[cur[t]].pos \in Grid \cup {Outside}
        BY <3>1 DEF IInv, TypeOK
      <4>2. <<0, 0>> \in Grid
        BY GridAssumption DEF Grid
      <4>3. ASSUME NEW p \in Grid PROVE p \in Around(p)
        BY <4>3 DEF Around, Grid
      <4>4. <<0, 0>> \in Around(Outside)
        BY <4>2 DEF Around, Outside
      <4>5. QED
        BY <4>1, <4>3, <4>4 DEF FromAndTo
    <3>3. OnlyFor(t)
      BY <1>1, <2>3, <3>1 DEF AcquireUser, Handle, OnlyFor
    <3>4. /\ exclusive'[MapLock] # t /\ t \notin shared'[MapLock]
          /\ \A p \in Grid : exclusive'[SectorLock(p)] # t /\ t \notin shared'[SectorLock(p)]
      BY <1>1, <2>3, <3>1 DEF AcquireUser, Holders, HeldBy, SectorLocs
    <3>5. pc'[t] \in SectorLocs => todo'[t] # {}
      BY <1>1, <2>3, <3>2 DEF AcquireUser, Handle, SectorLocs
    <3>6. QED
      BY <3>3, <3>4, <3>5 DEF HeldBy
  <2>4. CASE ReleaseUser(t)
    BY <1>1, <2>4 DEF ReleaseUser, Return, OnlyFor, Holders, HeldBy, SectorLocs
  <2>5. CASE LoginAccount(t) \/ LoginDec(t) \/ LoginInc(t)
    BY <1>1, <2>5
       DEF LoginAccount, LoginDec, LoginInc, OnlyFor, Holders, HeldBy, SectorLocs
  <2>6. CASE MoveLock(t) \/ ChatLock(t)
    <3>1. todo[t] # {} /\ todo[t] \ {NextSector(t)} # {}
      BY <2>6, MoreThanOne DEF MoveLock, ChatLock, Holders, HeldBy, SectorLocs
    <3>2. /\ NextSector(t) \in Grid
          /\ \A q \in todo[t] \ {NextSector(t)} : Before(NextSector(t), q)
      BY <3>1, NextIsLeast DEF IInv
    <3>3. pc' = pc /\ todo'[t] = todo[t] \ {NextSector(t)}
      BY <1>1, <2>6 DEF MoveLock, ChatLock, TakeSector
    <3>4. OnlyFor(t)
      BY <1>1, <2>6, <3>2 DEF MoveLock, ChatLock, TakeSector, OnlyFor
    <3>5. /\ exclusive'[MapLock] = exclusive[MapLock] /\ shared'[MapLock] = shared[MapLock]
          /\ \A p \in Grid \ {NextSector(t)} :
                 /\ exclusive'[SectorLock(p)] = exclusive[SectorLock(p)]
                 /\ shared'[SectorLock(p)] = shared[SectorLock(p)]
      BY <1>1, <2>6, <3>2 DEF MoveLock, ChatLock
    <3>6. /\ exclusive'[SectorLock(NextSector(t))] = t => pc[t] = "move_lock"
          /\ t \in shared'[SectorLock(NextSector(t))] => pc[t] = "chat_lock"
      BY <1>1, <2>6, <3>2 DEF MoveLock, ChatLock, Holders, HeldBy
    <3>7. HeldBy(t)'
      BY <1>1, <3>1, <3>2, <3>3, <3>5, <3>6 DEF Holders, HeldBy, SectorLocs
    <3>8. QED
      BY <3>4, <3>7
  <2>7. CASE Move(t)
    BY <1>1, <2>7 DEF Move, LeaveSectors, OnlyFor, Holders, HeldBy, SectorLocs
  <2>8. CASE Chat(t)
    BY <1>1, <2>8 DEF Chat, LeaveSectors, OnlyFor, Holders, HeldBy, SectorLocs
  <2>9. CASE DeleteMap(t)
    BY <1>1, <2>9 DEF DeleteMap, OnlyFor, Holders, HeldBy, SectorLocs
  <2>10. CASE DeleteLock(t)
    <3>1. cur[t] \in Users
      BY <2>10 DEF DeleteLock, IInv, TypeOK, Ownership, Current, CurrentOf
    <3>2. QED
      BY <1>1, <2>10, <3>1 DEF DeleteLock, OnlyFor, Holders, HeldBy, SectorLocs
  <2>11. CASE DeleteSector(t) \/ DeleteUnlock(t)
    BY <1>1, <2>11
       DEF DeleteSector, DeleteUnlock, OnlyFor, Holders, HeldBy, SectorLocs
  <2>12. CASE DeleteAccount(t) \/ DeleteCount(t) \/ DeleteFree(t)
    BY <1>1, <2>12
       DEF DeleteAccount, DeleteCount, DeleteFree, Return, OnlyFor, Holders, HeldBy,
           SectorLocs
  <2>13. QED
    BY <1>6, <2>1, <2>2, <2>3, <2>4, <2>5, <2>6, <2>7, <2>8, <2>9, <2>10, <2>11, <2>12
       DEF WorkerStep
<1>7. CASE UNCHANGED vars
  BY <1>7 DEF vars, thread, Holders, HeldBy
<1>8. QED
  BY <1>2, <1>3, <1>4, <1>5, <1>6, <1>7 DEF Next, AcceptorStep

\* At the start nobody holds a lock.
LEMMA InitHolders == Init => Holders
  BY ThreadsDistinct, LocksDistinct, SectorLocks
     DEF Init, Holders, HeldBy, SectorLocs

-----------------------------------------------------------------------------
(* Who may block whom. *)

\* Where a thread waits for the lock of a sector.
SectorWaits == SectorLocs \cup {"del_sector"}
MapWaits    == {"create_map", "acq_map", "del_map"}
UserWaits   == {"create_lock", "acq_user", "del_lock"}

\* The sector it waits for.
Wanted(t) == IF pc[t] = "del_sector" THEN user[cur[t]].pos ELSE NextSector(t)

\* A thread that waits for a sector has not locked it yet.
LEMMA SectorWanted ==
    ASSUME IInv, Holders, NEW t \in Threads, pc[t] \in SectorWaits
    PROVE  /\ Wants(t) = SectorLock(Wanted(t)) /\ Wanted(t) \in Grid
           /\ pc[t] \in SectorLocs => Wanted(t) \in todo[t]
<1>1. Wants(t) = SectorLock(Wanted(t))
  BY DEF Wants, Wanted, SectorWaits, SectorLocs
<1>2. pc[t] \in SectorLocs => Wanted(t) \in Grid /\ Wanted(t) \in todo[t]
  BY NextIsLeast DEF IInv, Holders, HeldBy, Wanted, SectorLocs
<1>3. pc[t] = "del_sector" => Wanted(t) \in Grid
  <2> SUFFICES ASSUME pc[t] = "del_sector" PROVE Wanted(t) \in Grid
    OBVIOUS
  <2>1. cur[t] \in Users /\ user[cur[t]].inSector
    BY DEF IInv, TypeOK, Ownership, Current, CurrentOf, Flags, FlagsOf, DeleteLocs
  <2>2. QED
    BY <2>1 DEF Wanted, IInv, InGrid
<1>4. QED
  BY <1>1, <1>2, <1>3 DEF SectorWaits

\* A thread that waits for a sector is blocked by one that holds it; that one waits
\* for a later sector.
LEMMA SectorBlocks ==
    ASSUME IInv, Holders, NEW t \in Threads, NEW o \in Threads,
           pc[t] \in SectorWaits, BlockedBy(t, o)
    PROVE  pc[o] \in SectorLocs /\ Before(Wanted(t), Wanted(o))
<1>1. Wants(t) = SectorLock(Wanted(t)) /\ Wanted(t) \in Grid
  BY SectorWanted
<1>2. exclusive[SectorLock(Wanted(t))] = o \/ o \in shared[SectorLock(Wanted(t))]
  BY <1>1 DEF BlockedBy
<1>3. pc[o] \in SectorLocs /\ \A q \in todo[o] : Before(Wanted(t), q)
  BY <1>1, <1>2 DEF Holders, HeldBy, SectorLocs
<1>4. QED
  BY <1>3, SectorWanted DEF SectorWaits

\* A thread that waits for the map is blocked by one that waits for a User, or has crashed.
LEMMA MapBlocks ==
    ASSUME IInv, Holders, NEW t \in Threads, NEW o \in Threads,
           pc[t] \in MapWaits, BlockedBy(t, o)
    PROVE  pc[o] \in {"acq_user", "del_lock", "crash"}
<1>1. Wants(t) = MapLock
  BY DEF Wants, MapWaits
<1>2. QED
  BY <1>1 DEF BlockedBy, Holders, HeldBy

\* A thread that waits for a User is not blocked.
LEMMA UserBlocks ==
    ASSUME IInv, NEW t \in Threads, NEW o \in Threads, pc[t] \in UserWaits
    PROVE  ~BlockedBy(t, o)
<1>1. Wants(t) = UserLock(cur[t])
  BY DEF Wants, UserWaits
<1>2. Free(UserLock(cur[t]))
  BY UserLockFree DEF UserWaits, UserLockUncontended
<1>3. QED
  BY <1>1, <1>2, ThreadsDistinct DEF BlockedBy, Free

\* Of any set of threads one is blocked by no other of them.
LEMMA NoCircle ==
    ASSUME IInv, Holders PROVE NoCircularWait
<1> SUFFICES ASSUME NEW T \in SUBSET Threads, T # {}
             PROVE  \E t \in T : \A o \in T : ~BlockedBy(t, o)
  BY DEF NoCircularWait
<1>1. CASE \E t \in T : pc[t] \notin SectorWaits \cup MapWaits
  <2>1. PICK t \in T : pc[t] \notin SectorWaits \cup MapWaits
    BY <1>1
  <2>2. ASSUME NEW o \in T, pc[t] \notin UserWaits PROVE ~BlockedBy(t, o)
    BY <2>1, <2>2 DEF BlockedBy, Waiting, SectorWaits, SectorLocs, MapWaits, UserWaits
  <2>3. QED
    BY <2>1, <2>2, UserBlocks
<1>2. CASE (\A t \in T : pc[t] \in SectorWaits \cup MapWaits)
             /\ \E t \in T : pc[t] \in SectorWaits
  <2> DEFINE S == {Wanted(t) : t \in {o \in T : pc[o] \in SectorWaits}}
  <2>1. S \in SUBSET Grid /\ S # {}
    BY <1>2, SectorWanted
  <2>2. PICK p \in S : \A q \in S : ~Before(p, q)
    BY <2>1, LastSector
  <2>3. PICK t \in T : pc[t] \in SectorWaits /\ p = Wanted(t)
    BY <2>2
  <2>4. ASSUME NEW o \in T, BlockedBy(t, o) PROVE FALSE
    <3>1. pc[o] \in SectorLocs /\ Before(p, Wanted(o))
      BY <2>3, <2>4, SectorBlocks
    <3>2. Wanted(o) \in S
      BY <3>1 DEF SectorWaits
    <3>3. QED
      BY <2>2, <3>1, <3>2
  <2>5. QED
    BY <2>3, <2>4
<1>3. CASE \A t \in T : pc[t] \in MapWaits
  <2>1. ASSUME NEW t \in T, NEW o \in T PROVE ~BlockedBy(t, o)
    BY <1>3, MapBlocks DEF MapWaits
  <2>2. QED
    BY <2>1
<1>4. QED
  BY <1>1, <1>2, <1>3

\* No circle of threads waits for each other's locks, whatever sectors the users move
\* between and chat in: ProcSectorMove (ProcPacket.cpp:162-207) and LockSectorAround
\* take sectors by y, then x, and the opposite orders of the map's and a User's lock
\* (ChatServer.cpp:279-362) never meet.
THEOREM LocksCorrect == Spec => []NoCircularWait
<1>1. IInv /\ Holders => NoCircularWait
  BY NoCircle
<1>2. IInv /\ Holders /\ [Next]_vars => Holders'
  BY HoldersStep
<1>3. QED
  BY <1>1, <1>2, InitHolders, IInvCorrect, PTL DEF Spec
-----------------------------------------------------------------------------
(***************************************************************************)
(* The accounts and the counters agree with the users, and only a          *)
(* duplicate login crashes the server.                                     *)
(*                                                                         *)
(* From the step that writes a session's entry to the one that erases it,  *)
(* the session's User is in m_userMap or worked on by the one thread that  *)
(* serves the session, so an entry has exactly one User, and no step of    *)
(* another session can erase it.  A login that finds an entry therefore    *)
(* finds that of another session that is connected.  The counters follow   *)
(* because a step changes them by what it changes for its own thread and   *)
(* User.                                                                   *)
(***************************************************************************)

\* Where a login has written its entry and not yet set the account number.
LoginLocs == {"login_dec", "login_inc"}

\* A user that logged in is that of a session, in the map or being deleted.
Held(u) == m_userMap[user[u].ssid] = u \/ UsedAt(u, DeleteLocs)
Live == \A u \in Users : user[u].login => user[u].ssid \in Sessions /\ Held(u)

\* Its account is in m_accountMap.
EntryOf(u) == /\ user[u].accountNo = AccountOf[user[u].ssid]
              /\ m_accountMap[user[u].accountNo] = user[u].ssid
Entries == \A u \in Users : LoggedIn(u) => EntryOf(u)

\* A login has made its entry and goes on to set the account number.
Pending == \A t \in Workers : pc[t] \in LoginLocs => m_accountMap[AccountOf[sid[t]]] = sid[t]

\* An entry of m_accountMap is that of a session which is logged in or logging in.
OwnerOf(u, a) == user[u].ssid = m_accountMap[a] /\ (LoggedIn(u) \/ UsedAt(u, LoginLocs))
Owners == \A a \in Accounts : m_accountMap[a] # Nobody =>
    AccountOf[m_accountMap[a]] = a /\ \E u \in Users : OwnerOf(u, a)

AccountsInv == Live /\ Entries /\ Pending /\ Owners

\* At most one session at a time has a given ssid among the users that logged in.
LEMMA LiveApart ==
    ASSUME TypeOK, Ownership, Live, NEW u \in Users, NEW v \in Users,
           user[u].login, user[v].login, user[u].ssid = user[v].ssid
    PROVE  u = v
<1>1. /\ user[u].ssid \in Sessions
      /\ m_userMap[user[u].ssid] = u \/ UsedAt(u, DeleteLocs)
      /\ m_userMap[user[u].ssid] = v \/ UsedAt(v, DeleteLocs)
  BY DEF Live, Held
<1>2. ASSUME NEW w \in Users, UsedAt(w, DeleteLocs)
      PROVE  /\ m_userMap[user[w].ssid] = Nobody
             /\ \E t \in Workers : cur[t] = w /\ sid[t] = user[w].ssid
  BY <1>2, ThreadsDistinct DEF UsedAt, Ownership, Current, CurrentOf
<1>3. CASE m_userMap[user[u].ssid] = u
  BY <1>1, <1>2, <1>3, ThreadsDistinct
<1>4. CASE UsedAt(u, DeleteLocs)
  <2>1. UsedAt(v, DeleteLocs)
    BY <1>1, <1>2, <1>4, ThreadsDistinct
  <2>2. PICK t \in Workers : cur[t] = u /\ sid[t] = user[u].ssid
    BY <1>2, <1>4
  <2>3. PICK o \in Workers : cur[o] = v /\ sid[o] = user[u].ssid
    BY <1>2, <2>1
  <2>4. t = o
    BY <1>1, <2>2, <2>3, ThreadsDistinct DEF Ownership, Apart
  <2>5. QED
    BY <2>2, <2>3, <2>4
<1>5. QED
  BY <1>1, <1>3, <1>4

-----------------------------------------------------------------------------
\* What the steps below know of the types.
LEMMA LeanTypes ==
    ASSUME TypeOK, Ownership
    PROVE  /\ pc \in [Threads -> Locations] /\ sid \in [Threads -> Sessions \cup {Nobody}]
           /\ cur \in [Threads -> Users \cup {Nobody}]
           /\ m_userMap \in [Sessions -> Users \cup {Nobody}]
           /\ m_accountMap \in [Accounts -> Sessions \cup {Nobody}]
           /\ user \in [Users -> UserType]
           /\ \A t \in Threads : pc[t] \in RecvLocs => /\ req[t].account = AccountOf[sid[t]]
                                                      /\ req[t].account \in Accounts
                                                      /\ sid[t] \in Sessions
<1>1. \A t \in Threads : pc[t] \in RecvLocs => sid[t] \in Sessions /\ req[t] \in Requests(sid[t])
  BY DEF TypeOK, Ownership, Served, ServedBy, RecvLocs, HandlerLocs
<1>2. QED
  BY <1>1, RequestFacts DEF TypeOK, UserType, Accounts

\* A step that does not touch the accounts: the users that are logged in or log in
\* stay so, and are still in the map or being deleted.
SameUser(u) == /\ user'[u].login = user[u].login
               /\ user'[u].ssid = user[u].ssid
               /\ user'[u].accountNo = user[u].accountNo
SameStanding(u) == /\ LoggedIn(u)' <=> LoggedIn(u)
                   /\ UsedAt(u, LoginLocs) => UsedAt(u, LoginLocs)'
                   /\ user[u].login /\ Held(u) => Held(u)'
SameAccounts ==
    /\ m_accountMap' = m_accountMap
    /\ \A u \in Users : SameUser(u)
    /\ \A u \in Users : SameStanding(u)
    /\ \A t \in Workers : pc'[t] \in LoginLocs => pc[t] \in LoginLocs /\ sid'[t] = sid[t]

\* A step that changes no account, login or entry keeps AccountsInv.
LEMMA QuietAccounts ==
    ASSUME AccountsInv, SameAccounts PROVE AccountsInv'
<1> USE DEF AccountsInv
<1>1. Live'
  BY DEF Live, Held, SameAccounts, SameUser, SameStanding
<1>2. Entries'
  BY DEF Entries, EntryOf, SameAccounts, SameUser, SameStanding
<1>3. Pending'
  BY DEF Pending, SameAccounts
<1>4. Owners'
  BY DEF Owners, OwnerOf, SameAccounts, SameUser, SameStanding
<1>5. QED
  BY <1>1, <1>2, <1>3, <1>4

\* Steps of the accept thread that change no account, login or entry.
LEMMA QuietAcceptorSteps ==
    ASSUME TypeOK, Ownership, Live, (\E s \in Sessions : Join(s)) \/ CreateInsert \/ CreateCount
    PROVE  SameAccounts
<1> USE ThreadsDistinct, LeanTypes
    DEF maps, locks, thread, counters, CreateLocs, RecvLocs, HandlerLocs, DeleteLocs,
        LoginLocs, UsedAt, SameAccounts, SameUser
<1>1. CASE \E r \in Sessions : Join(r)
  <2>1. \A u \in Users : SameUser(u)
    BY <1>1 DEF Join
  <2>2. ASSUME NEW u \in Users PROVE SameStanding(u)
    BY <1>1, <2>1
       DEF Join, Call, SameStanding, Held, LoggedIn, Live, Ownership, Apart, Current,
           CurrentOf, Flags, FlagsOf, UserMap, UserOf
  <2>3. QED
    BY <1>1, <2>1, <2>2 DEF Join, Call, Ownership, Served, ServedBy, Apart
<1>2. CASE CreateInsert
  <2>1. \A u \in Users : SameUser(u)
    BY <1>2 DEF CreateInsert
  <2>2. ASSUME NEW u \in Users PROVE SameStanding(u)
    BY <1>2, <2>1
       DEF CreateInsert, Goto, SameStanding, Held, LoggedIn, Live, Ownership, Apart,
           Current, CurrentOf, Flags, FlagsOf, UserMap, UserOf
  <2>3. QED
    BY <1>2, <2>1, <2>2 DEF CreateInsert, Goto, Ownership, Served, ServedBy, Apart
<1>3. CASE CreateCount
  <2>1. \A u \in Users : SameUser(u)
    BY <1>3 DEF CreateCount
  <2>2. ASSUME NEW u \in Users PROVE SameStanding(u)
    BY <1>3, <2>1
       DEF CreateCount, Return, SameStanding, Held, LoggedIn, Live, Ownership, Apart,
           Current, CurrentOf, Flags, FlagsOf, UserMap, UserOf
  <2>3. QED
    BY <1>3, <2>1, <2>2 DEF CreateCount, Return, Ownership, Served, ServedBy, Apart
<1>4. QED
  BY <1>1, <1>2, <1>3

\* OnRecv and OnClientLeave change no account, login or entry when they start.
LEMMA QuietCallSteps ==
    ASSUME TypeOK, Ownership, Live, NEW t \in Workers, NEW s \in Sessions,
           Recv(t, s) \/ Leave(t, s)
    PROVE  SameAccounts
<1> USE ThreadsDistinct, LeanTypes
    DEF maps, locks, thread, counters, CreateLocs, RecvLocs, HandlerLocs, DeleteLocs,
        LoginLocs, UsedAt, SameAccounts, SameUser
<1>1. CASE Recv(t, s)
  <2>1. \A u \in Users : SameUser(u)
    BY <1>1 DEF Recv
  <2>2. ASSUME NEW u \in Users PROVE SameStanding(u)
    BY <1>1, <2>1
       DEF Recv, Call, SameStanding, Held, LoggedIn, Live, Ownership, Apart, Current,
           CurrentOf, Flags, FlagsOf, UserMap, UserOf
  <2>3. QED
    BY <1>1, <2>1, <2>2 DEF Recv, Call, Ownership, Served, ServedBy, Apart
<1>2. CASE Leave(t, s)
  <2>1. \A u \in Users : SameUser(u)
    BY <1>2 DEF Leave
  <2>2. ASSUME NEW u \in Users PROVE SameStanding(u)
    BY <1>2, <2>1
       DEF Leave, Call, SameStanding, Held, LoggedIn, Live, Ownership, Apart, Current,
           CurrentOf, Flags, FlagsOf, UserMap, UserOf
  <2>3. QED
    BY <1>2, <2>1, <2>2 DEF Leave, Call, Ownership, Served, ServedBy, Apart
<1>3. QED
  BY <1>1, <1>2

QuietWorkerStep(t) ==
    \/ AcquireMap(t) \/ AcquireUser(t) \/ ReleaseUser(t)
    \/ LoginDec(t) \/ MoveLock(t) \/ Move(t) \/ ChatLock(t) \/ Chat(t)
    \/ DeleteMap(t) \/ DeleteLock(t) \/ DeleteSector(t) \/ DeleteUnlock(t) \/ DeleteFree(t)

\* Steps of a worker that change no account, login or entry.
LEMMA QuietWorkerSteps ==
    ASSUME TypeOK, Ownership, Live, NEW t \in Workers, QuietWorkerStep(t)
    PROVE  SameAccounts
<1> USE ThreadsDistinct, LeanTypes
    DEF maps, locks, thread, counters, CreateLocs, RecvLocs, HandlerLocs, DeleteLocs,
        LoginLocs, UsedAt, SameAccounts, SameUser
<1>1. CASE AcquireMap(t)
  <2>1. \A u \in Users : SameUser(u)
    BY <1>1 DEF AcquireMap
  <2>2. ASSUME NEW u \in Users PROVE SameStanding(u)
    BY <1>1, <2>1
       DEF AcquireMap, Goto, SameStanding, Held, LoggedIn, Live, Ownership, Apart,
           Current, CurrentOf, Flags, FlagsOf, UserMap, UserOf
  <2>3. QED
    BY <1>1, <2>1, <2>2 DEF AcquireMap, Goto, Ownership, Served, ServedBy, Apart
<1>2. CASE AcquireUser(t)
  <2>1. \A u \in Users : SameUser(u)
    BY <1>2 DEF AcquireUser
  <2>2. ASSUME NEW u \in Users PROVE SameStanding(u)
    BY <1>2, <2>1
       DEF AcquireUser, Goto, Handle, Free, LoginAccepted, MoveAccepted, SameStanding,
           Held, LoggedIn, Live, Ownership, Apart, Current, CurrentOf, Flags, FlagsOf,
           UserMap, UserOf
  <2>3. QED
    BY <1>2, <2>1, <2>2
       DEF AcquireUser, Goto, Handle, Free, LoginAccepted, MoveAccepted, Ownership,
           Served, ServedBy, Apart
<1>3. CASE ReleaseUser(t)
  <2>1. \A u \in Users : SameUser(u)
    BY <1>3 DEF ReleaseUser
  <2>2. ASSUME NEW u \in Users PROVE SameStanding(u)
    BY <1>3, <2>1
       DEF ReleaseUser, Return, SameStanding, Held, LoggedIn, Live, Ownership, Apart,
           Current, CurrentOf, Flags, FlagsOf, UserMap, UserOf
  <2>3. QED
    BY <1>3, <2>1, <2>2 DEF ReleaseUser, Return, Ownership, Served, ServedBy, Apart
<1>4. CASE LoginDec(t)
  <2>1. \A u \in Users : SameUser(u)
    BY <1>4 DEF LoginDec
  <2>2. ASSUME NEW u \in Users PROVE SameStanding(u)
    BY <1>4, <2>1
       DEF LoginDec, Goto, SameStanding, Held, LoggedIn, Live, Ownership, Apart, Current,
           CurrentOf, Flags, FlagsOf, UserMap, UserOf
  <2>3. QED
    BY <1>4, <2>1, <2>2 DEF LoginDec, Goto, Ownership, Served, ServedBy, Apart
<1>5. CASE MoveLock(t)
  <2>1. \A u \in Users : SameUser(u)
    BY <1>5 DEF MoveLock
  <2>2. ASSUME NEW u \in Users PROVE SameStanding(u)
    BY <1>5, <2>1
       DEF MoveLock, TakeSector, SameStanding, Held, LoggedIn, Live, Ownership, Apart,
           Current, CurrentOf, Flags, FlagsOf, UserMap, UserOf
  <2>3. QED
    BY <1>5, <2>1, <2>2 DEF MoveLock, TakeSector, Ownership, Served, ServedBy, Apart
<1>6. CASE Move(t)
  <2>1. \A u \in Users : SameUser(u)
    BY <1>6 DEF Move, UserType
  <2>2. ASSUME NEW u \in Users PROVE SameStanding(u)
    BY <1>6, <2>1
       DEF Move, LeaveSectors, SameStanding, Held, LoggedIn, Live, Ownership, Apart,
           Current, CurrentOf, Flags, FlagsOf, UserMap, UserOf
  <2>3. QED
    BY <1>6, <2>1, <2>2 DEF Move, LeaveSectors, Ownership, Served, ServedBy, Apart
<1>7. CASE ChatLock(t)
  <2>1. \A u \in Users : SameUser(u)
    BY <1>7 DEF ChatLock
  <2>2. ASSUME NEW u \in Users PROVE SameStanding(u)
    BY <1>7, <2>1
       DEF ChatLock, TakeSector, SameStanding, Held, LoggedIn, Live, Ownership, Apart,
           Current, CurrentOf, Flags, FlagsOf, UserMap, UserOf
  <2>3. QED
    BY <1>7, <2>1, <2>2 DEF ChatLock, TakeSector, Ownership, Served, ServedBy, Apart
<1>8. CASE Chat(t)
  <2>1. \A u \in Users : SameUser(u)
    BY <1>8 DEF Chat
  <2>2. ASSUME NEW u \in Users PROVE SameStanding(u)
    BY <1>8, <2>1
       DEF Chat, LeaveSectors, SameStanding, Held, LoggedIn, Live, Ownership, Apart,
           Current, CurrentOf, Flags, FlagsOf, UserMap, UserOf
  <2>3. QED
    BY <1>8, <2>1, <2>2 DEF Chat, LeaveSectors, Ownership, Served, ServedBy, Apart
<1>9. CASE DeleteMap(t)
  <2>1. \A u \in Users : SameUser(u)
    BY <1>9 DEF DeleteMap
  <2>2. ASSUME NEW u \in Users PROVE SameStanding(u)
    BY <1>9, <2>1
       DEF DeleteMap, Goto, SameStanding, Held, LoggedIn, Live, Ownership, Apart,
           Current, CurrentOf, Flags, FlagsOf, UserMap, UserOf
  <2>3. QED
    BY <1>9, <2>1, <2>2 DEF DeleteMap, Goto, Ownership, Served, ServedBy, Apart
<1>10. CASE DeleteLock(t)
  <2>1. \A u \in Users : SameUser(u)
    BY <1>10 DEF DeleteLock
  <2>2. ASSUME NEW u \in Users PROVE SameStanding(u)
    BY <1>10, <2>1
       DEF DeleteLock, Goto, Free, SameStanding, Held, LoggedIn, Live, Ownership, Apart,
           Current, CurrentOf, Flags, FlagsOf, UserMap, UserOf
  <2>3. QED
    BY <1>10, <2>1, <2>2 DEF DeleteLock, Goto, Free, Ownership, Served, ServedBy, Apart
<1>11. CASE DeleteSector(t)
  <2>1. \A u \in Users : SameUser(u)
    BY <1>11 DEF DeleteSector, UserType
  <2>2. ASSUME NEW u \in Users PROVE SameStanding(u)
    BY <1>11, <2>1
       DEF DeleteSector, Goto, SameStanding, Held, LoggedIn, Live, Ownership, Apart,
           Current, CurrentOf, Flags, FlagsOf, UserMap, UserOf
  <2>3. QED
    BY <1>11, <2>1, <2>2 DEF DeleteSector, Goto, Ownership, Served, ServedBy, Apart
<1>12. CASE DeleteUnlock(t)
  <2>1. \A u \in Users : SameUser(u)
    BY <1>12 DEF DeleteUnlock
  <2>2. ASSUME NEW u \in Users PROVE SameStanding(u)
    BY <1>12, <2>1
       DEF DeleteUnlock, Goto, SameStanding, Held, LoggedIn, Live, Ownership, Apart,
           Current, CurrentOf, Flags, FlagsOf, UserMap, UserOf
  <2>3. QED
    BY <1>12, <2>1, <2>2 DEF DeleteUnlock, Goto, Ownership, Served, ServedBy, Apart
<1>13. CASE DeleteFree(t)
  <2>1. \A u \in Users : SameUser(u)
    BY <1>13 DEF DeleteFree
  <2>2. ASSUME NEW u \in Users PROVE SameStanding(u)
    BY <1>13, <2>1
       DEF DeleteFree, Return, SameStanding, Held, LoggedIn, Live, Ownership, Apart,
           Current, CurrentOf, Flags, FlagsOf, UserMap, UserOf
  <2>3. QED
    BY <1>13, <2>1, <2>2 DEF DeleteFree, Return, Ownership, Served, ServedBy, Apart
<1>14. QED
  BY <1>1, <1>2, <1>3, <1>4, <1>5, <1>6, <1>7, <1>8, <1>9, <1>10, <1>11, <1>12, <1>13
     DEF QuietWorkerStep

\* A User is filled in for a session that has not logged in.
LEMMA CreateLockAccounts ==
    ASSUME TypeOK, Ownership, AccountsInv, CreateLock PROVE AccountsInv'
<1> USE ThreadsDistinct, LeanTypes
    DEF AccountsInv, CreateLock, Goto, maps, thread, UsedAt, LoginLocs, DeleteLocs
<1>1. PICK v \in Users : v = cur[Acceptor]
  BY DEF Ownership, Current, CurrentOf
<1>2. /\ ~user[v].login /\ ~user'[v].login
      /\ \A s \in Sessions : m_userMap[s] # v
      /\ \A t \in Workers : cur[t] # v
  BY <1>1 DEF InitUser, UserType, Ownership, Apart, Current, CurrentOf, Flags, FlagsOf
<1>3. \A u \in Users \ {v} : user'[u] = user[u]
  BY <1>1 DEF InitUser
<1>4. \A u \in Users : (LoggedIn(u)' <=> LoggedIn(u)) /\ (LoggedIn(u) => u # v)
  BY <1>2, <1>3 DEF LoggedIn
<1>5. Live'
  BY <1>2, <1>3 DEF Live, Held
<1>6. Entries'
  BY <1>3, <1>4 DEF Entries, EntryOf
<1>7. Pending'
  BY DEF Pending
<1>8. Owners'
  BY <1>2, <1>3, <1>4 DEF Owners, OwnerOf
<1>9. QED
  BY <1>5, <1>6, <1>7, <1>8

\* A login writes the entry of its account.
LEMMA LoginAccountAccounts ==
    ASSUME TypeOK, Ownership, AccountsInv, NEW t \in Workers, LoginAccount(t)
    PROVE  AccountsInv'
<1> USE ThreadsDistinct, LeanTypes
    DEF AccountsInv, LoginAccount, Goto, maps, thread, UsedAt, LoginLocs, DeleteLocs
<1>1. PICK v \in Users : v = cur[t]
  BY DEF Ownership, Current, CurrentOf, HandlerLocs
<1>2. PICK b \in Accounts : b = req[t].account /\ b = AccountOf[sid[t]]
  BY DEF RecvLocs, HandlerLocs
<1>3. sid[t] \in Sessions /\ user[v].ssid = sid[t]
  BY <1>1 DEF RecvLocs, HandlerLocs, Ownership, Current, CurrentOf, UserMap, UserOf
<1>4. user' = user /\ \A u \in Users : LoggedIn(u)' <=> LoggedIn(u)
  BY DEF LoggedIn
<1>5. Live'
  BY <1>4 DEF Live, Held
<1>6. \A a \in Accounts : m_accountMap'[a] # m_accountMap[a] =>
          a = b /\ m_accountMap[a] = Nobody /\ m_accountMap'[a] = sid[t] /\ UsedAt(v, LoginLocs)'
  BY <1>1, <1>2
<1>7. Entries'
  BY <1>4, <1>6 DEF Entries, EntryOf, Live, LoggedIn, Accounts
<1>8. Pending'
  <2> SUFFICES ASSUME NEW o \in Workers, pc'[o] \in LoginLocs
               PROVE  m_accountMap'[AccountOf[sid[o]]] = sid[o]
    BY DEF Pending
  <2>1. CASE o = t
    BY <1>2, <2>1
  <2>2. CASE o # t
    BY <1>6, <2>2 DEF Pending, Accounts, RecvLocs, HandlerLocs
  <2>3. QED
    BY <2>1, <2>2
<1>9. Owners'
  <2> SUFFICES ASSUME NEW a \in Accounts, m_accountMap'[a] # Nobody
               PROVE  AccountOf[m_accountMap'[a]] = a /\ \E u \in Users : OwnerOf(u, a)'
    BY DEF Owners
  <2>1. CASE m_accountMap'[a] # m_accountMap[a]
    BY <1>2, <1>3, <1>4, <1>6, <2>1 DEF OwnerOf
  <2>2. CASE m_accountMap'[a] = m_accountMap[a]
    BY <1>4, <2>2 DEF Owners, OwnerOf
  <2>3. QED
    BY <2>1, <2>2
<1>10. QED
  BY <1>5, <1>7, <1>8, <1>9

\* A login sets the account number its entry was written for.
LEMMA LoginIncAccounts ==
    ASSUME TypeOK, Ownership, AccountsInv, NEW t \in Workers, LoginInc(t)
    PROVE  AccountsInv'
<1> USE ThreadsDistinct, LeanTypes
    DEF AccountsInv, LoginInc, Goto, maps, thread, UsedAt, LoginLocs, DeleteLocs
<1>1. PICK v \in Users : v = cur[t]
  BY DEF Ownership, Current, CurrentOf, HandlerLocs
<1>2. /\ sid[t] \in Sessions /\ user[v].ssid = sid[t] /\ m_userMap[sid[t]] = v
      /\ req[t].account = AccountOf[sid[t]]
      /\ \A o \in Threads \ {t} : cur[o] # v
  BY <1>1 DEF RecvLocs, HandlerLocs, Ownership, Apart, Current, CurrentOf, UserMap, UserOf
<1>3. /\ user'[v].login /\ user'[v].accountNo = AccountOf[sid[t]] /\ user'[v].ssid = sid[t]
      /\ \A u \in Users \ {v} : user'[u] = user[u]
  BY <1>1, <1>2 DEF UserType
<1>4. LoggedIn(v)' /\ \A u \in Users \ {v} : LoggedIn(u)' <=> LoggedIn(u)
  BY <1>1, <1>2, <1>3 DEF LoggedIn
<1>5. Live'
  <2> SUFFICES ASSUME NEW u \in Users, user'[u].login
               PROVE  user'[u].ssid \in Sessions /\ Held(u)'
    BY DEF Live
  <2>1. CASE u = v
    <3>1. m_userMap'[user'[v].ssid] = v
      BY <1>2, <1>3
    <3>2. QED
      BY <1>2, <1>3, <2>1, <3>1 DEF Held
  <2>2. CASE u # v
    <3>1. user'[u] = user[u] /\ user[u].ssid \in Sessions /\ Held(u)
      BY <1>3, <2>2 DEF Live
    <3>2. UsedAt(u, DeleteLocs) => UsedAt(u, DeleteLocs)'
      OBVIOUS
    <3>3. QED
      BY <3>1, <3>2 DEF Held
  <2>3. QED
    BY <2>1, <2>2
<1>6. Entries'
  <2>1. /\ m_accountMap' = m_accountMap /\ m_accountMap[AccountOf[sid[t]]] = sid[t]
        /\ Entries
    BY DEF Pending
  <2> SUFFICES ASSUME NEW u \in Users, LoggedIn(u)' PROVE EntryOf(u)'
    BY DEF Entries
  <2> HIDE DEF AccountsInv, LoginInc
  <2>2. CASE u = v
    BY <1>3, <2>1, <2>2 DEF EntryOf
  <2>3. CASE u # v
    <3>1. user'[u] = user[u] /\ EntryOf(u)
      BY <1>3, <1>4, <2>1, <2>3 DEF Entries
    <3>2. QED
      BY <2>1, <3>1 DEF EntryOf
  <2>4. QED
    BY <2>2, <2>3
<1>7. Pending'
  BY DEF Pending
<1>8. Owners'
  <2> SUFFICES ASSUME NEW a \in Accounts, m_accountMap[a] # Nobody
               PROVE  \E u \in Users : OwnerOf(u, a)'
    BY DEF Owners
  <2>1. PICK u \in Users : OwnerOf(u, a)
    BY DEF Owners
  <2>2. OwnerOf(u, a)'
    BY <1>1, <1>2, <1>3, <1>4, <2>1 DEF OwnerOf
  <2>3. QED
    BY <2>2
<1>9. QED
  BY <1>5, <1>6, <1>7, <1>8

\* A logged-in user that is deleted erases its own entry.
LEMMA DeleteAccountAccounts ==
    ASSUME TypeOK, Ownership, AccountsInv, NEW t \in Workers, DeleteAccount(t)
    PROVE  AccountsInv'
<1> USE ThreadsDistinct, LeanTypes
    DEF AccountsInv, DeleteAccount, Goto, maps, thread, UsedAt, LoginLocs, DeleteLocs
<1>1. PICK v \in Users : v = cur[t]
  BY DEF Ownership, Current, CurrentOf
<1>2. /\ user[v].ssid = sid[t] /\ user[v].login
      /\ \A o \in Threads \ {t} : cur[o] # v /\ (sid[o] # Nobody => sid[o] # sid[t])
  BY <1>1
     DEF Ownership, Apart, Current, CurrentOf, Flags, FlagsOf, Served, ServedBy,
         LeaveLocs
<1>3. LoggedIn(v) /\ EntryOf(v)
  BY <1>1, <1>2 DEF LoggedIn, Entries
<1>4. /\ \A a \in Accounts \ {user[v].accountNo} : m_accountMap'[a] = m_accountMap[a]
      /\ \A a \in Accounts : m_accountMap'[a] # Nobody => a # user[v].accountNo
  BY <1>1
<1>5. /\ ~LoggedIn(v)' /\ \A u \in Users \ {v} : LoggedIn(u)' <=> LoggedIn(u)
      /\ \A u \in Users \ {v} : UsedAt(u, LoginLocs)' <=> UsedAt(u, LoginLocs)
  BY <1>1 DEF LoggedIn
<1>6. Live'
  BY DEF Live, Held
<1>7. Entries'
  <2> SUFFICES ASSUME NEW u \in Users \ {v}, LoggedIn(u) PROVE EntryOf(u)'
    BY <1>5 DEF Entries
  <2>1. EntryOf(u) /\ user[u].ssid \in Sessions
    BY DEF Entries, Live, LoggedIn
  <2>2. user[u].ssid # user[v].ssid
    BY <1>2, LiveApart DEF LoggedIn
  <2>3. QED
    BY <1>3, <1>4, <2>1, <2>2 DEF EntryOf, Accounts
<1>8. Pending'
  <2> SUFFICES ASSUME NEW o \in Workers \ {t}, pc[o] \in LoginLocs
               PROVE  m_accountMap'[AccountOf[sid[o]]] = sid[o]
    BY DEF Pending
  <2>1. sid[o] \in Sessions /\ m_accountMap[AccountOf[sid[o]]] = sid[o]
    BY DEF Pending, RecvLocs, HandlerLocs
  <2>2. sid[o] # user[v].ssid
    BY <1>2, <2>1
  <2>3. QED
    BY <1>3, <1>4, <2>1, <2>2 DEF EntryOf, Accounts
<1>9. Owners'
  <2> SUFFICES ASSUME NEW a \in Accounts, m_accountMap'[a] # Nobody
               PROVE  AccountOf[m_accountMap'[a]] = a /\ \E u \in Users : OwnerOf(u, a)'
    BY DEF Owners
  <2>1. a # user[v].accountNo /\ m_accountMap'[a] = m_accountMap[a]
    BY <1>4
  <2>2. PICK u \in Users : OwnerOf(u, a)
    BY <2>1 DEF Owners
  <2>3. u # v
    BY <1>3, <2>1, <2>2 DEF Owners, OwnerOf, EntryOf
  <2>4. OwnerOf(u, a)'
    BY <1>5, <2>1, <2>2, <2>3 DEF OwnerOf
  <2>5. QED
    BY <2>1, <2>4 DEF Owners
<1>10. QED
  BY <1>6, <1>7, <1>8, <1>9

\* The counters are corrected after the entry was erased.
LEMMA DeleteCountAccounts ==
    ASSUME TypeOK, Ownership, AccountsInv, NEW t \in Workers, DeleteCount(t)
    PROVE  AccountsInv'
<1> USE ThreadsDistinct, LeanTypes
    DEF AccountsInv, DeleteCount, Goto, maps, thread, UsedAt, LoginLocs, DeleteLocs
<1>1. PICK v \in Users : v = cur[t]
  BY DEF Ownership, Current, CurrentOf
<1>2. \A o \in Threads \ {t} : cur[o] # v
  BY <1>1 DEF Ownership, Apart
<1>3. /\ ~user'[v].login
      /\ \A u \in Users : user'[u].ssid = user[u].ssid /\ user'[u].accountNo = user[u].accountNo
      /\ \A u \in Users \ {v} : user'[u] = user[u]
  BY <1>1 DEF UserType
<1>4. /\ ~LoggedIn(v) /\ \A u \in Users : LoggedIn(u)' <=> LoggedIn(u)
      /\ \A u \in Users : UsedAt(u, LoginLocs)' <=> UsedAt(u, LoginLocs)
  BY <1>1, <1>2, <1>3 DEF LoggedIn
<1>5. Live'
  BY <1>1, <1>3 DEF Live, Held
<1>6. Entries'
  BY <1>3, <1>4 DEF Entries, EntryOf
<1>7. Pending'
  BY DEF Pending
<1>8. Owners'
  BY <1>3, <1>4 DEF Owners, OwnerOf
<1>9. QED
  BY <1>5, <1>6, <1>7, <1>8

\* What is said of the accounts stays true in every step.
LEMMA AccountsStep ==
    ASSUME TypeOK, Ownership, AccountsInv, [Next]_vars PROVE AccountsInv'
<1>1. CASE CreateLock
  BY <1>1, CreateLockAccounts
<1>2. ASSUME NEW t \in Workers, \/ LoginAccount(t) \/ LoginInc(t)
                                \/ DeleteAccount(t) \/ DeleteCount(t)
      PROVE  AccountsInv'
  BY <1>2, LoginAccountAccounts, LoginIncAccounts, DeleteAccountAccounts,
     DeleteCountAccounts
<1>3. CASE UNCHANGED vars
  BY <1>3
     DEF vars, maps, thread, AccountsInv, Live, Held, Entries, EntryOf, Pending, Owners,
         OwnerOf, LoggedIn, UsedAt
<1>4. CASE (\E s \in Sessions : Join(s)) \/ CreateInsert \/ CreateCount
  BY <1>4, QuietAcceptorSteps, QuietAccounts DEF AccountsInv
<1>5. ASSUME NEW t \in Workers, NEW s \in Sessions, Recv(t, s) \/ Leave(t, s)
      PROVE  AccountsInv'
  BY <1>5, QuietCallSteps, QuietAccounts DEF AccountsInv
<1>6. ASSUME NEW t \in Workers, QuietWorkerStep(t) PROVE AccountsInv'
  BY <1>6, QuietWorkerSteps, QuietAccounts DEF AccountsInv
<1>7. ASSUME NEW t \in Workers, WorkerStep(t) PROVE AccountsInv'
  BY <1>5, <1>6, <1>7, <1>2 DEF WorkerStep, QuietWorkerStep
<1>8. QED
  BY <1>1, <1>3, <1>4, <1>7 DEF Next, AcceptorStep

\* AccountsInv holds in every behaviour.
LEMMA AccountsInvariant == Spec => []AccountsInv
<1>1. Init => AccountsInv
  BY ThreadsDistinct
     DEF Init, AccountsInv, NewUser, LoggedIn, Live, Entries, Pending, Owners, LoginLocs
<1>2. IInv /\ AccountsInv /\ [Next]_vars => AccountsInv'
  BY AccountsStep DEF IInv
<1>3. QED
  BY <1>1, <1>2, IInvCorrect, PTL DEF Spec

\* m_accountMap and the users that logged in agree, but for the steps in which a login
\* writes its entry (ProcPacket.cpp:80-122) and a deletion erases it (ChatServer.cpp:374-377).
THEOREM AccountsCorrect == Spec => []AccountsAgree
<1>1. AccountsInv => AccountsAgree
  <2> SUFFICES ASSUME AccountsInv PROVE AccountsAgree
    OBVIOUS
  <2>1. ASSUME NEW a \in Accounts, m_accountMap[a] # Nobody
        PROVE  \E u \in Users : /\ user[u].ssid = m_accountMap[a]
                               /\ \/ LoggedIn(u) /\ user[u].accountNo = a
                                  \/ UsedAt(u, {"login_dec", "login_inc"})
    BY <2>1 DEF AccountsInv, Owners, OwnerOf, Entries, EntryOf, LoginLocs
  <2>2. ASSUME NEW u \in Users, LoggedIn(u)
        PROVE  m_accountMap[user[u].accountNo] = user[u].ssid
    BY <2>2 DEF AccountsInv, Entries, EntryOf
  <2>3. QED
    BY <2>1, <2>2 DEF AccountsAgree
<1>2. QED
  BY <1>1, AccountsInvariant, PTL

-----------------------------------------------------------------------------
\* A login that finds an entry of its account finds that of another session, which is
\* connected or about to be deleted: a session has no entry before its login.
LEMMA FoundIsDuplicate ==
    ASSUME IInv, AccountsInv, NEW t \in Workers, pc[t] = "login",
           m_accountMap[req[t].account] # Nobody
    PROVE  \E r \in Sessions \ {sid[t]} : /\ AccountOf[r] = AccountOf[sid[t]]
                                          /\ m_accountMap[AccountOf[r]] = r
                                          /\ stage[r] \notin {"none", "gone"}
<1> USE ThreadsDistinct, LeanTypes DEF IInv, AccountsInv, UsedAt
<1>1. PICK v \in Users : v = cur[t]
  BY DEF Ownership, Current, CurrentOf, HandlerLocs
<1>2. /\ sid[t] \in Sessions /\ stage[sid[t]] = "recv" /\ req[t].account \in Accounts
      /\ req[t].account = AccountOf[sid[t]]
      /\ m_userMap[sid[t]] = v /\ ~user[v].login
  BY <1>1
     DEF RecvLocs, HandlerLocs, Ownership, Served, ServedBy, Current, CurrentOf, Flags,
         FlagsOf
<1>3. PICK u \in Users : OwnerOf(u, req[t].account)
  BY <1>2 DEF Owners
<1>4. PICK r \in Sessions : r = m_accountMap[req[t].account]
  BY <1>2
<1>5. /\ user[u].ssid = r /\ AccountOf[r] = AccountOf[sid[t]]
      /\ m_accountMap[AccountOf[r]] = r
  BY <1>2, <1>3, <1>4 DEF Owners, OwnerOf
<1>6. r # sid[t] /\ stage[r] \notin {"none", "gone"}
  <2>1. CASE UsedAt(u, LoginLocs)
    <3>1. PICK o \in Workers : cur[o] = u /\ pc[o] \in LoginLocs
      BY <2>1
    <3>2. /\ stage[sid[o]] = "recv" /\ sid[o] \in Sessions /\ m_userMap[sid[o]] = u
          /\ user[u].ssid = sid[o]
      BY <3>1
         DEF LoginLocs, RecvLocs, HandlerLocs, Ownership, Served, ServedBy, Current,
             CurrentOf, UserMap, UserOf
    <3>3. o # t
      BY <3>1 DEF LoginLocs
    <3>4. QED
      BY <1>2, <1>5, <3>2, <3>3 DEF Ownership, Apart
  <2>2. CASE LoggedIn(u) /\ m_userMap[user[u].ssid] = u
    <3>1. stage[r] \notin {"none", "gone"}
      BY <1>5, <2>2 DEF Ownership, UserMap, UserOf
    <3>2. QED
      BY <1>2, <1>5, <2>2, <3>1 DEF LoggedIn
  <2>3. CASE LoggedIn(u) /\ UsedAt(u, DeleteLocs)
    <3>1. PICK o \in Workers : cur[o] = u /\ pc[o] \in DeleteLocs
      BY <2>3
    <3>2. stage[sid[o]] = "leave" /\ user[u].ssid = sid[o]
      BY <1>5, <3>1
         DEF LeaveLocs, DeleteLocs, Ownership, Served, ServedBy, Current, CurrentOf
    <3>3. QED
      BY <1>2, <1>5, <3>2
  <2>4. QED
    BY <1>3, <2>1, <2>2, <2>3 DEF OwnerOf, Live, Held, LoggedIn
<1>7. QED
  BY <1>5, <1>6

\* Thread t crashes in this step.
Crashes(t) == pc[t] # "crash" /\ pc'[t] = "crash"

\* Only a login crashes: every other lookup finds what it looks for.
LEMMA CrashIsLogin ==
    ASSUME IInv, [Next]_vars, NEW t \in Threads, Crashes(t)
    PROVE  t \in Workers /\ LoginAccount(t)
<1> USE ThreadsDistinct, LeanTypes DEF IInv, Crashes, Goto
<1>1. ~CreateInsert
  BY DEF CreateInsert, Ownership, Current, CurrentOf
<1>2. ASSUME NEW o \in Workers PROVE ~AcquireMap(o)
  BY <1>2 DEF AcquireMap, Ownership, Served, ServedBy, UserMap, UserOf, RecvLocs
<1>3. ASSUME NEW o \in Workers PROVE ~DeleteMap(o)
  BY <1>3 DEF DeleteMap, Ownership, Current, CurrentOf
<1>4. ASSUME NEW o \in Workers PROVE ~AcquireUser(o)
  BY <1>4 DEF AcquireUser, Handle
<1>5. ASSUME NEW o \in Workers, LoginAccount(o) PROVE o = t
  BY <1>5 DEF LoginAccount
<1>6. ~UNCHANGED vars
  BY DEF vars, thread
<1>7. ~((\E s \in Sessions : Join(s)) \/ CreateLock \/ CreateCount)
  BY DEF Join, CreateLock, CreateCount, Call, Return
<1>8. ASSUME NEW o \in Workers, NEW s \in Sessions PROVE ~(Recv(o, s) \/ Leave(o, s))
  BY <1>8 DEF Recv, Leave, Call
<1>9. ASSUME NEW o \in Workers
      PROVE  /\ ~ReleaseUser(o) /\ ~LoginDec(o) /\ ~LoginInc(o) /\ ~MoveLock(o) /\ ~Move(o)
             /\ ~ChatLock(o) /\ ~Chat(o) /\ ~DeleteLock(o) /\ ~DeleteSector(o)
             /\ ~DeleteUnlock(o) /\ ~DeleteAccount(o) /\ ~DeleteCount(o) /\ ~DeleteFree(o)
  BY <1>9
     DEF ReleaseUser, Return, LoginDec, LoginInc, MoveLock, TakeSector, Move,
         LeaveSectors, ChatLock, Chat, DeleteLock, DeleteSector, DeleteUnlock,
         DeleteAccount, DeleteCount, DeleteFree
<1>10. QED
  BY <1>1, <1>2, <1>3, <1>4, <1>5, <1>6, <1>7, <1>8, <1>9
     DEF Next, AcceptorStep, WorkerStep

\* The only CrashDump::Crash() the chat server reaches is that of a login whose account
\* another session holds (ProcPacket.cpp:88), and that session has not been deleted:
\* OnRecv and OnClientLeave find their user (ChatServer.cpp:188, 343), OnClientJoin a new
\* id (325), and no login meets its own entry or one that a session left behind.
THEOREM CrashCorrect == Spec => OnlyDuplicateLoginCrashes
<1> DEFINE Caused(t) ==
        /\ pc[t] = "login"
        /\ \E r \in Sessions \ {sid[t]} : /\ AccountOf[r] = AccountOf[sid[t]]
                                          /\ m_accountMap[AccountOf[r]] = r
                                          /\ stage[r] \notin {"none", "gone"}
<1>1. ASSUME IInv, AccountsInv, [Next]_vars
      PROVE  [\A t \in Threads : pc[t] # "crash" /\ pc'[t] = "crash" => Caused(t)]_vars
  <2> SUFFICES ASSUME NEW t \in Threads, Crashes(t) PROVE Caused(t)
    BY DEF Crashes
  <2>1. t \in Workers /\ LoginAccount(t)
    BY <1>1, CrashIsLogin
  <2>2. pc[t] = "login" /\ m_accountMap[req[t].account] # Nobody
    BY <1>1, <2>1, ThreadsDistinct DEF LoginAccount, Goto, Crashes, IInv, TypeOK
  <2>3. QED
    BY <1>1, <2>1, <2>2, FoundIsDuplicate
<1>2. QED
  BY <1>1, IInvCorrect, AccountsInvariant, PTL DEF Spec, OnlyDuplicateLoginCrashes

-----------------------------------------------------------------------------
(* m_connectCnt and m_loginCnt: a step changes them by what it changes for its  *)
(* own thread and User.                                                         *)

CountLocs == {"create_lock", "create_map", "create_cnt", "login_inc", "del_free"}
Counting  == {t \in Threads : pc[t] \in CountLocs}
LoggedIns == {u \in Users \ pool : user[u].login = TRUE}
Connecteds == {u \in Users \ pool : user[u].login = FALSE}
Counts == /\ m_loginCnt = Cardinality(LoggedIns)
          /\ m_connectCnt + Cardinality(Counting) = Cardinality(Connecteds)

IfOne(b) == IF b THEN 1 ELSE 0

\* A set that changes in one place changes its size by that place.
LEMMA SetStep ==
    ASSUME NEW A, NEW B, IsFiniteSet(A), NEW x, \A y : y # x => (y \in A <=> y \in B)
    PROVE  /\ Cardinality(A) \in Int /\ Cardinality(B) \in Int
           /\ Cardinality(B) - Cardinality(A) = IfOne(x \in B) - IfOne(x \in A)
<1>1. Cardinality(A) \in Nat
  BY FS_CardinalityType
<1>2. CASE x \in A /\ x \notin B
  <2>1. B = A \ {x}
    BY <1>2
  <2>2. Cardinality(B) = Cardinality(A) - 1
    BY <1>2, <2>1, FS_RemoveElement
  <2>3. QED
    BY <1>1, <1>2, <2>2 DEF IfOne
<1>3. CASE x \notin A /\ x \in B
  <2>1. B = A \cup {x}
    BY <1>3
  <2>2. Cardinality(B) = Cardinality(A) + 1
    BY <1>3, <2>1, FS_AddElement
  <2>3. QED
    BY <1>1, <1>3, <2>2 DEF IfOne
<1>4. CASE x \in A <=> x \in B
  <2>1. A = B
    BY <1>4
  <2>2. QED
    BY <1>1, <1>4, <2>1 DEF IfOne
<1>5. QED
  BY <1>2, <1>3, <1>4

\* What thread t and User u add to the sets.
OfThread(t)      == IfOne(pc[t] \in CountLocs)
OfLoggedIn(u)    == IfOne(u \notin pool /\ user[u].login = TRUE)
OfConnected(u)   == IfOne(u \notin pool /\ user[u].login = FALSE)

\* The counters keep up when t changes them by what it changes for its User and itself.
LEMMA CountsFrame ==
    ASSUME TypeOK, Counts, NEW t \in Threads, NEW u \in Users,
           \A o \in Threads \ {t} : pc'[o] = pc[o],
           \A v \in Users \ {u} : user'[v].login = user[v].login /\ (v \in pool' <=> v \in pool),
           m_loginCnt' - m_loginCnt = OfLoggedIn(u)' - OfLoggedIn(u),
           m_connectCnt' - m_connectCnt = OfConnected(u)' - OfConnected(u)
                                          - OfThread(t)' + OfThread(t),
           m_loginCnt' \in Int, m_connectCnt' \in Int
    PROVE  Counts'
<1>1. IsFiniteSet(Threads) /\ IsFiniteSet(Users)
  BY FiniteAssumption, FS_AddElement DEF Threads
<1>2. IsFiniteSet(Counting) /\ IsFiniteSet(LoggedIns) /\ IsFiniteSet(Connecteds)
  BY <1>1, FS_Subset DEF Counting, LoggedIns, Connecteds
<1>3. /\ Cardinality(Counting) \in Int /\ Cardinality(Counting') \in Int
      /\ Cardinality(Counting') - Cardinality(Counting) = OfThread(t)' - OfThread(t)
  <2>1. \A o : o # t => (o \in Counting <=> o \in Counting')
    BY DEF Counting
  <2>2. (t \in Counting <=> pc[t] \in CountLocs) /\ (t \in Counting' <=> pc'[t] \in CountLocs)
    BY DEF Counting
  <2>3. QED
    BY <1>2, <2>1, <2>2, SetStep DEF OfThread, CountLocs
<1>4. /\ Cardinality(LoggedIns) \in Int /\ Cardinality(LoggedIns') \in Int
      /\ Cardinality(LoggedIns') - Cardinality(LoggedIns) = OfLoggedIn(u)' - OfLoggedIn(u)
  <2>1. \A v : v # u => (v \in LoggedIns <=> v \in LoggedIns')
    BY DEF LoggedIns
  <2>2. /\ u \in LoggedIns <=> u \notin pool /\ user[u].login = TRUE
        /\ u \in LoggedIns' <=> u \notin pool' /\ user'[u].login = TRUE
    BY DEF LoggedIns
  <2>3. QED
    BY <1>2, <2>1, <2>2, SetStep DEF OfLoggedIn
<1>5. /\ Cardinality(Connecteds) \in Int /\ Cardinality(Connecteds') \in Int
      /\ Cardinality(Connecteds') - Cardinality(Connecteds) = OfConnected(u)' - OfConnected(u)
  <2>1. \A v : v # u => (v \in Connecteds <=> v \in Connecteds')
    BY DEF Connecteds
  <2>2. /\ u \in Connecteds <=> u \notin pool /\ user[u].login = FALSE
        /\ u \in Connecteds' <=> u \notin pool' /\ user'[u].login = FALSE
    BY DEF Connecteds
  <2>3. QED
    BY <1>2, <2>1, <2>2, SetStep DEF OfConnected
<1>6. m_loginCnt \in Int /\ m_connectCnt \in Int
  BY DEF TypeOK
<1>7. m_loginCnt' = Cardinality(LoggedIns')
  BY <1>4, <1>6 DEF Counts
<1>8. m_connectCnt' + Cardinality(Counting') = Cardinality(Connecteds')
  <2>1. /\ OfThread(t) \in Int /\ OfThread(t)' \in Int
        /\ OfConnected(u) \in Int /\ OfConnected(u)' \in Int
    BY DEF OfThread, OfConnected, IfOne
  <2>2. m_connectCnt' - m_connectCnt = Cardinality(Connecteds') - Cardinality(Connecteds)
                                       - (Cardinality(Counting') - Cardinality(Counting))
    BY <1>3, <1>5, <2>1
  <2>3. m_connectCnt + Cardinality(Counting) = Cardinality(Connecteds)
    BY DEF Counts
  <2>4. m_connectCnt \in Int /\ m_connectCnt' \in Int
    BY <1>6
  <2>5. QED
    BY <1>3, <1>5, <2>2, <2>3, <2>4
<1>9. QED
  BY <1>7, <1>8 DEF Counts

\* A step that changes no login, no pool and no counting thread.
LEMMA CountsSame ==
    ASSUME Counts, UNCHANGED <<m_loginCnt, m_connectCnt, pool>>,
           \A u \in Users : user'[u].login = user[u].login,
           \A t \in Threads : pc'[t] \in CountLocs <=> pc[t] \in CountLocs
    PROVE  Counts'
<1>1. LoggedIns' = LoggedIns /\ Connecteds' = Connecteds
  BY DEF LoggedIns, Connecteds
<1>2. Counting' = Counting
  BY DEF Counting
<1>3. QED
  BY <1>1, <1>2 DEF Counts

\* Steps between two changes of the counters: in CreateUser,
LEMMA AcceptorCountsSame ==
    ASSUME TypeOK, Ownership, Counts, CreateLock \/ CreateInsert
    PROVE  Counts'
<1> USE ThreadsDistinct, OwnershipTypes DEF counters, CountLocs
<1>1. \A u \in Users : user[u] \in UserType
  BY DEF TypeOK, UserType
<1> SUFFICES /\ UNCHANGED <<m_loginCnt, m_connectCnt, pool>>
             /\ \A u \in Users : user'[u].login = user[u].login
             /\ \A o \in Threads : pc'[o] \in CountLocs <=> pc[o] \in CountLocs
  BY CountsSame
<1>2. CASE CreateLock
  <2>1. pc[Acceptor] = "create_lock"
    BY <1>2 DEF CreateLock
  <2>2. cur[Acceptor] \in Users /\ ~user[cur[Acceptor]].login
    BY <2>1 DEF Ownership, Flags, FlagsOf, Current, CurrentOf
  <2>3. user[cur[Acceptor]].login = FALSE
    BY <1>1, <2>2 DEF UserType
  <2>4. /\ user' = InitUser(cur[Acceptor], sid[Acceptor])
        /\ UNCHANGED <<m_loginCnt, m_connectCnt, pool>>
    BY <1>2 DEF CreateLock
  <2>5. user \in [Users -> UserType]
    BY DEF TypeOK, UserType
  <2>6. \A u \in Users : user'[u].login = user[u].login
    <3>1. \A u \in Users : u # cur[Acceptor] => user'[u] = user[u]
      BY <2>4, <2>5 DEF InitUser
    <3>2. user'[cur[Acceptor]] =
            [user[cur[Acceptor]] EXCEPT !.ssid = sid[Acceptor], !.pos = Outside,
                                        !.login = FALSE, !.inSector = FALSE]
      BY <2>2, <2>4, <2>5 DEF InitUser
    <3>3. user[cur[Acceptor]] \in UserType
      BY <1>1, <2>2
    <3>4. user'[cur[Acceptor]].login = FALSE
      BY <3>2, <3>3 DEF UserType
    <3>5. QED
      BY <2>3, <3>1, <3>4
  <2>7. pc' = [pc EXCEPT ![Acceptor] = "create_map"]
    BY <1>2 DEF CreateLock, Goto
  <2>8. \A o \in Threads : pc'[o] \in CountLocs <=> pc[o] \in CountLocs
    BY <2>1, <2>7 DEF Ownership
  <2>9. QED
    BY <2>4, <2>6, <2>8
<1>3. CASE CreateInsert
  BY <1>1, <1>3 DEF CreateInsert, Goto, Ownership, Current, CurrentOf
<1>4. QED
  BY <1>2, <1>3

\* in OnRecv,
LEMMA RecvCountsSame ==
    ASSUME TypeOK, Ownership, Counts, NEW t \in Workers,
           \/ (\E s \in Sessions : Recv(t, s)) \/ AcquireMap(t) \/ AcquireUser(t)
           \/ ReleaseUser(t) \/ LoginAccount(t) \/ MoveLock(t) \/ Move(t)
           \/ ChatLock(t) \/ Chat(t)
    PROVE  Counts'
<1> USE ThreadsDistinct, OwnershipTypes DEF counters, CountLocs
<1>1. \A u \in Users : user[u] \in UserType
  BY DEF TypeOK, UserType
<1> SUFFICES /\ UNCHANGED <<m_loginCnt, m_connectCnt, pool>>
             /\ \A u \in Users : user'[u].login = user[u].login
             /\ \A o \in Threads : pc'[o] \in CountLocs <=> pc[o] \in CountLocs
  BY CountsSame
<1>2. CASE \E s \in Sessions : Recv(t, s)
  BY <1>1, <1>2 DEF Recv, Call
<1>3. CASE AcquireMap(t)
  BY <1>1, <1>3 DEF AcquireMap, Goto
<1>4. CASE AcquireUser(t)
  BY <1>1, <1>4 DEF AcquireUser, Goto, Handle
<1>5. CASE ReleaseUser(t)
  BY <1>1, <1>5 DEF ReleaseUser, Return
<1>6. CASE LoginAccount(t)
  BY <1>1, <1>6 DEF LoginAccount, Goto
<1>7. CASE MoveLock(t)
  BY <1>1, <1>7 DEF MoveLock, TakeSector
<1>8. CASE Move(t)
  BY <1>1, <1>8 DEF Move, LeaveSectors, UserType
<1>9. CASE ChatLock(t)
  BY <1>1, <1>9 DEF ChatLock, TakeSector
<1>10. CASE Chat(t)
  BY <1>1, <1>10 DEF Chat, LeaveSectors
<1>11. QED
  BY <1>2, <1>3, <1>4, <1>5, <1>6, <1>7, <1>8, <1>9, <1>10

\* in OnClientLeave.
LEMMA LeaveCountsSame ==
    ASSUME TypeOK, Ownership, Counts, NEW t \in Workers,
           \/ (\E s \in Sessions : Leave(t, s)) \/ DeleteMap(t) \/ DeleteLock(t)
           \/ DeleteSector(t) \/ DeleteUnlock(t) \/ DeleteAccount(t)
    PROVE  Counts'
<1> USE ThreadsDistinct, OwnershipTypes DEF counters, CountLocs
<1>1. \A u \in Users : user[u] \in UserType
  BY DEF TypeOK, UserType
<1> SUFFICES /\ UNCHANGED <<m_loginCnt, m_connectCnt, pool>>
             /\ \A u \in Users : user'[u].login = user[u].login
             /\ \A o \in Threads : pc'[o] \in CountLocs <=> pc[o] \in CountLocs
  BY CountsSame
<1>2. CASE \E s \in Sessions : Leave(t, s)
  BY <1>1, <1>2 DEF Leave, Call
<1>3. CASE DeleteMap(t)
  BY <1>1, <1>3 DEF DeleteMap, Goto
<1>4. CASE DeleteLock(t)
  BY <1>1, <1>4 DEF DeleteLock, Goto
<1>5. CASE DeleteSector(t)
  BY <1>1, <1>5 DEF DeleteSector, Goto, UserType
<1>6. CASE DeleteUnlock(t)
  BY <1>1, <1>6 DEF DeleteUnlock, Goto
<1>7. CASE DeleteAccount(t)
  BY <1>1, <1>7 DEF DeleteAccount, Goto
<1>8. QED
  BY <1>2, <1>3, <1>4, <1>5, <1>6, <1>7

\* Steps that change a counter, or the set it counts.
LEMMA JoinCounts ==
    ASSUME TypeOK, TypeOK', Ownership, Counts, NEW s \in Sessions, Join(s) PROVE Counts'
<1> USE ThreadsDistinct, OwnershipTypes DEF Join, Call, counters, CountLocs
<1>1. PICK u \in Users : u \in pool /\ pool' = pool \ {u} /\ ~user[u].login
  BY DEF Ownership, Pooled
<1>2. /\ OfLoggedIn(u) = 0 /\ OfLoggedIn(u)' = 0
      /\ OfConnected(u) = 0 /\ OfConnected(u)' = 1
      /\ OfThread(Acceptor) = 0 /\ OfThread(Acceptor)' = 1
  BY <1>1, UserFields DEF UserType, OfLoggedIn, OfConnected, OfThread, IfOne
<1>3. /\ \A o \in Threads \ {Acceptor} : pc'[o] = pc[o]
      /\ \A v \in Users \ {u} : user'[v].login = user[v].login /\ (v \in pool' <=> v \in pool)
  BY <1>1
<1>4. /\ m_loginCnt \in Int /\ m_loginCnt' = m_loginCnt
      /\ m_connectCnt \in Int /\ m_connectCnt' = m_connectCnt
  BY DEF TypeOK
<1>5. /\ m_loginCnt' - m_loginCnt = OfLoggedIn(u)' - OfLoggedIn(u)
      /\ m_connectCnt' - m_connectCnt = OfConnected(u)' - OfConnected(u)
                                         - OfThread(Acceptor)' + OfThread(Acceptor)
  BY <1>2, <1>4
<1>6. QED
  BY <1>3, <1>4, <1>5, CountsFrame

\* OnClientJoin counts the User it created.
LEMMA CreateCountCounts ==
    ASSUME TypeOK, TypeOK', Ownership, Counts, CreateCount PROVE Counts'
<1> USE ThreadsDistinct, OwnershipTypes DEF CreateCount, Return, counters, CountLocs
<1>1. PICK u \in Users : u = cur[Acceptor]
  BY DEF Ownership, Current, CurrentOf
<1>2. /\ OfLoggedIn(u)' = OfLoggedIn(u) /\ OfConnected(u)' = OfConnected(u)
      /\ OfThread(Acceptor) = 1 /\ OfThread(Acceptor)' = 0
  BY DEF OfLoggedIn, OfConnected, OfThread, IfOne
<1>3. /\ OfLoggedIn(u) \in Int /\ OfConnected(u) \in Int
      /\ m_connectCnt \in Int /\ m_loginCnt \in Int
  BY DEF OfLoggedIn, OfConnected, IfOne, TypeOK
<1>4. QED
  BY <1>2, <1>3, CountsFrame DEF TypeOK

\* A login is not connected any more before it is logged in.
LEMMA LoginDecCounts ==
    ASSUME TypeOK, TypeOK', Ownership, Counts, NEW t \in Workers, LoginDec(t) PROVE Counts'
<1> USE ThreadsDistinct, OwnershipTypes DEF LoginDec, Goto, counters, CountLocs
<1>1. PICK u \in Users : u = cur[t]
  BY DEF Ownership, Current, CurrentOf, HandlerLocs
<1>2. /\ OfLoggedIn(u)' = OfLoggedIn(u) /\ OfConnected(u)' = OfConnected(u)
      /\ OfThread(t) = 0 /\ OfThread(t)' = 1
  BY DEF OfLoggedIn, OfConnected, OfThread, IfOne
<1>3. /\ OfLoggedIn(u) \in Int /\ OfConnected(u) \in Int
      /\ m_connectCnt \in Int /\ m_loginCnt \in Int
  BY DEF OfLoggedIn, OfConnected, IfOne, TypeOK
<1>4. QED
  BY <1>2, <1>3, CountsFrame DEF TypeOK

\* A login is counted when its User says so.
LEMMA LoginIncCounts ==
    ASSUME TypeOK, TypeOK', Ownership, Counts, NEW t \in Workers, LoginInc(t) PROVE Counts'
<1> USE ThreadsDistinct, OwnershipTypes DEF counters, CountLocs
<1>1. PICK u \in Users : u = cur[t] /\ ~user[u].login /\ u \notin pool
  BY DEF LoginInc, Ownership, Current, CurrentOf, HandlerLocs, Flags, FlagsOf, Pooled
<1>2. user[u] \in UserType /\ user'[u].login /\ \A v \in Users \ {u} : user'[v] = user[v]
  BY <1>1, UserFields DEF LoginInc, UserType
<1>3. user[u].login = FALSE /\ user'[u].login = TRUE
  BY <1>1, <1>2, UserFields DEF LoginInc, UserType, TypeOK
<1>4. /\ OfLoggedIn(u) = 0 /\ OfLoggedIn(u)' = 1
      /\ OfConnected(u) = 1 /\ OfConnected(u)' = 0
      /\ OfThread(t) = 1 /\ OfThread(t)' = 0
  BY <1>1, <1>3 DEF LoginInc, Goto, OfLoggedIn, OfConnected, OfThread, IfOne
<1>5. m_loginCnt' - m_loginCnt = 1 /\ m_connectCnt' - m_connectCnt = 0
  BY DEF LoginInc, TypeOK
<1>6. /\ \A o \in Threads \ {t} : pc'[o] = pc[o]
      /\ \A v \in Users \ {u} : user'[v].login = user[v].login /\ (v \in pool' <=> v \in pool)
      /\ m_loginCnt' \in Int /\ m_connectCnt' \in Int
  BY <1>2 DEF LoginInc, Goto, TypeOK
<1>7. QED
  BY <1>4, <1>5, <1>6, CountsFrame

\* A delete counts its User out before the User goes back to the pool.
LEMMA DeleteCountCounts ==
    ASSUME TypeOK, TypeOK', Ownership, Counts, NEW t \in Workers, DeleteCount(t) PROVE Counts'
<1> USE ThreadsDistinct, OwnershipTypes DEF counters, CountLocs
<1>1. PICK u \in Users : u = cur[t] /\ u \notin pool
  BY DEF DeleteCount, Ownership, Current, CurrentOf, DeleteLocs
<1>2. user[u] \in UserType /\ user'[u].login = FALSE /\ \A v \in Users \ {u} : user'[v] = user[v]
  BY <1>1, UserFields DEF DeleteCount, UserType
<1>3. OfThread(t) = 0 /\ OfThread(t)' = 1 /\ OfLoggedIn(u)' = 0 /\ OfConnected(u)' = 1
  BY <1>1, <1>2 DEF DeleteCount, Goto, OfLoggedIn, OfConnected, OfThread, IfOne
<1>4. /\ \A o \in Threads \ {t} : pc'[o] = pc[o]
      /\ \A v \in Users \ {u} : user'[v].login = user[v].login /\ (v \in pool' <=> v \in pool)
      /\ m_loginCnt' \in Int /\ m_connectCnt' \in Int
  BY <1>2 DEF DeleteCount, Goto, TypeOK
<1>5. CASE user[u].login
  <2>1. OfLoggedIn(u) = 1 /\ OfConnected(u) = 0
    BY <1>1, <1>2, <1>5 DEF OfLoggedIn, OfConnected, IfOne, UserType
  <2>2. m_loginCnt' - m_loginCnt = -1 /\ m_connectCnt' - m_connectCnt = 0
    BY <1>1, <1>5 DEF DeleteCount, TypeOK
  <2>3. QED
    BY <1>3, <1>4, <2>1, <2>2, CountsFrame
<1>6. CASE ~user[u].login
  <2>1. OfLoggedIn(u) = 0 /\ OfConnected(u) = 1
    BY <1>1, <1>2, <1>6 DEF OfLoggedIn, OfConnected, IfOne, UserType
  <2>2. m_loginCnt' - m_loginCnt = 0 /\ m_connectCnt' - m_connectCnt = -1
    BY <1>1, <1>6 DEF DeleteCount, TypeOK
  <2>3. QED
    BY <1>3, <1>4, <2>1, <2>2, CountsFrame
<1>7. QED
  BY <1>5, <1>6

\* The User that goes back to the pool is not counted any more.
LEMMA DeleteFreeCounts ==
    ASSUME TypeOK, TypeOK', Ownership, Counts, NEW t \in Workers, DeleteFree(t) PROVE Counts'
<1> USE ThreadsDistinct, OwnershipTypes DEF DeleteFree, Return, counters, CountLocs
<1>1. PICK u \in Users : u = cur[t] /\ ~user[u].login /\ u \notin pool
  BY DEF Ownership, Current, CurrentOf, DeleteLocs, Flags, FlagsOf
<1>2. user[u].login = FALSE
  BY <1>1, UserFields DEF UserType
<1>3. /\ OfLoggedIn(u) = 0 /\ OfLoggedIn(u)' = 0
      /\ OfConnected(u) = 1 /\ OfConnected(u)' = 0
      /\ OfThread(t) = 1 /\ OfThread(t)' = 0
  BY <1>1, <1>2 DEF OfLoggedIn, OfConnected, OfThread, IfOne
<1>4. m_loginCnt' - m_loginCnt = 0 /\ m_connectCnt' - m_connectCnt = 0
  BY DEF TypeOK
<1>5. QED
  BY <1>1, <1>3, <1>4, CountsFrame DEF TypeOK

\* Every step keeps the counters and what they count together.
LEMMA CountsStep ==
    ASSUME TypeOK, TypeOK', Ownership, Counts, [Next]_vars PROVE Counts'
<1>1. CASE AcceptorStep
  BY <1>1, JoinCounts, AcceptorCountsSame, CreateCountCounts DEF AcceptorStep
<1>2. ASSUME NEW t \in Workers, WorkerStep(t) PROVE Counts'
  BY <1>2, RecvCountsSame, LeaveCountsSame, LoginDecCounts, LoginIncCounts,
     DeleteCountCounts, DeleteFreeCounts
     DEF WorkerStep
<1>3. CASE UNCHANGED vars
  BY <1>3, CountsSame DEF vars, counters, thread
<1>4. QED
  BY <1>1, <1>2, <1>3 DEF Next

\* At the start nothing is counted.
LEMMA InitCounts == Init => Counts
<1> SUFFICES ASSUME Init PROVE Counts
  OBVIOUS
<1>1. LoggedIns = {} /\ Connecteds = {} /\ Counting = {}
  BY DEF Init, LoggedIns, Connecteds, Counting, CountLocs
<1>2. QED
  BY <1>1, FS_EmptySet DEF Init, Counts

\* m_connectCnt and m_loginCnt count the sessions before and after their login, but for
\* the steps between a change and its count (ChatServer.cpp:334, 378-385,
\* ProcPacket.cpp:105-106): neither is ever negative or drifts, whatever the order in
\* which sessions log in and leave.
THEOREM CountersCorrect == Spec => []CountersAgree
<1>1. IInv /\ IInv' /\ Counts /\ [Next]_vars => Counts'
  BY CountsStep DEF IInv
<1>2. Counts => CountersAgree
  BY DEF Counts, CountersAgree, Counting, CountLocs, LoggedIns, Connecteds
<1>3. QED
  BY <1>1, <1>2, InitCounts, IInvCorrect, PTL DEF Spec
=============================================================================
