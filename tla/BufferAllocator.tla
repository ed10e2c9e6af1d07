--------------------------- MODULE BufferAllocator ---------------------------
(***************************************************************************)
(* BufferAllocator: the pages under the RingBuffers.  It reserves regions  *)
(* of GRANULARITY bytes, commits them page by page and deals out buffers   *)
(* of a page or of half a page, in ascending order.  A page is decommitted *)
(* with its last buffer and a region released with its last page; pointers *)
(* into them are moved on.  It is not thread safe, and the program needs   *)
(* it in one order: the buffer of the monitor client first, for good; then *)
(* those of the sessions, allocated by CNetServer::Start and freed by      *)
(* Stop, the last one first.                                               *)
(* Addresses are multiples of HALF_PAGE; nullptr is 0.                     *)
(***************************************************************************)
EXTENDS Integers, Sequences, SequencesExt, FiniteSets, Functions

CONSTANTS
  PAGE_SIZE, HALF_PAGE, GRANULARITY,
  MaxRegion,    \* bound: regions in the address space
  SessionCounts,\* values of m_maxSession
  MaxStarts     \* bound: calls of CNetServer::Start

\* What the constants of the class are to each other; assumed where they get values.
BufferSizes == /\ HALF_PAGE \in Nat \ {0} /\ PAGE_SIZE = 2 * HALF_PAGE
               /\ GRANULARITY \in Nat \ {0} /\ GRANULARITY % PAGE_SIZE = 0
               /\ MaxRegion \in Nat /\ SessionCounts \subseteq Nat

Sizes   == {HALF_PAGE, PAGE_SIZE}
nullptr == 0
Regions == {GRANULARITY * i : i \in 1 .. MaxRegion}

VARIABLES
  m_addr,        \* m_addr2048 and m_addr4096, by size: where the next buffer goes
  m_reserveMap,  \* committed pages by region
  m_commitMap,   \* buffers by page
  reserved,      \* the regions VirtualAlloc reserved
  committed,     \* the pages VirtualAlloc committed
  buffers,       \* the buffers in use, in the order they were allocated
  wanted,        \* buffers Start still has to allocate
  starts         \* calls of Start

bufferVars == <<m_addr, m_reserveMap, m_commitMap, reserved, committed, buffers, wanted, starts>>

RegionOf(a) == a - (a % GRANULARITY)
PageOf(a)   == a - (a % PAGE_SIZE)

\* map::insert leaves a key that is there alone; operator[] makes one that is not.
Inserted(map, key, n)  == IF key \in DOMAIN map THEN map
                          ELSE [k \in DOMAIN map \cup {key} |-> IF k = key THEN n ELSE map[k]]
Incremented(map, key)  == [Inserted(map, key, 0) EXCEPT ![key] = @ + 1]
Erased(map, key)       == Restrict(map, DOMAIN map \ {key})

\* No buffer yet, but the one CLanClient is constructed with is wanted.
Init ==
  /\ m_addr = [size \in Sizes |-> nullptr]
  /\ m_reserveMap = <<>> /\ m_commitMap = <<>>
  /\ reserved = {} /\ committed = {}
  /\ buffers = <<>>
  /\ wanted = <<HALF_PAGE>>
  /\ starts = 0

-----------------------------------------------------------------------------
\* allocByAddr with the address at: a page is committed with its first buffer.
Place(size, at, reserveMap) ==
  /\ IF at % PAGE_SIZE = 0
       THEN /\ committed' = committed \cup {at}
            /\ m_reserveMap' = Incremented(reserveMap, RegionOf(at))
            /\ m_commitMap' = Inserted(m_commitMap, at, 1)
       ELSE /\ m_commitMap' = Incremented(m_commitMap, PageOf(at))
            /\ m_reserveMap' = reserveMap
            /\ UNCHANGED committed
  /\ m_addr' = [m_addr EXCEPT ![size] = at + size]
  /\ buffers' = Append(buffers, [addr |-> at, size |-> size])

\* A buffer that starts a region, and one that goes on in it.
AllocRegion(size) ==
  /\ m_addr[size] % GRANULARITY = 0
  /\ \E region \in Regions \ reserved :
       /\ reserved' = reserved \cup {region}
       /\ Place(size, region, Inserted(m_reserveMap, region, 0))

AllocNext(size) ==
  /\ m_addr[size] % GRANULARITY # 0
  /\ Place(size, m_addr[size], m_reserveMap)
  /\ UNCHANGED reserved

\* The constructor of a RingBuffer, of the client or of a Session.
Alloc ==
  /\ wanted # <<>>
  /\ AllocRegion(Head(wanted)) \/ AllocNext(Head(wanted))
  /\ wanted' = Tail(wanted)
  /\ UNCHANGED starts

-----------------------------------------------------------------------------
\* fixDecommittedAddr and fixReleasedAddr of one pointer
Inside(a, base, length) == base <= a /\ a < base + length

FixDecommitted_Not(addr, page) == addr               \* mutant: the call is missing
FixDecommitted(addr, page) == IF Inside(addr, page, PAGE_SIZE) THEN page + PAGE_SIZE ELSE addr

FixReleased(addr, region) == IF Inside(addr, region, GRANULARITY) THEN nullptr ELSE addr

\* Free of one of several buffers in a page, of the last one in its page, and of
\* the last one in its region.
FreeShared(page) ==
  /\ m_commitMap[page] > 1
  /\ m_commitMap' = [m_commitMap EXCEPT ![page] = @ - 1]
  /\ UNCHANGED <<m_addr, m_reserveMap, reserved, committed>>

FreePage(page) ==
  /\ m_commitMap[page] = 1 /\ m_reserveMap[RegionOf(page)] > 1
  /\ m_commitMap' = Erased(m_commitMap, page)
  /\ committed' = committed \ {page}
  /\ m_reserveMap' = [m_reserveMap EXCEPT ![RegionOf(page)] = @ - 1]
  /\ m_addr' = [size \in Sizes |-> FixDecommitted(m_addr[size], page)]
  /\ UNCHANGED reserved

FreeRegion(page) ==
  LET region == RegionOf(page) IN
  /\ m_commitMap[page] = 1 /\ m_reserveMap[region] = 1
  /\ m_commitMap' = Erased(m_commitMap, page)
  /\ committed' = {p \in committed : RegionOf(p) # region}
  /\ m_reserveMap' = Erased(m_reserveMap, region)
  /\ reserved' = reserved \ {region}
  /\ m_addr' = [size \in Sizes |-> FixReleased(FixDecommitted(m_addr[size], page), region)]

-----------------------------------------------------------------------------
\* Start makes the array of sessions, each with a send_buffer of 4001 bytes and a
\* recv_buffer of 2001.
Start(n) ==
  /\ wanted = <<>> /\ Len(buffers) = 1
  /\ starts < MaxStarts
  /\ wanted' = [i \in 1 .. 2 * n |-> IF i % 2 = 1 THEN PAGE_SIZE ELSE HALF_PAGE]
  /\ starts' = starts + 1
  /\ UNCHANGED <<m_addr, m_reserveMap, m_commitMap, reserved, committed, buffers>>

\* Stop destroys the array from its end, and the members of a session as well.
Stop ==
  /\ wanted = <<>> /\ Len(buffers) > 1
  /\ LET page == PageOf(Last(buffers).addr)
     IN  FreeShared(page) \/ FreePage(page) \/ FreeRegion(page)
  /\ buffers' = Front(buffers)
  /\ UNCHANGED <<wanted, starts>>

Next == Alloc \/ Stop \/ \E n \in SessionCounts : Start(n)

Spec == Init /\ [][Next]_bufferVars

-----------------------------------------------------------------------------
BuffersIn(base, length) == {i \in DOMAIN buffers : Inside(buffers[i].addr, base, length)}

\* No two buffers share a byte, each lies in a page that is committed, and the
\* maps know of exactly the pages and regions in use, so that the last Free of a
\* page gives it back and no earlier one does.  It takes a page left half empty, a
\* Stop and another Start to break it.
BuffersApart ==
  /\ \A i, j \in DOMAIN buffers : i # j =>
       \/ buffers[i].addr + buffers[i].size <= buffers[j].addr
       \/ buffers[j].addr + buffers[j].size <= buffers[i].addr
  /\ \A i \in DOMAIN buffers : PageOf(buffers[i].addr) \in committed
  /\ DOMAIN m_commitMap = committed /\ DOMAIN m_reserveMap = reserved
  /\ \A page \in committed : m_commitMap[page] = Cardinality(BuffersIn(page, PAGE_SIZE))
  /\ \A region \in reserved :
       m_reserveMap[region] = Cardinality({p \in committed : RegionOf(p) = region})
=============================================================================
