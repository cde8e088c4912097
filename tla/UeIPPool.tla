------------------------------- MODULE UeIPPool -------------------------------
(***************************************************************************)
(* The UE address pools of one DNN of a UPF, as the SMF keeps them         *)
(* (NFs/smf/internal/context/pool/lazyReusePool.go, ue_ip_pool.go, and the *)
(* selection and release in user_plane_information.go): a dynamic pool and *)
(* a static one inside its range.  A LazyReusePool is a linked list of     *)
(* segments of free values; a value that is returned goes behind the head, *)
(* so that it is used again late.                                          *)
(***************************************************************************)
EXTENDS Integers, SequencesExt

CONSTANTS
    Sessions,     \* PDU sessions
    Broadcast,    \* the dynamic pool is made of the addresses 0 .. Broadcast
    StaticFirst, StaticLast, \* the range of the static pool
    Duplicates,   \* may an address be released twice when the segments are out
                  \* of order?
    None

ASSUME RangeAssumption ==
    /\ Broadcast \in Nat /\ StaticFirst \in Nat /\ StaticLast \in Nat
    /\ StaticFirst <= StaticLast /\ StaticLast <= Broadcast
ASSUME DuplicatesAssumption == Duplicates \in BOOLEAN
ASSUME NoneAssumption == None \notin Int

-----------------------------------------------------------------------------
(* LazyReusePool: [first, last, segs, remain].                             *)

Segment(a, b) == [first |-> a, last |-> b]
Values(segs) == UNION {segs[i].first .. segs[i].last : i \in DOMAIN segs}

NewLazyReusePool(a, b) ==
    [first |-> a, last |-> b, segs |-> <<Segment(a, b)>>, remain |-> b - a + 1]

Piece(a, b) == IF a <= b THEN <<Segment(a, b)>> ELSE <<>>

\* What is left of a segment without the values a .. b.
Minus(seg, a, b) ==
    IF b < seg.first \/ seg.last < a THEN <<seg>>
    ELSE Piece(seg.first, a - 1) \o Piece(b + 1, seg.last)

\* Allocate takes the first value of the head.
AllocatePool(p) ==
    [p EXCEPT !.segs = Minus(p.segs[1], p.segs[1].first, p.segs[1].first) \o Tail(p.segs),
              !.remain = @ - 1]

\* The first of the indices S.
Least(S) == CHOOSE i \in S : \A j \in S : i <= j

\* Use of a value that is in the pool: split, or the segment goes.
UsePool(p, v) ==
    LET i == Least({j \in DOMAIN p.segs : v \in p.segs[j].first .. p.segs[j].last}) IN
    [p EXCEPT !.segs = SubSeq(p.segs, 1, i - 1) \o Minus(p.segs[i], v, v)
                         \o SubSeq(p.segs, i + 1, Len(p.segs)),
              !.remain = @ - 1]

\* relativePosisionOf.
Position(seg, v) ==
    CASE v < seg.first - 1 -> "before"
      [] v = seg.first - 1 -> "adjacentToTheFront"
      [] v \in seg.first .. seg.last -> "within"
      [] v = seg.last + 1 -> "adjacentToTheBack"
      [] OTHER -> "after"

\* Mutant: two segments that meet are joined, and the second one stays.
ExtendLast_NotUnlinked(segs, i) ==
    IF i < Len(segs) /\ segs[i].last + 2 = segs[i + 1].first
      THEN [segs EXCEPT ![i].last = segs[i + 1].last]
      ELSE [segs EXCEPT ![i].last = @ + 1]

\* extendLast: a segment that meets the next one is joined with it.
ExtendLast(segs, i) ==
    IF i < Len(segs) /\ segs[i].last + 2 = segs[i + 1].first
      THEN RemoveAt([segs EXCEPT ![i].last = segs[i + 1].last], i + 1)
      ELSE [segs EXCEPT ![i].last = @ + 1]

\* Mutant: the loop does not look for the value inside a segment.
FreeBehind_DuplicateInserted(segs, v) ==
    LET stops == {i \in 2 .. Len(segs) : v <= segs[i].last} IN
    IF stops = {} THEN Append(segs, Segment(v, v)) ELSE InsertAt(segs, Least(stops), Segment(v, v))

\* The list after a value is put behind the head: the loop stops at the first
\* segment that does not come before the value.
FreeBehind(segs, v) ==
    LET stops == {i \in 2 .. Len(segs) : Position(segs[i], v) # "after"}
        i == Least(stops) IN
    IF stops = {} THEN Append(segs, Segment(v, v))
    ELSE CASE Position(segs[i], v) = "before" -> InsertAt(segs, i, Segment(v, v))
           [] Position(segs[i], v) = "adjacentToTheFront" -> [segs EXCEPT ![i].first = v]
           [] Position(segs[i], v) = "within" -> segs
           [] Position(segs[i], v) = "adjacentToTheBack" -> ExtendLast(segs, i)

\* Mutant: a value in front of the head extends the head.
FreeSegs_ExtendsHead(segs, v) ==
    CASE segs = <<>> -> <<Segment(v, v)>>
      [] segs # <<>> /\ Position(segs[1], v) = "within" -> segs
      [] segs # <<>> /\ Position(segs[1], v) = "adjacentToTheFront" -> [segs EXCEPT ![1].first = v]
      [] segs # <<>> /\ Position(segs[1], v) = "adjacentToTheBack" -> ExtendLast(segs, 1)
      [] OTHER -> FreeBehind(segs, v)

\* Free: the list with the value v; a duplicate leaves it alone.
FreeSegs(segs, v) ==
    CASE segs = <<>> -> <<Segment(v, v)>>
      [] segs # <<>> /\ Position(segs[1], v) = "within" -> segs
      [] segs # <<>> /\ Position(segs[1], v) = "adjacentToTheBack" -> ExtendLast(segs, 1)
      [] OTHER -> FreeBehind(segs, v)

FreePool(p, v) ==
    LET segs == FreeSegs(p.segs, v) IN
    IF v < p.first \/ v > p.last \/ segs = p.segs THEN p
    ELSE [p EXCEPT !.segs = segs, !.remain = @ + 1]

\* Reserve for a range inside the pool.
ReservePool(p, a, b) ==
    [p EXCEPT !.segs = FlattenSeq([i \in DOMAIN p.segs |-> Minus(p.segs[i], a, b)]),
              !.remain = @ - Cardinality(Values(p.segs) \cap (a .. b))]

-----------------------------------------------------------------------------
(* The pools of the DNN and the sessions that use them.                    *)

VARIABLES
    stat,       \* the static pool
    dyn,        \* the dynamic pool
    addr,       \* SMContext.PDUAddress and UseStaticIP of each session
    asked,      \* the address it asked for
    old,        \* the addresses that were released and not assigned since
    ahead       \* history: the addresses that were in the head segment when an
                \* address was released, and have not been assigned since

vars == <<stat, dyn, addr, asked, old, ahead>>

Network == 0
All == 0 .. Broadcast
Static == StaticFirst .. StaticLast
NoAddress == [value |-> None, static |-> FALSE]

\* NewUserPlaneInformation: the static pool is excluded from the dynamic one,
\* and so are the network and the broadcast address.
Init ==
    /\ stat = NewLazyReusePool(StaticFirst, StaticLast)
    /\ dyn = ReservePool(ReservePool(ReservePool(NewLazyReusePool(Network, Broadcast),
                 StaticFirst, StaticLast), Network, Network), Broadcast, Broadcast)
    /\ addr = [s \in Sessions |-> NoAddress]
    /\ asked = [s \in Sessions |-> None]
    /\ old = {}
    /\ ahead = [a \in All |-> {}]

HeadValues(p) == IF p.segs = <<>> THEN {} ELSE p.segs[1].first .. p.segs[1].last

\* The session s gets v.
Give(s, v, static, r) ==
    /\ addr' = [addr EXCEPT ![s] = [value |-> v, static |-> static]]
    /\ asked' = [asked EXCEPT ![s] = r]
    /\ ahead' = [a \in All |-> IF a = v THEN {} ELSE ahead[a] \ {v}]
    /\ old' = old \ {[value |-> v, static |-> static]}

\* SelectUPFAndAllocUEIP for a session without a static address.  When the
\* pool is empty the session is not established.
Allocate(s) ==
    /\ addr[s] = NoAddress
    /\ dyn.segs # <<>>
    /\ dyn' = AllocatePool(dyn)
    /\ Give(s, dyn.segs[1].first, FALSE, None)
    /\ UNCHANGED stat

\* The same with the static address of the subscription: getUEIPPool takes the
\* static pool when it contains the address, else the dynamic one.
Use(s, v) ==
    /\ addr[s] = NoAddress
    /\ \/ /\ v \in Static /\ v \in Values(stat.segs)
          /\ stat' = UsePool(stat, v)
          /\ Give(s, v, TRUE, v)
          /\ UNCHANGED dyn
       \/ /\ v \notin Static /\ v \in Values(dyn.segs)
          /\ dyn' = UsePool(dyn, v)
          /\ Give(s, v, FALSE, v)
          /\ UNCHANGED stat

\* pool.Release for the address x.
ReleaseUEIP(x) ==
    IF x.static
      THEN stat' = FreePool(stat, x.value) /\ UNCHANGED dyn
      ELSE dyn' = FreePool(dyn, x.value) /\ UNCHANGED stat

\* Mutant: an address goes back to the dynamic pool, wherever it came from.
Release_AlwaysDynamic(s) ==
    /\ addr[s] # NoAddress
    /\ dyn' = FreePool(dyn, addr[s].value)
    /\ addr' = [addr EXCEPT ![s] = NoAddress]
    /\ asked' = [asked EXCEPT ![s] = None]
    /\ old' = old \cup {addr[s]}
    /\ ahead' = [ahead EXCEPT ![addr[s].value] = HeadValues(dyn)]
    /\ UNCHANGED stat

\* The session gives its address back.
Release(s) ==
    /\ addr[s] # NoAddress
    /\ ReleaseUEIP(addr[s])
    /\ addr' = [addr EXCEPT ![s] = NoAddress]
    /\ asked' = [asked EXCEPT ![s] = None]
    /\ old' = old \cup {addr[s]}
    /\ ahead' = [ahead EXCEPT ![addr[s].value] =
                    HeadValues(IF addr[s].static THEN stat ELSE dyn) \ {addr[s].value}]

\* Free finds every value that is free: behind the head the segments ascend,
\* with gaps between them, and the value that follows the head is not free.
\* A request for a given address that splits the head ends this, and so does a
\* release that lets the head meet a segment that is not the next one.
InOrder(segs) ==
    /\ \A i, j \in 2 .. Len(segs) : i < j => segs[i].last + 1 < segs[j].first
    /\ segs # <<>> => segs[1].last + 1 \notin Values(segs)

\* A second release of an address, before anybody else has got it.
ReleaseAgain(x) ==
    /\ Duplicates \/ InOrder(IF x.static THEN stat.segs ELSE dyn.segs)
    /\ ReleaseUEIP(x)
    /\ UNCHANGED <<addr, asked, old, ahead>>

Next ==
    \/ \E s \in Sessions : \/ Allocate(s) \/ Release(s)
                          \/ \E v \in All : Use(s, v)
    \/ \E x \in old : ReleaseAgain(x)

Spec == Init /\ [][Next]_vars

\* The sessions are alike.
Symmetry == Permutations(Sessions)

-----------------------------------------------------------------------------
(* Properties.                                                             *)

Address == [value : All \cup {None}, static : BOOLEAN]
Pool == [first : All, last : All, segs : Seq([first : All, last : All]), remain : 0 .. Broadcast + 1]

\* The segments stay inside the range of their pool, and remain never becomes
\* negative.
TypeOK ==
    /\ stat \in Pool /\ dyn \in Pool
    /\ addr \in [Sessions -> Address] /\ old \subseteq Address
    /\ asked \in [Sessions -> All \cup {None}]
    /\ ahead \in [All -> SUBSET All]

Held(static) == {addr[s].value : s \in {t \in Sessions : addr[t].static = static}} \ {None}
Dynamic == All \ (Static \cup {Network, Broadcast})

\* Each pool holds exactly the addresses of its range that no session has, each
\* in one segment, and Remain() is their number: through any sequence of allocations, requests for given
\* addresses and releases, joining and splitting segments neither loses an
\* address nor offers one twice.
Exact(p, range) ==
    /\ Values(p.segs) = range /\ p.remain = Cardinality(range)
    /\ \A i, j \in DOMAIN p.segs :
          i # j => (p.segs[i].first .. p.segs[i].last) \cap (p.segs[j].first .. p.segs[j].last) = {}
PoolsExact ==
    /\ TypeOK
    /\ Exact(stat, Static \ Held(TRUE))
    /\ Exact(dyn, Dynamic \ Held(FALSE))

\* "The value is returned into a segment after the head for lazy reuse"
\* (lazyReusePool.go:104): unless a session asks for it, a released address is
\* assigned again only after the addresses that were in the head segment then.
LazyReuse ==
    [][\A s \in Sessions : Allocate(s) => ahead[addr'[s].value] = {}]_vars

\* The comment "duplecated free" (lazyReusePool.go:111 and :144): a second
\* release of an address that is free already leaves the pool as it is.
DuplicateFreeRejected ==
    [][\A x \in old : ReleaseAgain(x) => dyn' = dyn /\ stat' = stat]_vars

\* The pools implement AddressPool.
Abstract == INSTANCE AddressPool WITH
    Addresses <- All,
    OnRequest <- Static \cup {Network, Broadcast},
    addr <- [s \in Sessions |-> addr[s].value]
AbstractSpec == Abstract!Spec

=============================================================================
