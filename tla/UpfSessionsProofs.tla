-------------------------- MODULE UpfSessionsProofs --------------------------
(***************************************************************************)
(* The tables of UpfSessions agree with each other for every number of     *)
(* SMFs, sessions and outstanding reports.                                 *)
(***************************************************************************)
EXTENDS UpfSessions, FiniteSetTheorems, SequenceTheorems, TLAPS

Rng(s) == {s[i] : i \in 1 .. Len(s)}
NoDup(s) == \A i, j \in 1 .. Len(s) : s[i] = s[j] => i = j

\* The RemoteNode of a session has a Node ID of an SMF.
SessionsNamed == \A l \in Live : node[sess[l].rnode].id \in NodeIDs

IInv ==
    /\ TypeOK
    /\ FreeListExact
    /\ OwnershipAgrees
    /\ RegistryKeyed
    /\ SessionsNamed
    /\ SessionsRegistered

-----------------------------------------------------------------------------
\* What append does to a free list.
LEMMA AppendFacts ==
    ASSUME NEW S, NEW s \in Seq(S), NEW x \in S
    PROVE  /\ Append(s, x) \in Seq(S)
           /\ Rng(Append(s, x)) = Rng(s) \cup {x}
           /\ NoDup(s) /\ x \notin Rng(s) => NoDup(Append(s, x))
BY DEF Rng, NoDup

\* What n.free[:last] leaves of a free list.
LEMMA PopFacts ==
    ASSUME NEW S, NEW s \in Seq(S), s # <<>>, NoDup(s)
    PROVE  /\ s[Len(s)] \in S /\ s[Len(s)] \in Rng(s)
           /\ SubSeq(s, 1, Len(s) - 1) \in Seq(S)
           /\ Rng(SubSeq(s, 1, Len(s) - 1)) = Rng(s) \ {s[Len(s)]}
           /\ NoDup(SubSeq(s, 1, Len(s) - 1))
<1>1. PICK m \in Nat : Len(s) = m + 1
    <2>1. Len(s) \in Nat \ {0}
        BY EmptySeq
    <2>2. \A k \in Nat \ {0} : k - 1 \in Nat /\ k = (k - 1) + 1
        OBVIOUS
    <2> QED BY <2>1, <2>2
<1>2. Len(s) - 1 = m
    BY <1>1
<1> DEFINE t == SubSeq(s, 1, m)
<1>3. s \in [1 .. m + 1 -> S]
    BY <1>1, LenProperties
<1>4. t \in Seq(S) /\ Len(t) = m /\ \A i \in 1 .. m : t[i] = s[i]
    <2>1. \A i \in 1 .. m : s[i] \in S
        BY <1>3
    <2>2. /\ t \in Seq(S)
          /\ Len(t) = IF 1 <= m THEN m - 1 + 1 ELSE 0
          /\ \A i \in 1 .. m - 1 + 1 : t[i] = s[1 + i - 1]
        BY <2>1, SubSeqProperties
    <2> HIDE DEF t
    <2>3. Len(t) = m
        BY <2>2
    <2>4. ASSUME NEW i \in 1 .. m PROVE t[i] = s[i]
        <3>1. i \in 1 .. m - 1 + 1 /\ 1 + i - 1 = i
            OBVIOUS
        <3>2. t[i] = s[1 + i - 1]
            BY <2>2, <3>1
        <3> QED BY <3>1, <3>2
    <2> QED BY <2>2, <2>3, <2>4
<1> HIDE DEF t
<1>5. \A i, j \in 1 .. m + 1 : s[i] = s[j] => i = j
    BY <1>1 DEF NoDup
<1>6. NoDup(t)
    BY <1>4, <1>5 DEF NoDup
<1>7. Rng(t) = {s[i] : i \in 1 .. m}
    BY <1>4 DEF Rng
<1>8. Rng(s) = {s[i] : i \in 1 .. m + 1}
    BY <1>1 DEF Rng
<1>9. Rng(t) = Rng(s) \ {s[m + 1]}
    BY <1>5, <1>7, <1>8
<1>10. s[m + 1] \in S /\ s[m + 1] \in Rng(s)
    BY <1>3, <1>8
<1> QED BY <1>1, <1>2, <1>4, <1>6, <1>9, <1>10 DEF t

\* What appending the sessions of a RemoteNode does to the free list.
LEMMA ConcatFacts ==
    ASSUME NEW S, NEW s \in Seq(S), NEW t \in Seq(S)
    PROVE  /\ s \o t \in Seq(S)
           /\ Rng(s \o t) = Rng(s) \cup Rng(t)
           /\ NoDup(s) /\ NoDup(t) /\ Rng(s) \cap Rng(t) = {} => NoDup(s \o t)
<1>1. Len(s) \in Nat /\ Len(t) \in Nat
    OBVIOUS
<1> DEFINE c == s \o t
<1>2. /\ c \in Seq(S) /\ Len(c) = Len(s) + Len(t)
      /\ \A i \in 1 .. Len(s) : c[i] = s[i]
      /\ \A i \in 1 .. Len(c) : i > Len(s) => c[i] = t[i - Len(s)] /\ i - Len(s) \in 1 .. Len(t)
    BY <1>1
<1>3. \A i \in 1 .. Len(t) : c[Len(s) + i] = t[i] /\ Len(s) + i \in 1 .. Len(c)
    BY <1>1
<1> HIDE DEF c
<1>4. Rng(s) \subseteq Rng(c) /\ Rng(t) \subseteq Rng(c)
    <2>1. \A i \in 1 .. Len(s) : s[i] = c[i] /\ i \in 1 .. Len(c)
        BY <1>1, <1>2
    <2>2. \A i \in 1 .. Len(t) : t[i] \in Rng(c)
        BY <1>3 DEF Rng
    <2>3. \A i \in 1 .. Len(s) : s[i] \in Rng(c)
        BY <2>1 DEF Rng
    <2> QED BY <2>2, <2>3 DEF Rng
<1>5. Rng(c) \subseteq Rng(s) \cup Rng(t)
    <2> SUFFICES ASSUME NEW i \in 1 .. Len(c) PROVE c[i] \in Rng(s) \cup Rng(t)
        BY DEF Rng
    <2>1. CASE i \in 1 .. Len(s)
        BY <2>1, <1>2 DEF Rng
    <2>2. CASE i > Len(s)
        BY <2>2, <1>2 DEF Rng
    <2> QED BY <2>1, <2>2, <1>1, <1>2
<1>6. ASSUME NoDup(s), NoDup(t), Rng(s) \cap Rng(t) = {} PROVE NoDup(c)
    <2> SUFFICES ASSUME NEW i \in 1 .. Len(c), NEW j \in 1 .. Len(c), c[i] = c[j] PROVE i = j
        BY DEF NoDup
    <2>1. CASE i \in 1 .. Len(s) /\ j \in 1 .. Len(s)
        BY <2>1, <1>2, <1>6 DEF NoDup
    <2>2. CASE i > Len(s) /\ j > Len(s)
        <3>1. t[i - Len(s)] = t[j - Len(s)] /\ i - Len(s) \in 1 .. Len(t) /\ j - Len(s) \in 1 .. Len(t)
            BY <2>2, <1>2
        <3>2. i - Len(s) = j - Len(s)
            BY <3>1, <1>6 DEF NoDup
        <3> QED BY <3>2, <1>1, <1>2
    <2>3. CASE i \in 1 .. Len(s) /\ j > Len(s)
        <3>1. c[i] \in Rng(s) /\ c[j] \in Rng(t)
            BY <2>3, <1>2 DEF Rng
        <3> QED BY <3>1, <1>6
    <2>4. CASE j \in 1 .. Len(s) /\ i > Len(s)
        <3>1. c[j] \in Rng(s) /\ c[i] \in Rng(t)
            BY <2>4, <1>2 DEF Rng
        <3> QED BY <3>1, <1>6
    <2> QED BY <2>1, <2>2, <2>3, <2>4, <1>1, <1>2
<1> QED BY <1>2, <1>4, <1>5, <1>6 DEF c

\* A visit of a finite map lists its keys, each once.
LEMMA OrderFacts ==
    ASSUME NEW S, S \subseteq 1 .. MaxSess, NEW o \in Orders(S)
    PROVE  o \in Seq(1 .. MaxSess) /\ Rng(o) = S /\ NoDup(o)
<1>1. IsFiniteSet(S)
    <2>1. IsFiniteSet(1 .. MaxSess)
        BY FS_Interval, MaxSessAssumption
    <2> QED BY <2>1, FS_Subset
<1>2. Cardinality(S) \in Nat
    BY <1>1, FS_CardinalityType
<1>3. o \in [1 .. Cardinality(S) -> S]
    BY DEF Orders
<1>4. o \in Seq(S) /\ Len(o) = Cardinality(S)
    BY <1>2, <1>3
<1>5. o \in Seq(1 .. MaxSess)
    BY <1>4, SeqMonotonic
<1>6. NoDup(o)
    BY <1>4 DEF Orders, NoDup
<1>7. Rng(o) \subseteq S
    BY <1>3, <1>4 DEF Rng
<1>8. S \subseteq Rng(o)
    BY <1>4 DEF Orders, Rng
<1> QED BY <1>5, <1>6, <1>7, <1>8

\* A nonempty set of local SEIDs has a smallest member.
LEMMA MinExists ==
    ASSUME NEW S, S \subseteq 1 .. MaxSess, S # {}
    PROVE  \E k \in S : \A j \in S : k <= j
<1>1. S \subseteq Nat
    BY MaxSessAssumption
<1>2. PICK s \in S : \A j \in S : <<j, s>> \notin OpToRel(<, Nat)
    BY <1>1, NatLessThanWellFounded, WFMin
<1>3. ASSUME NEW j \in S PROVE s <= j
    <2>1. j \in Nat /\ s \in Nat /\ <<j, s>> \in Nat \X Nat
        BY <1>1
    <2>2. ~ (<<j, s>>[1] < <<j, s>>[2])
        BY <1>2, <2>1 DEF OpToRel
    <2>3. ~ (j < s)
        BY <2>2
    <2> QED BY <2>1, <2>3
<1> QED BY <1>3

\* Forgetting sessions keeps the requests well typed.
LEMMA ForgetType ==
    ASSUME NEW Q \in SUBSET ReportRequest, NEW S PROVE Forget(Q, S) \subseteq ReportRequest
<1> SUFFICES ASSUME NEW q \in Q
             PROVE  [q EXCEPT !.about = IF q.about \in S THEN 0 ELSE q.about] \in ReportRequest
    BY DEF Forget
<1>1. 0 \in 0 .. MaxSess
    BY MaxSessAssumption
<1> QED BY <1>1 DEF ReportRequest

\* So does an association setup.
LEMMA OutdateType ==
    ASSUME NEW Q \in SUBSET ReportRequest, NEW id PROVE Outdate(Q, id) \subseteq ReportRequest
<1> SUFFICES ASSUME NEW q \in Q
             PROVE  [q EXCEPT !.old = q.old \/ q.addr = id] \in ReportRequest
    BY DEF Outdate
<1>1. (q.old \/ q.addr = id) \in BOOLEAN
    OBVIOUS
<1>2. PICK b \in BOOLEAN : b = (q.old \/ q.addr = id)
    BY <1>1
<1>3. [q EXCEPT !.old = b] \in ReportRequest
    BY DEF ReportRequest
<1> QED BY <1>2, <1>3

\* The initial states satisfy the inductive invariant.
LEMMA InitInv == Init => IInv
<1> SUFFICES ASSUME Init PROVE IInv
    OBVIOUS
<1>1. sess = <<>> /\ free = <<>> /\ Len(sess) = 0 /\ Len(free) = 0 /\ Live = {} /\ Seids = {}
    BY DEF Init, Live, Seids
<1>2. TypeOK
    <2>1. sess \in Seq(Session \cup {Nil}) /\ Len(sess) <= MaxSess /\ free \in Seq(1 .. MaxSess)
        BY <1>1, MaxSessAssumption, EmptySeq
    <2>2. node \in [Nodes -> RemoteNode]
        BY DEF Init, RemoteNode
    <2>3. rnodes \in [NodeIDs -> Nodes \cup {None}] /\ reqs \subseteq ReportRequest /\ crashed \in BOOLEAN
          /\ taken \in {"none", "free", "any"}
        BY DEF Init
    <2> QED BY <2>1, <2>2, <2>3 DEF TypeOK
<1>3. FreeListExact /\ OwnershipAgrees /\ RegistryKeyed /\ SessionsNamed /\ SessionsRegistered
    BY <1>1 DEF Init, FreeListExact, OwnershipAgrees, RegistryKeyed, SessionsNamed, SessionsRegistered
<1> QED BY <1>2, <1>3 DEF IInv

-----------------------------------------------------------------------------
\* What the invariant says of the tables, in the form the steps below use.
LEMMA Tables ==
    ASSUME IInv
    PROVE  /\ Len(sess) \in Nat /\ sess \in [Seids -> Session \cup {Nil}]
           /\ Live \subseteq Seids /\ Seids \subseteq 1 .. MaxSess
           /\ \A l \in Live : sess[l] \in Session /\ sess[l].rnode \in Nodes
           /\ \A n \in Nodes : node[n].sess \subseteq Live /\ node[n] \in RemoteNode
           /\ NoDup(free) /\ Rng(free) = Seids \ Live
<1>1. sess \in Seq(Session \cup {Nil}) /\ Len(sess) <= MaxSess
    BY DEF IInv, TypeOK
<1>2. Len(sess) \in Nat /\ sess \in [Seids -> Session \cup {Nil}]
    BY <1>1, LenProperties DEF Seids
<1>3. Live \subseteq Seids /\ Seids \subseteq 1 .. MaxSess
    BY <1>1, <1>2, MaxSessAssumption DEF Live, Seids
<1>4. \A l \in Live : sess[l] \in Session
    BY <1>2 DEF Live
<1>5. \A l \in Live : sess[l].rnode \in Nodes
    BY <1>4 DEF Session
<1>6. \A n \in Nodes : node[n].sess \subseteq Live /\ node[n] \in RemoteNode
    BY DEF IInv, OwnershipAgrees, TypeOK
<1>7. NoDup(free) /\ Rng(free) = Seids \ Live
    BY DEF IInv, FreeListExact, NoDup, Rng
<1> QED BY <1>2, <1>3, <1>4, <1>5, <1>6, <1>7

\* A session that leaves its RemoteNode and its slot keeps the tables exact.
LEMMA DeleteSessInv ==
    ASSUME IInv, NEW l \in Live, DeleteSess(l), UNCHANGED <<rnodes, taken>>,
           reqs' \subseteq ReportRequest, crashed' \in BOOLEAN
    PROVE  IInv'
<1> DEFINE n == sess[l].rnode
<1>1. n \in Nodes /\ l \in node[n].sess /\ l \in Seids
    BY Tables DEF IInv, OwnershipAgrees
<1>2. /\ node' = [node EXCEPT ![n].sess = @ \ {l}]
      /\ sess' = [sess EXCEPT ![l] = Nil]
      /\ free' = Append(free, l)
    BY <1>1 DEF DeleteSess
<1> HIDE DEF n
<1>3. /\ sess' \in Seq(Session \cup {Nil}) /\ Len(sess') = Len(sess)
      /\ \A k \in Seids : sess'[k] = IF k = l THEN Nil ELSE sess[k]
    BY <1>1, <1>2, ExceptSeq DEF IInv, TypeOK, Seids
<1>4. Seids' = Seids /\ Live' = Live \ {l} /\ \A k \in Live' : sess'[k] = sess[k]
    BY <1>3 DEF Seids, Live
<1>5. /\ node' \in [Nodes -> RemoteNode]
      /\ \A m \in Nodes : /\ node'[m].id = node[m].id
                          /\ node'[m].sess = IF m = n THEN node[m].sess \ {l} ELSE node[m].sess
    BY <1>1, <1>2 DEF IInv, TypeOK, RemoteNode
<1>6. /\ free' \in Seq(1 .. MaxSess)
      /\ Rng(free') = Rng(free) \cup {l}
      /\ NoDup(free')
    <2> DEFINE T == 1 .. MaxSess
    <2>1. free \in Seq(T) /\ l \in T /\ NoDup(free) /\ l \notin Rng(free)
        BY <1>1, Tables DEF IInv, TypeOK
    <2> HIDE DEF T
    <2>2. Append(free, l) \in Seq(T) /\ Rng(Append(free, l)) = Rng(free) \cup {l} /\ NoDup(Append(free, l))
        BY <2>1, AppendFacts
    <2> QED BY <1>2, <2>2 DEF T
<1>7. TypeOK'
    BY <1>3, <1>5, <1>6 DEF IInv, TypeOK
<1>8. FreeListExact'
    <2>1. Rng(free') = Seids' \ Live'
        BY <1>1, <1>4, <1>6, Tables
    <2> QED BY <2>1, <1>6 DEF FreeListExact, Rng, NoDup
<1>9. OwnershipAgrees'
    <2> SUFFICES ASSUME NEW m \in Nodes
                 PROVE  node'[m].sess = {k \in Live' : sess'[k].rnode = m}
        BY DEF OwnershipAgrees
    <2>1. node[m].sess = {k \in Live : sess[k].rnode = m}
        BY DEF IInv, OwnershipAgrees
    <2>2. \A k \in Live' : k \in Live /\ k # l /\ sess'[k].rnode = sess[k].rnode
        BY <1>4
    <2>3. CASE m = n
        BY <2>1, <2>2, <2>3, <1>4, <1>5
    <2>4. CASE m # n
        <3>1. l \notin node[m].sess
            BY <2>1, <2>4 DEF n
        <3>2. node'[m].sess = node[m].sess
            BY <2>4, <1>5
        <3>3. \A k \in Live : sess[k].rnode = m => k \in Live'
            BY <2>1, <3>1, <1>4
        <3> QED BY <2>1, <2>2, <3>2, <3>3
    <2> QED BY <2>3, <2>4
<1>10. RegistryKeyed'
    BY <1>5 DEF IInv, RegistryKeyed, TypeOK
<1>11. SessionsNamed'
    BY <1>4, <1>5, Tables DEF IInv, SessionsNamed
<1>12. SessionsRegistered'
    <2> SUFFICES ASSUME taken # "any", NEW k \in Live'
                 PROVE  rnodes[node'[sess'[k].rnode].id] = sess'[k].rnode
        BY DEF SessionsRegistered
    <2>1. PICK m \in Nodes : m = sess[k].rnode
        BY <1>4, Tables
    <2>2. sess'[k].rnode = m /\ node'[m].id = node[m].id
        BY <2>1, <1>4, <1>5
    <2>3. rnodes[node[m].id] = m
        BY <2>1, <1>4 DEF IInv, SessionsRegistered
    <2> QED BY <2>2, <2>3
<1> QED BY <1>7, <1>8, <1>9, <1>10, <1>11, <1>12 DEF IInv, SessionsRegistered

\* A session put into a slot that is empty or new keeps the tables exact.
LEMMA AddSessInv ==
    ASSUME IInv, NEW id \in NodeIDs, NEW r \in RSeids, NEW n \in Nodes, rnodes[id] = n,
           NEW l \in 1 .. MaxSess, l \notin Live,
           sess' \in Seq(Session \cup {Nil}), Len(sess') <= MaxSess,
           Seids' = Seids \cup {l}, sess'[l] = [remote |-> r, rnode |-> n],
           \A k \in Seids \ {l} : sess'[k] = sess[k],
           free' \in Seq(1 .. MaxSess), NoDup(free'), Rng(free') = Rng(free) \ {l},
           node' = [node EXCEPT ![n].sess = @ \cup {l}],
           UNCHANGED <<rnodes, reqs, crashed, taken>>
    PROVE  IInv'
<1>1. sess'[l] \in Session /\ sess'[l].rnode = n
    BY DEF Session
<1>2. sess'[l] # Nil
    BY <1>1, NilAssumption
<1>3. Live' = Live \cup {l} /\ \A k \in Live : sess'[k] = sess[k] /\ k # l
    BY <1>2, Tables DEF Live
<1>4. /\ node' \in [Nodes -> RemoteNode]
      /\ \A m \in Nodes : /\ node'[m].id = node[m].id
                          /\ node'[m].sess = IF m = n THEN node[m].sess \cup {l} ELSE node[m].sess
    <2>1. node \in [Nodes -> RemoteNode]
        BY DEF IInv, TypeOK
    <2>2. [node[n] EXCEPT !.sess = @ \cup {l}] \in RemoteNode
        <3>1. PICK o \in RemoteNode : o = node[n]
            BY <2>1
        <3>2. [o EXCEPT !.sess = @ \cup {l}] \in RemoteNode
            BY <3>1 DEF RemoteNode
        <3> QED BY <3>1, <3>2
    <2>3. node' = [node EXCEPT ![n] = [node[n] EXCEPT !.sess = @ \cup {l}]]
        OBVIOUS
    <2>4. node' \in [Nodes -> RemoteNode]
        BY <2>1, <2>2, <2>3
    <2>5. ASSUME NEW m \in Nodes
          PROVE  /\ node'[m].id = node[m].id
                 /\ node'[m].sess = IF m = n THEN node[m].sess \cup {l} ELSE node[m].sess
        <3>1. CASE m = n
            BY <3>1, <2>1, <2>3 DEF RemoteNode
        <3>2. CASE m # n
            BY <3>2, <2>1, <2>3
        <3> QED BY <3>1, <3>2
    <2> QED BY <2>4, <2>5
<1>5. node[n].id = id
    BY NoneAssumption DEF IInv, RegistryKeyed
<1>6. TypeOK'
    BY <1>4 DEF IInv, TypeOK
<1>7. FreeListExact'
    <2>1. Rng(free') = Seids' \ Live'
        BY <1>3, Tables
    <2> QED BY <2>1 DEF FreeListExact, Rng, NoDup
<1>8. OwnershipAgrees'
    <2> SUFFICES ASSUME NEW m \in Nodes
                 PROVE  node'[m].sess = {k \in Live' : sess'[k].rnode = m}
        BY DEF OwnershipAgrees
    <2>1. node[m].sess = {k \in Live : sess[k].rnode = m}
        BY DEF IInv, OwnershipAgrees
    <2>2. \A k \in Live : sess'[k].rnode = sess[k].rnode
        BY <1>3
    <2>3. CASE m = n
        <3>1. node'[m].sess = node[m].sess \cup {l}
            BY <2>3, <1>4
        <3> QED BY <2>1, <2>2, <2>3, <3>1, <1>1, <1>3
    <2>4. CASE m # n
        <3>1. node'[m].sess = node[m].sess
            BY <2>4, <1>4
        <3> QED BY <2>1, <2>2, <2>4, <3>1, <1>1, <1>3
    <2> QED BY <2>3, <2>4
<1>9. RegistryKeyed'
    BY <1>4 DEF IInv, RegistryKeyed, TypeOK
<1>10. SessionsNamed'
    <2> SUFFICES ASSUME NEW k \in Live' PROVE node'[sess'[k].rnode].id \in NodeIDs
        BY DEF SessionsNamed
    <2>1. CASE k = l
        BY <2>1, <1>1, <1>4, <1>5
    <2>2. CASE k \in Live
        BY <2>2, <1>3, <1>4, Tables DEF IInv, SessionsNamed
    <2> QED BY <2>1, <2>2, <1>3
<1>11. ASSUME taken' # "any" PROVE SessionsRegistered'
    <2> SUFFICES ASSUME NEW k \in Live' PROVE rnodes[node'[sess'[k].rnode].id] = sess'[k].rnode
        BY DEF SessionsRegistered
    <2>1. CASE k = l
        BY <2>1, <1>1, <1>4, <1>5
    <2>2. CASE k \in Live
        BY <2>2, <1>3, <1>4, <1>11, Tables DEF IInv, SessionsRegistered
    <2> QED BY <2>1, <2>2, <1>3
<1> QED BY <1>6, <1>7, <1>8, <1>9, <1>10, <1>11 DEF IInv, SessionsRegistered

\* handleSessionEstablishmentRequest keeps the invariant.
LEMMA EstablishmentInv ==
    ASSUME IInv, NEW id \in NodeIDs, NEW r \in RSeids, SessionEstablishment(id, r)
    PROVE  IInv'
<1> DEFINE n == rnodes[id]
           s == [remote |-> r, rnode |-> n]
           T == 1 .. MaxSess
<1>1. n \in Nodes
    BY DEF IInv, TypeOK, SessionEstablishment
<1>2. s \in Session
    BY <1>1 DEF Session
<1>3. sess \in Seq(Session \cup {Nil}) /\ Len(sess) \in Nat /\ Len(sess) <= MaxSess
    BY Tables DEF IInv, TypeOK
<1>4. free \in Seq(T) /\ NoDup(free) /\ Rng(free) = Seids \ Live
    BY Tables DEF IInv, TypeOK
<1>5. UNCHANGED <<rnodes, reqs, crashed, taken>>
    BY DEF SessionEstablishment
<1>6. ASSUME free # <<>>,
             sess' = [sess EXCEPT ![free[Len(free)]] = s],
             free' = SubSeq(free, 1, Len(free) - 1),
             node' = [node EXCEPT ![n].sess = @ \cup {free[Len(free)]}]
      PROVE  IInv'
    <2> DEFINE l == free[Len(free)]
               f == SubSeq(free, 1, Len(free) - 1)
    <2>1. l \in T /\ l \in Rng(free) /\ f \in Seq(T) /\ NoDup(f) /\ Rng(f) = Rng(free) \ {l}
        <3> HIDE DEF T
        <3> QED BY <1>4, <1>6, PopFacts
    <2>2. l \in Seids /\ l \notin Live
        BY <2>1, <1>4
    <2>3. free' = f /\ sess' = [sess EXCEPT ![l] = s] /\ node' = [node EXCEPT ![n].sess = @ \cup {l}]
        BY <1>6
    <2> HIDE DEF l, f
    <2>4. /\ sess' \in Seq(Session \cup {Nil}) /\ Len(sess') = Len(sess)
          /\ \A k \in Seids : sess'[k] = IF k = l THEN s ELSE sess[k]
        <3> HIDE DEF s
        <3> QED BY <1>2, <1>3, <2>2, <2>3, ExceptSeq DEF Seids
    <2>5. Seids' = Seids \cup {l} /\ sess'[l] = s /\ \A k \in Seids \ {l} : sess'[k] = sess[k]
        BY <2>2, <2>4 DEF Seids
    <2>6. Len(sess') <= MaxSess
        BY <1>3, <2>4
    <2>7. free' \in Seq(T) /\ NoDup(free') /\ Rng(free') = Rng(free) \ {l}
        BY <2>1, <2>3
    <2>8. l \in T /\ node' = [node EXCEPT ![n].sess = @ \cup {l}]
        BY <2>1, <2>3
    <2> QED BY <1>1, <1>5, <2>2, <2>4, <2>5, <2>6, <2>7, <2>8, AddSessInv
<1>7. ASSUME free = <<>>, Len(sess) < MaxSess, sess' = Append(sess, s), UNCHANGED free,
             node' = [node EXCEPT ![n].sess = @ \cup {Len(sess) + 1}]
      PROVE  IInv'
    <2> DEFINE l == Len(sess) + 1
    <2>1. l \in T /\ l \notin Live /\ l \notin Seids
        BY <1>3, <1>7, MaxSessAssumption, Tables DEF Seids
    <2>2. /\ sess' \in Seq(Session \cup {Nil}) /\ Len(sess') = Len(sess) + 1
          /\ sess'[Len(sess) + 1] = s
          /\ \A k \in 1 .. Len(sess) : sess'[k] = sess[k]
        <3> HIDE DEF s
        <3> QED BY <1>2, <1>3, <1>7
    <2>3. Seids' = Seids \cup {l} /\ Len(sess') <= MaxSess
        <3>1. \A k \in Nat : 1 .. (k + 1) = (1 .. k) \cup {k + 1}
            OBVIOUS
        <3>2. Seids' = 1 .. (Len(sess) + 1) /\ Seids = 1 .. Len(sess)
            BY <2>2 DEF Seids
        <3>3. Len(sess) + 1 <= MaxSess
            BY <1>3, <1>7, MaxSessAssumption
        <3> QED BY <1>3, <2>2, <3>1, <3>2, <3>3
    <2>4. sess'[l] = s /\ \A k \in Seids \ {l} : sess'[k] = sess[k]
        BY <2>2 DEF Seids
    <2>5. free' \in Seq(T) /\ NoDup(free') /\ Rng(free') = Rng(free) \ {l}
        BY <1>4, <1>7, <2>1
    <2>6. node' = [node EXCEPT ![n].sess = @ \cup {l}]
        BY <1>7
    <2> HIDE DEF l
    <2> QED BY <1>1, <1>5, <2>1, <2>2, <2>3, <2>4, <2>5, <2>6, AddSessInv
<1> QED BY <1>6, <1>7 DEF SessionEstablishment

\* handleAssociationSetupRequest of an SMF that is not associated.
LEMMA FirstSetupInv ==
    ASSUME IInv, NEW id \in NodeIDs, rnodes[id] = None, NEW n \in Nodes, n \notin Reachable,
           node' = [node EXCEPT ![n] = [id |-> id, addr |-> id, sess |-> {}]],
           rnodes' = [rnodes EXCEPT ![id] = n], reqs' \subseteq ReportRequest,
           UNCHANGED <<sess, free, crashed, taken>>
    PROVE  IInv'
<1>1. node[n].sess = {} /\ \A k \in NodeIDs : rnodes[k] # n
    BY DEF Reachable
<1>2. Seids' = Seids /\ Live' = Live
    BY DEF Live, Seids
<1>3. \A l \in Live : sess[l].rnode \in Nodes /\ sess[l].rnode # n
    BY <1>1, Tables DEF IInv, OwnershipAgrees
<1>4. node' \in [Nodes -> RemoteNode] /\ node'[n].id = id /\ node'[n].sess = {}
    BY DEF IInv, TypeOK, RemoteNode
<1>5. \A m \in Nodes : m # n => node'[m] = node[m]
    BY DEF IInv, TypeOK
<1>6. /\ rnodes' \in [NodeIDs -> Nodes \cup {None}]
      /\ \A k \in NodeIDs : rnodes'[k] = IF k = id THEN n ELSE rnodes[k]
    BY DEF IInv, TypeOK
<1>7. TypeOK'
    BY <1>4, <1>6 DEF IInv, TypeOK
<1>8. FreeListExact'
    BY <1>2 DEF IInv, FreeListExact
<1>9. OwnershipAgrees'
    <2> SUFFICES ASSUME NEW m \in Nodes PROVE node'[m].sess = {k \in Live : sess[k].rnode = m}
        BY <1>2 DEF OwnershipAgrees
    <2>1. CASE m = n
        BY <2>1, <1>3, <1>4
    <2>2. CASE m # n
        BY <2>2, <1>5 DEF IInv, OwnershipAgrees
    <2> QED BY <2>1, <2>2
<1>10. RegistryKeyed'
    <2> SUFFICES ASSUME NEW k \in NodeIDs, rnodes'[k] # None PROVE node'[rnodes'[k]].id = k
        BY DEF RegistryKeyed
    <2>1. CASE k = id
        BY <2>1, <1>4, <1>6
    <2>2. CASE k # id
        <3>1. rnodes'[k] = rnodes[k] /\ rnodes[k] \in Nodes /\ rnodes[k] # n
            BY <2>2, <1>1, <1>6 DEF IInv, TypeOK
        <3> QED BY <3>1, <1>5 DEF IInv, RegistryKeyed
    <2> QED BY <2>1, <2>2
<1>11. SessionsNamed'
    BY <1>2, <1>3, <1>5 DEF IInv, SessionsNamed
<1>12. ASSUME taken' # "any" PROVE SessionsRegistered'
    <2> SUFFICES ASSUME NEW l \in Live PROVE rnodes'[node'[sess[l].rnode].id] = sess[l].rnode
        BY <1>2 DEF SessionsRegistered
    <2>1. node'[sess[l].rnode].id = node[sess[l].rnode].id
        BY <1>3, <1>5
    <2>2. rnodes[node[sess[l].rnode].id] = sess[l].rnode
        BY <1>12 DEF IInv, SessionsRegistered
    <2>3. node[sess[l].rnode].id # id
        BY <1>3, <2>2, NoneAssumption
    <2> QED BY <1>6, <2>1, <2>2, <2>3 DEF IInv, SessionsNamed
<1> QED BY <1>7, <1>8, <1>9, <1>10, <1>11, <1>12 DEF IInv, SessionsRegistered

\* handleAssociationSetupRequest of an SMF that was associated: its sessions go.
LEMMA ResetInv ==
    ASSUME IInv, NEW id \in NodeIDs, NEW n \in Nodes, rnodes[id] = n, Reset(n),
           reqs' \subseteq ReportRequest,
           node' = [node EXCEPT ![n] = [id |-> id, addr |-> id, sess |-> {}]],
           UNCHANGED <<rnodes, crashed, taken>>
    PROVE  IInv'
<1> DEFINE D == node[n].sess
           T == 1 .. MaxSess
<1>1. D \subseteq Live /\ D \subseteq T /\ D = {k \in Live : sess[k].rnode = n}
    BY Tables DEF IInv, OwnershipAgrees
<1>2. sess' = [l \in Seids |-> IF l \in D THEN Nil ELSE sess[l]]
    BY DEF Reset
<1>3. PICK o \in Orders(D) : free' = free \o o
    BY DEF Reset
<1>4. o \in Seq(T) /\ Rng(o) = D /\ NoDup(o)
    BY <1>1, OrderFacts
<1>5. free \in Seq(T) /\ NoDup(free) /\ Rng(free) = Seids \ Live
    BY Tables DEF IInv, TypeOK
<1>6. free' \in Seq(T) /\ Rng(free') = Rng(free) \cup D /\ NoDup(free')
    <2>1. Rng(free) \cap Rng(o) = {}
        BY <1>1, <1>4, <1>5
    <2> HIDE DEF T, D
    <2>2. free \o o \in Seq(T) /\ Rng(free \o o) = Rng(free) \cup Rng(o) /\ NoDup(free \o o)
        BY <1>4, <1>5, <2>1, ConcatFacts
    <2> QED BY <1>3, <1>4, <2>2
<1>7. sess' \in Seq(Session \cup {Nil}) /\ Len(sess') = Len(sess)
    <2>1. sess' \in [1 .. Len(sess) -> Session \cup {Nil}]
        BY <1>2, Tables DEF Seids
    <2>2. Len(sess) \in Nat
        BY Tables
    <2> QED BY <2>1, <2>2
<1>8. Seids' = Seids /\ \A l \in Seids : sess'[l] = IF l \in D THEN Nil ELSE sess[l]
    BY <1>2, <1>7 DEF Seids
<1> HIDE DEF D
<1>9. Live' = Live \ D /\ \A l \in Live' : sess'[l] = sess[l]
    BY <1>8 DEF Live
<1>10. node' \in [Nodes -> RemoteNode] /\ node'[n].id = id /\ node'[n].sess = {}
    BY DEF IInv, TypeOK, RemoteNode
<1>11. \A m \in Nodes : m # n => node'[m] = node[m]
    BY DEF IInv, TypeOK
<1>12. \A l \in Live' : l \in Live /\ sess[l].rnode \in Nodes /\ sess[l].rnode # n
    BY <1>1, <1>9, Tables
<1>13. TypeOK'
    BY <1>6, <1>7, <1>10 DEF IInv, TypeOK
<1>14. FreeListExact'
    <2>1. Rng(free') = Seids' \ Live'
        BY <1>1, <1>5, <1>6, <1>8, <1>9, Tables
    <2> QED BY <1>6, <2>1 DEF FreeListExact, Rng, NoDup
<1>15. OwnershipAgrees'
    <2> SUFFICES ASSUME NEW m \in Nodes PROVE node'[m].sess = {k \in Live' : sess'[k].rnode = m}
        BY DEF OwnershipAgrees
    <2>1. CASE m = n
        BY <2>1, <1>9, <1>10, <1>12
    <2>2. CASE m # n
        <3>1. node'[m].sess = {k \in Live : sess[k].rnode = m}
            BY <2>2, <1>11 DEF IInv, OwnershipAgrees
        <3>2. \A k \in Live : sess[k].rnode = m => k \in Live'
            BY <2>2, <1>1, <1>9
        <3> QED BY <3>1, <3>2, <1>9, <1>12
    <2> QED BY <2>1, <2>2
<1>16. RegistryKeyed'
    <2> SUFFICES ASSUME NEW k \in NodeIDs, rnodes[k] # None PROVE node'[rnodes[k]].id = k
        BY DEF RegistryKeyed
    <2>1. rnodes[k] \in Nodes /\ node[rnodes[k]].id = k
        BY DEF IInv, RegistryKeyed, TypeOK
    <2>2. node[n].id = id
        BY NoneAssumption DEF IInv, RegistryKeyed
    <2> QED BY <2>1, <2>2, <1>10, <1>11
<1>17. SessionsNamed'
    BY <1>9, <1>11, <1>12 DEF IInv, SessionsNamed
<1>18. ASSUME taken' # "any" PROVE SessionsRegistered'
    BY <1>9, <1>11, <1>12, <1>18 DEF IInv, SessionsRegistered
<1> QED BY <1>13, <1>14, <1>15, <1>16, <1>17, <1>18 DEF IInv, SessionsRegistered

\* handleAssociationSetupRequest keeps the invariant.
LEMMA SetupInv ==
    ASSUME IInv, NEW id \in NodeIDs, AssociationSetup(id)
    PROVE  IInv'
<1>0. reqs' \subseteq ReportRequest
    <2>1. reqs \subseteq ReportRequest
        BY DEF IInv, TypeOK
    <2>2. PICK D : reqs' = Outdate(Forget(reqs, D), id)
        BY DEF AssociationSetup
    <2>3. Forget(reqs, D) \in SUBSET ReportRequest
        BY <2>1, ForgetType
    <2> QED BY <2>2, <2>3, OutdateType
<1>1. CASE rnodes[id] = None
    <2>1. NewNode \in Nodes /\ NewNode \notin Reachable
        BY <1>1 DEF AssociationSetup, NewNode
    <2> QED BY <1>0, <1>1, <2>1, FirstSetupInv DEF AssociationSetup
<1>2. CASE rnodes[id] # None
    <2>1. rnodes[id] \in Nodes
        BY <1>2 DEF IInv, TypeOK
    <2>2. /\ Reset(rnodes[id])
          /\ node' = [node EXCEPT ![rnodes[id]] = [id |-> id, addr |-> id, sess |-> {}]]
          /\ rnodes' = [rnodes EXCEPT ![id] = rnodes[id]]
          /\ UNCHANGED <<crashed, taken>>
        BY <1>2 DEF AssociationSetup
    <2>3. rnodes' = rnodes
        BY <2>2 DEF IInv, TypeOK
    <2> QED BY <1>0, <2>1, <2>2, <2>3, ResetInv
<1> QED BY <1>1, <1>2

\* UpdateNodeID keeps the invariant.
LEMMA TakeoverInv ==
    ASSUME IInv, NEW id \in NodeIDs, NEW l \in Live, SessionTakeover(l, id)
    PROVE  IInv'
<1> DEFINE n == sess[l].rnode
           old == node[n].id
<1>1. n \in Nodes /\ old \in NodeIDs
    BY Tables DEF IInv, SessionsNamed
<1>2. /\ node' = [node EXCEPT ![n].id = id]
      /\ rnodes' = [[rnodes EXCEPT ![old] = None] EXCEPT ![id] = n]
      /\ UNCHANGED <<sess, free, reqs, crashed>>
      /\ taken' = Taken(id, n)
    BY DEF SessionTakeover
<1>3. Seids' = Seids /\ Live' = Live
    BY <1>2 DEF Live, Seids
<1> HIDE DEF n
<1>4. /\ node' \in [Nodes -> RemoteNode] /\ node'[n].id = id
      /\ \A m \in Nodes : node'[m].sess = node[m].sess
      /\ \A m \in Nodes : m # n => node'[m] = node[m]
    BY <1>1, <1>2 DEF IInv, TypeOK, RemoteNode
<1>5. /\ rnodes' \in [NodeIDs -> Nodes \cup {None}]
      /\ \A k \in NodeIDs : rnodes'[k] = IF k = id THEN n ELSE IF k = old THEN None ELSE rnodes[k]
    BY <1>1, <1>2 DEF IInv, TypeOK
<1>6. TypeOK'
    BY <1>2, <1>4, <1>5 DEF IInv, TypeOK, Taken
<1>7. FreeListExact'
    BY <1>2, <1>3 DEF IInv, FreeListExact
<1>8. OwnershipAgrees'
    BY <1>2, <1>3, <1>4 DEF IInv, OwnershipAgrees
<1>9. RegistryKeyed'
    <2> SUFFICES ASSUME NEW k \in NodeIDs, rnodes'[k] # None PROVE node'[rnodes'[k]].id = k
        BY DEF RegistryKeyed
    <2>1. CASE k = id
        BY <2>1, <1>4, <1>5
    <2>2. CASE k # id
        <3>1. k # old /\ rnodes'[k] = rnodes[k]
            BY <2>2, <1>5
        <3>2. rnodes[k] \in Nodes /\ node[rnodes[k]].id = k
            BY <3>1 DEF IInv, TypeOK, RegistryKeyed
        <3>3. rnodes[k] # n
            BY <3>1, <3>2
        <3> QED BY <3>1, <3>2, <3>3, <1>4
    <2> QED BY <2>1, <2>2
<1>10. SessionsNamed'
    <2> SUFFICES ASSUME NEW k \in Live PROVE node'[sess[k].rnode].id \in NodeIDs
        BY <1>2, <1>3 DEF SessionsNamed
    <2>1. sess[k].rnode \in Nodes
        BY Tables
    <2> QED BY <2>1, <1>4 DEF IInv, SessionsNamed
<1>11. ASSUME taken' # "any" PROVE SessionsRegistered'
    <2> SUFFICES ASSUME NEW k \in Live PROVE rnodes'[node'[sess[k].rnode].id] = sess[k].rnode
        BY <1>2, <1>3 DEF SessionsRegistered
    <2>1. sess[k].rnode \in Nodes
        BY Tables
    <2>2. CASE sess[k].rnode = n
        BY <2>2, <1>4, <1>5
    <2>3. CASE sess[k].rnode # n
        <3>1. node'[sess[k].rnode].id = node[sess[k].rnode].id
            BY <2>1, <2>3, <1>4
        <3>2. rnodes[id] \in {None, n} /\ taken # "any"
            BY <1>2, <1>11 DEF Taken
        <3>3. node[sess[k].rnode].id \in NodeIDs /\ rnodes[node[sess[k].rnode].id] = sess[k].rnode
            BY <3>2 DEF IInv, SessionsNamed, SessionsRegistered
        <3>4. rnodes[old] = n
            BY <3>2 DEF IInv, SessionsRegistered, n
        <3>5. node[sess[k].rnode].id # old /\ node[sess[k].rnode].id # id
            BY <2>1, <2>3, <3>3, <3>4, <3>2, NoneAssumption
        <3> QED BY <3>1, <3>3, <3>5, <1>5
    <2> QED BY <2>2, <2>3
<1> QED BY <1>6, <1>7, <1>8, <1>9, <1>10, <1>11 DEF IInv, SessionsRegistered

\* A step that changes only the outstanding reports, or stops the server.
LEMMA TablesUnchangedInv ==
    ASSUME IInv, UNCHANGED <<sess, free, node, rnodes, taken>>,
           reqs' \subseteq ReportRequest, crashed' \in BOOLEAN
    PROVE  IInv'
<1>1. Seids' = Seids /\ Live' = Live
    BY DEF Live, Seids
<1>2. TypeOK' /\ FreeListExact' /\ OwnershipAgrees'
    BY <1>1 DEF IInv, TypeOK, FreeListExact, OwnershipAgrees
<1>3. RegistryKeyed' /\ SessionsNamed' /\ SessionsRegistered'
    BY <1>1 DEF IInv, RegistryKeyed, SessionsNamed, SessionsRegistered
<1> QED BY <1>2, <1>3 DEF IInv

\* Every step keeps the invariant.
LEMMA NextInv == IInv /\ [Next]_vars => IInv'
<1> SUFFICES ASSUME IInv, [Next]_vars PROVE IInv'
    OBVIOUS
<1>1. reqs \subseteq ReportRequest /\ crashed \in BOOLEAN
    BY DEF IInv, TypeOK
<1>2. ASSUME NEW id \in NodeIDs, AssociationSetup(id) PROVE IInv'
    BY <1>2, SetupInv
<1>3. ASSUME NEW id \in NodeIDs, NEW r \in RSeids, SessionEstablishment(id, r) PROVE IInv'
    BY <1>3, EstablishmentInv
<1>4. ASSUME NEW id \in NodeIDs, NEW l \in Live, SessionTakeover(l, id) PROVE IInv'
    BY <1>4, TakeoverInv
<1>5. ASSUME NEW l \in Live, SessionDeletion(l) PROVE IInv'
    <2>1. reqs' \subseteq ReportRequest
        BY <1>1, <1>5, ForgetType DEF SessionDeletion
    <2> QED BY <1>1, <1>5, <2>1, DeleteSessInv DEF SessionDeletion
<1>6. ASSUME NEW l \in Live, ServeReport(l) PROVE IInv'
    <2>1. sess[l].remote \in RSeids /\ sess[l].rnode \in Nodes /\ l \in 0 .. MaxSess
        BY Tables DEF Session
    <2>2. node[sess[l].rnode].id \in NodeIDs
        BY DEF IInv, SessionsNamed
    <2>3. [rseid |-> sess[l].remote, addr |-> node[sess[l].rnode].id, about |-> l,
                   old |-> FALSE] \in ReportRequest
        BY <2>1, <2>2 DEF ReportRequest
    <2>4. reqs' \subseteq ReportRequest
        BY <1>1, <1>6, <2>3 DEF ServeReport
    <2> QED BY <1>1, <1>6, <2>4, TablesUnchangedInv DEF ServeReport
<1>7. ASSUME NEW q \in reqs, ReportDone(q) PROVE IInv'
    <2>1. reqs' \subseteq ReportRequest
        BY <1>1, <1>7 DEF ReportDone, Rest
    <2> QED BY <1>1, <1>7, <2>1, TablesUnchangedInv DEF ReportDone
<1>8. ASSUME NEW q \in reqs, ReportRejected(q) PROVE IInv'
    <2> DEFINE ends == RemoteSessEnds(q.rseid, q.addr)
               l == First(ends)
    <2>1. CASE ends = {} /\ reqs' \in Rest(q) /\ UNCHANGED <<sess, free, node, crashed>>
        <3>1. reqs' \subseteq ReportRequest
            BY <1>1, <2>1 DEF Rest
        <3> QED BY <1>1, <1>8, <2>1, <3>1, TablesUnchangedInv DEF ReportRejected
    <2>2. CASE crashed' = TRUE /\ UNCHANGED <<sess, free, node, reqs>>
        BY <1>1, <1>8, <2>2, TablesUnchangedInv DEF ReportRejected
    <2>3. ASSUME ends # {}, sess[l] # Nil, DeleteSess(l), UNCHANGED crashed,
                 \E rest \in Rest(q) : reqs' = Forget(rest, {l})
          PROVE  IInv'
        <3>1. l \in ends
            <4>1. ends \subseteq 1 .. MaxSess
                BY Tables DEF RemoteSessEnds
            <4>2. \E k \in ends : \A j \in ends : k <= j
                BY <2>3, <4>1, MinExists
            <4> HIDE DEF ends
            <4> QED BY <4>2 DEF First
        <3>2. l \in Live
            BY <2>3, <3>1 DEF RemoteSessEnds, Live
        <3>3. reqs' \subseteq ReportRequest
            <4>1. PICK rest \in Rest(q) : reqs' = Forget(rest, {l})
                BY <2>3
            <4>2. rest \subseteq ReportRequest
                BY <1>1 DEF Rest
            <4> QED BY <4>1, <4>2, ForgetType
        <3>4. UNCHANGED <<rnodes, taken>>
            BY <1>8 DEF ReportRejected
        <3> HIDE DEF l
        <3> QED BY <1>1, <2>3, <3>2, <3>3, <3>4, DeleteSessInv
    <2> QED BY <1>8, <2>1, <2>2, <2>3 DEF ReportRejected
<1>9. CASE UNCHANGED vars
    BY <1>1, <1>9, TablesUnchangedInv DEF vars
<1> QED BY <1>2, <1>3, <1>4, <1>5, <1>6, <1>7, <1>8, <1>9 DEF Next

\* The inductive invariant holds in every reachable state.
LEMMA InvHolds == Spec => []IInv
BY InitInv, NextInv, PTL DEF Spec

-----------------------------------------------------------------------------
(* The reports under way, before the first takeover.                       *)

Addr(l) == node[sess[l].rnode].addr

\* The address of a RemoteNode is the one of its Node ID, an SMF's SEID names one
\* session of that SMF, and so does a report.
SeidsApart ==
    taken = "none" =>
        /\ \A n \in Nodes : node[n].addr = node[n].id
        /\ \A l, k \in Live : sess[l].remote = sess[k].remote /\ Addr(l) = Addr(k) => l = k
        /\ \A q \in reqs, l \in Live : ~q.old /\ sess[l].remote = q.rseid /\ Addr(l) = q.addr => q.about = l

\* A step that establishes no session and reports on none keeps them apart.
LEMMA FewerApart ==
    ASSUME SeidsApart, taken' = taken,
           taken = "none" => \A n \in Nodes : node'[n].addr = node'[n].id,
           \A l \in Live' : l \in Live /\ sess'[l] = sess[l] /\ Addr(l)' = Addr(l),
           \A q \in reqs' : \E p \in reqs : /\ q.rseid = p.rseid /\ q.addr = p.addr /\ (p.old => q.old)
                                            /\ q.about = p.about \/ p.about \notin Live'
    PROVE  SeidsApart'
<1> SUFFICES ASSUME taken = "none" PROVE
        /\ \A n \in Nodes : node'[n].addr = node'[n].id
        /\ \A l, k \in Live' : sess'[l].remote = sess'[k].remote /\ Addr(l)' = Addr(k)' => l = k
        /\ \A q \in reqs', l \in Live' : ~q.old /\ sess'[l].remote = q.rseid /\ Addr(l)' = q.addr => q.about = l
    BY DEF SeidsApart
<1>1. ASSUME NEW l \in Live', NEW k \in Live', sess'[l].remote = sess'[k].remote, Addr(l)' = Addr(k)'
      PROVE  l = k
    BY <1>1 DEF SeidsApart
<1>2. ASSUME NEW q \in reqs', NEW l \in Live', ~q.old,
             sess'[l].remote = q.rseid, Addr(l)' = q.addr
      PROVE  q.about = l
    <2>1. PICK p \in reqs : /\ q.rseid = p.rseid /\ q.addr = p.addr /\ (p.old => q.old)
                            /\ q.about = p.about \/ p.about \notin Live'
        OBVIOUS
    <2>2. p.about = l
        BY <1>2, <2>1 DEF SeidsApart
    <2> QED BY <2>1, <2>2
<1> QED BY <1>1, <1>2

\* What remains of the requests when sessions are gone.
LEMMA ForgetFrom ==
    ASSUME NEW Q \in SUBSET ReportRequest, NEW S, NEW q \in Forget(Q, S)
    PROVE  \E p \in Q : /\ q.rseid = p.rseid /\ q.addr = p.addr /\ (p.old => q.old)
                        /\ q.about = p.about \/ p.about \in S
<1>1. PICK p \in Q : q = [p EXCEPT !.about = IF p.about \in S THEN 0 ELSE p.about]
    BY DEF Forget
<1>2. q.rseid = p.rseid /\ q.addr = p.addr /\ (p.old => q.old) /\ q.about = IF p.about \in S THEN 0 ELSE p.about
    BY <1>1 DEF ReportRequest
<1> QED BY <1>2

\* What remains of the requests when an SMF has set up its association.
LEMMA OutdateFrom ==
    ASSUME NEW Q \in SUBSET ReportRequest, NEW id, NEW q \in Outdate(Q, id)
    PROVE  \E p \in Q : q.rseid = p.rseid /\ q.addr = p.addr /\ (p.old => q.old) /\ q.about = p.about
<1>1. PICK p \in Q : q = [p EXCEPT !.old = p.old \/ p.addr = id]
    BY DEF Outdate
<1>2. q.rseid = p.rseid /\ q.addr = p.addr /\ q.about = p.about
    BY <1>1 DEF ReportRequest
<1>3. q.old = (p.old \/ p.addr = id)
    BY <1>1 DEF ReportRequest
<1>4. p.old => q.old
    BY <1>3
<1> QED BY <1>2, <1>4

\* Deleting a session keeps them apart.
LEMMA DeleteApart ==
    ASSUME IInv, SeidsApart, NEW l \in Live, DeleteSess(l), UNCHANGED taken,
           NEW Q \in SUBSET reqs, reqs' = Forget(Q, {l})
    PROVE  SeidsApart'
<1> DEFINE n == sess[l].rnode
<1>1. n \in Nodes /\ l \in node[n].sess /\ l \in Seids
    BY Tables DEF IInv, OwnershipAgrees
<1>2. node' = [node EXCEPT ![n].sess = @ \ {l}] /\ sess' = [sess EXCEPT ![l] = Nil]
    BY <1>1 DEF DeleteSess
<1> HIDE DEF n
<1>3. \A m \in Nodes : node'[m].addr = node[m].addr /\ node'[m].id = node[m].id
    BY <1>1, <1>2 DEF IInv, TypeOK, RemoteNode
<1>4. Live' = Live \ {l} /\ \A k \in Live' : sess'[k] = sess[k]
    <2>1. Len(sess') = Len(sess) /\ \A k \in Seids : sess'[k] = IF k = l THEN Nil ELSE sess[k]
        BY <1>1, <1>2, ExceptSeq DEF IInv, TypeOK, Seids
    <2> QED BY <2>1 DEF Seids, Live
<1>5. \A k \in Live' : Addr(k)' = Addr(k)
    BY <1>3, <1>4, Tables DEF Addr
<1>6. \A q \in reqs' : \E p \in reqs : /\ q.rseid = p.rseid /\ q.addr = p.addr /\ (p.old => q.old)
                                       /\ q.about = p.about \/ p.about \notin Live'
    <2> SUFFICES ASSUME NEW q \in reqs'
                 PROVE  \E p \in reqs : /\ q.rseid = p.rseid /\ q.addr = p.addr /\ (p.old => q.old)
                                        /\ q.about = p.about \/ p.about \notin Live'
        OBVIOUS
    <2>1. Q \subseteq ReportRequest
        BY DEF IInv, TypeOK
    <2>2. PICK p \in Q : q.rseid = p.rseid /\ q.addr = p.addr /\ (p.old => q.old) /\ (q.about = p.about \/ p.about \in {l})
        BY <2>1, ForgetFrom
    <2> QED BY <2>2, <1>4
<1>7. taken = "none" => \A m \in Nodes : node'[m].addr = node'[m].id
    BY <1>3 DEF SeidsApart
<1> QED BY <1>4, <1>5, <1>6, <1>7, FewerApart

\* handleAssociationSetupRequest keeps them apart.
LEMMA SetupApart ==
    ASSUME IInv, IInv', SeidsApart, NEW id \in NodeIDs, AssociationSetup(id)
    PROVE  SeidsApart'
<1> DEFINE n == IF rnodes[id] # None THEN rnodes[id] ELSE NewNode
<1>1. n \in Nodes
    BY DEF AssociationSetup, NewNode, IInv, TypeOK
<1>2. node' = [node EXCEPT ![n] = [id |-> id, addr |-> id, sess |-> {}]] /\ taken' = taken
    BY DEF AssociationSetup
<1>5. \A q \in reqs' : \E p \in reqs : /\ q.rseid = p.rseid /\ q.addr = p.addr /\ (p.old => q.old)
                                       /\ q.about = p.about \/ p.about \in node[n].sess
    <2> HIDE DEF n
    <2> SUFFICES ASSUME NEW q \in reqs'
                 PROVE  \E p \in reqs : /\ q.rseid = p.rseid /\ q.addr = p.addr /\ (p.old => q.old)
                                        /\ q.about = p.about \/ p.about \in node[n].sess
        OBVIOUS
    <2>1. reqs \subseteq ReportRequest /\ reqs' = Outdate(Forget(reqs, node[n].sess), id)
        BY DEF IInv, TypeOK, AssociationSetup, n
    <2>2. Forget(reqs, node[n].sess) \subseteq ReportRequest
        BY <2>1, ForgetType
    <2>3. PICK o \in Forget(reqs, node[n].sess) :
                  q.rseid = o.rseid /\ q.addr = o.addr /\ (o.old => q.old) /\ q.about = o.about
        BY <2>1, <2>2, OutdateFrom
    <2>4. PICK p \in reqs : /\ o.rseid = p.rseid /\ o.addr = p.addr /\ (p.old => o.old)
                            /\ o.about = p.about \/ p.about \in node[n].sess
        BY <2>1, ForgetFrom
    <2> QED BY <2>3, <2>4
<1>3. CASE rnodes[id] # None
    <2>1. Reset(n)
        BY <1>3 DEF AssociationSetup
    <2> HIDE DEF n
    <2>2. node'[n].sess = {} /\ \A m \in Nodes : m # n => node'[m] = node[m]
        BY <1>1, <1>2 DEF IInv, TypeOK
    <2>3. node'[n].id = id /\ node'[n].addr = id
        BY <1>1, <1>2 DEF IInv, TypeOK
    <2>4. node[n].sess \subseteq Seids /\ Len(sess) \in Nat
        BY <1>1, Tables
    <2>5. Live' = Live \ node[n].sess /\ \A l \in Live' : sess'[l] = sess[l]
        <3>1. sess' = [l \in Seids |-> IF l \in node[n].sess THEN Nil ELSE sess[l]]
            BY <2>1 DEF Reset
        <3>2. Len(sess') = Len(sess)
            BY <3>1, <2>4 DEF Seids
        <3>3. Seids' = Seids
            BY <3>2 DEF Seids
        <3>4. \A l \in Seids : sess'[l] = IF l \in node[n].sess THEN Nil ELSE sess[l]
            BY <3>1
        <3> QED BY <3>3, <3>4 DEF Live
    <2>6. \A l \in Live' : sess[l].rnode \in Nodes /\ sess[l].rnode # n
        BY <1>1, <2>5, Tables DEF IInv, OwnershipAgrees
    <2>7. \A l \in Live' : Addr(l)' = Addr(l)
        BY <2>2, <2>5, <2>6 DEF Addr
    <2>8. \A q \in reqs' : \E p \in reqs : /\ q.rseid = p.rseid /\ q.addr = p.addr /\ (p.old => q.old)
                                           /\ q.about = p.about \/ p.about \notin Live'
        BY <2>5, <1>5
    <2>9. taken = "none" => \A m \in Nodes : node'[m].addr = node'[m].id
        BY <2>2, <2>3 DEF SeidsApart
    <2> QED BY <1>2, <2>5, <2>7, <2>8, <2>9, FewerApart
<1>4. CASE rnodes[id] = None
    <2>1. UNCHANGED sess /\ n \notin Reachable
        BY <1>4 DEF AssociationSetup, NewNode
    <2> HIDE DEF n
    <2>2. node'[n].id = id /\ node'[n].addr = id /\ \A m \in Nodes : m # n => node'[m] = node[m]
        BY <1>1, <1>2 DEF IInv, TypeOK
    <2>3. Live' = Live
        BY <2>1 DEF Live, Seids
    <2>4. \A l \in Live' : sess[l].rnode \in Nodes /\ sess[l].rnode # n
        BY <1>1, <2>1, <2>3, Tables DEF IInv, OwnershipAgrees, Reachable
    <2>5. \A l \in Live' : Addr(l)' = Addr(l)
        BY <2>1, <2>2, <2>4 DEF Addr
    <2>6. taken = "none" => \A m \in Nodes : node'[m].addr = node'[m].id
        BY <2>2 DEF SeidsApart
    <2>7. node[n].sess = {}
        BY <1>1, <2>1 DEF Reachable
    <2>8. \A q \in reqs' : \E p \in reqs : /\ q.rseid = p.rseid /\ q.addr = p.addr /\ (p.old => q.old)
                                           /\ q.about = p.about \/ p.about \notin Live'
        BY <1>5, <2>7
    <2> QED BY <1>2, <2>1, <2>3, <2>5, <2>6, <2>8, FewerApart
<1> QED BY <1>3, <1>4

\* The new session of an establishment has a SEID of its own.
LEMMA EstablishmentApart ==
    ASSUME IInv, SeidsApart, NEW id \in NodeIDs, NEW r \in RSeids, SessionEstablishment(id, r)
    PROVE  SeidsApart'
<1> SUFFICES ASSUME taken = "none" PROVE
        /\ \A m \in Nodes : node'[m].addr = node'[m].id
        /\ \A l, k \in Live' : sess'[l].remote = sess'[k].remote /\ Addr(l)' = Addr(k)' => l = k
        /\ \A q \in reqs, l \in Live' : ~q.old /\ sess'[l].remote = q.rseid /\ Addr(l)' = q.addr => q.about = l
    BY DEF SeidsApart, SessionEstablishment
<1> DEFINE n == rnodes[id]
           s == [remote |-> r, rnode |-> n]
<1>1. n \in Nodes /\ node[n].id = id
    BY DEF SessionEstablishment, IInv, TypeOK, RegistryKeyed
<1>2. node[n].addr = id
    BY <1>1 DEF SeidsApart
<1>3. PICK l : /\ l \notin Live /\ Live' \subseteq Live \cup {l} /\ sess'[l] = s
               /\ \A k \in Live : sess'[k] = sess[k]
               /\ node' = [node EXCEPT ![n].sess = @ \cup {l}]
    <2>1. CASE free # <<>>
        <3> DEFINE x == free[Len(free)]
        <3>1. sess' = [sess EXCEPT ![x] = s] /\ node' = [node EXCEPT ![n].sess = @ \cup {x}]
            BY <2>1 DEF SessionEstablishment
        <3>2. x \in Seids \ Live
            <4>1. free \in Seq(1 .. MaxSess)
                BY DEF IInv, TypeOK
            <4>2. x \in Rng(free)
                BY <2>1, <4>1, PopFacts, Tables
            <4> QED BY <4>2, Tables
        <3> HIDE DEF x, s
        <3>3. Len(sess') = Len(sess) /\ \A k \in Seids : sess'[k] = IF k = x THEN s ELSE sess[k]
            <4>1. s \in Session \cup {Nil}
                BY <1>1 DEF s, Session
            <4> QED BY <3>1, <3>2, <4>1, ExceptSeq DEF IInv, TypeOK, Seids
        <3> QED BY <3>1, <3>2, <3>3 DEF Live, Seids
    <2>2. CASE free = <<>>
        <3> DEFINE x == Len(sess) + 1
        <3>1. sess' = Append(sess, s) /\ node' = [node EXCEPT ![n].sess = @ \cup {x}]
            BY <2>2 DEF SessionEstablishment
        <3>2. Len(sess') = x /\ sess'[x] = s /\ \A k \in 1 .. Len(sess) : sess'[k] = sess[k]
            <4>1. sess \in Seq(Session \cup {Nil})
                BY DEF IInv, TypeOK
            <4> QED BY <3>1, <4>1
        <3>3. x \notin 1 .. Len(sess) /\ 1 .. x = (1 .. Len(sess)) \cup {x}
            BY Tables
        <3> QED BY <3>1, <3>2, <3>3 DEF Live, Seids
    <2> QED BY <2>1, <2>2
<1> HIDE DEF n
<1>4. \A m \in Nodes : node'[m].addr = node[m].addr /\ node'[m].id = node[m].id
    BY <1>1, <1>3 DEF IInv, TypeOK, RemoteNode
<1>5. sess'[l].remote = r /\ Addr(l)' = id /\ \A k \in Live : Addr(k)' = Addr(k)
    BY <1>1, <1>2, <1>3, <1>4, Tables DEF Addr
<1>6. /\ \A k \in Live : sess[k].remote = r => Addr(k) # id
      /\ \A q \in reqs : q.rseid = r /\ ~q.old => q.addr # id
    BY DEF SessionEstablishment, FreshSeid, Addr
<1>7. \A m \in Nodes : node'[m].addr = node'[m].id
    BY <1>4 DEF SeidsApart
<1>8. ASSUME NEW j \in Live', NEW k \in Live', sess'[j].remote = sess'[k].remote, Addr(j)' = Addr(k)'
      PROVE  j = k
    <2>1. CASE j \in Live /\ k \in Live
        BY <2>1, <1>3, <1>5, <1>8 DEF SeidsApart
    <2>2. CASE j = l /\ k \in Live
        BY <2>2, <1>3, <1>5, <1>6, <1>8
    <2>3. CASE k = l /\ j \in Live
        BY <2>3, <1>3, <1>5, <1>6, <1>8
    <2> QED BY <2>1, <2>2, <2>3, <1>3
<1>9. ASSUME NEW q \in reqs, NEW k \in Live', ~q.old,
             sess'[k].remote = q.rseid, Addr(k)' = q.addr
      PROVE  q.about = k
    <2>1. CASE k = l
        BY <2>1, <1>5, <1>6, <1>9
    <2>2. CASE k \in Live
        BY <2>2, <1>3, <1>5, <1>9 DEF SeidsApart
    <2> QED BY <2>1, <2>2, <1>3
<1> QED BY <1>7, <1>8, <1>9

\* What the loop of RemoteSess finds is a slot where it ends.
LEMMA FirstEnds ==
    ASSUME IInv, NEW r, NEW a, RemoteSessEnds(r, a) # {}
    PROVE  First(RemoteSessEnds(r, a)) \in RemoteSessEnds(r, a)
<1> DEFINE ends == RemoteSessEnds(r, a)
<1>1. ends \subseteq 1 .. MaxSess
    BY Tables DEF RemoteSessEnds
<1>2. \E k \in ends : \A j \in ends : k <= j
    BY <1>1, MinExists
<1> HIDE DEF ends
<1>3. First(ends) \in ends
    BY <1>2 DEF First
<1> QED BY <1>3 DEF ends

\* Every step keeps the sessions and the reports apart.
LEMMA NextApart == IInv /\ IInv' /\ SeidsApart /\ [Next]_vars => SeidsApart'
<1> SUFFICES ASSUME IInv, IInv', SeidsApart, [Next]_vars PROVE SeidsApart'
    OBVIOUS
<1>1. ASSUME NEW id \in NodeIDs, AssociationSetup(id) PROVE SeidsApart'
    BY <1>1, SetupApart
<1>2. ASSUME NEW id \in NodeIDs, NEW r \in RSeids, SessionEstablishment(id, r) PROVE SeidsApart'
    BY <1>2, EstablishmentApart
<1>3. ASSUME NEW id \in NodeIDs, NEW l \in Live, SessionTakeover(l, id) PROVE SeidsApart'
    BY <1>3 DEF SessionTakeover, Taken, SeidsApart
<1>4. ASSUME NEW l \in Live, SessionDeletion(l) PROVE SeidsApart'
    BY <1>4, DeleteApart DEF SessionDeletion
<1>5. ASSUME UNCHANGED <<sess, node, taken>>, reqs' \subseteq reqs PROVE SeidsApart'
    <2>1. Live' = Live /\ \A l \in Live : Addr(l)' = Addr(l)
        BY <1>5 DEF Live, Seids, Addr
    <2> QED BY <1>5, <2>1 DEF SeidsApart
<1>6. ASSUME NEW l \in Live, ServeReport(l) PROVE SeidsApart'
    <2>1. Live' = Live /\ \A k \in Live : Addr(k)' = Addr(k)
        BY <1>6 DEF Live, Seids, Addr, ServeReport
    <2> DEFINE p == [rseid |-> sess[l].remote, addr |-> node[sess[l].rnode].id, about |-> l,
                   old |-> FALSE]
    <2>2. reqs' = reqs \cup {p} /\ UNCHANGED <<sess, node, taken>>
        BY <1>6 DEF ServeReport
    <2>3. p.rseid = sess[l].remote /\ p.about = l /\ ~p.old /\ (taken = "none" => p.addr = Addr(l))
        BY Tables DEF SeidsApart, Addr
    <2> HIDE DEF p
    <2> QED BY <2>1, <2>2, <2>3 DEF SeidsApart
<1>7. ASSUME NEW q \in reqs, ReportDone(q) PROVE SeidsApart'
    BY <1>5, <1>7 DEF ReportDone, Rest
<1>8. ASSUME NEW q \in reqs, ReportRejected(q) PROVE SeidsApart'
    <2> DEFINE ends == RemoteSessEnds(q.rseid, q.addr)
               l == First(ends)
    <2>1. CASE ends = {} /\ reqs' \in Rest(q) /\ UNCHANGED <<sess, free, node, crashed>>
        BY <1>5, <1>8, <2>1 DEF ReportRejected, Rest
    <2>2. CASE crashed' = TRUE /\ UNCHANGED <<sess, free, node, reqs>>
        BY <1>5, <1>8, <2>2 DEF ReportRejected
    <2>3. ASSUME ends # {}, sess[l] # Nil, DeleteSess(l),
                 \E rest \in Rest(q) : reqs' = Forget(rest, {l})
          PROVE  SeidsApart'
        <3>1. l \in Live
            BY <2>3, FirstEnds DEF RemoteSessEnds, Live
        <3>2. PICK rest \in Rest(q) : reqs' = Forget(rest, {l})
            BY <2>3
        <3>3. rest \in SUBSET reqs /\ UNCHANGED taken
            BY <1>8 DEF Rest, ReportRejected
        <3> HIDE DEF l
        <3> QED BY <2>3, <3>1, <3>2, <3>3, DeleteApart
    <2> QED BY <1>8, <2>1, <2>2, <2>3 DEF ReportRejected
<1>9. CASE UNCHANGED vars
    BY <1>5, <1>9 DEF vars
<1> QED BY <1>1, <1>2, <1>3, <1>4, <1>6, <1>7, <1>8, <1>9 DEF Next

\* They are apart in every reachable state.
LEMMA ApartHolds == Spec => []SeidsApart
<1>1. Init => SeidsApart
    BY DEF Init, SeidsApart, Live, Seids
<1> QED BY <1>1, InvHolds, NextApart, PTL DEF Spec

-----------------------------------------------------------------------------
(* The theorems.                                                           *)

\* The session slice, the free list and the registry keep their types.
THEOREM TypeCorrect == Spec => []TypeOK
<1>1. IInv => TypeOK
    BY DEF IInv
<1> QED BY <1>1, InvHolds, PTL

\* NewSess and DeleteSess manage the slots exactly: for any number of SMFs and
\* sessions no local SEID is handed out twice and none is lost.
THEOREM SlotsExact == Spec => []FreeListExact
<1>1. IInv => FreeListExact
    BY DEF IInv
<1> QED BY <1>1, InvHolds, PTL

\* Sessions and RemoteNodes point to each other, and the registry is keyed by
\* the Node ID in the RemoteNode, whatever UpdateNodeID does.
THEOREM OwnershipAndRegistry == Spec => [](OwnershipAgrees /\ RegistryKeyed)
<1>1. IInv => OwnershipAgrees /\ RegistryKeyed
    BY DEF IInv
<1> QED BY <1>1, InvHolds, PTL

\* As long as no session was taken over by an SMF that has an association of its
\* own, every session can be reached from the registry.
THEOREM NoOrphans == Spec => []SessionsRegistered
<1>1. IInv => SessionsRegistered
    BY DEF IInv
<1> QED BY <1>1, InvHolds, PTL

\* Under the same condition handleAssociationSetupRequest leaves no session of
\* the Node ID behind.
THEOREM SetupClears == Spec => SetupClearsSessions
<1>1. ASSUME IInv, IInv', [Next]_vars, NEW id \in NodeIDs, AssociationSetup(id), taken # "any",
             NEW l \in Live'
      PROVE  node'[sess'[l].rnode].id # id
    <2> DEFINE n == rnodes'[id]
    <2>1. n \in Nodes /\ node'[n].sess = {}
        <3>1. CASE rnodes[id] = None
            <4>1. NewNode \in Nodes
                BY <1>1, <3>1 DEF AssociationSetup, NewNode
            <4> QED BY <1>1, <3>1, <4>1 DEF AssociationSetup, IInv, TypeOK
        <3>2. CASE rnodes[id] # None
            BY <1>1, <3>2 DEF AssociationSetup, IInv, TypeOK
        <3> QED BY <3>1, <3>2
    <2>2. sess'[l].rnode # n
        BY <1>1, <2>1 DEF IInv, OwnershipAgrees
    <2>3. rnodes'[node'[sess'[l].rnode].id] = sess'[l].rnode
        BY <1>1 DEF IInv, SessionsRegistered, AssociationSetup
    <2> QED BY <2>2, <2>3
<1>2. IInv /\ IInv' /\ [Next]_vars =>
          [\A id \in NodeIDs : AssociationSetup(id) /\ taken # "any" =>
              \A l \in Live' : node'[sess'[l].rnode].id # id]_vars
    BY <1>1
<1> QED BY <1>2, InvHolds, PTL DEF Spec, SetupClearsSessions

\* A rejected report deletes no session but the one it was sent for, for any
\* number of SMFs, sessions and reports, as long as no session was taken over
\* and the SMF has not set up its association again since the report.
THEOREM LateAnswersSafe == Spec => RejectionHitsOwnSession
<1>1. ASSUME IInv, SeidsApart, NEW q \in reqs, ReportRejected(q), taken = "none",
             ~q.old, NEW l \in Live, l \notin Live'
      PROVE  l = q.about
    <2> DEFINE ends == RemoteSessEnds(q.rseid, q.addr)
               k == First(ends)
    <2>1. ends # {} /\ sess[k] # Nil /\ DeleteSess(k)
        BY <1>1 DEF ReportRejected, Live, Seids
    <2>2. k \in ends
        BY <1>1, <2>1, FirstEnds
    <2>3. k \in Live /\ sess[k].remote = q.rseid /\ Addr(k) = q.addr
        BY <2>1, <2>2 DEF RemoteSessEnds, Live, Addr
    <2> HIDE DEF k
    <2>4. q.about = k
        BY <1>1, <2>3 DEF SeidsApart
    <2>5. l = k
        <3>1. UNCHANGED sess \/ sess' = [sess EXCEPT ![k] = Nil]
            BY <2>1 DEF DeleteSess
        <3>2. CASE UNCHANGED sess
            BY <1>1, <3>2 DEF Live, Seids
        <3>3. CASE sess' = [sess EXCEPT ![k] = Nil]
            <4>1. k \in Seids /\ l \in Seids
                BY <1>1, <2>3 DEF Live
            <4>2. Len(sess') = Len(sess) /\ \A j \in Seids : sess'[j] = IF j = k THEN Nil ELSE sess[j]
                BY <1>1, <3>3, <4>1, ExceptSeq DEF IInv, TypeOK, Seids
            <4> QED BY <1>1, <4>1, <4>2 DEF Live, Seids
        <3> QED BY <3>1, <3>2, <3>3
    <2> QED BY <2>4, <2>5
<1>2. IInv /\ SeidsApart /\ [Next]_vars =>
          [\A q \in reqs : ReportRejected(q) /\ taken = "none" /\ ~q.old =>
              \A l \in Live : l \in Live' \/ l = q.about]_vars
    BY <1>1
<1> QED BY <1>2, InvHolds, ApartHolds, PTL DEF Spec, RejectionHitsOwnSession
=============================================================================
