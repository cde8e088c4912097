----------------------------- MODULE UpfSessions -----------------------------
(***************************************************************************)
(* The association and session tables of the UPF's PFCP server             *)
(* (NFs/upf/internal/pfcp/node.go, association.go, session.go, report.go   *)
(* and UpdateNodeID in pfcp.go).                                           *)
(*                                                                         *)
(* LocalNode keeps the sessions in a slice indexed by local SEID, with a   *)
(* free list of the emptied slots.  Each associated SMF is a RemoteNode    *)
(* with the set of its local SEIDs; rnodes maps Node IDs to RemoteNodes,   *)
(* and every session points to the RemoteNode it was established on.  One  *)
(* goroutine runs all handlers.  Duplicates of requests are the business   *)
(* of UpfTransactions; the rules of a session are in UpfRules.             *)
(***************************************************************************)
EXTENDS Naturals, Sequences, FiniteSets

CONSTANTS
    NodeIDs,      \* Node IDs of SMFs; the address of an SMF is <Node ID>:8805
    RSeids,       \* session ids chosen by the SMFs (CP F-SEID)
    Nodes,        \* memory cells of RemoteNode objects
    MaxSess,      \* bound on the length of LocalNode.sess
    MaxReqs,      \* bound on the outstanding Session Report Requests
    Nil,          \* an empty slot
    None          \* no association

Session == [remote : RSeids, rnode : Nodes]

ASSUME NilAssumption == Nil \notin Session
ASSUME NoneAssumption == None \notin Nodes
ASSUME MaxSessAssumption == MaxSess \in Nat

VARIABLES
    sess,         \* LocalNode.sess: local SEID -> session or Nil
    free,         \* LocalNode.free, a stack
    node,         \* the RemoteNode objects: id, addr and set of local SEIDs
    rnodes,       \* PfcpServer.rnodes: Node ID -> RemoteNode
    reqs,         \* outstanding Session Report Requests; `about` is the session
                  \* a request was sent for, 0 once that session is gone, and
                  \* `old` is set when its SMF sets up the association anew
    crashed,      \* the main goroutine panicked
    taken         \* history: what sessions were taken over so far: "none", only
                  \* by Node IDs without association ("free"), or "any"

vars == <<sess, free, node, rnodes, reqs, crashed, taken>>

Seids == 1 .. Len(sess)
Live == {l \in Seids : sess[l] # Nil}

\* The objects the program can still reach; the others are garbage.
Reachable == {n \in Nodes : (\E id \in NodeIDs : rnodes[id] = n) \/ node[n].sess # {}}

\* The orders in which a loop over a Go map may visit the keys S.
Orders(S) == {o \in [1 .. Cardinality(S) -> S] :
                 /\ \A i, j \in 1 .. Cardinality(S) : o[i] = o[j] => i = j
                 /\ \A x \in S : \E i \in 1 .. Cardinality(S) : o[i] = x}

\* The requests Q once the sessions S are gone.
Forget(Q, S) == {[q EXCEPT !.about = IF q.about \in S THEN 0 ELSE q.about] : q \in Q}

\* The requests Q once the SMF id has set up an association.
Outdate(Q, id) == {[q EXCEPT !.old = q.old \/ q.addr = id] : q \in Q}

-----------------------------------------------------------------------------
Init ==
    /\ sess = <<>> /\ free = <<>>
    /\ node = [n \in Nodes |-> [id |-> None, addr |-> None, sess |-> {}]]
    /\ rnodes = [id \in NodeIDs |-> None]
    /\ reqs = {}
    /\ crashed = FALSE /\ taken = "none"

\* RemoteNode.Reset: LocalNode.DeleteSess on every session of n.
Reset(n) ==
    /\ sess' = [l \in Seids |-> IF l \in node[n].sess THEN Nil ELSE sess[l]]
    /\ \E o \in Orders(node[n].sess) : free' = free \o o

\* The object NewNode allocates; which unused cell it gets does not matter.
NewNode == CHOOSE n \in Nodes \ Reachable : TRUE

\* Mutant: the old association is replaced without node.Reset().
AssociationSetup_NoReset(id) ==
    /\ ~crashed
    /\ Nodes \ Reachable # {}
    /\ node' = [node EXCEPT ![NewNode] = [id |-> id, addr |-> id, sess |-> {}]]
    /\ rnodes' = [rnodes EXCEPT ![id] = NewNode]
    /\ UNCHANGED <<sess, free, reqs, crashed, taken>>

\* handleAssociationSetupRequest: the old association of the Node ID and its
\* sessions go, a new RemoteNode takes its place.  The old object is garbage
\* then, and the new one takes its cell.
AssociationSetup(id) ==
    LET n == IF rnodes[id] # None THEN rnodes[id] ELSE NewNode IN
    /\ ~crashed
    /\ \/ rnodes[id] # None /\ Reset(n)
       \/ /\ rnodes[id] = None /\ Nodes \ Reachable # {}
          /\ UNCHANGED <<sess, free>>
    /\ reqs' = Outdate(Forget(reqs, node[n].sess), id)
    /\ node' = [node EXCEPT ![n] = [id |-> id, addr |-> id, sess |-> {}]]
    /\ rnodes' = [rnodes EXCEPT ![id] = n]
    /\ UNCHANGED <<crashed, taken>>

\* The SEID an SMF puts into an establishment request comes from a counter in
\* its memory (AllocateLocalSEID in NFs/smf/internal/context/context.go), and
\* no request is handled twice (UpfRetransWindow): the SEID is none the SMF
\* has used since it last set up its association, which it does whenever it
\* starts.  A restarted SMF begins anew, also with SEIDs that outstanding
\* reports of its earlier sessions name.  After a takeover the SEIDs of two
\* SMFs meet on one RemoteNode, and nothing is assumed of them.
FreshSeid(id, r) ==
    taken = "none" =>
        /\ \A l \in Live : sess[l].remote = r => node[sess[l].rnode].addr # id
        /\ \A q \in reqs : q.rseid = r /\ ~q.old => q.addr # id

\* handleSessionEstablishmentRequest: RemoteNode.NewSess and LocalNode.NewSess
\* take the slot freed last, or append one.  Without association the request
\* is dropped.
SessionEstablishment(id, r) ==
    LET n == rnodes[id]
        s == [remote |-> r, rnode |-> n]
        add(l) == node' = [node EXCEPT ![n].sess = @ \cup {l}] IN
    /\ ~crashed
    /\ n # None
    /\ FreshSeid(id, r)
    /\ \/ /\ free # <<>>
          /\ sess' = [sess EXCEPT ![free[Len(free)]] = s]
          /\ free' = SubSeq(free, 1, Len(free) - 1)
          /\ add(free[Len(free)])
       \/ /\ free = <<>>
          /\ Len(sess) < MaxSess
          /\ sess' = Append(sess, s)
          /\ add(Len(sess) + 1)
          /\ UNCHANGED free
    /\ UNCHANGED <<rnodes, reqs, crashed, taken>>

\* The history after the RemoteNode n got the Node ID id.
Taken(id, n) == IF taken = "any" \/ rnodes[id] \notin {None, n} THEN "any" ELSE "free"

\* handleSessionModificationRequest with a Node ID: UpdateNodeID renames the
\* RemoteNode of the session.
SessionTakeover(l, id) ==
    LET n == sess[l].rnode IN
    /\ ~crashed
    /\ l \in Live
    /\ node' = [node EXCEPT ![n].id = id]
    /\ rnodes' = [[rnodes EXCEPT ![node[n].id] = None] EXCEPT ![id] = n]
    /\ taken' = Taken(id, n)
    /\ UNCHANGED <<sess, free, reqs, crashed>>

\* Mutant: the index of the slot goes to the free list, not the local SEID.
DeleteSess_FreesIndex(l) ==
    LET n == sess[l].rnode IN
    /\ node' = [node EXCEPT ![n].sess = @ \ {l}]
    /\ sess' = [sess EXCEPT ![l] = Nil]
    /\ free' = Append(free, l - 1)

\* Mutant: LocalNode.DeleteSess does not free the slot.
DeleteSess_NotFreed(l) ==
    LET n == sess[l].rnode IN
    /\ node' = [node EXCEPT ![n].sess = @ \ {l}]
    /\ sess' = [sess EXCEPT ![l] = Nil]
    /\ UNCHANGED free

\* Mutant: RemoteNode.DeleteSess keeps the local SEID in its set.
DeleteSess_StillListed(l) ==
    /\ sess' = [sess EXCEPT ![l] = Nil]
    /\ free' = Append(free, l)
    /\ UNCHANGED node

\* RemoteNode.DeleteSess and LocalNode.DeleteSess.
DeleteSess(l) ==
    LET n == sess[l].rnode IN
    IF l \in node[n].sess
      THEN /\ node' = [node EXCEPT ![n].sess = @ \ {l}]
           /\ sess' = [sess EXCEPT ![l] = Nil]
           /\ free' = Append(free, l)
      ELSE UNCHANGED <<node, sess, free>>

\* handleSessionDeletionRequest for a session that exists.
SessionDeletion(l) ==
    /\ ~crashed
    /\ l \in Live
    /\ DeleteSess(l)
    /\ reqs' = Forget(reqs, {l})
    /\ UNCHANGED <<rnodes, crashed, taken>>

\* ServeReport: a Session Report Request to the address formed from the Node
\* ID of the session's RemoteNode, carrying the SMF's SEID.
ServeReport(l) ==
    /\ ~crashed
    /\ l \in Live
    /\ Cardinality(reqs) < MaxReqs
    /\ reqs' = reqs \cup {[rseid |-> sess[l].remote, addr |-> node[sess[l].rnode].id,
                           about |-> l, old |-> FALSE]}
    /\ UNCHANGED <<sess, free, node, rnodes, crashed, taken>>

\* What may be outstanding when the transaction of q has ended: another
\* request like it may be under way.
Rest(q) == {reqs, reqs \ {q}}

\* handleSessionReportResponse with the SEID of a session, or the transaction
\* timed out (handleSessionReportRequestTimeout): nothing else changes.
ReportDone(q) ==
    /\ ~crashed
    /\ reqs' \in Rest(q)
    /\ UNCHANGED <<sess, free, node, rnodes, crashed, taken>>

\* Mutant: RemoteSess compares the SEID only.
RemoteSessEnds_AnyAddress(r, a) == {l \in Seids : sess[l] = Nil \/ sess[l].remote = r}

\* The first slot where the loop of LocalNode.RemoteSess ends: it matches, or
\* it is empty and the loop dereferences nil.
RemoteSessEnds(r, a) ==
    {l \in Seids : sess[l] = Nil \/ (sess[l].remote = r /\ node[sess[l].rnode].addr = a)}
First(S) == CHOOSE l \in S : \A k \in S : l <= k

\* handleSessionReportResponse with SEID 0: the SMF does not know the session.
ReportRejected(q) ==
    LET ends == RemoteSessEnds(q.rseid, q.addr)
        l == First(ends) IN
    /\ ~crashed
    /\ \/ /\ ends = {}
          /\ reqs' \in Rest(q)
          /\ UNCHANGED <<sess, free, node, crashed>>
       \/ /\ ends # {} /\ sess[l] = Nil
          /\ crashed' = TRUE
          /\ UNCHANGED <<sess, free, node, reqs>>
       \/ /\ ends # {} /\ sess[l] # Nil
          /\ DeleteSess(l)
          /\ \E rest \in Rest(q) : reqs' = Forget(rest, {l})
          /\ UNCHANGED crashed
    /\ UNCHANGED <<rnodes, taken>>

Next ==
    \/ \E id \in NodeIDs : \/ AssociationSetup(id)
                           \/ \E r \in RSeids : SessionEstablishment(id, r)
                           \/ \E l \in Live : SessionTakeover(l, id)
    \/ \E l \in Live : SessionDeletion(l) \/ ServeReport(l)
    \/ \E q \in reqs : ReportDone(q) \/ ReportRejected(q)

Spec == Init /\ [][Next]_vars

-----------------------------------------------------------------------------
(* Properties.                                                             *)

RemoteNode == [id : NodeIDs \cup {None}, addr : NodeIDs \cup {None}, sess : SUBSET (1 .. MaxSess)]
ReportRequest == [rseid : RSeids, addr : NodeIDs \cup {None}, about : 0 .. MaxSess, old : BOOLEAN]

\* The tables keep their types: the session slice never holds anything but
\* sessions and nil, the free list only local SEIDs.
TypeOK ==
    /\ sess \in Seq(Session \cup {Nil}) /\ Len(sess) <= MaxSess
    /\ free \in Seq(1 .. MaxSess)
    /\ node \in [Nodes -> RemoteNode]
    /\ rnodes \in [NodeIDs -> Nodes \cup {None}]
    /\ reqs \subseteq ReportRequest
    /\ crashed \in BOOLEAN /\ taken \in {"none", "free", "any"}

\* The free list holds every empty slot of the slice exactly once and no slot
\* of a live session, through any sequence of establishments, deletions and
\* association resets: NewSess never hands a local SEID out twice and never
\* loses one.
FreeListExact ==
    /\ \A i, j \in 1 .. Len(free) : free[i] = free[j] => i = j
    /\ {free[i] : i \in 1 .. Len(free)} = Seids \ Live

\* The two sides of the ownership agree: a RemoteNode lists a local SEID
\* exactly when that slot holds a session that points back to it, so Reset
\* deletes all the sessions of an SMF and none of another's.
OwnershipAgrees ==
    \A n \in Nodes : node[n].sess = {l \in Live : sess[l].rnode = n}

\* rnodes is keyed by the Node ID stored in the RemoteNode, also after
\* UpdateNodeID, so a RemoteNode is registered at most once.
RegistryKeyed == \A id \in NodeIDs : rnodes[id] # None => node[rnodes[id]].id = id

\* Every session belongs to the association registered under its Node ID:
\* none survives on a RemoteNode that a new association setup cannot reach.
\* This ends when an SMF with an association of its own takes a session over:
\* UpdateNodeID drops its RemoteNode from rnodes.
SessionsRegistered ==
    taken # "any" => \A l \in Live : rnodes[node[sess[l].rnode].id] = sess[l].rnode

\* handleAssociationSetupRequest deletes "the existing PFCP association and
\* associated PFCP sessions, if a PFCP association was already established for
\* the Node ID" (comment at association.go:27): afterwards no session of that
\* Node ID is left, under the same condition.
SetupClearsSessions ==
    [][\A id \in NodeIDs : AssociationSetup(id) /\ taken # "any" =>
          \A l \in Live' : node'[sess'[l].rnode].id # id]_vars

\* A late answer does not hit another session: when an SMF says that it does
\* not know the session of a report, the only session that may be deleted is
\* the one that report was sent for, even when slots were reused meanwhile, as
\* long as the SMF has not set up its association again since the report and
\* the SEIDs of different SMFs have not met on one RemoteNode.  (An answer
\* that comes after a restart of the SMF may delete a new session.)
RejectionHitsOwnSession ==
    [][\A q \in reqs : ReportRejected(q) /\ taken = "none" /\ ~q.old =>
          \A l \in Live : l \in Live' \/ l = q.about]_vars

\* "rsp SEID is 0; no this session on remote; delete it on local"
\* (session.go:416): after the answer the session is gone, whatever the SMFs
\* have done short of a takeover.
RejectedSessionDeleted ==
    [][\A q \in reqs : ReportRejected(q) /\ taken = "none" => q.about = 0 \/ q.about \notin Live']_vars

=============================================================================
