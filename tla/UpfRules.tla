------------------------------- MODULE UpfRules -------------------------------
(***************************************************************************)
(* The rules of one PFCP session of the UPF: the tables of Sess in         *)
(* NFs/upf/internal/pfcp/node.go and the rules the driver has put into the *)
(* kernel.  A request is a list of create, remove, update and query        *)
(* elements, handled kind by kind in a fixed order                         *)
(* (handleSessionEstablishmentRequest, handleSessionModificationRequest);  *)
(* a deletion, an association reset and a rejected report run Sess.Close.  *)
(* Every element is one driver call, which may fail, and a failure is      *)
(* logged and skipped.  Usage reports returned by the driver are collected *)
(* and go into the response; a reset and a rejected report have none.      *)
(*                                                                         *)
(* FARs, QERs and BARs are treated alike by the code; they are `rules`.    *)
(***************************************************************************)
EXTENDS Naturals, FiniteSets

CONSTANTS
    PdrIds, UrrIds, RuleIds,
    Fails,      \* kinds of driver calls that may fail
    MaxRef,     \* bound on refPdrNum (a uint16)
    MaxReports  \* bound on the reports of one URR in a request

ASSUME FailsAssumption == Fails \subseteq {"create", "remove", "removeURR", "query"}
ASSUME BoundsAssumption == MaxRef \in Nat /\ MaxReports \in Nat

VARIABLES
    req,        \* "none" (no session), "idle", or the request being handled:
                \* "est", "mod", "del", or "drop" for a Close without response
    step,       \* the kind of elements the request has come to
    todo,       \* the ids the loops of Close have still to visit
    pdrs,       \* Sess.PDRIDs: PDR id -> RelatedURRIDs
    urrs,       \* Sess.URRIDs: URR id -> removed, refPdrNum
    rules,      \* Sess.FARIDs, QERIDs and BARIDs
    kernel,     \* the rules in the kernel (gtp5g)
    term,       \* number of reports collected for a URR with trigger TERMR
    other,      \* number of other reports collected for it
    lost,       \* a response left out a report that was collected
    leaked,     \* history: a removal of a PDR or of another rule failed in Close
    stuck,      \* history: the URRs whose last removal failed and left them in
                \* the kernel
    use         \* history, how the SMF has used the session so far: "plain" (it
                \* has created a rule once, URRs before the PDRs that refer to
                \* them, and updated a PDR only to drop URRs), "update" (it has
                \* also added URRs to a PDR) or "any"

vars == <<req, step, todo, pdrs, urrs, rules, kernel, term, other, lost, leaked, stuck, use>>

tables == <<pdrs, urrs, rules>>
reports == <<term, other>>
session == <<req, lost>>
history == <<leaked, stuck, use>>

NoIds == [pdr |-> {}, urr |-> {}, rule |-> {}]
NoReports == [u \in UrrIds |-> 0]
EmptyMap == [x \in {} |-> {}]

\* The function f with f[x] = v, and without the keys S.
Put(f, x, v) == [y \in DOMAIN f \cup {x} |-> IF y = x THEN v ELSE f[y]]
Without(f, S) == [y \in DOMAIN f \ S |-> f[y]]

\* The PDRs that refer to a URR.
Referring(u) == {p \in DOMAIN pdrs : u \in pdrs[p]}

Init ==
    /\ req = "none" /\ step = 0 /\ todo = NoIds
    /\ pdrs = EmptyMap /\ urrs = EmptyMap /\ rules = {}
    /\ kernel = NoIds
    /\ term = NoReports /\ other = NoReports
    /\ lost = FALSE /\ leaked = FALSE /\ stuck = {} /\ use = "plain"

-----------------------------------------------------------------------------
(* Requests.                                                               *)

\* The session is allocated, and the elements of the request follow.
Establish ==
    /\ req = "none"
    /\ req' = "est" /\ step' = 1 /\ use' = "plain"
    /\ UNCHANGED <<todo, tables, kernel, reports, lost, leaked, stuck>>

Modify ==
    /\ req = "idle"
    /\ req' = "mod" /\ step' = 1
    /\ UNCHANGED <<todo, tables, kernel, reports, lost, history>>

\* An element of the k-th kind: the request is not past that kind.  An
\* establishment only has the three kinds that create.
At(k) ==
    /\ req = "mod" \/ (req = "est" /\ k <= 3)
    /\ step <= k
    /\ step' = k
    /\ UNCHANGED <<session, todo>>

\* The kernel after a driver call that creates or removes ids of a kind: when
\* the call fails its effect is unknown.
Kernel(kind, ids) == [kernel EXCEPT ![kind] = ids]
MayFail(op, kind, ids) ==
    \/ kernel' = Kernel(kind, ids)
    \/ op \in Fails /\ kernel' = kernel

\* Mutant: a rule is entered only when the driver has accepted it.
CreateRule_AfterDriver(r) ==
    /\ At(1)
    /\ \/ rules' = rules \cup {r} /\ kernel' = Kernel("rule", kernel.rule \cup {r})
       \/ "create" \in Fails /\ UNCHANGED rules /\ MayFail("create", "rule", kernel.rule \cup {r})
    /\ UNCHANGED <<pdrs, urrs, reports, history>>

\* CreateFAR, CreateQER, CreateBAR.
CreateRule(r) ==
    /\ At(1)
    /\ rules' = rules \cup {r}
    /\ MayFail("create", "rule", kernel.rule \cup {r})
    /\ UNCHANGED <<pdrs, urrs, reports, history>>

\* CreateURR: the entry is replaced when there is one, also the marked one of
\* a URR that is still in the kernel.
CreateURR(u) ==
    /\ At(2)
    /\ use' = IF (u \in DOMAIN urrs => urrs[u].removed) /\ Referring(u) = {} THEN use ELSE "any"
    /\ urrs' = Put(urrs, u, [removed |-> FALSE, ref |-> 0])
    /\ MayFail("create", "urr", kernel.urr \cup {u})
    /\ stuck' = stuck \ {u}
    /\ UNCHANGED <<pdrs, rules, reports, leaked>>

\* CreatePDR with the URRs U.
CreatePDR(p, U) ==
    /\ At(3)
    /\ use' = IF p \notin DOMAIN pdrs /\ U \subseteq DOMAIN urrs THEN use ELSE "any"
    /\ \A u \in U \cap DOMAIN urrs : urrs[u].ref < MaxRef
    /\ urrs' = [u \in DOMAIN urrs |-> IF u \in U THEN [urrs[u] EXCEPT !.ref = @ + 1] ELSE urrs[u]]
    /\ pdrs' = Put(pdrs, p, U)
    /\ MayFail("create", "pdr", kernel.pdr \cup {p})
    /\ UNCHANGED <<rules, reports, leaked, stuck>>

\* Sess.Close runs.
Closing == req \in {"del", "drop"}

\* An element of the k-th kind that removes x, or the visit of x by Close: the
\* loops over FARs and QERs come first, those over URRs and PDRs follow.
Removing(k, kind, x) ==
    \/ At(k) /\ req = "mod"
    \/ /\ Closing
       /\ x \in todo[kind]
       /\ kind = "urr" => todo.rule = {}
       /\ kind = "pdr" => todo.rule = {} /\ todo.urr = {}
       /\ todo' = [todo EXCEPT ![kind] = @ \ {x}]
       /\ UNCHANGED <<session, step>>

\* A removal fails: the kernel does not have x, or the call fails and its
\* effect is unknown.
RemovalFails(op, kind, x) ==
    /\ x \notin kernel[kind] \/ op \in Fails
    /\ kernel' \in {kernel, Kernel(kind, kernel[kind] \ {x})}
    /\ leaked' = (leaked \/ (Closing /\ x \in kernel[kind]))

\* RemoveFAR, RemoveQER, RemoveBAR.
RemoveRule(r) ==
    /\ Removing(4, "rule", r)
    /\ r \in rules
    /\ \/ /\ r \in kernel.rule
          /\ kernel' = Kernel("rule", kernel.rule \ {r})
          /\ rules' = rules \ {r}
          /\ UNCHANGED leaked
       \/ RemovalFails("remove", "rule", r) /\ UNCHANGED rules
    /\ UNCHANGED <<pdrs, urrs, reports, stuck, use>>

\* Mutant: the URR is deleted from the table at once.
RemoveURR_DeletedNow(u) ==
    /\ Removing(5, "urr", u)
    /\ u \in DOMAIN urrs
    /\ urrs' = Without(urrs, {u})
    /\ \/ /\ u \in kernel.urr
          /\ kernel' = Kernel("urr", kernel.urr \ {u})
          /\ term' \in {term, [term EXCEPT ![u] = @ + 1]}
          /\ stuck' = stuck \ {u}
       \/ /\ u \notin kernel.urr \/ "removeURR" \in Fails
          /\ kernel' \in {kernel, Kernel("urr", kernel.urr \ {u})}
          /\ stuck' = IF u \in kernel'.urr THEN stuck \cup {u} ELSE stuck
          /\ UNCHANGED term
    /\ UNCHANGED <<pdrs, rules, other, leaked, use>>

\* RemoveURR: the entry is marked before the driver is called, and stays until
\* a report of the URR is in a response, whether or not the call succeeds.
\* The kernel may return a last report.
RemoveURR(u) ==
    /\ Removing(5, "urr", u)
    /\ u \in DOMAIN urrs
    /\ urrs' = [urrs EXCEPT ![u].removed = TRUE]
    /\ \/ /\ u \in kernel.urr
          /\ kernel' = Kernel("urr", kernel.urr \ {u})
          /\ term' \in {term, [term EXCEPT ![u] = @ + 1]}
          /\ stuck' = stuck \ {u}
       \/ /\ u \notin kernel.urr \/ "removeURR" \in Fails
          /\ kernel' \in {kernel, Kernel("urr", kernel.urr \ {u})}
          /\ stuck' = IF u \in kernel'.urr THEN stuck \cup {u} ELSE stuck
          /\ UNCHANGED term
    /\ UNCHANGED <<pdrs, rules, other, leaked, use>>

\* Mutant: every PDR a URR loses asks for a report, not only the last one.
diassociateURR_Always(U) ==
    LET known == U \cap DOMAIN urrs
        last == {u \in known : urrs[u].ref >= 1 /\ u \in kernel.urr} IN
    /\ urrs' = [u \in DOMAIN urrs |->
                   IF u \in U /\ urrs[u].ref > 0 THEN [urrs[u] EXCEPT !.ref = @ - 1] ELSE urrs[u]]
    /\ \E S \in SUBSET last :
          /\ S = last \/ "query" \in Fails
          /\ term' = [u \in UrrIds |-> IF u \in S THEN term[u] + 1 ELSE term[u]]

\* diassociateURR for the URRs U: the URRs no PDR is counted for any more are
\* queried a last time.
diassociateURR(U) ==
    LET known == U \cap DOMAIN urrs
        last == {u \in known : urrs[u].ref = 1 /\ u \in kernel.urr} IN
    /\ urrs' = [u \in DOMAIN urrs |->
                   IF u \in U /\ urrs[u].ref > 0 THEN [urrs[u] EXCEPT !.ref = @ - 1] ELSE urrs[u]]
    /\ \E S \in SUBSET last :
          /\ S = last \/ "query" \in Fails
          /\ term' = [u \in UrrIds |-> IF u \in S THEN term[u] + 1 ELSE term[u]]

\* RemovePDR.
RemovePDR(p) ==
    /\ Removing(6, "pdr", p)
    /\ p \in DOMAIN pdrs
    /\ \/ /\ p \in kernel.pdr
          /\ kernel' = Kernel("pdr", kernel.pdr \ {p})
          /\ diassociateURR(pdrs[p])
          /\ pdrs' = Without(pdrs, {p})
          /\ UNCHANGED leaked
       \/ RemovalFails("remove", "pdr", p) /\ UNCHANGED <<pdrs, urrs, term>>
    /\ UNCHANGED <<rules, other, stuck, use>>

\* UpdateURR and QueryURR: the kernel may return a report.
ReportURR(k, u) ==
    /\ At(k) /\ req = "mod"
    /\ u \in DOMAIN urrs
    /\ u \in kernel.urr /\ other[u] < MaxReports
    /\ other' = [other EXCEPT ![u] = @ + 1]
    /\ UNCHANGED <<tables, kernel, term, history>>

UpdateURR(u) == ReportURR(8, u)
QueryURR(u) == ReportURR(10, u)

\* Mutant: the URRs that are dropped are not looked at.
UpdatePDR_NotDissociated(p, U) ==
    /\ At(9) /\ req = "mod"
    /\ p \in DOMAIN pdrs
    /\ use' = IF use = "plain" /\ ~(U \subseteq pdrs[p]) THEN "update" ELSE use
    /\ p \in kernel.pdr
    /\ pdrs' = Put(pdrs, p, U)
    /\ UNCHANGED <<urrs, rules, kernel, reports, leaked, stuck>>

\* UpdatePDR with the URRs U, when the driver accepts it.
UpdatePDR(p, U) ==
    /\ At(9) /\ req = "mod"
    /\ p \in DOMAIN pdrs
    /\ use' = IF use = "plain" /\ ~(U \subseteq pdrs[p]) THEN "update" ELSE use
    /\ p \in kernel.pdr
    /\ diassociateURR(pdrs[p] \ U)
    /\ pdrs' = Put(pdrs, p, U)
    /\ UNCHANGED <<rules, kernel, other, leaked, stuck>>

\* Which reports go into a response: those of URRs in the table, and of a
\* removed URR the first one, which takes the entry with it.  A URR the driver
\* failed to remove may have more of them.
Reported(u) == term[u] + other[u] > 0
Dropped ==
    \E u \in UrrIds \ stuck :
        \/ Reported(u) /\ u \notin DOMAIN urrs
        \/ u \in DOMAIN urrs /\ urrs[u].removed /\ term[u] + other[u] > 1

\* The response to an establishment or a modification.
Respond ==
    /\ req \in {"est", "mod"}
    /\ req' = "idle" /\ step' = 0
    /\ lost' = (lost \/ Dropped)
    /\ urrs' = Without(urrs, {u \in DOMAIN urrs : urrs[u].removed /\ Reported(u)})
    /\ term' = NoReports /\ other' = NoReports
    /\ UNCHANGED <<todo, pdrs, rules, kernel, history>>

\* Sess.Close visits every rule the session knows.
Close ==
    /\ req = "idle"
    /\ todo' = [pdr |-> DOMAIN pdrs, urr |-> DOMAIN urrs, rule |-> rules]
    /\ UNCHANGED <<step, tables, kernel, reports, lost, history>>

\* A deletion request.
Delete == Close /\ req' = "del"

\* RemoteNode.Reset, and an answer of the SMF that it has no such session: what
\* Close returns is thrown away.
Drop == Close /\ req' = "drop"

\* The session is gone.
Gone ==
    /\ todo = NoIds
    /\ req' = "none"
    /\ pdrs' = EmptyMap /\ urrs' = EmptyMap /\ rules' = {}
    /\ term' = NoReports /\ other' = NoReports
    /\ UNCHANGED <<step, todo, kernel, history>>

\* Close returns, and the response to the deletion is sent.
Deleted == req = "del" /\ Gone /\ lost' = (lost \/ Dropped)

Discarded == req = "drop" /\ Gone /\ UNCHANGED lost

Next ==
    \/ Establish \/ Modify \/ Respond \/ Delete \/ Drop \/ Deleted \/ Discarded
    \/ \E r \in RuleIds : CreateRule(r) \/ RemoveRule(r)
    \/ \E u \in UrrIds : CreateURR(u) \/ RemoveURR(u) \/ UpdateURR(u) \/ QueryURR(u)
    \/ \E p \in PdrIds : \/ RemovePDR(p)
                         \/ \E U \in SUBSET UrrIds : CreatePDR(p, U) \/ UpdatePDR(p, U)

Spec == Init /\ [][Next]_vars

-----------------------------------------------------------------------------
(* Properties.                                                             *)

Ids == [pdr : SUBSET PdrIds, urr : SUBSET UrrIds, rule : SUBSET RuleIds]

\* The tables keep their types; refPdrNum never becomes negative.
TypeOK ==
    /\ req \in {"none", "idle", "est", "mod", "del", "drop"} /\ step \in 0 .. 10
    /\ todo \in Ids /\ kernel \in Ids
    /\ DOMAIN pdrs \subseteq PdrIds /\ \A p \in DOMAIN pdrs : pdrs[p] \subseteq UrrIds
    /\ DOMAIN urrs \subseteq UrrIds
    /\ \A u \in DOMAIN urrs : urrs[u] \in [removed : BOOLEAN, ref : 0 .. MaxRef]
    /\ rules \subseteq RuleIds
    /\ term \in [UrrIds -> Nat] /\ other \in [UrrIds -> Nat]
    /\ lost \in BOOLEAN /\ leaked \in BOOLEAN /\ stuck \subseteq UrrIds /\ use \in {"plain", "update", "any"}

\* Every rule in the kernel is in the tables of the session, so that Close
\* removes it, whatever driver calls fail in between.  Two failures break it:
\* a removal of a PDR or of another rule in Close itself, and the removal of a
\* URR at any time, since the mark set before the call lets the next report
\* delete the entry (node.go:411): then the kernel keeps the URR until one
\* with its id is created again, and only that URR.
KernelTracked ==
    /\ TypeOK
    /\ kernel.urr \subseteq DOMAIN urrs \cup stuck
    /\ ~leaked => kernel.pdr \subseteq DOMAIN pdrs /\ kernel.rule \subseteq rules

\* Every usage report collected for a request that is answered is in its
\* response: no entry is deleted before the last report of its URR is written,
\* unless the driver failed to remove the URR.
ReportsSent == ~lost

\* A response never holds two final reports for one URR, also when a request
\* removes the URR and the PDRs that refer to it.
FinalReportOnce == \A u \in UrrIds : term[u] <= 1

\* A URR of the kernel that loses its last PDR in a modification.
Dissociated(u) == req = "mod" /\ u \in kernel.urr /\ Referring(u) # {} /\ Referring(u)' = {}

\* A URR that loses its last PDR, by removals and updates in any order, is
\* queried a last time: its count has not drifted, as long as the SMF adds no
\* URR to an existing PDR and creates nothing twice, and the driver has not
\* failed to remove the URR.
DissociationReported ==
    [][\A u \in UrrIds \ stuck : use = "plain" /\ use' = "plain" /\ Dissociated(u) => term'[u] > term[u]]_vars

\* "indicates usage report being reported for a URR due to dissociated from
\* the last PDR" (node.go:147), also when updates add URRs to a PDR, as the SMF
\* does.
UpdatedDissociationReported ==
    [][\A u \in UrrIds : use' # "any" /\ Dissociated(u) => term'[u] > term[u]]_vars

=============================================================================
