---------------------------- MODULE UpfRulesProofs ----------------------------
(***************************************************************************)
(* Proofs about UpfRules, for any number of PDRs, URRs and other rules and *)
(* whatever driver calls fail: the tables of a session hold every rule it  *)
(* has in the kernel but the URRs the driver failed to remove              *)
(* (KernelTracked), no report of another URR is left out of a response     *)
(* (ReportsSent), and no response holds two final reports for a URR        *)
(* (FinalReportOnce); and when queries succeed, a URR that loses its last  *)
(* PDR is queried a last time (DissociationReported).                      *)
(***************************************************************************)
EXTENDS UpfRules, TLAPS, FiniteSetTheorems

USE DEF Closing

-----------------------------------------------------------------------------
(* The inductive invariants.                                               *)

\* Nothing is collected between requests or from creations, and an element of
\* a kind is handled after those of the kinds before it: other reports come
\* from updates and queries, which follow the removals.
Collected ==
    /\ req \in {"none", "idle", "est"} \/ (req = "mod" /\ step <= 4) =>
          \A u \in UrrIds : term[u] = 0
    /\ req \in {"none", "idle", "est", "del", "drop"} \/ step <= 7 => \A u \in UrrIds : other[u] = 0
    /\ req = "est" => step <= 3
    /\ ~Closing => todo = NoIds

\* A URR that has had its final report is out of the kernel, or no PDR is
\* counted for it any more and the removals of URRs are over.
FinalGiven(u) ==
    /\ term[u] <= 1
    /\ term[u] > 0 =>
          /\ u \in DOMAIN urrs
          /\ \/ u \notin kernel.urr
             \/ /\ urrs[u].ref = 0
                /\ req = "mod" => step >= 6
                /\ Closing => todo.urr = {}

FinalInv == TypeOK /\ Collected /\ \A u \in UrrIds : FinalGiven(u)

\* What the tables know of the kernel, and what Close has still to visit.
Tracked ==
    /\ ~leaked => kernel.pdr \subseteq DOMAIN pdrs /\ kernel.rule \subseteq rules
    /\ ~leaked /\ Closing => kernel.pdr \subseteq todo.pdr /\ kernel.rule \subseteq todo.rule
    /\ ~leaked /\ req = "none" => kernel.pdr = {} /\ kernel.rule = {}

\* The kernel has no URR but those in the table that are not marked, and those
\* the driver failed to remove; Close has them to visit.  A report is for a URR
\* in the table; a marked one has one.
URRsTracked(u) ==
    /\ u \in kernel.urr => u \in stuck \/ (u \in DOMAIN urrs /\ ~urrs[u].removed)
    /\ u \in kernel.urr /\ Closing => u \in stuck \/ u \in todo.urr
    /\ req = "none" => u \in stuck \/ u \notin kernel.urr
    /\ other[u] > 0 => u \in DOMAIN urrs
    /\ u \in DOMAIN urrs /\ urrs[u].removed => u \in stuck \/ other[u] = 0

KernelInv == FinalInv /\ Tracked /\ (\A u \in UrrIds : URRsTracked(u)) /\ lost = FALSE

\* As long as the SMF uses the session plainly, refPdrNum counts the PDRs; a
\* new session begins with an empty table.
Counted ==
    /\ IsFiniteSet(DOMAIN pdrs)
    /\ req = "none" => DOMAIN urrs = {}
    /\ use = "plain" => \A u \in DOMAIN urrs : urrs[u].ref = Cardinality(Referring(u))

CountInv == KernelInv /\ Counted

-----------------------------------------------------------------------------
(* Helpers.                                                                *)

\* The kernel after a call on one kind of rules.
LEMMA KernelRule ==
  ASSUME kernel \in Ids, NEW S \in SUBSET RuleIds
  PROVE  /\ Kernel("rule", S) \in Ids /\ Kernel("rule", S).rule = S
         /\ Kernel("rule", S).pdr = kernel.pdr /\ Kernel("rule", S).urr = kernel.urr
  <1> QED BY DEF Kernel, Ids

LEMMA KernelUrr ==
  ASSUME kernel \in Ids, NEW S \in SUBSET UrrIds
  PROVE  /\ Kernel("urr", S) \in Ids /\ Kernel("urr", S).urr = S
         /\ Kernel("urr", S).pdr = kernel.pdr /\ Kernel("urr", S).rule = kernel.rule
  <1> QED BY DEF Kernel, Ids

LEMMA KernelPdr ==
  ASSUME kernel \in Ids, NEW S \in SUBSET PdrIds
  PROVE  /\ Kernel("pdr", S) \in Ids /\ Kernel("pdr", S).pdr = S
         /\ Kernel("pdr", S).urr = kernel.urr /\ Kernel("pdr", S).rule = kernel.rule
  <1> QED BY DEF Kernel, Ids

Entry == [removed : BOOLEAN, ref : 0 .. MaxRef]

\* A call that creates or removes ids S of a kind, and may fail.
LEMMA CreatedURR ==
  ASSUME TypeOK, NEW u \in UrrIds, MayFail("create", "urr", kernel.urr \cup {u})
  PROVE  /\ kernel' \in Ids /\ kernel'.pdr = kernel.pdr /\ kernel'.rule = kernel.rule
         /\ kernel'.urr \subseteq kernel.urr \cup {u}
  <1>1. kernel \in Ids /\ kernel.urr \cup {u} \in SUBSET UrrIds
    BY DEF TypeOK, Ids
  <1>2. kernel' = kernel \/ kernel' = Kernel("urr", kernel.urr \cup {u})
    BY DEF MayFail
  <1> QED BY <1>1, <1>2, KernelUrr

LEMMA CreatedPDR ==
  ASSUME TypeOK, NEW p \in PdrIds, MayFail("create", "pdr", kernel.pdr \cup {p})
  PROVE  /\ kernel' \in Ids /\ kernel'.urr = kernel.urr /\ kernel'.rule = kernel.rule
         /\ kernel'.pdr \subseteq kernel.pdr \cup {p}
  <1>1. kernel \in Ids /\ kernel.pdr \cup {p} \in SUBSET PdrIds
    BY DEF TypeOK, Ids
  <1>2. kernel' = kernel \/ kernel' = Kernel("pdr", kernel.pdr \cup {p})
    BY DEF MayFail
  <1> QED BY <1>1, <1>2, KernelPdr

LEMMA CreatedRule ==
  ASSUME TypeOK, NEW r \in RuleIds, MayFail("create", "rule", kernel.rule \cup {r})
  PROVE  /\ kernel' \in Ids /\ kernel'.urr = kernel.urr /\ kernel'.pdr = kernel.pdr
         /\ kernel'.rule \subseteq kernel.rule \cup {r}
  <1>1. kernel \in Ids /\ kernel.rule \cup {r} \in SUBSET RuleIds
    BY DEF TypeOK, Ids
  <1>2. kernel' = kernel \/ kernel' = Kernel("rule", kernel.rule \cup {r})
    BY DEF MayFail
  <1> QED BY <1>1, <1>2, KernelRule

\* A removal: the kernel without x, or as it was; what stays was not removed.
LEMMA RemovedRule ==
  ASSUME TypeOK, NEW r \in RuleIds,
         \/ r \in kernel.rule /\ kernel' = Kernel("rule", kernel.rule \ {r}) /\ UNCHANGED leaked
         \/ RemovalFails("remove", "rule", r)
  PROVE  /\ kernel' \in Ids /\ kernel'.urr = kernel.urr /\ kernel'.pdr = kernel.pdr
         /\ kernel'.rule \in {kernel.rule, kernel.rule \ {r}}
         /\ leaked' \in BOOLEAN /\ (leaked => leaked')
         /\ (Closing /\ ~leaked' => r \notin kernel'.rule)
  <1>1. kernel \in Ids /\ kernel.rule \ {r} \in SUBSET RuleIds /\ leaked \in BOOLEAN
    BY DEF TypeOK, Ids
  <1>2. kernel' = kernel \/ kernel' = Kernel("rule", kernel.rule \ {r})
    BY DEF RemovalFails
  <1>3. /\ kernel' \in Ids /\ kernel'.urr = kernel.urr /\ kernel'.pdr = kernel.pdr
        /\ kernel'.rule \in {kernel.rule, kernel.rule \ {r}}
    BY <1>1, <1>2, KernelRule
  <1>4. leaked' \in BOOLEAN /\ (leaked => leaked')
    BY <1>1 DEF RemovalFails
  <1>5. Closing /\ ~leaked' => r \notin kernel'.rule
    <2>1. CASE r \in kernel.rule /\ kernel' = Kernel("rule", kernel.rule \ {r})
      BY <2>1, <1>1, KernelRule
    <2>2. CASE RemovalFails("remove", "rule", r)
      BY <2>2, <1>3 DEF RemovalFails
    <2> QED BY <2>1, <2>2
  <1> QED BY <1>3, <1>4, <1>5

LEMMA RemovedPDR ==
  ASSUME TypeOK, NEW p \in PdrIds,
         \/ p \in kernel.pdr /\ kernel' = Kernel("pdr", kernel.pdr \ {p}) /\ UNCHANGED leaked
         \/ RemovalFails("remove", "pdr", p)
  PROVE  /\ kernel' \in Ids /\ kernel'.urr = kernel.urr /\ kernel'.rule = kernel.rule
         /\ kernel'.pdr \in {kernel.pdr, kernel.pdr \ {p}}
         /\ leaked' \in BOOLEAN /\ (leaked => leaked')
         /\ (Closing /\ ~leaked' => p \notin kernel'.pdr)
  <1>1. kernel \in Ids /\ kernel.pdr \ {p} \in SUBSET PdrIds /\ leaked \in BOOLEAN
    BY DEF TypeOK, Ids
  <1>2. kernel' = kernel \/ kernel' = Kernel("pdr", kernel.pdr \ {p})
    BY DEF RemovalFails
  <1>3. /\ kernel' \in Ids /\ kernel'.urr = kernel.urr /\ kernel'.rule = kernel.rule
        /\ kernel'.pdr \in {kernel.pdr, kernel.pdr \ {p}}
    BY <1>1, <1>2, KernelPdr
  <1>4. leaked' \in BOOLEAN /\ (leaked => leaked')
    BY <1>1 DEF RemovalFails
  <1>5. Closing /\ ~leaked' => p \notin kernel'.pdr
    <2>1. CASE p \in kernel.pdr /\ kernel' = Kernel("pdr", kernel.pdr \ {p})
      BY <2>1, <1>1, KernelPdr
    <2>2. CASE RemovalFails("remove", "pdr", p)
      BY <2>2, <1>3 DEF RemovalFails
    <2> QED BY <2>1, <2>2
  <1> QED BY <1>3, <1>4, <1>5

LEMMA RemovedURR ==
  ASSUME TypeOK, NEW u \in UrrIds,
         \/ /\ u \in kernel.urr /\ kernel' = Kernel("urr", kernel.urr \ {u})
            /\ term' \in {term, [term EXCEPT ![u] = term[u] + 1]} /\ stuck' = stuck \ {u}
         \/ /\ kernel' \in {kernel, Kernel("urr", kernel.urr \ {u})}
            /\ stuck' = IF u \in kernel'.urr THEN stuck \cup {u} ELSE stuck
            /\ UNCHANGED term
  PROVE  /\ kernel' \in Ids /\ kernel'.pdr = kernel.pdr /\ kernel'.rule = kernel.rule
         /\ kernel'.urr \in {kernel.urr, kernel.urr \ {u}}
         /\ stuck' \subseteq UrrIds /\ (u \in kernel'.urr => u \in stuck')
         /\ \A v \in UrrIds : v # u => (v \in stuck' <=> v \in stuck)
         /\ term' \in [UrrIds -> Nat]
         /\ \A v \in UrrIds : v # u => term'[v] = term[v]
         /\ term'[u] = term[u] \/ (term'[u] = term[u] + 1 /\ u \in kernel.urr /\ u \notin kernel'.urr)
  <1>1. /\ kernel \in Ids /\ kernel.urr \ {u} \in SUBSET UrrIds /\ stuck \subseteq UrrIds
        /\ term \in [UrrIds -> Nat]
    BY DEF TypeOK, Ids
  <1>2. CASE /\ u \in kernel.urr /\ kernel' = Kernel("urr", kernel.urr \ {u})
             /\ term' \in {term, [term EXCEPT ![u] = term[u] + 1]} /\ stuck' = stuck \ {u}
    <2>1. /\ kernel' \in Ids /\ kernel'.pdr = kernel.pdr /\ kernel'.rule = kernel.rule
          /\ kernel'.urr = kernel.urr \ {u}
      BY <1>1, <1>2, KernelUrr
    <2>2. /\ term' \in [UrrIds -> Nat] /\ \A v \in UrrIds : v # u => term'[v] = term[v]
          /\ term'[u] = term[u] \/ term'[u] = term[u] + 1
      BY <1>1, <1>2
    <2> QED BY <1>1, <1>2, <2>1, <2>2
  <1>3. CASE /\ kernel' \in {kernel, Kernel("urr", kernel.urr \ {u})}
             /\ stuck' = IF u \in kernel'.urr THEN stuck \cup {u} ELSE stuck
             /\ UNCHANGED term
    <2>1. /\ kernel' \in Ids /\ kernel'.pdr = kernel.pdr /\ kernel'.rule = kernel.rule
          /\ kernel'.urr \in {kernel.urr, kernel.urr \ {u}}
      BY <1>1, <1>3, KernelUrr
    <2> QED BY <1>1, <1>3, <2>1
  <1> QED BY <1>2, <1>3

\* An element of the k-th kind in a request.
LEMMA AtKind ==
  ASSUME TypeOK, NEW k \in 1 .. 10, At(k)
  PROVE  /\ req' = req /\ lost' = lost /\ todo' = todo /\ step <= k /\ step' = k
         /\ req = "mod" \/ (req = "est" /\ k <= 3)
  <1> QED BY DEF At, session

\* A removal in a modification, or the visit of an id by Close.
LEMMA RemovingRule ==
  ASSUME TypeOK, NEW r \in RuleIds, Removing(4, "rule", r)
  PROVE  /\ req' = req /\ lost' = lost /\ todo' \in Ids /\ step' \in 0 .. 10
         /\ todo'.urr = todo.urr /\ todo'.pdr = todo.pdr
         /\ \/ req = "mod" /\ step <= 4 /\ step' = 4 /\ todo' = todo
            \/ Closing /\ r \in todo.rule /\ todo'.rule = todo.rule \ {r} /\ step' = step
  <1>1. todo \in Ids /\ step \in 0 .. 10
    BY DEF TypeOK
  <1>2. CASE At(4) /\ req = "mod"
    BY <1>1, <1>2 DEF At, session
  <1>3. CASE /\ Closing /\ r \in todo["rule"]
             /\ todo' = [todo EXCEPT !["rule"] = todo["rule"] \ {r}] /\ UNCHANGED <<session, step>>
    BY <1>1, <1>3 DEF Ids, session
  <1> QED BY <1>2, <1>3 DEF Removing

LEMMA RemovingURR ==
  ASSUME TypeOK, NEW u \in UrrIds, Removing(5, "urr", u)
  PROVE  /\ req' = req /\ lost' = lost /\ todo' \in Ids /\ step' \in 0 .. 10
         /\ todo'.rule = todo.rule /\ todo'.pdr = todo.pdr
         /\ \/ req = "mod" /\ step <= 5 /\ step' = 5 /\ todo' = todo
            \/ Closing /\ u \in todo.urr /\ todo'.urr = todo.urr \ {u} /\ step' = step
  <1>1. todo \in Ids /\ step \in 0 .. 10
    BY DEF TypeOK
  <1>2. CASE At(5) /\ req = "mod"
    BY <1>1, <1>2 DEF At, session
  <1>3. CASE /\ Closing /\ u \in todo["urr"]
             /\ todo' = [todo EXCEPT !["urr"] = todo["urr"] \ {u}] /\ UNCHANGED <<session, step>>
    BY <1>1, <1>3 DEF Ids, session
  <1> QED BY <1>2, <1>3 DEF Removing

LEMMA RemovingPDR ==
  ASSUME TypeOK, NEW p \in PdrIds, Removing(6, "pdr", p)
  PROVE  /\ req' = req /\ lost' = lost /\ todo' \in Ids /\ step' \in 0 .. 10
         /\ todo'.rule = todo.rule /\ todo'.urr = todo.urr
         /\ \/ req = "mod" /\ step <= 6 /\ step' = 6 /\ todo' = todo
            \/ /\ Closing /\ p \in todo.pdr /\ todo'.pdr = todo.pdr \ {p} /\ step' = step
               /\ todo.urr = {}
  <1>1. todo \in Ids /\ step \in 0 .. 10
    BY DEF TypeOK
  <1>2. CASE At(6) /\ req = "mod"
    BY <1>1, <1>2 DEF At, session
  <1>3. CASE /\ Closing /\ p \in todo["pdr"] /\ todo.urr = {}
             /\ todo' = [todo EXCEPT !["pdr"] = todo["pdr"] \ {p}] /\ UNCHANGED <<session, step>>
    BY <1>1, <1>3 DEF Ids, session
  <1> QED BY <1>2, <1>3 DEF Removing

\* diassociateURR: the counts go down, and those that reach zero are queried.
LEMMA Diassociated ==
  ASSUME TypeOK, NEW U \in SUBSET UrrIds, diassociateURR(U)
  PROVE  /\ DOMAIN urrs' = DOMAIN urrs
         /\ \A u \in DOMAIN urrs :
               /\ urrs'[u] \in Entry /\ urrs'[u].removed = urrs[u].removed
               /\ urrs'[u].ref = IF u \in U /\ urrs[u].ref > 0 THEN urrs[u].ref - 1 ELSE urrs[u].ref
         /\ term' \in [UrrIds -> Nat]
         /\ \A u \in UrrIds :
               \/ term'[u] = term[u]
               \/ /\ u \in U /\ u \in DOMAIN urrs /\ urrs[u].ref = 1 /\ u \in kernel.urr
                  /\ term'[u] = term[u] + 1
         /\ "query" \notin Fails =>
               \A u \in UrrIds :
                  u \in U /\ u \in DOMAIN urrs /\ urrs[u].ref = 1 /\ u \in kernel.urr =>
                     term'[u] = term[u] + 1
  <1> DEFINE known == U \cap DOMAIN urrs
             last == {u \in known : urrs[u].ref = 1 /\ u \in kernel.urr}
  <1>1. /\ urrs' = [u \in DOMAIN urrs |->
                   IF u \in U /\ urrs[u].ref > 0 THEN [urrs[u] EXCEPT !.ref = urrs[u].ref - 1] ELSE urrs[u]]
        /\ \E S \in SUBSET last :
              /\ S = last \/ "query" \in Fails
              /\ term' = [u \in UrrIds |-> IF u \in S THEN term[u] + 1 ELSE term[u]]
    BY DEF diassociateURR
  <1>2. DOMAIN urrs' = DOMAIN urrs
    BY <1>1
  <1>3. ASSUME NEW u \in DOMAIN urrs
        PROVE  /\ urrs'[u] \in Entry /\ urrs'[u].removed = urrs[u].removed
               /\ urrs'[u].ref = IF u \in U /\ urrs[u].ref > 0 THEN urrs[u].ref - 1 ELSE urrs[u].ref
    <2>1. urrs[u] \in Entry
      BY DEF TypeOK, Entry
    <2>2. CASE u \in U /\ urrs[u].ref > 0
      <3> DEFINE n == urrs[u].ref - 1
      <3>1. n \in 0 .. MaxRef
        BY <2>1, <2>2, BoundsAssumption DEF Entry
      <3>2. urrs'[u] = [urrs[u] EXCEPT !.ref = n]
        BY <1>1, <2>2
      <3>3. SUFFICES urrs'[u] \in Entry /\ urrs'[u].removed = urrs[u].removed /\ urrs'[u].ref = n
        BY <2>2
      <3> HIDE DEF n
      <3> QED BY <2>1, <3>1, <3>2 DEF Entry
    <2>3. CASE ~(u \in U /\ urrs[u].ref > 0)
      <3>1. urrs'[u] = urrs[u]
        BY <1>1, <2>3
      <3> QED BY <2>1, <2>3, <3>1
    <2> QED BY <2>2, <2>3
  <1>4. PICK S \in SUBSET last :
              /\ S = last \/ "query" \in Fails
              /\ term' = [u \in UrrIds |-> IF u \in S THEN term[u] + 1 ELSE term[u]]
    BY <1>1
  <1>5. \A u \in UrrIds : u \in last <=> u \in U /\ u \in DOMAIN urrs /\ urrs[u].ref = 1 /\ u \in kernel.urr
    OBVIOUS
  <1> HIDE DEF last
  <1>6. term \in [UrrIds -> Nat]
    BY DEF TypeOK
  <1>7. term' \in [UrrIds -> Nat]
    BY <1>4, <1>6
  <1>8. \A u \in UrrIds : term'[u] = IF u \in S THEN term[u] + 1 ELSE term[u]
    BY <1>4
  <1> QED BY <1>2, <1>3, <1>4, <1>5, <1>7, <1>8

-----------------------------------------------------------------------------
(* FinalInv, whatever fails.                                               *)

LEMMA FinalSame ==
  ASSUME TypeOK, TypeOK', NEW u \in UrrIds, FinalGiven(u), term'[u] = term[u],
         u \in DOMAIN urrs => u \in DOMAIN urrs' /\ (urrs[u].ref = 0 => urrs'[u].ref = 0),
         u \in kernel'.urr => u \in kernel.urr,
         req' = req, req = "mod" => step <= step', todo'.urr \subseteq todo.urr
  PROVE  FinalGiven(u)'
  <1>1. step \in Nat /\ step' \in Nat
    BY DEF TypeOK
  <1>2. req = "mod" /\ step >= 6 => step' >= 6
    BY <1>1
  <1> QED BY <1>2 DEF FinalGiven

\* No final report has been given.
LEMMA FinalNone ==
  ASSUME NEW u \in UrrIds, term'[u] = 0 PROVE FinalGiven(u)'
  <1>1. term'[u] <= 1 /\ ~(term'[u] > 0)
    OBVIOUS
  <1> QED BY <1>1 DEF FinalGiven

\* The requests begin and end.
LEMMA RequestFinal ==
  ASSUME FinalInv, Establish \/ Modify \/ Delete \/ Drop \/ Respond \/ Deleted \/ Discarded PROVE FinalInv'
  <1>1. TypeOK /\ Collected
    BY DEF FinalInv
  <1>2. /\ NoReports \in [UrrIds -> Nat] /\ \A u \in UrrIds : NoReports[u] = 0
        /\ NoIds \in Ids /\ DOMAIN EmptyMap = {}
    BY DEF NoReports, NoIds, Ids, EmptyMap
  <1>3. CASE Establish
    <2>1. TypeOK'
      BY <1>1, <1>3 DEF TypeOK, Establish, tables, reports
    <2>2. Collected'
      BY <1>1, <1>3 DEF Collected, Establish, tables, reports
    <2>3. \A u \in UrrIds : term'[u] = 0
      BY <1>1, <1>3 DEF Collected, Establish, reports
    <2> QED BY <2>1, <2>2, <2>3, FinalNone DEF FinalInv
  <1>4. CASE Modify
    <2>1. TypeOK'
      BY <1>1, <1>4 DEF TypeOK, Modify, tables, reports, history
    <2>2. Collected'
      BY <1>1, <1>4 DEF Collected, Modify, tables, reports, history
    <2>3. \A u \in UrrIds : term'[u] = 0
      BY <1>1, <1>4 DEF Collected, Modify, reports
    <2> QED BY <2>1, <2>2, <2>3, FinalNone DEF FinalInv
  <1>5. CASE Delete \/ Drop
    <2>1. todo' \in Ids
      BY <1>1, <1>5 DEF TypeOK, Delete, Drop, Close, Ids
    <2>2. TypeOK'
      BY <1>1, <1>5, <2>1 DEF TypeOK, Delete, Drop, Close, tables, reports, history
    <2>3. Collected'
      BY <1>1, <1>5 DEF Collected, Delete, Drop, Close, tables, reports, history
    <2>4. \A u \in UrrIds : term'[u] = 0
      BY <1>1, <1>5 DEF Collected, Delete, Drop, Close, reports
    <2> QED BY <2>2, <2>3, <2>4, FinalNone DEF FinalInv
  <1>6. CASE Respond
    <2>1. /\ req' = "idle" /\ step' = 0 /\ lost' \in BOOLEAN /\ term' = NoReports /\ other' = NoReports
          /\ UNCHANGED <<todo, pdrs, rules, kernel, leaked, stuck, use>> /\ req \in {"est", "mod"}
      BY <1>6 DEF Respond, history
    <2>2. DOMAIN urrs' \subseteq DOMAIN urrs /\ \A u \in DOMAIN urrs' : urrs'[u] = urrs[u]
      BY <1>6 DEF Respond, Without
    <2>3. TypeOK'
      BY <1>1, <1>2, <2>1, <2>2 DEF TypeOK
    <2>4. Collected'
      BY <1>1, <1>2, <2>1 DEF Collected
    <2>5. \A u \in UrrIds : term'[u] = 0
      BY <1>2, <2>1
    <2> QED BY <2>3, <2>4, <2>5, FinalNone DEF FinalInv
  <1>7. CASE Deleted \/ Discarded
    <2>1. /\ req' = "none" /\ lost' \in BOOLEAN /\ term' = NoReports /\ other' = NoReports
          /\ UNCHANGED <<step, todo, kernel, leaked, stuck, use>> /\ todo = NoIds
          /\ pdrs' = EmptyMap /\ urrs' = EmptyMap /\ rules' = {}
      BY <1>1, <1>7 DEF Deleted, Discarded, Gone, history, TypeOK
    <2>2. TypeOK'
      BY <1>1, <1>2, <2>1 DEF TypeOK
    <2>3. Collected'
      BY <1>1, <1>2, <2>1 DEF Collected
    <2>4. \A u \in UrrIds : term'[u] = 0
      BY <1>2, <2>1
    <2> QED BY <2>2, <2>3, <2>4, FinalNone DEF FinalInv
  <1> QED BY <1>3, <1>4, <1>5, <1>6, <1>7

\* Creations come before anything is reported.
LEMMA CreatedFinal ==
  ASSUME FinalInv, TypeOK', NEW k \in 1 .. 3, At(k), UNCHANGED reports PROVE FinalInv'
  <1>1. TypeOK /\ Collected
    BY DEF FinalInv
  <1>2. /\ req' = req /\ todo' = todo /\ step <= k /\ step' = k /\ req \in {"mod", "est"}
        /\ k \in 1 .. 10
    BY <1>1, AtKind
  <1>3. step \in Nat
    BY <1>1 DEF TypeOK
  <1>4. \A u \in UrrIds : term[u] = 0 /\ other[u] = 0
    <2>1. step <= 4 /\ step <= 7
      BY <1>2, <1>3
    <2> QED BY <1>1, <1>2, <2>1 DEF Collected
  <1>5. \A u \in UrrIds : term'[u] = 0 /\ other'[u] = 0
    BY <1>4 DEF reports
  <1>6. Collected'
    BY <1>1, <1>2, <1>5 DEF Collected
  <1> QED BY <1>5, <1>6, FinalNone DEF FinalInv

LEMMA CreateRuleFinal ==
  ASSUME FinalInv, NEW r \in RuleIds, CreateRule(r) PROVE FinalInv'
  <1>1. TypeOK /\ At(1) /\ UNCHANGED <<pdrs, urrs, leaked, stuck, use>> /\ UNCHANGED reports
    BY DEF FinalInv, CreateRule, history
  <1>2. /\ kernel' \in Ids /\ req' = req /\ lost' = lost /\ todo' = todo /\ step' = 1
    BY <1>1, CreatedRule, AtKind DEF CreateRule
  <1>3. TypeOK'
    BY <1>1, <1>2 DEF TypeOK, CreateRule, reports
  <1> QED BY <1>1, <1>3, CreatedFinal

LEMMA CreateURRFinal ==
  ASSUME FinalInv, NEW u \in UrrIds, CreateURR(u) PROVE FinalInv'
  <1>1. TypeOK /\ At(2) /\ UNCHANGED <<pdrs, rules, leaked>> /\ UNCHANGED reports /\ stuck' = stuck \ {u}
    BY DEF FinalInv, CreateURR
  <1>2. /\ kernel' \in Ids /\ req' = req /\ lost' = lost /\ todo' = todo /\ step' = 2
    BY <1>1, CreatedURR, AtKind DEF CreateURR
  <1>3. [removed |-> FALSE, ref |-> 0] \in [removed : BOOLEAN, ref : 0 .. MaxRef]
    BY BoundsAssumption
  <1>4. /\ DOMAIN urrs' = DOMAIN urrs \cup {u}
        /\ \A v \in DOMAIN urrs' : urrs'[v] = urrs[v] \/ urrs'[v] = [removed |-> FALSE, ref |-> 0]
        /\ \A v \in DOMAIN urrs' : v # u => v \in DOMAIN urrs /\ urrs'[v] = urrs[v]
        /\ urrs'[u] = [removed |-> FALSE, ref |-> 0]
    BY DEF CreateURR, Put
  <1>5. \A v \in DOMAIN urrs' : urrs'[v] \in [removed : BOOLEAN, ref : 0 .. MaxRef]
    BY <1>1, <1>3, <1>4 DEF TypeOK
  <1>6. use' \in {"plain", "update", "any"}
    BY <1>1 DEF CreateURR, TypeOK
  <1>7. TypeOK'
    BY <1>1, <1>2, <1>4, <1>5, <1>6 DEF TypeOK, reports
  <1> QED BY <1>1, <1>7, CreatedFinal

LEMMA CreatePDRFinal ==
  ASSUME FinalInv, NEW p \in PdrIds, NEW U \in SUBSET UrrIds, CreatePDR(p, U) PROVE FinalInv'
  <1>1. TypeOK /\ At(3) /\ UNCHANGED <<rules, leaked, stuck>> /\ UNCHANGED reports
    BY DEF FinalInv, CreatePDR
  <1>2. /\ kernel' \in Ids /\ req' = req /\ lost' = lost /\ todo' = todo /\ step' = 3
    BY <1>1, CreatedPDR, AtKind DEF CreatePDR
  <1>3. /\ DOMAIN pdrs' = DOMAIN pdrs \cup {p}
        /\ \A v \in DOMAIN pdrs' : pdrs'[v] = U \/ (v \in DOMAIN pdrs /\ pdrs'[v] = pdrs[v])
    BY DEF CreatePDR, Put
  <1>4. DOMAIN urrs' = DOMAIN urrs
    BY DEF CreatePDR
  <1>5. ASSUME NEW u \in DOMAIN urrs PROVE urrs'[u] \in [removed : BOOLEAN, ref : 0 .. MaxRef]
    <2>1. urrs[u] \in [removed : BOOLEAN, ref : 0 .. MaxRef]
      BY <1>1 DEF TypeOK
    <2>2. CASE u \in U
      <3> DEFINE n == urrs[u].ref + 1
      <3>1. n \in 0 .. MaxRef
        BY <2>1, <2>2, BoundsAssumption DEF CreatePDR
      <3>2. urrs'[u] = [urrs[u] EXCEPT !.ref = n]
        BY <2>2 DEF CreatePDR
      <3> HIDE DEF n
      <3> QED BY <2>1, <3>1, <3>2
    <2>3. CASE u \notin U
      <3>1. urrs'[u] = urrs[u]
        BY <2>3 DEF CreatePDR
      <3> QED BY <2>1, <3>1
    <2> QED BY <2>2, <2>3
  <1>6. use' \in {"plain", "update", "any"}
    BY <1>1 DEF CreatePDR, TypeOK
  <1>7. TypeOK'
    BY <1>1, <1>2, <1>3, <1>4, <1>5, <1>6 DEF TypeOK, reports
  <1> QED BY <1>1, <1>7, CreatedFinal

\* What a step of a removal, an update or a query leaves of Collected.
LEMMA CollectedKept ==
  ASSUME TypeOK, Collected, TypeOK', req' = req, (req = "mod" \/ Closing), step <= step',
         req = "mod" => todo' = todo,
         req = "mod" => step' >= 5 \/ term' = term,
         Closing \/ step' <= 7 => other' = other
  PROVE  Collected'
  <1>1. step \in Nat /\ step' \in Nat
    BY DEF TypeOK
  <1>2. req = "mod" /\ step' <= 4 => \A u \in UrrIds : term'[u] = 0
    <2>1. step' <= 4 => step <= 4 /\ ~(step' >= 5)
      BY <1>1
    <2> QED BY <2>1 DEF Collected
  <1>3. Closing \/ step' <= 7 => \A u \in UrrIds : other'[u] = 0
    <2>1. step' <= 7 => step <= 7
      BY <1>1
    <2> QED BY <2>1 DEF Collected
  <1> QED BY <1>2, <1>3 DEF Collected

LEMMA RemoveRuleFinal ==
  ASSUME FinalInv, NEW r \in RuleIds, RemoveRule(r) PROVE FinalInv'
  <1>1. /\ TypeOK /\ Collected /\ Removing(4, "rule", r) /\ UNCHANGED <<pdrs, urrs, term, other, stuck, use>>
        /\ rules' \in {rules, rules \ {r}}
    BY DEF FinalInv, RemoveRule, reports
  <1>2. /\ kernel' \in Ids /\ leaked' \in BOOLEAN /\ kernel'.urr = kernel.urr
    BY <1>1, RemovedRule DEF RemoveRule
  <1>3. /\ req' = req /\ lost' = lost /\ todo' \in Ids /\ step' \in 0 .. 10
        /\ todo'.urr = todo.urr
        /\ \/ req = "mod" /\ step <= 4 /\ step' = 4 /\ todo' = todo
           \/ Closing /\ step' = step
    BY <1>1, RemovingRule
  <1>4. TypeOK'
    BY <1>1, <1>2, <1>3 DEF TypeOK
  <1>5. step <= step'
    BY <1>1, <1>3 DEF TypeOK
  <1>6. Collected'
    BY <1>1, <1>3, <1>4, <1>5, CollectedKept
  <1>7. \A u \in UrrIds : FinalGiven(u)'
    <2> TAKE u \in UrrIds
    <2>1. FinalGiven(u)
      BY DEF FinalInv
    <2> QED BY <1>1, <1>2, <1>3, <1>4, <1>5, <2>1, FinalSame
  <1> QED BY <1>4, <1>6, <1>7 DEF FinalInv

LEMMA MarkedURR ==
  ASSUME TypeOK, NEW u \in DOMAIN urrs, urrs' = [urrs EXCEPT ![u].removed = TRUE]
  PROVE  /\ DOMAIN urrs' = DOMAIN urrs
         /\ \A v \in DOMAIN urrs : urrs'[v] \in Entry /\ urrs'[v].ref = urrs[v].ref
         /\ \A v \in DOMAIN urrs : v # u => urrs'[v] = urrs[v]
         /\ urrs'[u].removed
  <1>1. urrs[u] \in Entry /\ \A v \in DOMAIN urrs : urrs[v] \in Entry
    BY DEF TypeOK, Entry
  <1>2. DOMAIN urrs' = DOMAIN urrs
    OBVIOUS
  <1>3. ASSUME NEW b \in BOOLEAN, b = TRUE
        PROVE  [urrs[u] EXCEPT !.removed = b] \in Entry /\ [urrs[u] EXCEPT !.removed = b].ref = urrs[u].ref
               /\ [urrs[u] EXCEPT !.removed = b].removed = b
    BY <1>1 DEF Entry
  <1>4. urrs'[u] = [urrs[u] EXCEPT !.removed = TRUE]
    OBVIOUS
  <1>5. \A v \in DOMAIN urrs : v # u => urrs'[v] = urrs[v]
    OBVIOUS
  <1>6. urrs'[u] \in Entry /\ urrs'[u].ref = urrs[u].ref /\ urrs'[u].removed = TRUE
    BY <1>3, <1>4
  <1> QED BY <1>1, <1>2, <1>5, <1>6

LEMMA RemoveURRFinal ==
  ASSUME FinalInv, NEW u \in UrrIds, RemoveURR(u) PROVE FinalInv'
  <1>1. /\ TypeOK /\ Collected /\ Removing(5, "urr", u) /\ UNCHANGED <<pdrs, rules, other, leaked, use>>
        /\ u \in DOMAIN urrs /\ urrs' = [urrs EXCEPT ![u].removed = TRUE]
    BY DEF FinalInv, RemoveURR
  <1>2. /\ kernel' \in Ids /\ stuck' \subseteq UrrIds /\ kernel'.urr \in {kernel.urr, kernel.urr \ {u}}
        /\ term' \in [UrrIds -> Nat] /\ \A v \in UrrIds : v # u => term'[v] = term[v]
        /\ term'[u] = term[u] \/ (term'[u] = term[u] + 1 /\ u \in kernel.urr /\ u \notin kernel'.urr)
    BY <1>1, RemovedURR DEF RemoveURR
  <1>3. /\ req' = req /\ lost' = lost /\ todo' \in Ids /\ step' \in 0 .. 10
        /\ \/ req = "mod" /\ step <= 5 /\ step' = 5 /\ todo' = todo
           \/ Closing /\ u \in todo.urr /\ todo'.urr = todo.urr \ {u} /\ step' = step
    BY <1>1, RemovingURR
  <1>4. /\ DOMAIN urrs' = DOMAIN urrs
        /\ \A v \in DOMAIN urrs : urrs'[v] \in Entry /\ urrs'[v].ref = urrs[v].ref
    BY <1>1, MarkedURR
  <1>5. TypeOK'
    BY <1>1, <1>2, <1>3, <1>4 DEF TypeOK, Entry
  <1>6. step <= step' /\ step \in Nat
    BY <1>1, <1>3 DEF TypeOK
  <1>7. Collected'
    BY <1>1, <1>3, <1>5, <1>6, CollectedKept
  <1>8. \A v \in UrrIds : FinalGiven(v)'
    <2> TAKE v \in UrrIds
    <2>1. FinalGiven(v)
      BY DEF FinalInv
    <2>2. CASE term'[v] = term[v]
      <3>1. v \in DOMAIN urrs => v \in DOMAIN urrs' /\ (urrs[v].ref = 0 => urrs'[v].ref = 0)
        BY <1>4
      <3>2. v \in kernel'.urr => v \in kernel.urr
        BY <1>2
      <3>3. todo'.urr \subseteq todo.urr
        BY <1>3
      <3> QED BY <1>1, <1>3, <1>5, <1>6, <2>1, <2>2, <3>1, <3>2, <3>3, FinalSame
    <2>3. CASE term'[v] # term[v]
      <3>1. v = u /\ term'[u] = term[u] + 1 /\ u \in kernel.urr /\ u \notin kernel'.urr
        BY <1>2, <2>3
      <3>2. term[u] \in Nat /\ ~(term[u] > 0)
        <4>1. term[u] \in Nat
          BY <1>1 DEF TypeOK
        <4>2. ~(req = "mod" /\ step >= 6) /\ ~(Closing /\ todo.urr = {})
          BY <1>3, <1>6
        <4> QED BY <4>1, <4>2, <2>1, <3>1, <1>3 DEF FinalGiven
      <3>3. term'[u] = 1
        BY <3>1, <3>2
      <3> QED BY <1>1, <1>4, <3>1, <3>3 DEF FinalGiven
    <2> QED BY <2>2, <2>3
  <1> QED BY <1>5, <1>7, <1>8 DEF FinalInv

\* A dissociation: a URR that is queried has not had its final report, since
\* a PDR was counted for it.
LEMMA DiassociatedFinal ==
  ASSUME TypeOK, TypeOK', NEW U \in SUBSET UrrIds, diassociateURR(U), NEW v \in UrrIds, FinalGiven(v),
         kernel'.urr = kernel.urr, req' = req, (req = "mod" \/ Closing), todo'.urr = todo.urr,
         step <= step', req = "mod" => step' >= 6, Closing => todo.urr = {}
  PROVE  FinalGiven(v)'
  <1>1. /\ DOMAIN urrs' = DOMAIN urrs
        /\ \A u \in DOMAIN urrs :
              urrs'[u].ref = IF u \in U /\ urrs[u].ref > 0 THEN urrs[u].ref - 1 ELSE urrs[u].ref
        /\ \/ term'[v] = term[v]
           \/ /\ v \in U /\ v \in DOMAIN urrs /\ urrs[v].ref = 1 /\ v \in kernel.urr
              /\ term'[v] = term[v] + 1
    BY Diassociated
  <1>2. CASE term'[v] = term[v]
    <2>1. v \in DOMAIN urrs => v \in DOMAIN urrs' /\ (urrs[v].ref = 0 => urrs'[v].ref = 0)
      <3> SUFFICES ASSUME v \in DOMAIN urrs, urrs[v].ref = 0 PROVE urrs'[v].ref = 0
        BY <1>1
      <3>1. ~(urrs[v].ref > 0)
        OBVIOUS
      <3> QED BY <1>1, <3>1
    <2> QED BY <1>2, <2>1, FinalSame
  <1>3. CASE term'[v] # term[v]
    <2>1. /\ v \in U /\ v \in DOMAIN urrs /\ urrs[v].ref = 1 /\ v \in kernel.urr
          /\ term'[v] = term[v] + 1
      BY <1>1, <1>3
    <2>2. term[v] \in Nat /\ ~(term[v] > 0)
      BY <2>1 DEF TypeOK, FinalGiven
    <2>3. term'[v] = 1
      BY <2>1, <2>2
    <2>4. urrs'[v].ref = 0
      BY <1>1, <2>1
    <2> QED BY <1>1, <2>1, <2>3, <2>4 DEF FinalGiven
  <1> QED BY <1>2, <1>3

LEMMA RemovePDRFinal ==
  ASSUME FinalInv, NEW p \in PdrIds, RemovePDR(p) PROVE FinalInv'
  <1>1. /\ TypeOK /\ Collected /\ Removing(6, "pdr", p) /\ UNCHANGED <<rules, other, stuck, use>>
        /\ p \in DOMAIN pdrs
    BY DEF FinalInv, RemovePDR
  <1>2. /\ kernel' \in Ids /\ leaked' \in BOOLEAN /\ kernel'.urr = kernel.urr
    BY <1>1, RemovedPDR DEF RemovePDR
  <1>3. /\ req' = req /\ lost' = lost /\ todo' \in Ids /\ step' \in 0 .. 10
        /\ todo'.urr = todo.urr
        /\ \/ req = "mod" /\ step <= 6 /\ step' = 6 /\ todo' = todo
           \/ Closing /\ step' = step /\ todo.urr = {}
    BY <1>1, RemovingPDR
  <1>4. step <= step' /\ step \in Nat
    BY <1>1, <1>3 DEF TypeOK
  <1>5. CASE UNCHANGED <<pdrs, urrs, term>>
    <2>1. TypeOK'
      BY <1>1, <1>2, <1>3, <1>5 DEF TypeOK
    <2>2. Collected'
      BY <1>1, <1>3, <1>4, <1>5, <2>1, CollectedKept
    <2>3. \A u \in UrrIds : FinalGiven(u)'
      <3> TAKE u \in UrrIds
      <3>1. FinalGiven(u)
        BY DEF FinalInv
      <3> QED BY <1>1, <1>2, <1>3, <1>4, <1>5, <2>1, <3>1, FinalSame
    <2> QED BY <2>1, <2>2, <2>3 DEF FinalInv
  <1>6. CASE diassociateURR(pdrs[p]) /\ pdrs' = Without(pdrs, {p})
    <2>1. pdrs[p] \in SUBSET UrrIds
      BY <1>1 DEF TypeOK
    <2>2. /\ DOMAIN urrs' = DOMAIN urrs /\ term' \in [UrrIds -> Nat]
          /\ \A u \in DOMAIN urrs : urrs'[u] \in Entry
      BY <1>1, <1>6, <2>1, Diassociated
    <2>3. DOMAIN pdrs' \subseteq DOMAIN pdrs /\ \A q \in DOMAIN pdrs' : pdrs'[q] = pdrs[q]
      BY <1>6 DEF Without
    <2>4. TypeOK'
      BY <1>1, <1>2, <1>3, <2>2, <2>3 DEF TypeOK, Entry
    <2>5. Collected'
      BY <1>1, <1>3, <1>4, <2>4, CollectedKept
    <2>6. \A u \in UrrIds : FinalGiven(u)'
      <3> TAKE u \in UrrIds
      <3>1. FinalGiven(u)
        BY DEF FinalInv
      <3>2. /\ (req = "mod" \/ Closing) /\ (req = "mod" => step' >= 6) /\ (Closing => todo.urr = {})
        BY <1>3
      <3> QED BY <1>1, <1>2, <1>3, <1>4, <1>6, <2>1, <2>4, <3>1, <3>2, DiassociatedFinal
    <2> QED BY <2>4, <2>5, <2>6 DEF FinalInv
  <1> QED BY <1>5, <1>6 DEF RemovePDR

LEMMA ReportURRFinal ==
  ASSUME FinalInv, NEW u \in UrrIds, NEW k \in {8, 10}, ReportURR(k, u) PROVE FinalInv'
  <1>1. /\ TypeOK /\ Collected /\ At(k) /\ req = "mod" /\ k \in 1 .. 10
        /\ UNCHANGED <<pdrs, urrs, rules, kernel, term, leaked, stuck, use>>
        /\ other' = [other EXCEPT ![u] = other[u] + 1]
    BY DEF FinalInv, ReportURR, tables, history
  <1>2. req' = req /\ lost' = lost /\ todo' = todo /\ step <= k /\ step' = k
    BY <1>1, AtKind
  <1>3. other' \in [UrrIds -> Nat]
    BY <1>1 DEF TypeOK
  <1>4. TypeOK'
    BY <1>1, <1>2, <1>3 DEF TypeOK
  <1>5. ~(step' <= 7) /\ step' >= 5
    BY <1>2
  <1>6. Collected'
    BY <1>1, <1>2, <1>4, <1>5, CollectedKept
  <1>7. \A v \in UrrIds : FinalGiven(v)'
    <2> TAKE v \in UrrIds
    <2>1. FinalGiven(v)
      BY DEF FinalInv
    <2> QED BY <1>1, <1>2, <1>4, <2>1, FinalSame
  <1> QED BY <1>4, <1>6, <1>7 DEF FinalInv

LEMMA UpdatePDRFinal ==
  ASSUME FinalInv, NEW p \in PdrIds, NEW U \in SUBSET UrrIds, UpdatePDR(p, U) PROVE FinalInv'
  <1>1. /\ TypeOK /\ Collected /\ At(9) /\ req = "mod" /\ p \in DOMAIN pdrs
        /\ UNCHANGED <<rules, kernel, other, leaked, stuck>>
        /\ diassociateURR(pdrs[p] \ U) /\ pdrs' = Put(pdrs, p, U)
    BY DEF FinalInv, UpdatePDR
  <1>2. req' = req /\ lost' = lost /\ todo' = todo /\ step <= 9 /\ step' = 9
    BY <1>1, AtKind
  <1>3. pdrs[p] \ U \in SUBSET UrrIds
    BY <1>1 DEF TypeOK
  <1>4. /\ DOMAIN urrs' = DOMAIN urrs /\ term' \in [UrrIds -> Nat]
        /\ \A u \in DOMAIN urrs : urrs'[u] \in Entry
    BY <1>1, <1>3, Diassociated
  <1>5. /\ DOMAIN pdrs' = DOMAIN pdrs \cup {p}
        /\ \A v \in DOMAIN pdrs' : pdrs'[v] = U \/ (v \in DOMAIN pdrs /\ pdrs'[v] = pdrs[v])
    BY <1>1 DEF Put
  <1>6. use' \in {"plain", "update", "any"}
    BY <1>1 DEF UpdatePDR, TypeOK
  <1>7. TypeOK'
    BY <1>1, <1>2, <1>4, <1>5, <1>6 DEF TypeOK, Entry
  <1>8. step <= step' /\ step' >= 5 /\ step' >= 6
    BY <1>2
  <1>9. Collected'
    BY <1>1, <1>2, <1>7, <1>8, CollectedKept
  <1>10. \A u \in UrrIds : FinalGiven(u)'
    <2> TAKE u \in UrrIds
    <2>1. FinalGiven(u)
      BY DEF FinalInv
    <2> QED BY <1>1, <1>2, <1>3, <1>7, <1>8, <2>1, DiassociatedFinal
  <1> QED BY <1>7, <1>9, <1>10 DEF FinalInv

LEMMA FinalInit ==
  ASSUME Init PROVE FinalInv
  <1>1. /\ NoReports \in [UrrIds -> Nat] /\ \A u \in UrrIds : NoReports[u] = 0
        /\ NoIds \in Ids /\ DOMAIN EmptyMap = {}
    BY DEF NoReports, NoIds, Ids, EmptyMap
  <1>2. TypeOK
    <2>1. DOMAIN pdrs = {} /\ DOMAIN urrs = {} /\ todo \in Ids /\ kernel \in Ids
      BY <1>1 DEF Init
    <2>2. term \in [UrrIds -> Nat] /\ other \in [UrrIds -> Nat]
      BY <1>1 DEF Init
    <2>3. /\ req = "none" /\ step = 0 /\ rules = {} /\ lost = FALSE /\ leaked = FALSE /\ stuck = {} /\ use = "plain"
      BY DEF Init
    <2>4. step \in 0 .. 10
      BY <2>3
    <2>5. lost \in BOOLEAN /\ leaked \in BOOLEAN
      BY <2>3
    <2>6. /\ \A p \in DOMAIN pdrs : pdrs[p] \subseteq UrrIds
          /\ \A u \in DOMAIN urrs : urrs[u] \in [removed : BOOLEAN, ref : 0 .. MaxRef]
      BY <2>1
    <2>7. /\ req \in {"none", "idle", "est", "mod", "del", "drop"} /\ use \in {"plain", "update", "any"}
          /\ rules \subseteq RuleIds /\ stuck \subseteq UrrIds /\ DOMAIN pdrs \subseteq PdrIds /\ DOMAIN urrs \subseteq UrrIds
      BY <2>1, <2>3
    <2> QED BY <2>1, <2>2, <2>4, <2>5, <2>6, <2>7 DEF TypeOK
  <1>3. Collected
    BY <1>1 DEF Init, Collected
  <1>4. \A u \in UrrIds : term[u] = 0
    BY <1>1 DEF Init
  <1>5. \A u \in UrrIds : FinalGiven(u)
    BY <1>4 DEF FinalGiven
  <1> QED BY <1>2, <1>3, <1>5 DEF FinalInv

LEMMA FinalNext ==
  ASSUME FinalInv, [Next]_vars PROVE FinalInv'
  <1>1. CASE Establish \/ Modify \/ Respond \/ Delete \/ Drop \/ Deleted \/ Discarded
    BY <1>1, RequestFinal
  <1>2. ASSUME NEW r \in RuleIds, CreateRule(r) \/ RemoveRule(r) PROVE FinalInv'
    BY <1>2, CreateRuleFinal, RemoveRuleFinal
  <1>3. ASSUME NEW u \in UrrIds, CreateURR(u) \/ RemoveURR(u) PROVE FinalInv'
    BY <1>3, CreateURRFinal, RemoveURRFinal
  <1>4. ASSUME NEW u \in UrrIds, UpdateURR(u) \/ QueryURR(u) PROVE FinalInv'
    BY <1>4, ReportURRFinal DEF UpdateURR, QueryURR
  <1>5. ASSUME NEW p \in PdrIds, RemovePDR(p) PROVE FinalInv'
    BY <1>5, RemovePDRFinal
  <1>6. ASSUME NEW p \in PdrIds, NEW U \in SUBSET UrrIds, CreatePDR(p, U) \/ UpdatePDR(p, U) PROVE FinalInv'
    BY <1>6, CreatePDRFinal, UpdatePDRFinal
  <1>7. CASE UNCHANGED vars
    BY <1>7 DEF vars, FinalInv, TypeOK, Collected, FinalGiven
  <1> QED BY <1>1, <1>2, <1>3, <1>4, <1>5, <1>6, <1>7 DEF Next

\* Whatever driver calls fail, no response holds two final reports for a URR:
\* the one of its removal (RemoveURR) and those of the PDRs it loses
\* (diassociateURR) exclude each other.
THEOREM FinalOnce == Spec => []FinalReportOnce
  <1>1. FinalInv => FinalReportOnce
    BY DEF FinalInv, FinalGiven, FinalReportOnce
  <1> QED BY <1>1, FinalInit, FinalNext, PTL DEF Spec

-----------------------------------------------------------------------------
(* KernelInv, whatever fails.                                              *)

\* Every report collected is for a URR in the table, and one for a marked one.
LEMMA NotDropped ==
  ASSUME KernelInv PROVE ~Dropped
  <1> SUFFICES ASSUME NEW u \in UrrIds, u \notin stuck
               PROVE  /\ ~(Reported(u) /\ u \notin DOMAIN urrs)
                      /\ ~(u \in DOMAIN urrs /\ urrs[u].removed /\ term[u] + other[u] > 1)
    BY DEF Dropped
  <1>1. term[u] \in Nat /\ other[u] \in Nat
    BY DEF KernelInv, FinalInv, TypeOK
  <1>2. /\ term[u] <= 1 /\ (term[u] > 0 => u \in DOMAIN urrs)
        /\ (other[u] > 0 => u \in DOMAIN urrs)
        /\ (u \in DOMAIN urrs /\ urrs[u].removed => other[u] = 0)
    BY DEF KernelInv, FinalInv, FinalGiven, URRsTracked
  <1> QED BY <1>1, <1>2 DEF Reported

LEMMA RequestKernel ==
  ASSUME KernelInv, Establish \/ Modify \/ Delete \/ Drop \/ Respond \/ Deleted \/ Discarded PROVE KernelInv'
  <1>1. FinalInv /\ FinalInv' /\ TypeOK /\ TypeOK' /\ Collected
    BY RequestFinal DEF KernelInv, FinalInv
  <1>2. Tracked /\ (\A u \in UrrIds : URRsTracked(u)) /\ lost = FALSE
    BY DEF KernelInv
  <1>3. CASE Establish \/ Modify
    <2>1. /\ req \in {"none", "idle"} /\ req' \in {"est", "mod"}
          /\ UNCHANGED <<pdrs, urrs, rules, kernel, other, lost, leaked, stuck>>
      BY <1>3 DEF Establish, Modify, tables, reports, history
    <2>2. Tracked'
      BY <1>2, <2>1 DEF Tracked
    <2>3. \A u \in UrrIds : URRsTracked(u)'
      BY <1>2, <2>1 DEF URRsTracked
    <2> QED BY <1>1, <1>2, <2>1, <2>2, <2>3 DEF KernelInv
  <1>4. CASE Delete \/ Drop
    <2>1. /\ req = "idle" /\ Closing'
          /\ todo'.pdr = DOMAIN pdrs /\ todo'.urr = DOMAIN urrs /\ todo'.rule = rules
          /\ UNCHANGED <<pdrs, urrs, rules, kernel, other, lost, leaked, stuck>>
      BY <1>4 DEF Delete, Drop, Close, tables, reports, history
    <2>2. Tracked'
      BY <1>2, <2>1 DEF Tracked
    <2>3. \A u \in UrrIds : URRsTracked(u)'
      BY <1>2, <2>1 DEF URRsTracked
    <2> QED BY <1>1, <1>2, <2>1, <2>2, <2>3 DEF KernelInv
  <1>5. CASE Respond
    <2>1. /\ req' = "idle" /\ UNCHANGED <<pdrs, rules, kernel, leaked, stuck>> /\ other' = NoReports
          /\ lost' = (lost \/ Dropped)
      BY <1>5 DEF Respond, history
    <2>2. lost' = FALSE
      BY <1>2, <2>1, NotDropped
    <2>3. /\ \A u \in DOMAIN urrs : ~urrs[u].removed => u \in DOMAIN urrs' /\ urrs'[u] = urrs[u]
      BY <1>5 DEF Respond, Without
    <2>4. Tracked'
      BY <1>2, <2>1 DEF Tracked
    <2>5. \A u \in UrrIds : ~(other'[u] > 0) /\ other'[u] = 0
      BY <2>1 DEF NoReports
    <2>6. \A u \in UrrIds : URRsTracked(u)'
      BY <1>2, <2>1, <2>3, <2>5 DEF URRsTracked
    <2> QED BY <1>1, <2>2, <2>4, <2>6 DEF KernelInv
  <1>6. CASE Deleted \/ Discarded
    <2>1. /\ Closing /\ req' = "none" /\ UNCHANGED <<kernel, leaked, stuck>> /\ other' = NoReports
          /\ todo.urr = {} /\ todo.pdr = {} /\ todo.rule = {}
          /\ lost' = lost \/ lost' = (lost \/ Dropped)
      BY <1>6 DEF Deleted, Discarded, Gone, NoIds, history
    <2>2. lost' = FALSE
      BY <1>2, <2>1, NotDropped
    <2>3. ~leaked => kernel.pdr = {} /\ kernel.rule = {}
      BY <1>2, <2>1 DEF Tracked
    <2>4. \A u \in UrrIds : u \in stuck \/ u \notin kernel.urr
      BY <1>2, <2>1 DEF URRsTracked
    <2>5. Tracked'
      BY <2>1, <2>3 DEF Tracked
    <2>6. \A u \in UrrIds : ~(other'[u] > 0) /\ other'[u] = 0
      BY <2>1 DEF NoReports
    <2>7. \A u \in UrrIds : URRsTracked(u)'
      BY <2>1, <2>4, <2>6 DEF URRsTracked
    <2> QED BY <1>1, <2>2, <2>5, <2>7 DEF KernelInv
  <1> QED BY <1>3, <1>4, <1>5, <1>6

\* Nothing about the URRs changes but their counts.
LEMMA SameURRs ==
  ASSUME NEW u \in UrrIds, URRsTracked(u), kernel'.urr = kernel.urr, other' = other, req' = req, stuck' = stuck,
         todo'.urr = todo.urr, DOMAIN urrs' = DOMAIN urrs,
         u \in DOMAIN urrs => urrs'[u].removed = urrs[u].removed
  PROVE  URRsTracked(u)'
  <1> QED BY DEF URRsTracked

LEMMA CreateKernel ==
  ASSUME KernelInv,
         \/ \E r \in RuleIds : CreateRule(r)
         \/ \E u \in UrrIds : CreateURR(u)
         \/ \E p \in PdrIds, U \in SUBSET UrrIds : CreatePDR(p, U)
  PROVE  KernelInv'
  <1>1. FinalInv /\ FinalInv' /\ TypeOK /\ TypeOK'
    BY CreateRuleFinal, CreateURRFinal, CreatePDRFinal DEF KernelInv, FinalInv
  <1>2. Tracked /\ (\A u \in UrrIds : URRsTracked(u)) /\ lost = FALSE
    BY DEF KernelInv
  <1>3. ASSUME NEW k \in 1 .. 3, At(k)
        PROVE  /\ req' = req /\ lost' = FALSE /\ todo' = todo /\ req \in {"mod", "est"} /\ step <= 3
    <2>1. k \in 1 .. 10
      OBVIOUS
    <2>2. /\ req' = req /\ lost' = lost /\ todo' = todo /\ req \in {"mod", "est"} /\ step <= k
      BY <1>1, <1>3, <2>1, AtKind
    <2>3. step <= 3
      BY <2>2, <1>1 DEF TypeOK
    <2> QED BY <1>2, <2>2, <2>3
  <1>4. ASSUME NEW r \in RuleIds, CreateRule(r) PROVE KernelInv'
    <2>1. At(1) /\ UNCHANGED <<pdrs, urrs, other, leaked, stuck>> /\ rules' = rules \cup {r}
      BY <1>4 DEF CreateRule, reports, history
    <2>2. req' = req /\ lost' = FALSE /\ todo' = todo /\ req \in {"mod", "est"}
      BY <1>3, <2>1
    <2>3. kernel'.urr = kernel.urr /\ kernel'.pdr = kernel.pdr /\ kernel'.rule \subseteq kernel.rule \cup {r}
      BY <1>1, <1>4, CreatedRule DEF CreateRule
    <2>4. Tracked'
      BY <1>2, <2>1, <2>2, <2>3 DEF Tracked
    <2>5. \A u \in UrrIds : URRsTracked(u)'
      BY <1>2, <2>1, <2>2, <2>3, SameURRs
    <2> QED BY <1>1, <2>2, <2>4, <2>5 DEF KernelInv
  <1>5. ASSUME NEW u \in UrrIds, CreateURR(u) PROVE KernelInv'
    <2>1. At(2) /\ UNCHANGED <<pdrs, rules, other, leaked>> /\ stuck' = stuck \ {u}
      BY <1>5 DEF CreateURR, reports
    <2>2. req' = req /\ lost' = FALSE /\ todo' = todo /\ req \in {"mod", "est"} /\ step <= 3
      BY <1>3, <2>1
    <2>3. kernel'.pdr = kernel.pdr /\ kernel'.rule = kernel.rule /\ kernel'.urr \subseteq kernel.urr \cup {u}
      BY <1>1, <1>5, CreatedURR DEF CreateURR
    <2>4. Tracked'
      BY <1>2, <2>1, <2>2, <2>3 DEF Tracked
    <2>5. /\ DOMAIN urrs' = DOMAIN urrs \cup {u}
          /\ \A v \in DOMAIN urrs : v # u => urrs'[v] = urrs[v]
          /\ urrs'[u].removed = FALSE
      BY <1>5 DEF CreateURR, Put
    <2>6. \A v \in UrrIds : other'[v] = 0 /\ ~(other'[v] > 0)
      <3>1. step <= 7
        BY <2>2, <1>1 DEF TypeOK
      <3> QED BY <1>1, <2>1, <3>1 DEF FinalInv, Collected
    <2>7. ASSUME NEW v \in UrrIds PROVE URRsTracked(v)'
      <3>1. URRsTracked(v)
        BY <1>2
      <3>2. v \in kernel'.urr => v \in stuck' \/ (v \in DOMAIN urrs' /\ ~urrs'[v].removed)
        BY <2>1, <2>3, <2>5, <3>1 DEF URRsTracked
      <3> QED BY <2>2, <2>6, <3>2 DEF URRsTracked
    <2> QED BY <1>1, <2>2, <2>4, <2>7 DEF KernelInv
  <1>6. ASSUME NEW p \in PdrIds, NEW U \in SUBSET UrrIds, CreatePDR(p, U) PROVE KernelInv'
    <2>1. At(3) /\ UNCHANGED <<rules, other, leaked, stuck>>
      BY <1>6 DEF CreatePDR, reports
    <2>2. req' = req /\ lost' = FALSE /\ todo' = todo /\ req \in {"mod", "est"}
      BY <1>3, <2>1
    <2>3. kernel'.urr = kernel.urr /\ kernel'.rule = kernel.rule /\ kernel'.pdr \subseteq kernel.pdr \cup {p}
      BY <1>1, <1>6, CreatedPDR DEF CreatePDR
    <2>4. DOMAIN pdrs' = DOMAIN pdrs \cup {p}
      BY <1>6 DEF CreatePDR, Put
    <2>5. Tracked'
      BY <1>2, <2>1, <2>2, <2>3, <2>4 DEF Tracked
    <2>6. DOMAIN urrs' = DOMAIN urrs
      BY <1>6 DEF CreatePDR
    <2>7. ASSUME NEW u \in DOMAIN urrs PROVE urrs'[u].removed = urrs[u].removed
      <3>1. urrs[u] \in [removed : BOOLEAN, ref : 0 .. MaxRef]
        BY <1>1 DEF TypeOK
      <3> DEFINE n == urrs[u].ref + 1
      <3>2. urrs'[u] = [urrs[u] EXCEPT !.ref = n] \/ urrs'[u] = urrs[u]
        BY <1>6 DEF CreatePDR
      <3> HIDE DEF n
      <3> QED BY <3>1, <3>2
    <2>8. \A u \in UrrIds : URRsTracked(u)'
      BY <1>2, <2>1, <2>2, <2>3, <2>6, <2>7, SameURRs
    <2> QED BY <1>1, <2>2, <2>5, <2>8 DEF KernelInv
  <1> QED BY <1>4, <1>5, <1>6

LEMMA RemoveKernel ==
  ASSUME KernelInv,
         \/ \E r \in RuleIds : RemoveRule(r)
         \/ \E u \in UrrIds : RemoveURR(u)
         \/ \E p \in PdrIds : RemovePDR(p)
  PROVE  KernelInv'
  <1>1. FinalInv /\ FinalInv' /\ TypeOK /\ TypeOK' /\ Collected
    BY RemoveRuleFinal, RemoveURRFinal, RemovePDRFinal DEF KernelInv, FinalInv
  <1>2. Tracked /\ (\A u \in UrrIds : URRsTracked(u)) /\ lost = FALSE
    BY DEF KernelInv
  <1>3. ASSUME NEW r \in RuleIds, RemoveRule(r) PROVE KernelInv'
    <2>1. UNCHANGED <<pdrs, urrs, other, stuck>> /\ Removing(4, "rule", r) /\ rules' \in {rules, rules \ {r}}
      BY <1>3 DEF RemoveRule, reports
    <2>2. /\ req' = req /\ lost' = lost /\ todo'.urr = todo.urr /\ todo'.pdr = todo.pdr
          /\ \/ req = "mod" /\ todo' = todo
             \/ Closing /\ r \in todo.rule /\ todo'.rule = todo.rule \ {r}
      BY <1>1, <2>1, RemovingRule
    <2>3. /\ kernel'.urr = kernel.urr /\ kernel'.pdr = kernel.pdr
          /\ kernel'.rule \in {kernel.rule, kernel.rule \ {r}}
          /\ (leaked => leaked') /\ (Closing /\ ~leaked' => r \notin kernel'.rule)
      BY <1>1, <1>3, RemovedRule DEF RemoveRule
    <2>4. rules' = rules \/ r \notin kernel'.rule
      <3>1. kernel.rule \ {r} \in SUBSET RuleIds /\ kernel \in Ids
        BY <1>1 DEF TypeOK, Ids
      <3> QED BY <1>3, <3>1, KernelRule DEF RemoveRule
    <2>5. Tracked'
      BY <1>2, <2>1, <2>2, <2>3, <2>4 DEF Tracked
    <2>6. \A u \in UrrIds : URRsTracked(u)'
      BY <1>2, <2>1, <2>2, <2>3, SameURRs
    <2> QED BY <1>1, <1>2, <2>2, <2>5, <2>6 DEF KernelInv
  <1>4. ASSUME NEW u \in UrrIds, RemoveURR(u) PROVE KernelInv'
    <2>1. /\ UNCHANGED <<pdrs, rules, other, leaked>> /\ Removing(5, "urr", u)
          /\ u \in DOMAIN urrs /\ urrs' = [urrs EXCEPT ![u].removed = TRUE]
      BY <1>4 DEF RemoveURR
    <2>2. /\ req' = req /\ lost' = lost /\ todo'.rule = todo.rule /\ todo'.pdr = todo.pdr
          /\ \/ req = "mod" /\ todo' = todo /\ step <= 5
             \/ Closing /\ u \in todo.urr /\ todo'.urr = todo.urr \ {u}
      BY <1>1, <2>1, RemovingURR
    <2>3. /\ kernel'.pdr = kernel.pdr /\ kernel'.rule = kernel.rule
          /\ kernel'.urr \in {kernel.urr, kernel.urr \ {u}} /\ (u \in kernel'.urr => u \in stuck')
          /\ \A v \in UrrIds : v # u => (v \in stuck' <=> v \in stuck)
      BY <1>1, <1>4, RemovedURR DEF RemoveURR
    <2>4. Tracked'
      BY <1>2, <2>1, <2>2, <2>3 DEF Tracked
    <2>5. /\ DOMAIN urrs' = DOMAIN urrs
          /\ \A v \in DOMAIN urrs : v # u => urrs'[v] = urrs[v]
      BY <1>1, <2>1, MarkedURR
    <2>6. \A v \in UrrIds : other'[v] = 0 /\ ~(other'[v] > 0)
      <3>1. Closing \/ step <= 7
        BY <2>2, <1>1 DEF TypeOK
      <3> QED BY <1>1, <2>1, <3>1 DEF Collected
    <2>7. ASSUME NEW v \in UrrIds PROVE URRsTracked(v)'
      <3>1. URRsTracked(v)
        BY <1>2
      <3>2. v \in kernel'.urr => v \in stuck' \/ (v # u /\ v \in kernel.urr)
        BY <2>3
      <3>3. v \in kernel'.urr => v \in stuck' \/ (v \in DOMAIN urrs' /\ ~urrs'[v].removed)
        BY <2>3, <2>5, <3>1, <3>2 DEF URRsTracked
      <3>4. v \in kernel'.urr /\ Closing' => v \in stuck' \/ v \in todo'.urr
        BY <2>2, <2>3, <3>1, <3>2 DEF URRsTracked
      <3> QED BY <2>2, <2>6, <3>3, <3>4 DEF URRsTracked
    <2> QED BY <1>1, <1>2, <2>2, <2>4, <2>7 DEF KernelInv
  <1>5. ASSUME NEW p \in PdrIds, RemovePDR(p) PROVE KernelInv'
    <2>1. UNCHANGED <<rules, other, stuck>> /\ Removing(6, "pdr", p) /\ p \in DOMAIN pdrs
      BY <1>5 DEF RemovePDR
    <2>2. /\ req' = req /\ lost' = lost /\ todo'.rule = todo.rule /\ todo'.urr = todo.urr
          /\ \/ req = "mod" /\ todo' = todo
             \/ Closing /\ p \in todo.pdr /\ todo'.pdr = todo.pdr \ {p}
      BY <1>1, <2>1, RemovingPDR
    <2>3. /\ kernel'.urr = kernel.urr /\ kernel'.rule = kernel.rule
          /\ kernel'.pdr \in {kernel.pdr, kernel.pdr \ {p}}
          /\ (leaked => leaked') /\ (Closing /\ ~leaked' => p \notin kernel'.pdr)
      BY <1>1, <1>5, RemovedPDR DEF RemovePDR
    <2>4. \/ DOMAIN pdrs' = DOMAIN pdrs
          \/ DOMAIN pdrs' = DOMAIN pdrs \ {p} /\ p \notin kernel'.pdr
      <3>1. kernel.pdr \ {p} \in SUBSET PdrIds /\ kernel \in Ids
        BY <1>1 DEF TypeOK, Ids
      <3> QED BY <1>5, <3>1, KernelPdr DEF RemovePDR, Without
    <2>5. Tracked'
      BY <1>2, <2>1, <2>2, <2>3, <2>4 DEF Tracked
    <2>6. /\ DOMAIN urrs' = DOMAIN urrs
          /\ \A u \in DOMAIN urrs : urrs'[u].removed = urrs[u].removed
      <3>1. pdrs[p] \in SUBSET UrrIds
        BY <1>1, <2>1 DEF TypeOK
      <3>2. CASE diassociateURR(pdrs[p])
        BY <1>1, <3>1, <3>2, Diassociated
      <3>3. CASE UNCHANGED urrs
        BY <3>3
      <3> QED BY <1>5, <3>2, <3>3 DEF RemovePDR
    <2>7. \A u \in UrrIds : URRsTracked(u)'
      BY <1>2, <2>1, <2>2, <2>3, <2>6, SameURRs
    <2> QED BY <1>1, <1>2, <2>2, <2>5, <2>7 DEF KernelInv
  <1> QED BY <1>3, <1>4, <1>5

LEMMA UpdateKernel ==
  ASSUME KernelInv,
         \/ \E u \in UrrIds : UpdateURR(u) \/ QueryURR(u)
         \/ \E p \in PdrIds, U \in SUBSET UrrIds : UpdatePDR(p, U)
  PROVE  KernelInv'
  <1>1. FinalInv /\ TypeOK /\ Tracked /\ (\A u \in UrrIds : URRsTracked(u)) /\ lost = FALSE
    BY DEF KernelInv, FinalInv
  <1>2. ASSUME NEW u \in UrrIds, NEW k \in {8, 10}, ReportURR(k, u) PROVE KernelInv'
    <2>1. /\ FinalInv' /\ At(k) /\ req = "mod" /\ k \in 1 .. 10 /\ u \in DOMAIN urrs /\ u \in kernel.urr
          /\ UNCHANGED <<pdrs, urrs, rules, kernel, leaked, stuck>>
          /\ other' = [other EXCEPT ![u] = other[u] + 1]
      <3>1. FinalInv'
        BY <1>1, <1>2, ReportURRFinal
      <3> QED BY <1>2, <3>1 DEF ReportURR, tables, history
    <2>2. req' = req /\ lost' = lost /\ todo' = todo
      BY <1>1, <2>1, AtKind
    <2>3. Tracked'
      BY <1>1, <2>1, <2>2 DEF Tracked
    <2>4. ASSUME NEW v \in UrrIds PROVE URRsTracked(v)'
      <3>1. URRsTracked(v) /\ (v = u => v \in stuck \/ ~urrs[v].removed)
        BY <1>1, <2>1 DEF URRsTracked
      <3>2. v # u => other'[v] = other[v]
        BY <1>1, <2>1 DEF TypeOK
      <3> QED BY <2>1, <2>2, <3>1, <3>2 DEF URRsTracked
    <2> QED BY <1>1, <2>1, <2>2, <2>3, <2>4 DEF KernelInv
  <1>3. ASSUME NEW p \in PdrIds, NEW U \in SUBSET UrrIds, UpdatePDR(p, U) PROVE KernelInv'
    <2>1. /\ FinalInv' /\ At(9) /\ req = "mod" /\ p \in DOMAIN pdrs
          /\ UNCHANGED <<rules, kernel, other, leaked, stuck>>
          /\ diassociateURR(pdrs[p] \ U) /\ pdrs' = Put(pdrs, p, U)
      BY <1>1, <1>3, UpdatePDRFinal DEF UpdatePDR
    <2>2. req' = req /\ lost' = lost /\ todo' = todo
      BY <1>1, <2>1, AtKind
    <2>3. DOMAIN pdrs' = DOMAIN pdrs
      BY <2>1 DEF Put
    <2>4. Tracked'
      BY <1>1, <2>1, <2>2, <2>3 DEF Tracked
    <2>5. pdrs[p] \ U \in SUBSET UrrIds
      BY <1>1, <2>1 DEF TypeOK
    <2>6. /\ DOMAIN urrs' = DOMAIN urrs
          /\ \A u \in DOMAIN urrs : urrs'[u].removed = urrs[u].removed
      BY <1>1, <2>1, <2>5, Diassociated
    <2>7. \A u \in UrrIds : URRsTracked(u)'
      BY <1>1, <2>1, <2>2, <2>6, SameURRs
    <2> QED BY <1>1, <2>1, <2>2, <2>4, <2>7 DEF KernelInv
  <1> QED BY <1>2, <1>3 DEF UpdateURR, QueryURR

LEMMA KernelInit ==
  ASSUME Init PROVE KernelInv
  <1>1. FinalInv
    BY FinalInit
  <1>2. kernel.pdr = {} /\ kernel.urr = {} /\ kernel.rule = {} /\ DOMAIN urrs = {} /\ lost = FALSE
    BY DEF Init, NoIds, EmptyMap
  <1>3. Tracked
    BY <1>2 DEF Tracked
  <1>4. \A u \in UrrIds : other[u] = 0 /\ ~(other[u] > 0)
    BY DEF Init, NoReports
  <1>5. \A u \in UrrIds : URRsTracked(u)
    BY <1>2, <1>4 DEF URRsTracked
  <1> QED BY <1>1, <1>2, <1>3, <1>5 DEF KernelInv

LEMMA KernelNext ==
  ASSUME KernelInv, [Next]_vars PROVE KernelInv'
  <1>1. CASE Establish \/ Modify \/ Respond \/ Delete \/ Drop \/ Deleted \/ Discarded
    BY <1>1, RequestKernel
  <1>2. CASE \/ \E r \in RuleIds : CreateRule(r)
             \/ \E u \in UrrIds : CreateURR(u)
             \/ \E p \in PdrIds, U \in SUBSET UrrIds : CreatePDR(p, U)
    BY <1>2, CreateKernel
  <1>3. CASE \/ \E r \in RuleIds : RemoveRule(r)
             \/ \E u \in UrrIds : RemoveURR(u)
             \/ \E p \in PdrIds : RemovePDR(p)
    BY <1>3, RemoveKernel
  <1>4. CASE \/ \E u \in UrrIds : UpdateURR(u) \/ QueryURR(u)
             \/ \E p \in PdrIds, U \in SUBSET UrrIds : UpdatePDR(p, U)
    BY <1>4, UpdateKernel
  <1>5. CASE UNCHANGED vars
    <2>1. FinalInv'
      BY FinalNext, <1>5 DEF KernelInv
    <2> QED BY <1>5, <2>1 DEF vars, KernelInv, Tracked, URRsTracked
  <1> QED BY <1>1, <1>2, <1>3, <1>4, <1>5 DEF Next

\* Whatever driver calls fail, every PDR, FAR, QER and BAR in the kernel is in
\* the tables of its session until Close itself fails to remove it, and every
\* URR is, but those whose own removal failed (CreateFAR to CreatePDR, RemoveFAR
\* to RemovePDR, Sess.Close).  RemoveURR marks the entry before the driver is
\* called, so such a URR may be forgotten; no other one is.
THEOREM RulesTracked == Spec => []KernelTracked
  <1>1. KernelInv => KernelTracked
    <2> SUFFICES ASSUME KernelInv PROVE KernelTracked
      OBVIOUS
    <2>1. TypeOK /\ Tracked
      BY DEF KernelInv, FinalInv
    <2>2. kernel.urr \subseteq DOMAIN urrs \cup stuck
      <3>1. kernel.urr \subseteq UrrIds
        BY <2>1 DEF TypeOK, Ids
      <3> QED BY <3>1 DEF KernelInv, URRsTracked
    <2> QED BY <2>1, <2>2 DEF KernelTracked, Tracked
  <1> QED BY <1>1, KernelInit, KernelNext, PTL DEF Spec

\* Every report a modification or a deletion collects is in its response,
\* whatever driver calls fail, but those of a URR whose own removal failed
\* (Sess.URRIDs, the loops over usage reports of the session handlers).
THEOREM ReportsNotLost == Spec => []ReportsSent
  <1>1. KernelInv => ReportsSent
    BY DEF KernelInv, ReportsSent
  <1> QED BY <1>1, KernelInit, KernelNext, PTL DEF Spec

-----------------------------------------------------------------------------
(* Counted, and the last query of a URR.                                   *)

\* A PDR of the table stops referring to the URRs D and nothing else changes:
\* counts and references go down together.
LEMMA CountedDown ==
  ASSUME TypeOK, Counted, use = "plain", NEW p \in DOMAIN pdrs, NEW D \in SUBSET UrrIds,
         D \subseteq pdrs[p], diassociateURR(D),
         \A u \in DOMAIN urrs : Referring(u)' = IF u \in D THEN Referring(u) \ {p} ELSE Referring(u)
  PROVE  \A u \in DOMAIN urrs' : urrs'[u].ref = Cardinality(Referring(u)')
  <1>1. DOMAIN urrs' = DOMAIN urrs
    BY Diassociated
  <1> SUFFICES ASSUME NEW u \in DOMAIN urrs PROVE urrs'[u].ref = Cardinality(Referring(u)')
    BY <1>1
  <1>2. urrs'[u].ref = IF u \in D /\ urrs[u].ref > 0 THEN urrs[u].ref - 1 ELSE urrs[u].ref
    BY Diassociated
  <1>3. urrs[u].ref = Cardinality(Referring(u))
    BY DEF Counted
  <1>4. CASE u \notin D
    BY <1>2, <1>3, <1>4
  <1>5. CASE u \in D
    <2> DEFINE R == Referring(u)
    <2>1. R \in SUBSET DOMAIN pdrs /\ p \in R
      BY <1>5 DEF Referring
    <2>2. IsFiniteSet(R)
      BY <2>1, FS_Subset DEF Counted
    <2> HIDE DEF R
    <2>3. Cardinality(R) \in Nat /\ Cardinality(R) # 0
      BY <2>1, <2>2, FS_CardinalityType, FS_EmptySet
    <2>4. Cardinality(R \ {p}) = Cardinality(R) - 1
      BY <2>1, <2>2, FS_RemoveElement
    <2>5. urrs[u].ref = Cardinality(R) /\ Referring(u)' = R \ {p}
      BY <1>3, <1>5 DEF R
    <2> QED BY <1>2, <1>5, <2>3, <2>4, <2>5
  <1> QED BY <1>4, <1>5

\* RemovePDR takes the PDR out of the references.
LEMMA RemovedReferring ==
  ASSUME TypeOK, NEW p \in DOMAIN pdrs, pdrs' = Without(pdrs, {p}), NEW u
  PROVE  Referring(u)' = IF u \in pdrs[p] THEN Referring(u) \ {p} ELSE Referring(u)
  <1>1. DOMAIN pdrs' = DOMAIN pdrs \ {p} /\ \A q \in DOMAIN pdrs' : pdrs'[q] = pdrs[q]
    BY DEF Without
  <1> QED BY <1>1 DEF Referring

\* UpdatePDR that only drops URRs.
LEMMA UpdatedReferring ==
  ASSUME TypeOK, NEW p \in DOMAIN pdrs, NEW U \in SUBSET UrrIds, U \subseteq pdrs[p],
         pdrs' = Put(pdrs, p, U), NEW u
  PROVE  Referring(u)' = IF u \in pdrs[p] \ U THEN Referring(u) \ {p} ELSE Referring(u)
  <1>1. DOMAIN pdrs' = DOMAIN pdrs /\ \A q \in DOMAIN pdrs : pdrs'[q] = IF q = p THEN U ELSE pdrs[q]
    BY DEF Put
  <1> QED BY <1>1 DEF Referring

\* Counts and references stay as they are.
LEMMA CountedSame ==
  ASSUME Counted, pdrs' = pdrs, use' = use, req' # "none",
         \A u \in DOMAIN urrs' : u \in DOMAIN urrs /\ urrs'[u].ref = urrs[u].ref
  PROVE  Counted'
  <1>1. \A u : Referring(u)' = Referring(u)
    BY DEF Referring
  <1> QED BY <1>1 DEF Counted

LEMMA CountRequest ==
  ASSUME CountInv, Establish \/ Modify \/ Delete \/ Drop \/ Respond \/ Deleted \/ Discarded PROVE Counted'
  <1>1. Counted
    BY DEF CountInv
  <1>2. CASE Establish
    <2>1. DOMAIN urrs' = {} /\ pdrs' = pdrs /\ req' = "est"
      BY <1>1, <1>2 DEF Counted, Establish, tables
    <2> QED BY <1>1, <2>1 DEF Counted
  <1>3. CASE Modify \/ Delete \/ Drop
    <2>1. pdrs' = pdrs /\ use' = use /\ req' # "none" /\ urrs' = urrs
      BY <1>3 DEF Modify, Delete, Drop, Close, tables, history
    <2> QED BY <1>1, <2>1, CountedSame
  <1>4. CASE Respond
    <2>1. pdrs' = pdrs /\ use' = use /\ req' # "none"
      BY <1>4 DEF Respond, history
    <2>2. \A u \in DOMAIN urrs' : u \in DOMAIN urrs /\ urrs'[u] = urrs[u]
      BY <1>4 DEF Respond, Without
    <2> QED BY <1>1, <2>1, <2>2, CountedSame
  <1>5. CASE Deleted \/ Discarded
    <2>1. DOMAIN urrs' = {} /\ DOMAIN pdrs' = {}
      BY <1>5 DEF Deleted, Discarded, Gone, EmptyMap
    <2> QED BY <2>1, FS_EmptySet DEF Counted
  <1> QED BY <1>2, <1>3, <1>4, <1>5

LEMMA CountCreate ==
  ASSUME CountInv,
         \/ \E r \in RuleIds : CreateRule(r)
         \/ \E u \in UrrIds : CreateURR(u)
         \/ \E p \in PdrIds, U \in SUBSET UrrIds : CreatePDR(p, U)
  PROVE  Counted'
  <1>1. Counted /\ TypeOK
    BY DEF CountInv, KernelInv, FinalInv
  <1>2. ASSUME NEW k \in {1, 2, 3}, At(k) PROVE req' # "none"
    BY <1>2 DEF At, session
  <1>3. ASSUME NEW r \in RuleIds, CreateRule(r) PROVE Counted'
    <2>1. pdrs' = pdrs /\ use' = use /\ urrs' = urrs /\ req' # "none"
      BY <1>2, <1>3 DEF CreateRule, history
    <2> QED BY <1>1, <2>1, CountedSame
  <1>4. ASSUME NEW u \in UrrIds, CreateURR(u) PROVE Counted'
    <2>1. pdrs' = pdrs /\ req' # "none"
      BY <1>2, <1>4 DEF CreateURR
    <2>2. /\ DOMAIN urrs' = DOMAIN urrs \cup {u}
          /\ \A v \in DOMAIN urrs : v # u => urrs'[v] = urrs[v]
          /\ urrs'[u].ref = 0
      BY <1>4 DEF CreateURR, Put
    <2>3. use' = "plain" => use = "plain" /\ Referring(u) = {}
      BY <1>4 DEF CreateURR
    <2>4. \A v : Referring(v)' = Referring(v)
      BY <2>1 DEF Referring
    <2>5. use' = "plain" => \A v \in DOMAIN urrs' : urrs'[v].ref = Cardinality(Referring(v)')
      BY <1>1, <2>2, <2>3, <2>4, FS_EmptySet DEF Counted
    <2> QED BY <1>1, <2>1, <2>5 DEF Counted
  <1>5. ASSUME NEW p \in PdrIds, NEW U \in SUBSET UrrIds, CreatePDR(p, U) PROVE Counted'
    <2>1. /\ req' # "none" /\ DOMAIN urrs' = DOMAIN urrs
          /\ urrs' = [u \in DOMAIN urrs |-> IF u \in U THEN [urrs[u] EXCEPT !.ref = urrs[u].ref + 1] ELSE urrs[u]]
      BY <1>2, <1>5 DEF CreatePDR
    <2>2. /\ DOMAIN pdrs' = DOMAIN pdrs \cup {p} /\ pdrs'[p] = U
          /\ \A q \in DOMAIN pdrs : q # p => pdrs'[q] = pdrs[q]
      BY <1>5 DEF CreatePDR, Put
    <2>3. use' = "plain" => use = "plain" /\ p \notin DOMAIN pdrs
      BY <1>5 DEF CreatePDR
    <2>4. IsFiniteSet(DOMAIN pdrs')
      BY <1>1, <2>2, FS_AddElement DEF Counted
    <2>5. ASSUME use' = "plain", NEW u \in DOMAIN urrs
          PROVE  urrs'[u].ref = Cardinality(Referring(u)')
      <3> DEFINE R == Referring(u)
      <3>1. urrs[u].ref = Cardinality(R) /\ urrs[u] \in Entry
        BY <1>1, <2>3, <2>5 DEF Counted, TypeOK, Entry
      <3>2. Referring(u)' = IF u \in U THEN R \cup {p} ELSE R
        BY <2>2, <2>3, <2>5 DEF Referring
      <3>3. R \in SUBSET DOMAIN pdrs /\ p \notin R
        BY <2>3, <2>5 DEF Referring
      <3> HIDE DEF R
      <3>4. IsFiniteSet(R)
        BY <1>1, <3>3, FS_Subset DEF Counted
      <3>5. Cardinality(R \cup {p}) = Cardinality(R) + 1
        BY <3>3, <3>4, FS_AddElement
      <3>6. CASE u \in U
        <4> DEFINE n == urrs[u].ref + 1
        <4>1. urrs'[u] = [urrs[u] EXCEPT !.ref = n]
          BY <2>1, <3>6
        <4>2. n = Cardinality(R \cup {p})
          BY <3>1, <3>5
        <4> HIDE DEF n
        <4>3. urrs'[u].ref = n
          BY <3>1, <4>1 DEF Entry
        <4> QED BY <3>2, <3>6, <4>2, <4>3
      <3>7. CASE u \notin U
        BY <2>1, <3>1, <3>2, <3>7
      <3> QED BY <3>6, <3>7
    <2> QED BY <2>1, <2>4, <2>5 DEF Counted
  <1> QED BY <1>3, <1>4, <1>5

LEMMA CountRemove ==
  ASSUME CountInv,
         \/ \E r \in RuleIds : RemoveRule(r)
         \/ \E u \in UrrIds : RemoveURR(u)
         \/ \E p \in PdrIds : RemovePDR(p)
  PROVE  Counted'
  <1>1. Counted /\ TypeOK
    BY DEF CountInv, KernelInv, FinalInv
  <1>2. ASSUME NEW r \in RuleIds, RemoveRule(r) PROVE Counted'
    <2>1. pdrs' = pdrs /\ use' = use /\ urrs' = urrs /\ Removing(4, "rule", r)
      BY <1>2 DEF RemoveRule
    <2>2. req' # "none"
      BY <1>1, <2>1, RemovingRule
    <2> QED BY <1>1, <2>1, <2>2, CountedSame
  <1>3. ASSUME NEW u \in UrrIds, RemoveURR(u) PROVE Counted'
    <2>1. /\ pdrs' = pdrs /\ use' = use /\ Removing(5, "urr", u)
          /\ u \in DOMAIN urrs /\ urrs' = [urrs EXCEPT ![u].removed = TRUE]
      BY <1>3 DEF RemoveURR
    <2>2. req' # "none"
      BY <1>1, <2>1, RemovingURR
    <2>3. DOMAIN urrs' = DOMAIN urrs /\ \A v \in DOMAIN urrs : urrs'[v].ref = urrs[v].ref
      BY <1>1, <2>1, MarkedURR
    <2> QED BY <1>1, <2>1, <2>2, <2>3, CountedSame
  <1>4. ASSUME NEW p \in PdrIds, RemovePDR(p) PROVE Counted'
    <2>1. use' = use /\ Removing(6, "pdr", p) /\ p \in DOMAIN pdrs
      BY <1>4 DEF RemovePDR
    <2>2. req' # "none"
      BY <1>1, <2>1, RemovingPDR
    <2>3. CASE UNCHANGED <<pdrs, urrs>>
      BY <1>1, <2>1, <2>2, <2>3, CountedSame
    <2>4. CASE diassociateURR(pdrs[p]) /\ pdrs' = Without(pdrs, {p})
      <3>1. IsFiniteSet(DOMAIN pdrs')
        <4>1. DOMAIN pdrs' = DOMAIN pdrs \ {p}
          BY <2>4 DEF Without
        <4> QED BY <1>1, <4>1, FS_RemoveElement DEF Counted
      <3>2. \A u \in DOMAIN urrs : Referring(u)' = IF u \in pdrs[p] THEN Referring(u) \ {p} ELSE Referring(u)
        BY <1>1, <2>1, <2>4, RemovedReferring
      <3>3. pdrs[p] \in SUBSET UrrIds /\ pdrs[p] \subseteq pdrs[p]
        BY <1>1, <2>1 DEF TypeOK
      <3>4. use = "plain" => \A u \in DOMAIN urrs' : urrs'[u].ref = Cardinality(Referring(u)')
        BY <1>1, <2>1, <2>4, <3>2, <3>3, CountedDown
      <3> QED BY <2>1, <2>2, <3>1, <3>4 DEF Counted
    <2> QED BY <1>4, <2>3, <2>4 DEF RemovePDR
  <1> QED BY <1>2, <1>3, <1>4

LEMMA CountUpdate ==
  ASSUME CountInv,
         \/ \E u \in UrrIds : UpdateURR(u) \/ QueryURR(u)
         \/ \E p \in PdrIds, U \in SUBSET UrrIds : UpdatePDR(p, U)
  PROVE  Counted'
  <1>1. Counted /\ TypeOK
    BY DEF CountInv, KernelInv, FinalInv
  <1>2. ASSUME NEW u \in UrrIds, NEW k \in {8, 10}, ReportURR(k, u) PROVE Counted'
    <2>1. pdrs' = pdrs /\ use' = use /\ urrs' = urrs /\ req' # "none"
      BY <1>2 DEF ReportURR, tables, history, At, session
    <2> QED BY <1>1, <2>1, CountedSame
  <1>3. ASSUME NEW p \in PdrIds, NEW U \in SUBSET UrrIds, UpdatePDR(p, U) PROVE Counted'
    <2>1. /\ req' # "none" /\ p \in DOMAIN pdrs
          /\ diassociateURR(pdrs[p] \ U) /\ pdrs' = Put(pdrs, p, U)
          /\ use' = "plain" => use = "plain" /\ U \subseteq pdrs[p]
      BY <1>3 DEF UpdatePDR, At, session
    <2>2. IsFiniteSet(DOMAIN pdrs')
      <3>1. DOMAIN pdrs' = DOMAIN pdrs
        BY <2>1 DEF Put
      <3> QED BY <1>1, <3>1 DEF Counted
    <2>3. ASSUME use' = "plain" PROVE \A u \in DOMAIN urrs' : urrs'[u].ref = Cardinality(Referring(u)')
      <3>1. \A u \in DOMAIN urrs : Referring(u)' = IF u \in pdrs[p] \ U THEN Referring(u) \ {p} ELSE Referring(u)
        BY <1>1, <2>1, <2>3, UpdatedReferring
      <3>2. pdrs[p] \ U \in SUBSET UrrIds /\ pdrs[p] \ U \subseteq pdrs[p]
        BY <1>1, <2>1 DEF TypeOK
      <3> QED BY <1>1, <2>1, <2>3, <3>1, <3>2, CountedDown
    <2> QED BY <2>1, <2>2, <2>3 DEF Counted
  <1> QED BY <1>2, <1>3 DEF UpdateURR, QueryURR

LEMMA CountInit ==
  ASSUME Init PROVE CountInv
  <1>1. KernelInv
    BY KernelInit
  <1>2. DOMAIN urrs = {} /\ DOMAIN pdrs = {}
    BY DEF Init, EmptyMap
  <1> QED BY <1>1, <1>2, FS_EmptySet DEF CountInv, Counted

LEMMA CountNext ==
  ASSUME CountInv, [Next]_vars PROVE CountInv'
  <1>1. KernelInv'
    BY KernelNext DEF CountInv
  <1>2. CASE Establish \/ Modify \/ Respond \/ Delete \/ Drop \/ Deleted \/ Discarded
    BY <1>1, <1>2, CountRequest DEF CountInv
  <1>3. CASE \/ \E r \in RuleIds : CreateRule(r)
             \/ \E u \in UrrIds : CreateURR(u)
             \/ \E p \in PdrIds, U \in SUBSET UrrIds : CreatePDR(p, U)
    BY <1>1, <1>3, CountCreate DEF CountInv
  <1>4. CASE \/ \E r \in RuleIds : RemoveRule(r)
             \/ \E u \in UrrIds : RemoveURR(u)
             \/ \E p \in PdrIds : RemovePDR(p)
    BY <1>1, <1>4, CountRemove DEF CountInv
  <1>5. CASE \/ \E u \in UrrIds : UpdateURR(u) \/ QueryURR(u)
             \/ \E p \in PdrIds, U \in SUBSET UrrIds : UpdatePDR(p, U)
    BY <1>1, <1>5, CountUpdate DEF CountInv
  <1>6. CASE UNCHANGED vars
    <2>1. \A u : Referring(u)' = Referring(u)
      BY <1>6 DEF vars, Referring
    <2> QED BY <1>1, <1>6, <2>1 DEF vars, CountInv, Counted
  <1> QED BY <1>2, <1>3, <1>4, <1>5, <1>6 DEF Next

\* The PDR that is the last to refer to a URR of the kernel stops doing so:
\* the count was one, so the URR is queried.
LEMMA LastQueried ==
  ASSUME CountInv, "query" \notin Fails, use = "plain", NEW p \in DOMAIN pdrs, NEW D \in SUBSET UrrIds,
         diassociateURR(D), NEW u \in UrrIds \ stuck, u \in kernel.urr, Referring(u) # {}, Referring(u)' = {},
         Referring(u)' = IF u \in D THEN Referring(u) \ {p} ELSE Referring(u)
  PROVE  term'[u] > term[u]
  <1>1. TypeOK /\ u \in DOMAIN urrs
    BY DEF CountInv, KernelInv, FinalInv, URRsTracked
  <1>2. u \in D /\ Referring(u) = {p}
    OBVIOUS
  <1>3. urrs[u].ref = 1
    BY <1>1, <1>2, FS_Singleton DEF CountInv, Counted
  <1>4. term'[u] = term[u] + 1
    BY <1>1, <1>2, <1>3, Diassociated
  <1>5. term[u] \in Nat
    BY <1>1 DEF TypeOK
  <1> QED BY <1>4, <1>5

LEMMA StepQueries ==
  ASSUME CountInv, "query" \notin Fails, [Next]_vars, NEW u \in UrrIds \ stuck,
         use = "plain", use' = "plain", Dissociated(u)
  PROVE  term'[u] > term[u]
  <1>1. TypeOK /\ req = "mod" /\ u \in kernel.urr /\ Referring(u) # {} /\ Referring(u)' = {}
    BY DEF CountInv, KernelInv, FinalInv, Dissociated
  <1>2. pdrs' # pdrs
    <2> SUFFICES ASSUME pdrs' = pdrs PROVE FALSE
      OBVIOUS
    <2>1. Referring(u)' = Referring(u)
      BY DEF Referring
    <2> QED BY <1>1, <2>1
  <1>3. ASSUME NEW p \in PdrIds, RemovePDR(p) PROVE term'[u] > term[u]
    <2>1. /\ p \in DOMAIN pdrs /\ diassociateURR(pdrs[p]) /\ pdrs' = Without(pdrs, {p})
      BY <1>2, <1>3 DEF RemovePDR
    <2>2. pdrs[p] \in SUBSET UrrIds
      BY <1>1, <2>1 DEF TypeOK
    <2>3. Referring(u)' = IF u \in pdrs[p] THEN Referring(u) \ {p} ELSE Referring(u)
      BY <1>1, <2>1, RemovedReferring
    <2> QED BY <1>1, <2>1, <2>2, <2>3, LastQueried
  <1>4. ASSUME NEW p \in PdrIds, NEW U \in SUBSET UrrIds, UpdatePDR(p, U) PROVE term'[u] > term[u]
    <2>1. /\ p \in DOMAIN pdrs /\ diassociateURR(pdrs[p] \ U) /\ pdrs' = Put(pdrs, p, U)
          /\ U \subseteq pdrs[p]
      BY <1>4 DEF UpdatePDR
    <2>2. pdrs[p] \ U \in SUBSET UrrIds
      BY <1>1, <2>1 DEF TypeOK
    <2>3. Referring(u)' = IF u \in pdrs[p] \ U THEN Referring(u) \ {p} ELSE Referring(u)
      BY <1>1, <2>1, UpdatedReferring
    <2> QED BY <1>1, <2>1, <2>2, <2>3, LastQueried
  <1>5. ASSUME NEW p \in PdrIds, NEW U \in SUBSET UrrIds, CreatePDR(p, U) PROVE FALSE
    <2>1. /\ p \notin DOMAIN pdrs /\ DOMAIN pdrs' = DOMAIN pdrs \cup {p}
          /\ \A q \in DOMAIN pdrs : q # p => pdrs'[q] = pdrs[q]
      BY <1>5 DEF CreatePDR, Put
    <2>2. Referring(u) \subseteq Referring(u)'
      BY <2>1 DEF Referring
    <2> QED BY <1>1, <2>2
  <1>6. ASSUME Establish \/ Modify \/ Respond \/ Delete \/ Drop \/ Deleted \/ Discarded PROVE FALSE
    BY <1>1, <1>2, <1>6 DEF Establish, Modify, Respond, Delete, Drop, Close, Deleted, Discarded, Gone, tables
  <1>7. ASSUME NEW r \in RuleIds, CreateRule(r) \/ RemoveRule(r) PROVE FALSE
    BY <1>2, <1>7 DEF CreateRule, RemoveRule
  <1>8. ASSUME NEW v \in UrrIds, CreateURR(v) \/ RemoveURR(v) \/ UpdateURR(v) \/ QueryURR(v) PROVE FALSE
    BY <1>2, <1>8 DEF CreateURR, RemoveURR, UpdateURR, QueryURR, ReportURR, tables
  <1>9. ~ UNCHANGED vars
    BY <1>2 DEF vars
  <1> QED BY <1>3, <1>4, <1>5, <1>6, <1>7, <1>8, <1>9 DEF Next

\* When queries do not fail, a URR of the kernel that loses its last PDR in a
\* modification is queried a last time, however the SMF removes and updates
\* PDRs, as long as it adds no URR to an existing PDR and creates nothing twice,
\* and the removal of that URR has not failed: refPdrNum has not drifted from
\* the references (CreatePDR, UpdatePDR, RemovePDR, diassociateURR).
THEOREM LastPDRReported ==
  ASSUME "query" \notin Fails PROVE Spec => DissociationReported
  <1>1. CountInv /\ [Next]_vars =>
           [\A u \in UrrIds \ stuck : use = "plain" /\ use' = "plain" /\ Dissociated(u) => term'[u] > term[u]]_vars
    BY StepQueries
  <1> QED BY <1>1, CountInit, CountNext, PTL DEF Spec, DissociationReported
=============================================================================
