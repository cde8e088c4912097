----------------------------- MODULE SmfSessions -----------------------------
(***************************************************************************)
(* The SM contexts of one PDU session id of one UE in the SMF              *)
(* (NFs/smf/internal/sbi/processor/pdu_session.go, sm_common.go,           *)
(* datapath.go, association.go, NFs/smf/internal/context/sm_context.go and *)
(* timer.go), between the AMF that creates, updates and releases them and  *)
(* the UPF.                                                                *)
(*                                                                         *)
(* A handler works on a context under its SMLock; it looks the context up  *)
(* before it waits for the lock.  What the handler does in the critical    *)
(* section is one action: nothing else can touch the context meanwhile.    *)
(* Four goroutines hold SMLock while they call the AMF, which takes the    *)
(* Lock of the UE to answer: the one that establishes a session, the one   *)
(* that removes a context, the functions of the timers T3591 and T3592,    *)
(* and the loop over the contexts of a lost UPF.  The AMF in turn holds    *)
(* the Lock of the UE while it calls the SMF to create a session or, in    *)
(* the registration status update, to release one.                         *)
(***************************************************************************)
EXTENDS Naturals, FiniteSets

CONSTANTS
    Refs,        \* references (uuids) of SM contexts
    Threads,     \* goroutines of the AMF (or PCF) that call the SMF
    Timers,      \* timer objects
    MaxCalls,    \* bound on the calls
    MaxRetry,    \* maxRetryTimes of the timers
    None

ASSUME BoundAssumption == MaxCalls \in Nat /\ MaxRetry \in Nat
ASSUME NoneAssumption == None \notin Refs \cup Threads \cup Timers

\* What holds SMLock across a call, besides a timer.
Holders == {"pfcp", "accept", "reject", "notify", "loss"}
ASSUME HoldersAssumption == (Timers \cup {None}) \cap Holders = {}

States == {"InActive", "ActivePending", "Active", "InActivePending", "ModificationPending"}
Kinds == {"T3591", "T3592"}

\* The calls: N1 messages, N2 messages and causes of an Update, a Release with
\* and without the Lock of the UE, a policy update of the PCF, and a Create.
Updates == {"releaseReq", "releaseComplete", "modificationReq", "modificationEnd",
            "deactivate", "setupRsp", "releaseRsp", "move", "duplicate"}
Ops == Updates \cup {"release", "policy", "create"}

VARIABLES
    pool,       \* smContextPool: the references in it
    canonical,  \* canonicalRef: the context of the session id, or None
    made,       \* the references handed out so far
    ctx,        \* the fields of a context
    lock,       \* SMLock: what holds it across calls to the AMF or UPF, or None
    removal,    \* goroutines that are to remove a context, without (FALSE) and
                \* with (TRUE) a notification of the AMF
    timers,     \* the timer goroutines
    call,       \* the calls under way
    calls,      \* number of calls so far
    upf,        \* the contexts that have a PFCP session in the UPF
    amf,        \* the context the AMF routes the session id to, or None
    ueLock,     \* Lock of the UE in the AMF: the thread that holds it, or None
    commanded,  \* the contexts whose release was ordered to the UE and the RAN
    hist        \* history: PFCP failures, releases answered by the UE (n1) and
                \* the RAN (n2), contexts for which such an answer came without an
                \* order, contexts whose data paths a policy decision changed,
                \* contexts that got an address, contexts whose UPF was lost, frees

vars == <<pool, canonical, made, ctx, lock, removal, timers, call, calls, upf, amf,
          ueLock, commanded, hist>>

\* A context: state, ANInformation set, SelectedUPF set, PDUAddress set, data
\* paths made, PDUSessionRelease_DUE_TO_DUP_PDU_ID, and the two timers.
NewContext ==
    [state |-> "ActivePending", an |-> FALSE, upf |-> FALSE, addr |-> FALSE, path |-> FALSE,
     dup |-> FALSE, timer |-> [k \in Kinds |-> None]]

Idle == [pc |-> "idle", op |-> "create", ref |-> None]

Init ==
    /\ pool = {} /\ canonical = None /\ made = {}
    /\ ctx = [r \in Refs |-> NewContext]
    /\ lock = [r \in Refs |-> None]
    /\ removal = [r \in Refs |-> [b \in BOOLEAN |-> 0]]
    /\ timers = [t \in Timers |-> [pc |-> "unused", ref |-> None, kind |-> "T3591",
                                   done |-> FALSE, expired |-> 0]]
    /\ call = [c \in Threads |-> Idle] /\ calls = 0
    /\ upf = {} /\ amf = None /\ ueLock = None /\ commanded = {}
    /\ hist = [failed |-> {}, n1 |-> {}, n2 |-> {}, unasked |-> {}, steered |-> {}, leased |-> {},
               lost |-> {}, addrFrees |-> [r \in Refs |-> 0], teidFrees |-> [r \in Refs |-> 0]]

-----------------------------------------------------------------------------
(* Helpers.                                                                *)

\* RemoveSMContextFromAllNF: the state is InActive at once, the removal is left
\* to a goroutine that waits for SMLock.
RemoveFromAllNF(x) == [x EXCEPT !.state = "InActive"]
Spawn(q, n) == [q EXCEPT ![n] = @ + 1]

\* StopT3591, StopT3592: the timer is told to end and forgotten.
Stopped(ts, t) == [ts EXCEPT ![t].done = TRUE]
StopTimer(ts, x, k) == IF x.timer[k] = None THEN ts ELSE Stopped(ts, x.timer[k])
Forget(x, k) == [x EXCEPT !.timer[k] = None]

\* The answer of the UPF to a release of the session: accepted only when the
\* session is there; without a data path nothing is asked.
ReleaseAnswers(r) ==
    IF ~ctx[r].path THEN {TRUE} ELSE IF r \in upf THEN BOOLEAN ELSE {FALSE}

\* releaseSession: the data paths are deactivated and the PFCP session deleted.
\* When the answer is lost the UPF may have deleted the session or not.
ReleaseSession(r, ok) ==
    /\ ok \in ReleaseAnswers(r)
    /\ IF ok THEN upf' = upf \ {r} ELSE upf' \in {upf, upf \ {r}}
    /\ hist' = [hist EXCEPT !.failed = IF ~ok /\ r \in upf THEN @ \cup {r} ELSE @]

\* The call of a thread is over: the AMF releases the Lock of the UE.
End(c) ==
    /\ call' = [call EXCEPT ![c] = Idle]
    /\ ueLock' = IF ueLock = c THEN None ELSE ueLock

Locked(c, op, r) ==
    /\ call[c].pc = "lock" /\ call[c].op = op /\ r = call[c].ref
    /\ lock[r] = None

-----------------------------------------------------------------------------
(* The AMF calls.                                                          *)

\* Mutant: the Lock of the UE is not taken.
AmfCreate_Unlocked(c) ==
    /\ call[c].pc = "idle" /\ calls < MaxCalls
    /\ amf = None /\ ueLock = None /\ made # Refs
    /\ call' = [call EXCEPT ![c] = [pc |-> "create", op |-> "create", ref |-> None]]
    /\ calls' = calls + 1
    /\ UNCHANGED <<pool, canonical, made, ctx, lock, removal, timers, upf, amf, ueLock, commanded,
                   hist>>

\* CreatePDUSession: the Lock of the UE is held until the SMF has answered.
AmfCreate(c) ==
    /\ call[c].pc = "idle" /\ calls < MaxCalls
    /\ amf = None /\ ueLock = None /\ made # Refs
    /\ ueLock' = c
    /\ call' = [call EXCEPT ![c] = [pc |-> "create", op |-> "create", ref |-> None]]
    /\ calls' = calls + 1
    /\ UNCHANGED <<pool, canonical, made, ctx, lock, removal, timers, upf, amf, commanded, hist>>

\* The first answer of the UE to the release of a context is not counted.
FirstAnswer(op, r) == op = "releaseComplete" /\ r \in commanded \ hist.n1

\* An Update or a Release for the context the AMF knows, a policy update for a
\* context the PCF knows.  The UE and the RAN may answer a release nobody
\* ordered.  The SMF looks the context up and then waits for its lock; when it
\* is gone, the AMF drops its own after "duplicate".
AmfCall(c, op, r, locked) ==
    /\ call[c].pc = "idle"
    /\ FirstAnswer(op, r) \/ calls < MaxCalls
    /\ r = amf \/ (op = "policy" /\ r \in pool)
    /\ locked => op = "release" /\ ueLock = None
    /\ calls' = IF FirstAnswer(op, r) THEN calls ELSE calls + 1
    /\ IF r \in pool
       THEN /\ call' = [call EXCEPT ![c] = [pc |-> "lock", op |-> op, ref |-> r]]
            /\ ueLock' = IF locked THEN c ELSE ueLock
            /\ amf' = amf
       ELSE /\ amf' = IF op = "duplicate" THEN None ELSE amf
            /\ UNCHANGED <<call, ueLock>>
    /\ UNCHANGED <<pool, canonical, made, ctx, lock, removal, timers, upf, commanded, hist>>

-----------------------------------------------------------------------------
(* HandlePDUSessionSMContextCreate.                                        *)

\* GetSMContextById, or go on to NewSMContext.
LookupDuplicate(c) ==
    /\ call[c].pc = "create"
    /\ call' = [call EXCEPT ![c].pc = IF canonical = None THEN "new" ELSE "dup",
                            ![c].ref = canonical]
    /\ UNCHANGED <<pool, canonical, made, ctx, lock, removal, timers, calls, upf, amf, ueLock,
                   commanded, hist>>

\* Mutant: the duplicate is removed without a release of its PFCP session.
LocalRelease_SessionKept(c) ==
    LET r == call[c].ref IN
    /\ call[c].pc = "dup" /\ lock[r] = None
    /\ ctx' = [ctx EXCEPT ![r] = RemoveFromAllNF(@)]
    /\ removal' = [removal EXCEPT ![r] = Spawn(@, FALSE)]
    /\ call' = [call EXCEPT ![c].pc = "new"]
    /\ UNCHANGED <<pool, canonical, made, lock, timers, calls, upf, amf, ueLock, commanded, hist>>

\* HandlePDUSessionSMContextLocalRelease of the duplicate.
LocalRelease(c) ==
    LET r == call[c].ref IN
    /\ call[c].pc = "dup" /\ lock[r] = None
    /\ \E ok \in BOOLEAN :
         /\ ReleaseSession(r, ok)
         /\ ctx' = [ctx EXCEPT ![r] = IF ok THEN RemoveFromAllNF(@) ELSE [ctx[r] EXCEPT !.state = "Active"]]
         /\ removal' = [removal EXCEPT ![r] = IF ok THEN Spawn(@, FALSE) ELSE @]
    /\ call' = [call EXCEPT ![c].pc = "new"]
    /\ UNCHANGED <<pool, canonical, made, lock, timers, calls, amf, ueLock, commanded>>

\* NewSMContext and the rest of the handler: no token, a rejection (before or
\* after an address was allocated), or a context whose establishment goes on
\* in a goroutine that keeps SMLock.
NewSMContext(c, r) ==
    /\ call[c].pc = "new" /\ r \notin made
    /\ made' = made \cup {r} /\ pool' = pool \cup {r} /\ canonical' = r
    /\ \/ /\ ctx' = [ctx EXCEPT ![r] = NewContext]
          /\ call' = [call EXCEPT ![c].pc = "ret", ![c].ref = None]
          /\ UNCHANGED <<lock, removal>>
          /\ UNCHANGED hist
       \/ \E a \in BOOLEAN :
          /\ hist' = [hist EXCEPT !.leased = IF a THEN @ \cup {r} ELSE @]
          /\ ctx' = [ctx EXCEPT ![r] = [RemoveFromAllNF(NewContext) EXCEPT !.upf = a, !.addr = a]]
          /\ removal' = [removal EXCEPT ![r] = Spawn(@, FALSE)]
          /\ call' = [call EXCEPT ![c].pc = "ret", ![c].ref = None]
          /\ UNCHANGED lock
       \/ /\ ctx' = [ctx EXCEPT ![r] = [NewContext EXCEPT !.upf = TRUE, !.addr = TRUE, !.path = TRUE]]
          /\ hist' = [hist EXCEPT !.leased = @ \cup {r}]
          /\ lock' = [lock EXCEPT ![r] = "pfcp"]
          /\ call' = [call EXCEPT ![c].pc = "ret", ![c].ref = r]
          /\ UNCHANGED removal
    /\ UNCHANGED <<timers, calls, upf, amf, ueLock, commanded>>

\* The AMF stores the reference it was answered, unless the answer was an error
\* or is lost, and releases the Lock of the UE.
AmfStore(c) ==
    /\ call[c].pc = "ret"
    /\ amf' \in {amf, call[c].ref}
    /\ End(c)
    /\ UNCHANGED <<pool, canonical, made, ctx, lock, removal, timers, calls, upf, commanded, hist>>

\* ActivateUPFSession: the answers of the UPF.
Establish(r) ==
    /\ lock[r] = "pfcp"
    /\ \/ /\ upf' = upf \cup {r} /\ lock' = [lock EXCEPT ![r] = "accept"]
          /\ UNCHANGED hist
       \/ /\ upf' \in {upf, upf \cup {r}} /\ lock' = [lock EXCEPT ![r] = "reject"]
          /\ hist' = [hist EXCEPT !.failed = @ \cup {r}]
    /\ UNCHANGED <<pool, canonical, made, ctx, removal, timers, call, calls, amf, ueLock, commanded>>

\* sendPDUSessionEstablishmentAccept: the AMF takes the Lock of the UE; it knows
\* no session when it did not store one, and may refuse.
EstHandlerAccept(r) ==
    /\ lock[r] = "accept" /\ ueLock = None
    /\ ctx' \in {ctx} \cup (IF amf = None THEN {} ELSE {[ctx EXCEPT ![r].state = "Active"]})
    /\ lock' = [lock EXCEPT ![r] = None]
    /\ UNCHANGED <<pool, canonical, made, removal, timers, call, calls, upf, amf, ueLock, commanded,
                   hist>>

\* sendPDUSessionEstablishmentReject: the context is removed only when the AMF
\* has taken the message.
EstHandlerReject(r) ==
    /\ lock[r] = "reject" /\ ueLock = None
    /\ ctx' = [ctx EXCEPT ![r].state = "InActive"]
    /\ removal' \in {removal} \cup
           (IF amf = None THEN {} ELSE {[removal EXCEPT ![r] = Spawn(@, TRUE)]})
    /\ lock' = [lock EXCEPT ![r] = None]
    /\ UNCHANGED <<pool, canonical, made, timers, call, calls, upf, amf, ueLock, commanded, hist>>

-----------------------------------------------------------------------------
(* HandlePDUSessionSMContextUpdate.  A context that is being released as a *)
(* duplicate is removed at the end of every Update that gets there.        *)

DupTail(x) == IF x.dup THEN RemoveFromAllNF(x) ELSE x
DupSpawn(q, x) == IF x.dup THEN Spawn(q, TRUE) ELSE q

\* The switch on the state at the end: ModificationPending is Active again.
FinalState(s) == IF s = "ModificationPending" THEN "Active" ELSE s

\* A running timer of the context is replaced by a new one; none is started
\* when the timer is disabled or there is no token.
Restart(r, k, x) ==
    \E t \in {u \in Timers : timers[u].pc = "unused"} \cup {None} :
        /\ ctx' = [ctx EXCEPT ![r] = [x EXCEPT !.timer[k] = t]]
        /\ timers' = [u \in Timers |->
               IF u = t THEN [pc |-> "select", ref |-> r, kind |-> k, done |-> FALSE, expired |-> 0]
               ELSE StopTimer(timers, ctx[r], k)[u]]

\* N1 PDU Session Release Request: the address is released, T3592 started and
\* the PFCP session deleted.
UpdateReleaseRequest(c) == \E r \in Refs, ok \in BOOLEAN :
    LET frees == ctx[r].upf /\ ctx[r].addr
        x == [ctx[r] EXCEPT !.addr = @ /\ ~frees,
                            !.state = IF ok THEN "InActivePending" ELSE "Active"] IN
    /\ Locked(c, "releaseReq", r)
    /\ ok \in ReleaseAnswers(r)
    /\ IF ok THEN upf' = upf \ {r} ELSE upf' \in {upf, upf \ {r}}
    /\ hist' = [hist EXCEPT !.failed = IF ~ok /\ r \in upf THEN @ \cup {r} ELSE @,
                            !.addrFrees[r] = IF frees THEN @ + 1 ELSE @]
    /\ Restart(r, "T3592", DupTail(x))
    /\ removal' = [removal EXCEPT ![r] = DupSpawn(@, x)]
    /\ commanded' = commanded \cup {r}
    /\ End(c)
    /\ UNCHANGED <<pool, canonical, made, lock, calls, amf>>

\* The UE or the RAN has answered a release of r: without an order it is unasked.
AnswerSeen(h, r) == [h EXCEPT !.unasked = IF r \in commanded THEN @ ELSE @ \cup {r}]

\* Mutant: the removal is always left to the N2 response.
UpdateReleaseComplete_LeftToN2(c) == \E r \in Refs :
    LET x == [Forget(ctx[r], "T3592") EXCEPT !.state = "InActive"] IN
    /\ Locked(c, "releaseComplete", r)
    /\ timers' = StopTimer(timers, ctx[r], "T3592")
    /\ ctx' = [ctx EXCEPT ![r] = x]
    /\ removal' = [removal EXCEPT ![r] = DupSpawn(@, x)]
    /\ hist' = AnswerSeen([hist EXCEPT !.n1 = @ \cup {r}], r)
    /\ End(c)
    /\ UNCHANGED <<pool, canonical, made, lock, calls, upf, amf, commanded>>

\* N1 PDU Session Release Complete: that the state is InActivePending is only
\* logged.
UpdateReleaseComplete(c) == \E r \in Refs :
    LET x == [Forget(ctx[r], "T3592") EXCEPT !.state = "InActive"] IN
    /\ Locked(c, "releaseComplete", r)
    /\ timers' = StopTimer(timers, ctx[r], "T3592")
    /\ ctx' = [ctx EXCEPT ![r] = x]
    /\ removal' = [removal EXCEPT ![r] = DupSpawn(IF x.an THEN @ ELSE Spawn(@, TRUE), x)]
    /\ hist' = AnswerSeen([hist EXCEPT !.n1 = @ \cup {r}], r)
    /\ End(c)
    /\ UNCHANGED <<pool, canonical, made, lock, calls, upf, amf, commanded>>

\* N1 PDU Session Modification Request: refused, or T3591 started; it returns
\* before the rest of the handler.
UpdateModificationRequest(c) == \E r \in Refs :
    /\ Locked(c, "modificationReq", r)
    /\ Restart(r, "T3591", ctx[r]) \/ UNCHANGED <<ctx, timers>>
    /\ End(c)
    /\ UNCHANGED <<pool, canonical, made, lock, removal, calls, upf, amf, commanded, hist>>

\* The UPF session and the AN side are untouched: x is the new context.
PlainUpdate(c, op, r, x, ts) ==
    /\ Locked(c, op, r)
    /\ ctx' = [ctx EXCEPT ![r] = DupTail(x)]
    /\ timers' = ts
    /\ removal' = [removal EXCEPT ![r] = DupSpawn(@, x)]
    /\ End(c)
    /\ UNCHANGED <<pool, canonical, made, lock, calls, upf, amf, commanded, hist>>

\* N1 PDU Session Modification Complete or Reject.
UpdateModificationEnd(c) == \E r \in Refs :
    PlainUpdate(c, "modificationEnd", r,
                [Forget(ctx[r], "T3591") EXCEPT !.state = FinalState(@)],
                StopTimer(timers, ctx[r], "T3591"))

\* UpCnxState DEACTIVATED: nothing for a session whose release is under way.
UpdateDeactivate(c) == \E r \in Refs :
    \/ /\ ctx[r].state = "InActivePending" /\ Locked(c, "deactivate", r) /\ End(c)
       /\ UNCHANGED <<pool, canonical, made, ctx, lock, removal, timers, calls, upf, amf, commanded, hist>>
    \/ /\ ctx[r].state # "InActivePending"
       /\ PlainUpdate(c, "deactivate", r, [ctx[r] EXCEPT !.state = "Active"], timers)

\* N2 PDU_RES_SETUP_RSP: the AN side of the tunnel, unless the transfer is
\* malformed; the state is Active whatever the UPF answers.
UpdateSetupResponse(c) == \E r \in Refs, an \in BOOLEAN :
    PlainUpdate(c, "setupRsp", r,
                [ctx[r] EXCEPT !.an = @ \/ an, !.state = "Active"], timers)

\* The tunnel changes: PDU_RES_MOD_IND adds or takes away the second one; the
\* state is Active in the end, whatever it was and whatever the UPF answers.
TunnelChange(x) == [x EXCEPT !.state = "Active"]

\* So it is after UpCnxState ACTIVATING, a path switch and the steps of a
\* handover; PDU_RES_MOD_RSP and PDU_RES_SETUP_FAIL end in the switch on the state.
Moved(x) == {TunnelChange(x), [x EXCEPT !.state = FinalState(@)]}

\* UpdateANInformation: the transfer of a path switch, a handover or a
\* modification response may bring the AN side of the tunnel.
UpdateMove(c) == \E r \in Refs, an \in BOOLEAN : \E x \in Moved(ctx[r]) :
    PlainUpdate(c, "move", r, [x EXCEPT !.an = @ \/ an], timers)

\* N2 PDU_RES_REL_RSP.
UpdateReleaseResponse(c) == \E r \in Refs :
    LET x == [ctx[r] EXCEPT !.an = FALSE, !.state = FinalState(@)]
        ends == ctx[r].state = "InActive" IN
    /\ Locked(c, "releaseRsp", r)
    /\ ctx' = [ctx EXCEPT ![r] = DupTail(x)]
    /\ removal' = [removal EXCEPT ![r] = DupSpawn(IF ends THEN Spawn(@, TRUE) ELSE @, x)]
    /\ hist' = AnswerSeen([hist EXCEPT !.n2 = @ \cup {r}], r)
    /\ End(c)
    /\ UNCHANGED <<pool, canonical, made, lock, timers, calls, upf, amf, commanded>>

\* Cause REL_DUE_TO_DUPLICATE_SESSION_ID.  On an error the AMF drops its context.
UpdateDuplicate(c) == \E r \in Refs :
    /\ Locked(c, "duplicate", r)
    /\ \/ /\ ctx[r].state \in {"ActivePending", "ModificationPending", "Active"}
          /\ \E ok \in BOOLEAN : ReleaseSession(r, ok) /\ amf' = IF ok THEN amf ELSE None
          /\ commanded' = commanded \cup {r}
       \/ /\ ctx[r].state \notin {"ActivePending", "ModificationPending", "Active"}
          /\ UNCHANGED <<upf, hist, amf, commanded>>
    /\ ctx' = [ctx EXCEPT ![r] = RemoveFromAllNF([ctx[r] EXCEPT !.dup = TRUE])]
    /\ removal' = [removal EXCEPT ![r] = Spawn(@, TRUE)]
    /\ End(c)
    /\ UNCHANGED <<pool, canonical, made, lock, timers, calls>>

\* HandleSMPolicyUpdateNotify leaves the state ModificationPending, whatever it
\* was.  The decision is refused or leaves the data paths as they are; or it
\* makes new ones and drops old ones, and ActivateUPFSession establishes a
\* session in a UPF where the context has none, unless that fails.
PolicyUpdate(c) == \E r \in Refs :
    /\ Locked(c, "policy", r)
    /\ \/ /\ ctx' = [ctx EXCEPT ![r].state = "ModificationPending"]
          /\ UNCHANGED <<upf, hist>>
       \/ /\ ctx' = [ctx EXCEPT ![r] = [@ EXCEPT !.state = "ModificationPending", !.path = TRUE]]
          /\ upf' \in {upf, upf \cup {r}}
          /\ hist' = [hist EXCEPT !.steered = @ \cup {r}]
    /\ End(c)
    /\ UNCHANGED <<pool, canonical, made, lock, removal, timers, calls, amf, commanded>>

\* HandlePDUSessionSMContextRelease: the context is removed whatever the UPF
\* answers; the AMF drops its own when the answer is a success.
Release(c) == \E r \in Refs, ok \in BOOLEAN :
    /\ Locked(c, "release", r)
    /\ ReleaseSession(r, ok)
    /\ timers' = StopTimer(StopTimer(timers, ctx[r], "T3591"), ctx[r], "T3592")
    /\ ctx' = [ctx EXCEPT ![r] = RemoveFromAllNF(Forget(Forget(@, "T3591"), "T3592"))]
    /\ removal' = [removal EXCEPT ![r] = Spawn(@, FALSE)]
    /\ amf' = IF ok THEN None ELSE amf
    /\ End(c)
    /\ UNCHANGED <<pool, canonical, made, lock, calls, commanded>>

-----------------------------------------------------------------------------
(* sendSMContextStatusNotificationAndRemoveSMContext.                      *)

\* Mutant: nothing looks whether the context was removed already.
RemoveSMContext_Unchecked(r) ==
    LET frees == ctx[r].upf /\ ctx[r].addr IN
    /\ pool' = pool \ {r} /\ canonical' = None
    /\ ctx' = [ctx EXCEPT ![r].upf = @ /\ ~frees]
    /\ hist' = [hist EXCEPT !.addrFrees[r] = IF frees THEN @ + 1 ELSE @,
                            !.teidFrees[r] = @ + 1]

\* RemoveSMContext: the address if the context still has one, the SEIDs, the
\* TEIDs, and the two maps; nothing when the reference is unknown.
RemoveSMContext(r) ==
    LET frees == ctx[r].upf /\ ctx[r].addr IN
    IF r \in pool
    THEN /\ pool' = pool \ {r} /\ canonical' = None
         /\ ctx' = [ctx EXCEPT ![r].upf = @ /\ ~frees]
         /\ hist' = [hist EXCEPT !.addrFrees[r] = IF frees THEN @ + 1 ELSE @,
                                 !.teidFrees[r] = @ + 1]
    ELSE UNCHANGED <<pool, canonical, ctx, hist>>

\* Without a notification the context is removed at once ...
RemoveQuietly(r) ==
    /\ removal[r][FALSE] > 0 /\ lock[r] = None
    /\ removal' = [removal EXCEPT ![r][FALSE] = @ - 1]
    /\ RemoveSMContext(r)
    /\ UNCHANGED <<made, lock, timers, call, calls, upf, amf, ueLock, commanded>>

\* ... with one SMLock is held while the AMF is told.
NotifyStart(r) ==
    /\ removal[r][TRUE] > 0 /\ lock[r] = None
    /\ removal' = [removal EXCEPT ![r][TRUE] = @ - 1]
    /\ lock' = [lock EXCEPT ![r] = "notify"]
    /\ UNCHANGED <<pool, canonical, made, ctx, timers, call, calls, upf, amf, ueLock, commanded, hist>>

\* Mutant: SMLock is not released.
NotifyAndRemove_LockKept(r) ==
    /\ lock[r] = "notify" /\ ueLock = None
    /\ amf' \in {amf, None}
    /\ RemoveSMContext(r)
    /\ UNCHANGED <<made, lock, removal, timers, call, calls, upf, ueLock, commanded>>

\* SmContextStatusNotifyProcedure in the AMF drops what it knows under the
\* session id; the notification may fail.
NotifyAndRemove(r) ==
    /\ lock[r] = "notify" /\ ueLock = None
    /\ amf' \in {amf, None}
    /\ lock' = [lock EXCEPT ![r] = None]
    /\ RemoveSMContext(r)
    /\ UNCHANGED <<made, removal, timers, call, calls, upf, ueLock, commanded>>

-----------------------------------------------------------------------------
(* The goroutine of a timer (NewTimer) and its functions.                  *)

\* The select takes the tick, also when Stop was called: then either may win.
TimerTick(t) ==
    /\ timers[t].pc = "select"
    /\ timers' = [timers EXCEPT ![t].expired = @ + 1,
                                ![t].pc = IF timers[t].expired >= MaxRetry THEN "cancel" ELSE "expire"]
    /\ UNCHANGED <<pool, canonical, made, ctx, lock, removal, call, calls, upf, amf, ueLock, commanded, hist>>

TimerDone(t) ==
    /\ timers[t].pc = "select" /\ timers[t].done
    /\ timers' = [timers EXCEPT ![t].pc = "ended"]
    /\ UNCHANGED <<pool, canonical, made, ctx, lock, removal, call, calls, upf, amf, ueLock, commanded, hist>>

\* The expiry function waits for SMLock ...
ExpireStart(t) ==
    /\ timers[t].pc = "expire" /\ lock[timers[t].ref] = None
    /\ timers' = [timers EXCEPT ![t].pc = "sending"]
    /\ lock' = [lock EXCEPT ![timers[t].ref] = t]
    /\ UNCHANGED <<pool, canonical, made, ctx, removal, call, calls, upf, amf, ueLock, commanded, hist>>

\* ... and sends the command again through the AMF.  When that fails the
\* function of T3592 returns without releasing SMLock.
ExpireSend(t) ==
    /\ timers[t].pc = "sending" /\ ueLock = None
    /\ timers' = [timers EXCEPT ![t].pc = "select"]
    /\ \/ /\ amf # None
          /\ lock' = [lock EXCEPT ![timers[t].ref] = None]
       \/ lock' = IF timers[t].kind = "T3592" THEN lock ELSE [lock EXCEPT ![timers[t].ref] = None]
    /\ UNCHANGED <<pool, canonical, made, ctx, removal, call, calls, upf, amf, ueLock, commanded, hist>>

\* The cancel function forgets the timer; T3592 tells the AMF that the session
\* is released, and leaves the context.
CancelStart(t) ==
    LET r == timers[t].ref IN
    /\ timers[t].pc = "cancel" /\ lock[r] = None
    /\ ctx' = [ctx EXCEPT ![r] = Forget(@, timers[t].kind)]
    /\ IF timers[t].kind = "T3592"
       THEN lock' = [lock EXCEPT ![r] = t] /\ timers' = [timers EXCEPT ![t].pc = "notifying"]
       ELSE lock' = lock /\ timers' = [timers EXCEPT ![t].pc = "ended"]
    /\ UNCHANGED <<pool, canonical, made, removal, call, calls, upf, amf, ueLock, commanded, hist>>

CancelNotify(t) ==
    /\ timers[t].pc = "notifying" /\ ueLock = None
    /\ amf' \in {amf, None}
    /\ lock' = [lock EXCEPT ![timers[t].ref] = None]
    /\ timers' = [timers EXCEPT ![t].pc = "ended"]
    /\ UNCHANGED <<pool, canonical, made, ctx, removal, call, calls, upf, ueLock, commanded, hist>>

-----------------------------------------------------------------------------
(* releaseAllResourcesOfUPF after a lost heartbeat or a restart of the UPF. *)

LossStart(r) ==
    /\ calls < MaxCalls
    /\ r \in pool /\ ctx[r].upf /\ lock[r] = None
    /\ ctx[r].state \in {"Active", "ModificationPending"}
    /\ lock' = [lock EXCEPT ![r] = "loss"]
    /\ calls' = calls + 1
    /\ upf' \in {upf, upf \ {r}}
    /\ hist' = [hist EXCEPT !.failed = @ \cup {r}, !.lost = @ \cup {r}]
    /\ UNCHANGED <<pool, canonical, made, ctx, removal, timers, call, amf, ueLock, commanded>>

\* requestAMFToReleasePDUResources: no token or refused, on its way to the UE, or not
\* transferred to an idle UE, when the AMF is notified and the context removed.
LossRequest(r) ==
    /\ lock[r] = "loss" /\ ueLock = None
    /\ \/ /\ ctx' \in {ctx, [ctx EXCEPT ![r].state = "InActive"]}
          /\ UNCHANGED <<removal, amf, commanded>>
       \/ /\ amf # None
          /\ ctx' = [ctx EXCEPT ![r].state = "InActivePending"]
          /\ commanded' = commanded \cup {r}
          /\ UNCHANGED <<removal, amf>>
       \/ /\ amf # None
          /\ ctx' = [ctx EXCEPT ![r] = RemoveFromAllNF(@)]
          /\ removal' = [removal EXCEPT ![r] = Spawn(@, FALSE)]
          /\ amf' \in {amf, None}
          /\ UNCHANGED commanded
    /\ lock' = [lock EXCEPT ![r] = None]
    /\ UNCHANGED <<pool, canonical, made, timers, call, calls, upf, ueLock, hist>>

-----------------------------------------------------------------------------

Handle(c) ==
    \/ UpdateReleaseRequest(c) \/ UpdateReleaseComplete(c) \/ UpdateModificationRequest(c)
    \/ UpdateModificationEnd(c) \/ UpdateDeactivate(c) \/ UpdateSetupResponse(c)
    \/ UpdateMove(c) \/ UpdateReleaseResponse(c) \/ UpdateDuplicate(c)
    \/ PolicyUpdate(c) \/ Release(c)
CreateStep(c) ==
    LookupDuplicate(c) \/ LocalRelease(c) \/ (\E r \in Refs : NewSMContext(c, r)) \/ AmfStore(c)
ContextStep(r) ==
    \/ Establish(r) \/ EstHandlerAccept(r) \/ EstHandlerReject(r)
    \/ RemoveQuietly(r) \/ NotifyStart(r) \/ NotifyAndRemove(r) \/ LossRequest(r)
TimerStep(t) ==
    TimerDone(t) \/ ExpireStart(t) \/ ExpireSend(t) \/ CancelStart(t) \/ CancelNotify(t)

Next ==
    \/ \E c \in Threads : AmfCreate(c) \/ CreateStep(c) \/ Handle(c)
    \/ \E c \in Threads, op \in Ops \ {"create"}, r \in Refs, locked \in BOOLEAN :
           AmfCall(c, op, r, locked)
    \/ \E r \in Refs : ContextStep(r) \/ LossStart(r)
    \/ \E t \in Timers : TimerTick(t) \/ TimerStep(t)

Spec == Init /\ [][Next]_vars

\* Some goroutine of the SMF or the AMF that can go on does: that is all the
\* scheduler has to guarantee, since the calls and the ticks are bounded.
FairSpec ==
    Spec /\ WF_vars(\/ \E c \in Threads : CreateStep(c) \/ Handle(c)
                    \/ \E r \in Refs : ContextStep(r)
                    \/ \E t \in Timers : TimerStep(t))

-----------------------------------------------------------------------------
(* Properties.                                                             *)

\* The maps and the contexts have their types.
TypeOK ==
    /\ pool \subseteq made /\ made \subseteq Refs /\ canonical \in pool \cup {None}
    /\ \A r \in Refs : /\ ctx[r].state \in States
                       /\ lock[r] \in Holders \cup Timers \cup {None}
    /\ upf \subseteq made /\ amf \in made \cup {None} /\ ueLock \in Threads \cup {None}

\* A context gives back its TEIDs when it leaves the pool and never again, and
\* its address exactly once, however many goroutines were to remove it and
\* whatever a handler does that found it before it was removed.
FreedOnce ==
    /\ TypeOK
    /\ \A r \in made :
          /\ hist.teidFrees[r] = IF r \in pool THEN 0 ELSE 1
          /\ hist.addrFrees[r] <= 1
          /\ r \in hist.leased \ pool => hist.addrFrees[r] = 1

\* When the UE and the RAN have both answered the release, in either order, the
\* context is removed or on its way out, unless a later call has made it Active
\* or set up its AN side again, or its UPF was lost: the loop over the contexts
\* of a lost UPF leaves one InActive in the pool when the AMF refuses.
ReleaseEnds ==
    \A r \in pool :
        r \in (hist.n1 \cap hist.n2) \ hist.lost /\ ctx[r].state = "InActive" /\ ~ctx[r].an =>
            removal[r][TRUE] + removal[r][FALSE] > 0 \/ lock[r] = "notify"

\* A context that was removed, by whichever of its releases, has left no session
\* in the UPF, unless an exchange with the UPF failed.  Two more ways to leave
\* one are named: an answer of the UE or the RAN to a release nobody ordered
\* (pdu_session.go:452 only logs the state) removes the context and nothing
\* else, and a policy decision that changes the data paths may establish a
\* session after the release, or drop the path to a UPF that still has one.
NoUpfLeak == \A r \in made \ pool : r \in upf => r \in hist.failed \cup hist.unasked \cup hist.steered

\* The AMF gets the outcome of an establishment only after its call that
\* created the context has returned.
AnswerFirst ==
    [][\A r \in Refs : lock[r] \in {"accept", "reject"} /\ lock'[r] = None =>
          \A c \in Threads : call[c].pc = "ret" => call[c].ref # r]_vars

\* SMLock was not released by an expiry function of T3592.
LockLost(r) == lock[r] \in Timers /\ timers[lock[r]].pc \notin {"sending", "notifying"}

\* A thread holds the Lock of the UE and waits for the SMLock of a context whose
\* holder waits for the Lock of the UE.
CyclicWait ==
    \E c \in Threads : /\ ueLock = c /\ call[c].pc \in {"lock", "dup"}
                       /\ lock[call[c].ref] \notin {None, "pfcp"}

\* A call returns, unless the AMF and the SMF wait for each other or T3592 has
\* lost the lock of a context: nothing else can hang it.
CallsReturn ==
    \A c \in Threads :
        call[c].pc # "idle" ~> \/ call[c].pc = "idle" \/ CyclicWait
                               \/ \E r \in Refs : LockLost(r)

=============================================================================
