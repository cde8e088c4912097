------------------------------- MODULE AmfGmm -------------------------------
(***************************************************************************)
(* The 5GMM state machine of one UE context of the AMF over 3GPP access:   *)
(* the GMM FSM and its handlers (amf/internal/gmm), the retransmission     *)
(* timers T3550, T3560 and T3570 and what the NGAP handlers do to them     *)
(* (amf/internal/ngap, gmm/common).  The record ue is the AmfUe.           *)
(*                                                                         *)
(* The messages about a UE are handled one at a time, without the Lock of  *)
(* the AmfUe, while every timer and every request of another network       *)
(* function has a goroutine of its own.  A handler that calls another      *)
(* network function ends its step with the call (the field at) and goes on *)
(* in a step of its own.  An operator with several outcomes (a call that   *)
(* may fail, what the UE answers) yields the set of the states it may      *)
(* leave.                                                                  *)
(***************************************************************************)
EXTENDS Integers, FiniteSets

CONSTANTS
    TimerIds,    \* the timer goroutines that may exist at a time (a bound)
    MaxRetry,    \* MaxRetryTimes of the timers
    MaxReleases, \* goroutines of the SBI server that release the context at a time (a bound)
    AfterRace,   \* FALSE: no more messages after a race, only what is under way (a bound)
    None

ASSUME Assumptions ==
    MaxRetry \in Nat /\ MaxReleases \in Nat /\ AfterRace \in BOOLEAN /\ None \notin TimerIds

VARIABLES
    ue,         \* the AmfUe and its timers
    releasing,  \* goroutines of the SBI server that have found the context to release
    crashed,    \* what a goroutine dereferenced that was nil: the process ends
    silent      \* the UE is out of reach and sends nothing more

vars == <<ue, releasing, crashed, silent>>

Kinds == {"T3550", "T3560", "T3570"}

\* No timer goroutine.
Idle == [kind |-> "none", n |-> 0, stopped |-> FALSE]

Nobody == [k \in Kinds |-> None]

\* NewAmfUe, for the first message of a UE on a new N2 connection.
NewAmfUe ==
    [gmm |-> "Deregistered",
     at |-> "none",         \* the call the handler of a message waits for
     ran |-> TRUE,          \* RanUe[3GPP] is set
     rel |-> "none",        \* ReleaseAction of a release command under way
     pool |-> FALSE,        \* the context is in UePool, under its SUPI
     removals |-> 0,        \* how often Remove has run
     sec |-> FALSE,         \* SecurityContextAvailable
     id |-> FALSE,          \* Supi or Suci is known
     pei |-> FALSE,
     reg |-> "none",        \* RegistrationRequest and RegistrationType5GS
     guti |-> FALSE,        \* the UE registers with its 5G-GUTI
     idSent |-> FALSE,      \* IdentityRequestSendTimes > 0
     auth |-> FALSE,        \* AuthenticationCtx is set
     want |-> "none",       \* RequestIdentityType
     ptr |-> Nobody,        \* the fields T3550, T3560 and T3570
     timers |-> [t \in TimerIds |-> Idle],
     cut |-> FALSE,         \* a change of the N2 connection has stopped the timer of a silent UE
     odd |-> FALSE]         \* one of the races named at TimersReachable happened

Init == ue = NewAmfUe /\ releasing = 0 /\ crashed = "no" /\ silent = FALSE

-----------------------------------------------------------------------------
(* Timers and requests.                                                    *)

\* context.NewTimer; the field of the AmfUe is overwritten.
NewTimer(u, k) ==
    LET t == CHOOSE x \in TimerIds : u.timers[x] = Idle
    IN  [u EXCEPT !.timers[t] = [kind |-> k, n |-> 0, stopped |-> FALSE],
                  !.ptr[k] = t]

\* The goroutine waits for the next tick.
Running(x) == x # Idle /\ ~x.stopped /\ x.n <= MaxRetry

\* The goroutines of T3560 and T3570 that have expired for the last time and are
\* in RemoveAmfUe, which calls the UDM before it removes the context.
Cancelling(u) == {t \in TimerIds : u.timers[t].n > MaxRetry}

\* StopT3550, StopT3560 and StopT3570: Timer.Stop puts a value into done, which
\* the goroutine finds when it selects again.  Two goroutines that clear the
\* field at once are StopRace.
Stop(u, k) ==
    IF u.ptr[k] = None THEN u
    ELSE [u EXCEPT !.timers[u.ptr[k]].stopped = TRUE, !.ptr[k] = None]

\* An answer stops the timer of its request; odd when none is running.
StopAfter(u, k) == [Stop(u, k) EXCEPT !.odd = @ \/ u.ptr[k] = None]

\* StopAll5GSMMTimers; when the N2 connection changes, nothing else ends the
\* procedure.
StopAll(u) == Stop(Stop(Stop(u, "T3550"), "T3560"), "T3570")
Cut(u) == [StopAll(u) EXCEPT !.cut = @ \/ (silent /\ u.ptr # Nobody)]

\* SendIdentityRequest, SendAuthenticationRequest, SendSecurityModeCommand and
\* SendRegistrationAccept send a request and start its timer, unless the N2
\* connection has gone or the message cannot be built.
Sent(u, k) == [NewTimer(u, k) EXCEPT !.cut = FALSE]
Send(u, k) == {u} \cup IF u.ran THEN {Sent(u, k)} ELSE {}
SendIdentityRequest(u, type) == {u} \cup IF u.ran THEN {Sent([u EXCEPT !.want = type], "T3570")} ELSE {}

\* RanUe.Remove or DetachRanUe: the N2 connection is gone.
Detach(u) == [u EXCEPT !.ran = FALSE, !.rel = "none"]

\* AmfUe.Remove, without the timers.  No message finds the context any more:
\* unless a handler is at work, the fields that only handlers read are forgotten.
Forget(u) ==
    [u EXCEPT !.sec = FALSE, !.id = FALSE, !.pei = FALSE, !.reg = "none", !.guti = FALSE,
              !.idSent = FALSE, !.auth = FALSE, !.want = "none"]
Discard(u) ==
    LET d == [Detach(u) EXCEPT !.pool = FALSE, !.removals = IF @ = 2 THEN 2 ELSE @ + 1]
    IN  IF u.at = "none" THEN Forget(d) ELSE d

\* Mutant: Remove forgets T3560.
RemoveAmfUe_T3560Runs(u, others) ==
    [Discard(Stop(Stop(u, "T3550"), "T3570")) EXCEPT !.odd = @ \/ others]

\* The end of gmm_common.RemoveAmfUe, after its calls: AmfUe.Remove stops the
\* timers first.  It is odd when others are at work on the context, who are not
\* told.
RemoveAmfUe(u, others) == [Discard(StopAll(u)) EXCEPT !.odd = @ \/ others]

Removed(u) == u.removals > 0

-----------------------------------------------------------------------------
(* The states of the FSM: what entering and leaving them does.  A handler  *)
(* awaits a call; meanwhile a late T3550 may have changed the state, and   *)
(* the FSM has no transition for its event then.                           *)

Await(u, call) == [u EXCEPT !.at = call]
Event(u, state, next) == IF u.gmm = state THEN next ELSE {u}

\* ClearRegistrationRequestData.
ClearRegistration(u) == [u EXCEPT !.reg = "none", !.guti = FALSE, !.idSent = FALSE]

EnterDeregistered(u) == ClearRegistration([u EXCEPT !.gmm = "Deregistered"])
EnterRegistered(u) == ClearRegistration([u EXCEPT !.gmm = "Registered"])

\* ExitEvent of Authentication.
LeaveAuthentication(u) == [u EXCEPT !.auth = FALSE, !.idSent = FALSE]

\* AuthErrorEvent.
AuthError(u) == EnterDeregistered(LeaveAuthentication(u))

\* AuthFailEvent: the RanUe is removed, and RemoveAmfUe calls the SMF, the PCF and
\* the UDM.
AuthFail(u) == Await(Detach(u), "fail")

\* EntryEvent of ContextSetup: HandleInitialRegistration and
\* HandleMobilityAndPeriodicRegistrationUpdating call the NSSF, the UDM and the
\* old AMF.  A message that is not a registration request is dropped.
Register(u) == IF u.reg = "none" THEN u ELSE Await(u, "setup")
EnterContextSetup(u) == Register([u EXCEPT !.gmm = "ContextSetup"])

\* After these calls: a failure ends the registration (a late T3550 may come before
\* the state changes); the equipment identity is asked for when it is not known;
\* an initial registration needs a PCF; else the registration is accepted.
Accept(u) ==
    {EnterDeregistered(u)} \cup Event(u, "ContextSetup", {}) \cup
    IF ~u.pei THEN SendIdentityRequest(u, "imei")
    ELSE IF u.reg = "initial" THEN {Await(u, "policy")}
    ELSE Send(u, "T3550")

\* EntryEvent of SecurityMode.  A valid security context is used as it is.  Else
\* an algorithm is selected and BuildSecurityModeCommand makes the new context
\* available.
EnterSecurityMode(u, valid) ==
    LET s == [LeaveAuthentication(u) EXCEPT !.gmm = "SecurityMode"]
    IN  IF valid THEN {EnterContextSetup(s)}
        ELSE {EnterDeregistered(s), s} \cup
             IF u.ran THEN {[s EXCEPT !.sec = FALSE], Sent([s EXCEPT !.sec = TRUE], "T3560")} ELSE {}

\* AuthenticationProcedure as far as its calls to the NRF and the AUSF.
AuthenticationProcedure(u, valid) ==
    IF ~u.id THEN SendIdentityRequest([u EXCEPT !.idSent = TRUE], "suci")
    ELSE IF valid THEN EnterSecurityMode(u, TRUE)
    ELSE {Await(u, "authenticate")}

-----------------------------------------------------------------------------
(* NAS messages.  A message is handled on the N2 connection of the context, *)
(* or it opens one (Initial UE Message): a context of the pool without a    *)
(* connection is attached to the new RanUe; when the RAN reuses the         *)
(* RAN-UE-NGAP-ID of the connection, that one is cleared first.             *)

Attach(u) == [u EXCEPT !.ran = TRUE]
Reconnect(u) == Attach(Detach(Cut(u)))
Connections(u) ==
    IF u.ran THEN {u} \cup (IF u.pool THEN {Reconnect(u)} ELSE {})
    ELSE IF u.pool THEN {Attach(u)} ELSE {}

\* StartAuthEvent.
StartAuthentication(u, valid) == AuthenticationProcedure([u EXCEPT !.gmm = "Authentication"], valid)

\* HandleRegistrationRequest, and StartAuthEvent when it succeeds.  A request
\* that fails a check leaves what it has set, or nothing.  A reserved type is
\* taken for an initial registration but keeps the security context, which is
\* given up when the container cannot be deciphered (keep).  The context of a
\* UE that comes from another AMF is asked for there.
HandleRegistrationRequest(u, type, identity, keep) ==
    LET v == [u EXCEPT !.reg = IF type = "update" THEN "update" ELSE "initial",
                       !.guti = identity = "guti",
                       !.sec = @ /\ type # "initial" /\ keep,
                       !.id = @ \/ identity = "suci", !.pei = @ \/ identity = "pei"]
    IN  {u, v} \cup IF type = "update" /\ u.gmm = "Deregistered" THEN {}
                    ELSE (UNION {StartAuthentication(v, b) : b \in {FALSE, v.sec}})
                         \cup IF identity = "guti" THEN {Await(v, "transfer")} ELSE {}

\* contextTransferFromOldAmf has failed, or brings identity and security context.
HandleTransfer(u) ==
    StartAuthentication([u EXCEPT !.sec = TRUE, !.id = TRUE], TRUE)
        \cup UNION {StartAuthentication(u, b) : b \in {FALSE, u.sec}}

\* The AUSF has sent a challenge for AuthenticationProcedure, or none.
HandleChallenge(u) ==
    Event(u, "Authentication", {AuthError(u)}) \cup Send([u EXCEPT !.auth = TRUE], "T3560")

\* HandleIdentityResponse, then the procedure that had asked goes on.
HandleIdentityResponse(u, k) ==
    LET s == StopAfter(u, "T3570")
        v == [s EXCEPT !.id = @ \/ k = "suci", !.pei = @ \/ k = "imei"]
    IN  {s} \cup IF u.gmm = "Authentication"
                 THEN UNION {AuthenticationProcedure([v EXCEPT !.guti = FALSE], b) :
                                 b \in {FALSE, v.sec}}
                 ELSE {Register(v)}

\* A refused 5G-GUTI may be stale, so the SUCI is asked for once.
Refuse(u) ==
    IF u.guti /\ ~u.idSent THEN SendIdentityRequest([u EXCEPT !.idSent = TRUE], "suci")
    ELSE Event(u, "Authentication", {AuthFail(u)})

\* Mutant: T3560 is not stopped.
HandleAuthenticationResponse_NoStop(u) ==
    {u} \cup IF u.auth THEN {Await(u, "confirm")} \cup Refuse(u) ELSE {}

\* HandleAuthenticationResponse stops T3560, refuses a wrong response and asks the
\* AUSF about the others.
HandleAuthenticationResponse(u) ==
    LET s == StopAfter(u, "T3560")
    IN  {s} \cup IF s.auth THEN {Await(s, "confirm")} \cup Refuse(s) ELSE {}

\* The AUSF fails, wants another round, confirms or refuses.
HandleConfirmation(u) ==
    {u} \cup Send(u, "T3560") \cup Refuse(u)
        \cup Event(u, "Authentication",
                   UNION {EnterSecurityMode([u EXCEPT !.id = TRUE], b) : b \in {FALSE, u.sec}})

\* HandleAuthenticationFailure: the authentication fails, or it is tried again
\* with another key set identifier or after a resynchronization by the AUSF; a
\* message without the parameter of the resynchronization ends it there.
HandleAuthenticationFailure(u) ==
    LET s == StopAfter(u, "T3560")
    IN  {AuthFail(s), Await(s, "resync")} \cup Send(s, "T3560")

\* HandleSecurityModeComplete: an undecodable IMEISV or container ends it early,
\* a Service Request in the container is refused.
HandleSecurityModeComplete(u) ==
    LET s == StopAfter(u, "T3560")
    IN  {s, [EnterDeregistered(s) EXCEPT !.rel = "normal"]}
            \cup {EnterContextSetup([s EXCEPT !.pei = p]) : p \in {s.pei, TRUE}}

\* HandleSecurityModeReject and SecurityModeFailEvent.
HandleSecurityModeReject(u) == {EnterDeregistered(StopAfter(u, "T3560"))}

\* SendUEContextReleaseCommand.
Command(u, action) == IF u.ran THEN [u EXCEPT !.rel = action] ELSE u

\* HandleDeregistrationRequest after its calls: DeregistrationAcceptEvent goes to
\* the states of the target access; here the other access is deregistered
\* already.
HandleDeregistration(u, target) ==
    IF target = "non3gpp" THEN {u}
    ELSE LET c == Command(u, "context")
         IN  Event(c, "DeregistrationInitiated", {EnterDeregistered(c)})

Up == crashed = "no"
Room == \E t \in TimerIds : ue.timers[t] = Idle

\* A NAS message of the UE is handled after the one before it.  TimerIds bounds
\* the timers it may find.
Bounded == ue.odd => AfterRace
Receive ==
    Up /\ ue.at = "none" /\ ~silent /\ Room /\ Bounded /\ UNCHANGED <<releasing, silent>>

\* The handler goes on after a call.
Return(call) == Up /\ ue.at = call /\ Room /\ UNCHANGED <<releasing, silent>>
Handler == Await(ue, "none")

\* DeRegistered and Registered take a Registration Request, the other states
\* drop it ("state mismatch").
RegistrationRequest(type, identity, keep) ==
    /\ Receive /\ UNCHANGED crashed
    /\ \E c \in Connections(ue) :
          ue' \in IF c.gmm \in {"Deregistered", "Registered"}
                 THEN HandleRegistrationRequest(c, type, identity, keep) ELSE {c}

TransferReturns == Return("transfer") /\ ue' \in HandleTransfer(Handler) /\ UNCHANGED crashed

AuthenticateReturns == Return("authenticate") /\ ue' \in HandleChallenge(Handler) /\ UNCHANGED crashed

\* HandleServiceRequest calls the SMF; a refusal releases the N2 connection.
ServiceRequest ==
    /\ Receive /\ UNCHANGED crashed
    /\ \E c \in Connections(ue) :
          ue' = IF c.gmm \in {"Deregistered", "Registered"} THEN Await(c, "service") ELSE c

ServiceReturns ==
    /\ Return("service") /\ ue' \in {Handler, Command(Handler, "normal")} /\ UNCHANGED crashed

\* The UE may send an answer at any time, asked for or not; it is dropped unless
\* the state takes it.  nas_security.Decode lets an equipment identity, a
\* Security Mode Complete and a Registration Complete pass only with a security
\* context.
Answer(states) == Receive /\ ue.ran /\ ue.gmm \in states

IdentityResponse(k) ==
    /\ Answer({"Authentication", "ContextSetup"}) /\ k = ue.want /\ (k = "imei" => ue.sec)
    /\ ue' \in HandleIdentityResponse(ue, k)
    /\ UNCHANGED crashed

AuthenticationResponse ==
    /\ Answer({"Authentication"})
    /\ ue' \in HandleAuthenticationResponse(ue)
    /\ UNCHANGED crashed

ConfirmReturns == Return("confirm") /\ ue' \in HandleConfirmation(Handler) /\ UNCHANGED crashed

\* AuthenticationCtx is used without a check.
AuthenticationFailure ==
    /\ Answer({"Authentication"})
    /\ ue' \in IF ue.auth THEN HandleAuthenticationFailure(ue) ELSE {StopAfter(ue, "T3560")}
    /\ crashed' = IF ue.auth THEN crashed ELSE "auth"

ResyncReturns ==
    /\ Return("resync") /\ UNCHANGED crashed
    /\ ue' \in {Handler} \cup Send([Handler EXCEPT !.auth = TRUE], "T3560")

\* The authentication has failed: RemoveAmfUe goes on, then the FSM.
FailReturns ==
    /\ Return("fail") /\ UNCHANGED crashed
    /\ ue' = AuthError(RemoveAmfUe(Handler, releasing > 0 \/ Cancelling(ue) # {}))

SecurityModeComplete ==
    /\ Answer({"SecurityMode"}) /\ ue.sec
    /\ ue' \in HandleSecurityModeComplete(ue)
    /\ UNCHANGED crashed

SecurityModeReject ==
    /\ Answer({"SecurityMode"})
    /\ ue' \in HandleSecurityModeReject(ue)
    /\ UNCHANGED crashed

\* The registration goes on with a request that the cancel function of a late
\* T3550 may have cleared.
SetupReturns ==
    /\ Return("setup")
    /\ IF ue.reg = "none" THEN crashed' = "request" /\ UNCHANGED ue
       ELSE ue' \in Accept(Handler) /\ UNCHANGED crashed

\* HandleInitialRegistration has found a PCF, for which it searches until it finds
\* one, and has created the policy association; it enters the context into the
\* pool.
PolicyReturns ==
    /\ Return("policy") /\ UNCHANGED crashed
    /\ ue' \in Send([Handler EXCEPT !.pool = TRUE], "T3550")

\* Mutant: T3550 is left running.
RegistrationComplete_T3550Runs ==
    /\ Answer({"ContextSetup"}) /\ ue.sec
    /\ ue' = Await([ue EXCEPT !.odd = @ \/ ue.ptr["T3550"] = None], "complete")
    /\ UNCHANGED crashed

\* HandleRegistrationComplete as far as its calls to the SMF.
RegistrationComplete ==
    /\ Answer({"ContextSetup"}) /\ ue.sec
    /\ ue' = Await(StopAfter(ue, "T3550"), "complete")
    /\ UNCHANGED crashed

\* The rest of HandleRegistrationComplete: it reads the registration request and
\* releases the N2 connection when the UE has nothing to send.
CompleteReturns ==
    /\ Return("complete")
    /\ IF ue.reg = "none" THEN crashed' = "request" /\ UNCHANGED ue
       ELSE /\ \E c \in {Handler, Command(Handler, "normal")} :
                  ue' \in Event(c, "ContextSetup", {EnterRegistered(c)})
            /\ UNCHANGED crashed

\* InitDeregistrationEvent: HandleDeregistrationRequest calls the SMF, the PCF and
\* the UDM.
DeregistrationRequest ==
    /\ Receive /\ ue.ran /\ ue.gmm = "Registered" /\ UNCHANGED crashed
    /\ ue' = Await([ue EXCEPT !.gmm = "DeregistrationInitiated"], "deregister")

DeregisterReturns(target) ==
    /\ Return("deregister") /\ ue' \in HandleDeregistration(Handler, target) /\ UNCHANGED crashed

\* The UE leaves the coverage for good while a request waits for it.
FallSilent ==
    /\ Up /\ ~silent /\ ue.ptr # Nobody /\ silent' = TRUE
    /\ UNCHANGED <<ue, releasing, crashed>>

-----------------------------------------------------------------------------
(* What the RAN and other network functions do.                            *)

Ngap ==
    Up /\ ue.at = "none" /\ ue.ran /\ Bounded /\ UNCHANGED <<releasing, crashed, silent>>

\* An Initial UE Message that reuses the RAN-UE-NGAP-ID and names another
\* context: this one loses its connection.
InitialUEMessageOfAnother == Ngap /\ ue' = Detach(Cut(ue))

\* handleUEContextReleaseRequest: the timers are stopped; a context that is not
\* the one of its SUPI in the pool is detached; of another one the SMF deactivates
\* or releases the sessions, and it is released with the connection unless it is
\* registered.
UEContextReleaseRequest ==
    /\ Ngap
    /\ ue' = IF ~ue.pool THEN Detach(Cut(ue))
             ELSE Await(Cut(ue), IF ue.gmm = "Registered" THEN "deactivate" ELSE "sessions")

ReleaseRequestReturns ==
    /\ UNCHANGED crashed
    /\ \/ Return("deactivate") /\ ue' = Command(Handler, "normal")
       \/ Return("sessions") /\ ue' = Command(Handler, "context")

\* handleUEContextReleaseComplete calls the SMF; it does not stop the timers.
UEContextReleaseComplete == Ngap /\ ue.rel # "none" /\ ue' = Await(ue, ue.rel)

\* Then the RanUe is removed, or, after the Lock is free, the context.
ReleaseReturns ==
    /\ UNCHANGED crashed
    /\ \/ Return("normal") /\ ue' = Detach(Handler)
       \/ Return("context") /\ ue' = RemoveAmfUe(Handler, releasing > 0 \/ Cancelling(ue) # {})

\* The SCTP association of the RAN is lost, or it resets the interface: all its
\* RanUe are removed.
RanLost == Ngap /\ ue' = Detach(ue)

\* Mutant: the timer is not looked at.
Settle_Always(u) == [u EXCEPT !.gmm = "Registered"]

\* A running T3550 is taken for a registration that has succeeded.
Settle(u) == IF u.ptr["T3550"] = None THEN u ELSE [u EXCEPT !.gmm = "Registered"]

\* removeRanUeByInvalidId, after an error indication or a wrong identifier.
ErrorIndication == Ngap /\ ue' = Detach(Cut(Settle(ue)))

\* handleHandoverNotify calls the SMF; then, in
\* AttachRanUeToAmfUeAndReleaseOldHandover, the RanUe of the target takes the
\* place of the source.
HandoverNotify == Ngap /\ ue.sec /\ ue' = Await(ue, "handover")

HandoverReturns ==
    /\ Return("handover") /\ UNCHANGED crashed
    /\ ue' = Attach(Detach(Cut(Settle(Handler))))

\* A goroutine of the SBI server finds the context in the pool: ReleaseUEContext
\* and RegistrationStatusUpdate, which wait for its Lock, or a Deregistration
\* Notification, which does not, but calls the SMF, the UDM and the PCF.
FindUEContext ==
    /\ Up /\ ue.pool /\ releasing < MaxReleases /\ releasing' = releasing + 1
    /\ UNCHANGED <<ue, crashed, silent>>

\* Then it removes the context, also if it has been removed meanwhile.
ReleaseUEContext ==
    /\ Up /\ releasing > 0 /\ releasing' = releasing - 1
    /\ ue' = RemoveAmfUe(ue, ue.at # "none" \/ releasing > 1 \/ Cancelling(ue) # {})
    /\ UNCHANGED <<crashed, silent>>

-----------------------------------------------------------------------------
(* Timers (context/timer.go and the functions given to NewTimer).          *)

\* The last expiry: registered without an answer, or the context is to be removed.
Cancel(u, k) ==
    CASE k = "T3550" -> EnterRegistered([u EXCEPT !.ptr[k] = None])
      [] k = "T3560" -> [u EXCEPT !.ptr[k] = None]
      [] k = "T3570" -> u

\* An expiry before the last one: the request is sent again.  T3550 without a
\* RanUe clears its field, and runs on.
Expire(u, k) ==
    IF k = "T3550" /\ ~u.ran THEN [u EXCEPT !.ptr[k] = None, !.odd = TRUE] ELSE u

\* A tick: a goroutine that also finds done ready may still take it, and ends
\* after it.
Tick(t) ==
    /\ Up /\ ue.timers[t] # Idle /\ ue.timers[t].n <= MaxRetry
    /\ UNCHANGED <<releasing, crashed, silent>>
    /\ LET x == ue.timers[t]
           u == [ue EXCEPT !.odd = @ \/ x.stopped]
           last == x.n = MaxRetry
           v == IF last THEN Cancel(u, x.kind) ELSE Expire(u, x.kind)
       IN  ue' = [v EXCEPT !.timers[t] = IF (last /\ x.kind = "T3550") \/ (~last /\ x.stopped) THEN Idle
                                         ELSE [x EXCEPT !.n = x.n + 1]]

\* Mutant: the last expiry removes nothing.
CancelReturns_Nothing(t) ==
    /\ Up /\ ue.timers[t].n > MaxRetry /\ UNCHANGED <<releasing, crashed, silent>>
    /\ ue' = [ue EXCEPT !.timers[t] = Idle]

\* The cancel function of T3560 and T3570 removes the context.
CancelReturns(t) ==
    /\ Up /\ ue.timers[t].n > MaxRetry /\ UNCHANGED <<releasing, crashed, silent>>
    /\ LET others == releasing > 0 \/ ue.at # "none" \/ Cancelling(ue) # {t} \/ ue.timers[t].stopped
       IN  ue' = [RemoveAmfUe(ue, others) EXCEPT !.timers[t] = Idle]

\* The goroutine finds done and returns.
TimerEnds(t) ==
    /\ Up /\ ue.timers[t].stopped /\ ue.timers[t].n <= MaxRetry
    /\ ue' = [ue EXCEPT !.timers[t] = Idle]
    /\ UNCHANGED <<releasing, crashed, silent>>

\* Stop compares the field with nil and uses it afterwards, without a lock.  When
\* the expiry function of the timer, the handler of a message or a removal clears
\* it in between, it is nil, or the channel done is closed already.
StopRace(k) ==
    /\ Up /\ ue.ptr[k] # None
    /\ LET x == ue.timers[ue.ptr[k]]
           expiry == (x.n = MaxRetry /\ k # "T3570") \/ (k = "T3550" /\ ~ue.ran)
           message == (ue.at = "none" /\ ue.ran) \/ ue.at = "handover"
           removal == releasing > 0 \/ Cancelling(ue) # {} \/ ue.at \in {"fail", "context"}
       IN  (expiry /\ (message \/ removal)) \/ (message /\ removal) \/ releasing > 1
    /\ crashed' = "timer" /\ UNCHANGED <<ue, releasing, silent>>

-----------------------------------------------------------------------------
\* The other network functions answer.
Returns ==
    \/ TransferReturns \/ AuthenticateReturns \/ ServiceReturns \/ ConfirmReturns
    \/ ResyncReturns \/ FailReturns \/ SetupReturns \/ CompleteReturns
    \/ \E target \in {"3gpp", "non3gpp", "both"} : DeregisterReturns(target)
    \/ ReleaseRequestReturns \/ ReleaseReturns \/ HandoverReturns

Next ==
    \/ \E type \in {"initial", "reserved", "update"}, id \in {"suci", "guti", "pei", "none"},
          keep \in BOOLEAN : RegistrationRequest(type, id, keep)
    \/ \E k \in {"suci", "imei"} : IdentityResponse(k)
    \/ ServiceRequest \/ AuthenticationResponse \/ AuthenticationFailure
    \/ SecurityModeComplete \/ SecurityModeReject
    \/ RegistrationComplete \/ DeregistrationRequest \/ FallSilent
    \/ Returns \/ PolicyReturns
    \/ InitialUEMessageOfAnother \/ UEContextReleaseRequest \/ UEContextReleaseComplete
    \/ RanLost \/ ErrorIndication \/ HandoverNotify
    \/ FindUEContext \/ ReleaseUEContext
    \/ \E t \in TimerIds : Tick(t) \/ TimerEnds(t) \/ CancelReturns(t)
    \/ \E k \in Kinds : StopRace(k)

Spec == Init /\ [][Next]_vars

\* A timer expires and its cancel function returns.  Nothing makes the UE send
\* anything, the RAN answer a command or another network function answer a call.
FairSpec == Spec /\ \A t \in TimerIds : WF_vars(Tick(t)) /\ WF_vars(CancelReturns(t))

-----------------------------------------------------------------------------
(* Properties.                                                             *)

\* The fields of the context and the timers keep their types.
TypeOK ==
    /\ ue.gmm \in {"Deregistered", "Authentication", "SecurityMode", "ContextSetup",
                   "Registered", "DeregistrationInitiated"}
    /\ ue.rel \in {"none", "normal", "context"} /\ ue.reg \in {"none", "initial", "update"}
    /\ ue.ptr \in [Kinds -> TimerIds \cup {None}]
    /\ \A t \in TimerIds : ue.timers[t] = Idle \/ ue.timers[t] \in
          [kind : Kinds, n : 0 .. MaxRetry + 1, stopped : BOOLEAN]

\* Every timer that runs is the one the context names, so that the next message
\* of the procedure, the end of the N2 connection or Remove stops it.  It takes a
\* race to lose one (odd): an answer without a running timer, sent twice or late,
\* starts a timer over a running one; T3550 expires without a RanUe and clears
\* its field; a stopped timer still expires; a goroutine removes the context
\* while another one is at work on it (a handler that awaits a call or the Lock,
\* the SBI server, a timer that has expired for the last time).
TimersReachable ==
    /\ TypeOK
    /\ ~ue.odd => \A t \in TimerIds : Running(ue.timers[t]) => ue.ptr[ue.timers[t].kind] = t

\* A context that has been removed is gone: it has no N2 connection, nothing finds
\* it in the pool, no timer of it runs on, and it is not removed again, which would
\* free the TMSI of another UE and take the newer context of the SUPI out of the
\* pool.  Only the races named above break this.
RemovedForGood ==
    ~ue.odd /\ Removed(ue) =>
        /\ ue.removals = 1 /\ ~ue.ran /\ ~ue.pool
        /\ \A t \in TimerIds : ~Running(ue.timers[t])

\* A UE becomes registered only with a security context, whether it answers, the
\* last expiry of T3550 ends the wait for the answer or the N2 connection
\* changes meanwhile.
RegisteredSecured ==
    [][~ue'.odd /\ ue.gmm # "Registered" /\ ue'.gmm = "Registered" => ue'.sec]_vars

\* A handler finds the registration request and the authentication context it
\* dereferences, also after a call, unless one of these races has happened.
\* Nothing is said of the fields of the timers (StopRace).
AnswersFindTheirData == ~ue.odd => crashed \notin {"request", "auth"}

\* A request that waits for a UE out of reach ends: its timer registers the UE or
\* removes the context, unless a change of the N2 connection stops it.  Nothing
\* is said of a procedure without a timer: a handler that returned early, or
\* that searches for a PCF.
ProcedureEnds ==
    silent /\ ue.ptr # Nobody ~>
        \/ ue.gmm \in {"Deregistered", "Registered"}
        \/ Removed(ue) \/ ue.cut \/ ~Up

=============================================================================
