---------------------------- MODULE AmfGmmProofs ----------------------------
(***************************************************************************)
(* The timers, the removal, the data and the security of a UE context of   *)
(* AmfGmm, for every number of timer goroutines, retries and goroutines of *)
(* the SBI server, and for messages after a race as well, as long as none  *)
(* of the races marked by odd has happened.                                *)
(***************************************************************************)
EXTENDS AmfGmm, TLAPS

States == {"Deregistered", "Authentication", "SecurityMode", "ContextSetup",
           "Registered", "DeregistrationInitiated"}

\* The calls during which no request waits for the UE, and the others.
Still == {"transfer", "authenticate", "confirm", "resync", "setup", "policy", "complete",
          "fail", "deregister", "deactivate", "sessions"}
Calls == Still \cup {"none", "service", "normal", "context", "handover"}

Timer == [kind : Kinds \cup {"none"}, n : 0 .. MaxRetry + 1, stopped : BOOLEAN]

AmfUe ==
    [gmm : States, at : Calls, ran : BOOLEAN, rel : {"none", "normal", "context"},
     pool : BOOLEAN, removals : 0 .. 2, sec : BOOLEAN, id : BOOLEAN, pei : BOOLEAN,
     reg : {"none", "initial", "update"}, guti : BOOLEAN, idSent : BOOLEAN, auth : BOOLEAN,
     want : {"none", "suci", "imei"}, ptr : [Kinds -> TimerIds \cup {None}],
     timers : [TimerIds -> Timer], cut : BOOLEAN, odd : BOOLEAN]

\* A context whose fields name goroutines of their kind that nobody has stopped.
Typed(u) ==
    /\ u \in AmfUe
    /\ \A t \in TimerIds : u.timers[t] # Idle => u.timers[t].kind \in Kinds
    /\ \A k \in Kinds : u.ptr[k] # None =>
          u.timers[u.ptr[k]].kind = k /\ ~u.timers[u.ptr[k]].stopped

Reached(u) ==
    \A t \in TimerIds : Running(u.timers[t]) => u.ptr[u.timers[t].kind] = t

\* A procedure waits for one answer at a time, and the timer fits its state.
OneWait(u) ==
    /\ \A j, k \in Kinds : u.ptr[j] # None /\ u.ptr[k] # None => j = k
    /\ u.ptr["T3550"] # None => u.gmm = "ContextSetup" /\ u.reg # "none"
    /\ u.ptr["T3560"] # None => u.gmm \in {"Authentication", "SecurityMode"}
                                /\ (u.gmm = "Authentication" => u.auth)
    /\ u.ptr["T3570"] # None => u.gmm \in {"Authentication", "ContextSetup"}

\* The call fits the state and what the handler reads after it.
Asks(u, call) ==
    /\ call \in {"setup", "policy", "complete"} => u.gmm = "ContextSetup" /\ u.reg # "none"
    /\ call \in {"authenticate", "confirm", "resync", "fail"} => u.gmm = "Authentication"
    /\ call = "confirm" => u.auth

Waits(u) == (u.at \in Still => u.ptr = Nobody) /\ Asks(u, u.at)

\* Nothing finds a removed context any more, and nobody is at work on it.
Gone(u) ==
    /\ u.removals <= 1
    /\ u.removals > 0 => ~u.ran /\ ~u.pool /\ u.ptr = Nobody /\ u.at = "none" /\ Cancelling(u) = {}

Secured(u) == u.gmm = "ContextSetup" /\ u.removals = 0 => u.sec

Calm(u) == Reached(u) /\ OneWait(u) /\ Waits(u) /\ Gone(u) /\ Secured(u)

Sound(u) == Typed(u) /\ (~u.odd => Calm(u))

\* The inductive invariant.
IInv ==
    /\ Sound(ue)
    /\ crashed \in {"request", "auth"} => ue.odd
    /\ releasing \in Nat
    /\ ~ue.odd /\ releasing > 0 => ue.removals = 0

HasRoom(u) == \E t \in TimerIds : u.timers[t] = Idle

\* A handler is at work, no procedure waits, and another one may start.
Clear(u) ==
    /\ Sound(u) /\ u.at = "none" /\ HasRoom(u)
    /\ ~u.odd => u.ptr = Nobody /\ u.removals = 0

\* v differs from u in what a handler sets, not in the timers or the call.
SameTimers(u, v) ==
    /\ v \in AmfUe
    /\ v.timers = u.timers /\ v.ptr = u.ptr /\ v.at = u.at
    /\ v.odd = u.odd /\ v.removals = u.removals

\* v agrees with u in what the invariant says of the procedure, too.
SameProcedure(u, v) ==
    /\ SameTimers(u, v)
    /\ v.gmm = u.gmm /\ v.reg = u.reg /\ v.auth = u.auth /\ v.sec = u.sec
    /\ ~u.odd => u.removals = 0 \/ (v.ran \/ v.pool => u.ran \/ u.pool)

\* What every handler keeps.
Handled(u, v) ==
    /\ Sound(v)
    /\ u.odd => v.odd
    /\ ~v.odd => v.removals = u.removals /\ (v.gmm = "Registered" => u.gmm = "Registered")

-----------------------------------------------------------------------------
(* Steps that leave the timers alone.                                      *)

LEMMA HandledTrans ==
    ASSUME NEW u, NEW v, NEW w, Handled(u, v), Handled(v, w)
    PROVE  Handled(u, w)
BY DEF Handled

\* First something is set that leaves the timers alone.
LEMMA HandledFrom ==
    ASSUME NEW u, NEW w, SameTimers(u, w), w.gmm = "Registered" => u.gmm = "Registered",
           NEW v, Handled(w, v)
    PROVE  Handled(u, v)
BY DEF Handled, SameTimers

LEMMA HandledSelf ==
    ASSUME NEW u, Sound(u)
    PROVE  Handled(u, u)
BY DEF Handled

\* Between two procedures the state of the FSM may change.
LEMMA ClearKept ==
    ASSUME NEW u, Clear(u), NEW v, SameTimers(u, v), ~v.odd /\ v.gmm = "ContextSetup" => v.sec
    PROVE  Clear(v) /\ Sound(v) /\ v.odd = u.odd
<1>1. Typed(v)
    BY DEF Clear, Sound, Typed, SameTimers
<1>2. ASSUME ~v.odd PROVE Calm(v)
    <2>1. Calm(u) /\ v.ptr = Nobody /\ v.removals = 0 /\ v.at = "none"
        BY <1>2 DEF Clear, Sound, SameTimers
    <2>2. Reached(v)
        BY <2>1 DEF Calm, Reached, SameTimers
    <2>3. OneWait(v) /\ Gone(v)
        BY <2>1 DEF OneWait, Gone, Nobody, Kinds
    <2>4. Waits(v)
        BY <2>1 DEF Waits, Asks, Still
    <2> QED BY <1>2, <2>2, <2>3, <2>4 DEF Calm, Secured
<1> QED BY <1>1, <1>2 DEF Clear, Sound, SameTimers, HasRoom

\* The same when the context may be removed already.
LEMMA QuietKept ==
    ASSUME NEW u, Sound(u), u.at = "none", ~u.odd => u.ptr = Nobody, NEW v, SameTimers(u, v),
           ~v.odd => Secured(v), v.ran \/ v.pool => u.ran \/ u.pool
    PROVE  Sound(v)
<1>1. Typed(v)
    BY DEF Sound, Typed, SameTimers
<1>2. ASSUME ~v.odd PROVE Calm(v)
    <2>1. Calm(u) /\ v.ptr = Nobody /\ v.removals = u.removals /\ v.at = "none"
        BY <1>2 DEF Sound, SameTimers
    <2>2. Reached(v)
        BY <2>1 DEF Calm, Reached, SameTimers
    <2>3. OneWait(v)
        BY <2>1 DEF OneWait, Nobody, Kinds
    <2>4. Cancelling(v) = Cancelling(u)
        BY DEF Cancelling, SameTimers
    <2>5. Gone(v)
        BY <2>1, <2>4 DEF Gone, Calm
    <2>6. Waits(v)
        BY <2>1 DEF Waits, Asks, Still
    <2> QED BY <1>2, <2>2, <2>3, <2>5, <2>6 DEF Calm
<1> QED BY <1>1, <1>2 DEF Sound

\* While a procedure goes on, its state and what it needs stay.
LEMMA SoundKept ==
    ASSUME NEW u, Sound(u), NEW v, SameProcedure(u, v)
    PROVE  Handled(u, v)
<1>1. Typed(v)
    BY DEF Sound, Typed, SameTimers, SameProcedure
<1>2. ASSUME ~v.odd PROVE Calm(v)
    <2>1. Calm(u)
        BY <1>2 DEF Sound, SameTimers, SameProcedure
    <2>2. Reached(v)
        BY <2>1 DEF Calm, Reached, SameTimers, SameProcedure
    <2>3. OneWait(v)
        BY <2>1 DEF Calm, OneWait, SameTimers, SameProcedure
    <2>4. Cancelling(v) = Cancelling(u)
        BY DEF Cancelling, SameTimers, SameProcedure
    <2>5. Gone(v)
        BY <1>2, <2>1, <2>4 DEF Calm, Gone, SameTimers, SameProcedure
    <2>6. Waits(v)
        BY <2>1 DEF Calm, Waits, Asks, SameTimers, SameProcedure
    <2>7. Secured(v)
        BY <2>1 DEF Calm, Secured, SameTimers, SameProcedure
    <2> QED BY <2>2, <2>3, <2>5, <2>6, <2>7 DEF Calm
<1> QED BY <1>1, <1>2 DEF Sound, Handled, SameTimers, SameProcedure

\* A handler begins to wait for a call, or goes on after it.
LEMMA AwaitFacts ==
    ASSUME NEW u \in AmfUe, NEW call \in Calls
    PROVE  /\ Await(u, call) \in AmfUe /\ Await(u, call).at = call
           /\ Await(u, call).timers = u.timers /\ Await(u, call).ptr = u.ptr
           /\ Await(u, call).odd = u.odd /\ Await(u, call).removals = u.removals
           /\ Await(u, call).gmm = u.gmm /\ Await(u, call).reg = u.reg
           /\ Await(u, call).auth = u.auth /\ Await(u, call).sec = u.sec
           /\ Await(u, call).ran = u.ran /\ Await(u, call).pool = u.pool
           /\ Await(u, call).rel = u.rel
<1>1. Await(u, call) \in AmfUe
    BY DEF Await, AmfUe
<1> QED BY <1>1 DEF Await, AmfUe

LEMMA AwaitSound ==
    ASSUME NEW u, Sound(u), NEW call \in Calls,
           ~u.odd => /\ call = "none" \/ u.removals = 0
                     /\ call \in Still => u.ptr = Nobody
                     /\ Asks(u, call)
    PROVE  Handled(u, Await(u, call))
<1> DEFINE v == Await(u, call)
<1>1. u \in AmfUe
    BY DEF Sound, Typed
<1>2. /\ v \in AmfUe /\ v.at = call /\ v.timers = u.timers /\ v.ptr = u.ptr /\ v.odd = u.odd
      /\ v.removals = u.removals /\ v.gmm = u.gmm /\ v.reg = u.reg /\ v.auth = u.auth
      /\ v.sec = u.sec /\ v.ran = u.ran /\ v.pool = u.pool
    BY <1>1, AwaitFacts
<1> HIDE DEF v
<1>3. Typed(v)
    BY <1>2 DEF Sound, Typed
<1>4. ASSUME ~v.odd PROVE Calm(v)
    <2>1. Calm(u)
        BY <1>2, <1>4 DEF Sound
    <2>2. Reached(v)
        BY <1>2, <2>1 DEF Calm, Reached
    <2>3. OneWait(v)
        BY <1>2, <2>1 DEF Calm, OneWait
    <2>4. Cancelling(v) = Cancelling(u)
        BY <1>2 DEF Cancelling
    <2>5. Gone(v)
        BY <1>2, <1>4, <2>1, <2>4 DEF Calm, Gone
    <2>6. Waits(v)
        BY <1>2, <1>4 DEF Waits, Asks
    <2>7. Secured(v)
        BY <1>2, <2>1 DEF Calm, Secured
    <2> QED BY <2>2, <2>3, <2>5, <2>6, <2>7 DEF Calm
<1> QED BY <1>2, <1>3, <1>4 DEF Handled, Sound, v

LEMMA AwaitClear ==
    ASSUME NEW u, Clear(u), NEW call \in Calls, ~u.odd => Asks(u, call)
    PROVE  Handled(u, Await(u, call))
BY AwaitSound DEF Clear

\* The N2 connection goes.
LEMMA DetachFacts ==
    ASSUME NEW u \in AmfUe
    PROVE  /\ SameProcedure(u, Detach(u)) /\ SameTimers(u, Detach(u))
           /\ Detach(u).gmm = u.gmm /\ Detach(u).reg = u.reg /\ Detach(u).sec = u.sec
           /\ Detach(u).ran = FALSE /\ Detach(u).pool = u.pool
<1>1. Detach(u) \in AmfUe
    BY DEF AmfUe, Detach
<1> QED BY <1>1 DEF AmfUe, Detach, SameTimers, SameProcedure

LEMMA DetachSound ==
    ASSUME NEW u, Sound(u)
    PROVE  Handled(u, Detach(u))
BY DetachFacts, SoundKept DEF Sound, Typed

LEMMA RelSound ==
    ASSUME NEW u, Sound(u), NEW r \in {"none", "normal", "context"}
    PROVE  /\ Handled(u, [u EXCEPT !.rel = r]) /\ SameTimers(u, [u EXCEPT !.rel = r])
           /\ [u EXCEPT !.rel = r].gmm = u.gmm /\ [u EXCEPT !.rel = r].reg = u.reg
           /\ [u EXCEPT !.rel = r].sec = u.sec
<1> DEFINE v == [u EXCEPT !.rel = r]
<1>1. u \in AmfUe
    BY DEF Sound, Typed
<1>2. v \in AmfUe
    BY <1>1 DEF AmfUe
<1>3. SameProcedure(u, v)
    BY <1>1, <1>2 DEF AmfUe, SameTimers, SameProcedure
<1> HIDE DEF v
<1>4. Handled(u, v)
    BY <1>3, SoundKept
<1> QED BY <1>3, <1>4 DEF SameProcedure, v

LEMMA CommandSound ==
    ASSUME NEW u, Sound(u), NEW r \in {"normal", "context"}
    PROVE  /\ Handled(u, Command(u, r)) /\ SameTimers(u, Command(u, r))
           /\ Command(u, r).gmm = u.gmm /\ Command(u, r).reg = u.reg /\ Command(u, r).sec = u.sec
<1>1. SameTimers(u, u) /\ Handled(u, u)
    BY HandledSelf DEF SameTimers, Sound, Typed
<1>2. CASE u.ran
    BY <1>2, RelSound DEF Command
<1>3. CASE ~u.ran
    BY <1>1, <1>3 DEF Command
<1> QED BY <1>2, <1>3

-----------------------------------------------------------------------------
(* Starting and stopping timers.                                           *)

\* The goroutine that is stopped is the one of that kind.
LEMMA StopFacts ==
    ASSUME NEW u, Typed(u), NEW k \in Kinds
    PROVE  /\ Typed(Stop(u, k))
           /\ Stop(u, k).ptr = [u.ptr EXCEPT ![k] = None]
           /\ \A t \in TimerIds :
                 /\ u.timers[t] = Idle => Stop(u, k).timers[t] = Idle
                 /\ Stop(u, k).timers[t] = u.timers[t] \/ Stop(u, k).timers[t].stopped
                 /\ Stop(u, k).timers[t].n = u.timers[t].n
                 /\ t = u.ptr[k] => Stop(u, k).timers[t].stopped
           /\ Stop(u, k).odd = u.odd /\ Stop(u, k).removals = u.removals /\ Stop(u, k).at = u.at
           /\ Stop(u, k).gmm = u.gmm /\ Stop(u, k).reg = u.reg /\ Stop(u, k).auth = u.auth
           /\ Stop(u, k).sec = u.sec /\ Stop(u, k).ran = u.ran /\ Stop(u, k).pool = u.pool
<1>1. u \in AmfUe /\ u.ptr \in [Kinds -> TimerIds \cup {None}] /\ u.timers \in [TimerIds -> Timer]
    BY DEF Typed, AmfUe
<1>2. CASE u.ptr[k] = None
    <2>1. Stop(u, k) = u
        BY <1>2 DEF Stop
    <2>2. u.ptr = [u.ptr EXCEPT ![k] = None]
        BY <1>1, <1>2
    <2> QED BY <1>2, <2>1, <2>2, Assumptions
<1>3. CASE u.ptr[k] # None
    <2> DEFINE t == u.ptr[k]
               ts == [u.timers EXCEPT ![t].stopped = TRUE]
               ps == [u.ptr EXCEPT ![k] = None]
               s == [u EXCEPT !.timers = ts, !.ptr = ps]
    <2>1. t \in TimerIds /\ u.timers[t].kind = k /\ u.timers[t] # Idle
        <3>1. t \in TimerIds /\ u.timers[t].kind = k
            BY <1>1, <1>3 DEF Typed
        <3> QED BY <3>1 DEF Idle, Kinds
    <2>2. Stop(u, k) = s
        BY <1>1, <1>3 DEF Stop, AmfUe
    <2> HIDE DEF t
    <2>3. /\ ts \in [TimerIds -> Timer] /\ ts[t].stopped /\ ts[t].kind = k /\ ts[t].n = u.timers[t].n
          /\ \A x \in TimerIds : x # t => ts[x] = u.timers[x]
        BY <1>1, <2>1 DEF Timer
    <2>4. /\ ps \in [Kinds -> TimerIds \cup {None}] /\ ps[k] = None
          /\ \A j \in Kinds : j # k => ps[j] = u.ptr[j]
        BY <1>1
    <2> HIDE DEF ts, ps
    <2>5. s \in AmfUe
        BY <1>1, <2>3, <2>4 DEF AmfUe
    <2>6. /\ s.timers = ts /\ s.ptr = ps /\ s.odd = u.odd /\ s.removals = u.removals /\ s.at = u.at
          /\ s.gmm = u.gmm /\ s.reg = u.reg /\ s.auth = u.auth /\ s.sec = u.sec
          /\ s.ran = u.ran /\ s.pool = u.pool
        BY <1>1 DEF AmfUe
    <2> HIDE DEF s
    <2>7. \A x \in TimerIds : ts[x] # Idle => ts[x].kind \in Kinds
        BY <2>3 DEF Typed
    <2>8. ASSUME NEW j \in Kinds, ps[j] # None PROVE ts[ps[j]].kind = j /\ ~ts[ps[j]].stopped
        <3>1. j # k /\ ps[j] = u.ptr[j]
            BY <2>4, <2>8
        <3>2. u.ptr[j] \in TimerIds /\ u.timers[u.ptr[j]].kind = j /\ ~u.timers[u.ptr[j]].stopped
            BY <1>1, <2>8, <3>1 DEF Typed
        <3>3. u.ptr[j] # t
            BY <2>1, <3>1, <3>2
        <3> QED BY <2>3, <3>1, <3>2, <3>3
    <2>9. Typed(s)
        BY <2>5, <2>6, <2>7, <2>8 DEF Typed
    <2>10. \A x \in TimerIds : /\ u.timers[x] = Idle => ts[x] = Idle
                               /\ ts[x] = u.timers[x] \/ ts[x].stopped
                               /\ ts[x].n = u.timers[x].n
                               /\ x = t => ts[x].stopped
        BY <2>1, <2>3
    <2> QED BY <2>2, <2>6, <2>9, <2>10 DEF t, ps
<1> QED BY <1>2, <1>3

LEMMA StopReached ==
    ASSUME NEW u, Typed(u), Reached(u), NEW k \in Kinds
    PROVE  Reached(Stop(u, k))
<1> DEFINE s == Stop(u, k)
<1>1. /\ s.ptr = [u.ptr EXCEPT ![k] = None]
      /\ \A t \in TimerIds : s.timers[t] = u.timers[t] \/ s.timers[t].stopped
      /\ \A t \in TimerIds : t = u.ptr[k] => s.timers[t].stopped
    BY StopFacts
<1> HIDE DEF s
<1>2. u.ptr \in [Kinds -> TimerIds \cup {None}]
    BY DEF Typed, AmfUe
<1> SUFFICES ASSUME NEW t \in TimerIds, Running(s.timers[t])
             PROVE  s.ptr[s.timers[t].kind] = t
    BY DEF Reached, s
<1>3. s.timers[t] = u.timers[t] /\ u.ptr[k] # t
    BY <1>1 DEF Running
<1>4. u.timers[t].kind \in Kinds /\ u.ptr[u.timers[t].kind] = t
    BY <1>3 DEF Reached, Typed, Running
<1> QED BY <1>1, <1>2, <1>3, <1>4

LEMMA StopSound ==
    ASSUME NEW u, Sound(u), NEW k \in Kinds
    PROVE  Sound(Stop(u, k))
<1> DEFINE s == Stop(u, k)
<1>1. /\ Typed(s) /\ s.ptr = [u.ptr EXCEPT ![k] = None] /\ s.at = u.at
      /\ s.odd = u.odd /\ s.removals = u.removals /\ s.gmm = u.gmm /\ s.reg = u.reg
      /\ s.auth = u.auth /\ s.sec = u.sec /\ s.ran = u.ran /\ s.pool = u.pool
      /\ \A t \in TimerIds : s.timers[t].n = u.timers[t].n
    BY StopFacts DEF Sound
<1> HIDE DEF s
<1>2. u.ptr \in [Kinds -> TimerIds \cup {None}]
    BY DEF Sound, Typed, AmfUe
<1>3. \A j \in Kinds : s.ptr[j] = IF j = k THEN None ELSE u.ptr[j]
    BY <1>1, <1>2
<1>4. ASSUME ~s.odd PROVE Calm(s)
    <2>1. Calm(u)
        BY <1>1, <1>4 DEF Sound
    <2>2. Reached(s)
        BY <2>1, StopReached DEF Calm, Sound, s
    <2>3. OneWait(s)
        BY <1>1, <1>3, <2>1 DEF Calm, OneWait, Kinds
    <2>4. u.ptr = Nobody => s.ptr = Nobody
        BY <1>1 DEF Nobody
    <2>5. Cancelling(s) = Cancelling(u)
        BY <1>1 DEF Cancelling
    <2>6. Gone(s)
        BY <1>1, <2>1, <2>4, <2>5 DEF Calm, Gone
    <2>7. Waits(s)
        BY <1>1, <2>1, <2>4 DEF Calm, Waits, Asks
    <2>8. Secured(s)
        BY <1>1, <2>1 DEF Calm, Secured
    <2> QED BY <2>2, <2>3, <2>6, <2>7, <2>8 DEF Calm
<1> QED BY <1>1, <1>4 DEF Sound, s

\* After StopAll no field names a goroutine.
LEMMA StopAllFacts ==
    ASSUME NEW u, Typed(u)
    PROVE  /\ Typed(StopAll(u)) /\ StopAll(u).ptr = Nobody
           /\ \A t \in TimerIds : u.timers[t] = Idle => StopAll(u).timers[t] = Idle
           /\ \A t \in TimerIds : StopAll(u).timers[t].n = u.timers[t].n
           /\ StopAll(u).odd = u.odd /\ StopAll(u).removals = u.removals /\ StopAll(u).at = u.at
           /\ StopAll(u).gmm = u.gmm /\ StopAll(u).reg = u.reg /\ StopAll(u).auth = u.auth
           /\ StopAll(u).sec = u.sec /\ StopAll(u).ran = u.ran /\ StopAll(u).pool = u.pool
           /\ (Sound(u) => Sound(StopAll(u))) /\ (Reached(u) => Reached(StopAll(u)))
<1> DEFINE a == Stop(u, "T3550")
           b == Stop(a, "T3560")
           c == Stop(b, "T3570")
<1>1. "T3550" \in Kinds /\ "T3560" \in Kinds /\ "T3570" \in Kinds
    BY DEF Kinds
<1>2. /\ Typed(a) /\ a.ptr = [u.ptr EXCEPT !["T3550"] = None]
      /\ \A t \in TimerIds : u.timers[t] = Idle => a.timers[t] = Idle
      /\ \A t \in TimerIds : a.timers[t].n = u.timers[t].n
      /\ a.odd = u.odd /\ a.removals = u.removals /\ a.gmm = u.gmm /\ a.reg = u.reg /\ a.at = u.at
      /\ a.auth = u.auth /\ a.sec = u.sec /\ a.ran = u.ran /\ a.pool = u.pool
    BY <1>1, StopFacts
<1>3. (Sound(u) => Sound(a)) /\ (Reached(u) => Reached(a))
    BY <1>1, StopSound, StopReached
<1> HIDE DEF a
<1>4. /\ Typed(b) /\ b.ptr = [a.ptr EXCEPT !["T3560"] = None]
      /\ \A t \in TimerIds : a.timers[t] = Idle => b.timers[t] = Idle
      /\ \A t \in TimerIds : b.timers[t].n = a.timers[t].n
      /\ b.odd = a.odd /\ b.removals = a.removals /\ b.gmm = a.gmm /\ b.reg = a.reg /\ b.at = a.at
      /\ b.auth = a.auth /\ b.sec = a.sec /\ b.ran = a.ran /\ b.pool = a.pool
    <2>1. Typed(a)
        BY <1>2
    <2> QED BY <1>1, <2>1, StopFacts
<1>5. (Sound(a) => Sound(b)) /\ (Reached(a) => Reached(b))
    BY <1>1, <1>2, StopSound, StopReached
<1> HIDE DEF b
<1>6. /\ Typed(c) /\ c.ptr = [b.ptr EXCEPT !["T3570"] = None]
      /\ \A t \in TimerIds : b.timers[t] = Idle => c.timers[t] = Idle
      /\ \A t \in TimerIds : c.timers[t].n = b.timers[t].n
      /\ c.odd = b.odd /\ c.removals = b.removals /\ c.gmm = b.gmm /\ c.reg = b.reg /\ c.at = b.at
      /\ c.auth = b.auth /\ c.sec = b.sec /\ c.ran = b.ran /\ c.pool = b.pool
    <2>1. Typed(b)
        BY <1>4
    <2> QED BY <1>1, <2>1, StopFacts
<1>7. (Sound(b) => Sound(c)) /\ (Reached(b) => Reached(c))
    BY <1>1, <1>4, StopSound, StopReached
<1> HIDE DEF c
<1>8. c.ptr = Nobody
    <2>1. u.ptr \in [Kinds -> TimerIds \cup {None}]
        BY DEF Typed, AmfUe
    <2> QED BY <1>2, <1>4, <1>6, <2>1 DEF Nobody, Kinds
<1>9. StopAll(u) = c
    BY DEF StopAll, a, b, c
<1> QED BY <1>2, <1>3, <1>4, <1>5, <1>6, <1>7, <1>8, <1>9

\* A change of the N2 connection stops them all.
LEMMA CutFacts ==
    ASSUME NEW u, Sound(u)
    PROVE  /\ Handled(u, Cut(u)) /\ Cut(u) \in AmfUe /\ Cut(u).ptr = Nobody
           /\ HasRoom(u) => HasRoom(Cut(u))
           /\ Cut(u).odd = u.odd /\ Cut(u).removals = u.removals /\ Cut(u).at = u.at
           /\ Cut(u).gmm = u.gmm /\ Cut(u).sec = u.sec /\ Cut(u).ran = u.ran /\ Cut(u).pool = u.pool
<1> DEFINE s == StopAll(u)
           b == s.cut \/ (silent /\ u.ptr # Nobody)
           v == [s EXCEPT !.cut = b]
<1>1. Typed(u)
    BY DEF Sound
<1>2. /\ Sound(s) /\ s.ptr = Nobody /\ s.odd = u.odd /\ s.removals = u.removals /\ s.at = u.at
      /\ s.gmm = u.gmm /\ s.sec = u.sec /\ s.ran = u.ran /\ s.pool = u.pool
      /\ HasRoom(u) => HasRoom(s)
    BY <1>1, StopAllFacts DEF HasRoom
<1>3. Cut(u) = v
    BY DEF Cut
<1>4. b \in BOOLEAN
    OBVIOUS
<1> HIDE DEF s, b
<1>5. s \in AmfUe
    BY <1>2 DEF Sound, Typed
<1>6. v \in AmfUe
    BY <1>4, <1>5 DEF AmfUe
<1>7. SameProcedure(s, v) /\ v.ran = s.ran /\ v.pool = s.pool
    BY <1>5, <1>6 DEF AmfUe, SameTimers, SameProcedure
<1> HIDE DEF v
<1>8. Handled(s, v)
    BY <1>2, <1>7, SoundKept
<1>9. Handled(u, s)
    BY <1>2 DEF Handled
<1>10. Handled(u, v)
    BY <1>8, <1>9, HandledTrans
<1> QED BY <1>2, <1>3, <1>6, <1>7, <1>10 DEF SameProcedure, SameTimers, HasRoom

\* An answer ends the wait: either its timer ran, and was the only one, or the
\* race is noted.
LEMMA StopAfterClear ==
    ASSUME NEW u, Sound(u), u.ran, u.at = "none", NEW k \in Kinds, HasRoom(u)
    PROVE  /\ Clear(StopAfter(u, k)) /\ StopAfter(u, k) \in AmfUe /\ Handled(u, StopAfter(u, k))
           /\ u.odd \/ u.ptr[k] = None => StopAfter(u, k).odd
           /\ StopAfter(u, k).gmm = u.gmm /\ StopAfter(u, k).reg = u.reg
           /\ StopAfter(u, k).auth = u.auth /\ StopAfter(u, k).sec = u.sec
<1> DEFINE s == Stop(u, k)
           v == StopAfter(u, k)
<1>1. /\ Sound(s) /\ s \in AmfUe /\ s.ptr = [u.ptr EXCEPT ![k] = None] /\ s.at = u.at
      /\ s.odd = u.odd /\ s.removals = u.removals /\ s.gmm = u.gmm /\ s.reg = u.reg
      /\ s.auth = u.auth /\ s.sec = u.sec /\ s.ran = u.ran
      /\ HasRoom(s)
    <2>1. Typed(u) /\ Sound(s)
        BY StopSound DEF Sound
    <2>2. s \in AmfUe
        BY <2>1 DEF Sound, Typed
    <2>3. HasRoom(s)
        BY <2>1, StopFacts DEF HasRoom
    <2>4. /\ s.ptr = [u.ptr EXCEPT ![k] = None] /\ s.at = u.at
          /\ s.odd = u.odd /\ s.removals = u.removals /\ s.gmm = u.gmm /\ s.reg = u.reg
          /\ s.auth = u.auth /\ s.sec = u.sec /\ s.ran = u.ran
        BY <2>1, StopFacts
    <2> QED BY <2>1, <2>2, <2>3, <2>4
<1> HIDE DEF s
<1>2. /\ v \in AmfUe /\ v.timers = s.timers /\ v.ptr = s.ptr /\ v.removals = s.removals /\ v.at = s.at
      /\ v.odd = (s.odd \/ u.ptr[k] = None) /\ v.gmm = s.gmm /\ v.reg = s.reg
      /\ v.auth = s.auth /\ v.sec = s.sec /\ v.ran = s.ran /\ v.pool = s.pool
    BY <1>1 DEF StopAfter, AmfUe, s
<1> HIDE DEF v
<1>3. Typed(v)
    BY <1>1, <1>2 DEF Sound, Typed
<1>4. ASSUME ~v.odd PROVE Calm(v) /\ v.ptr = Nobody /\ v.removals = 0
    <2>1. ~s.odd /\ u.ptr[k] # None /\ Calm(s) /\ Calm(u)
        BY <1>1, <1>2, <1>4 DEF Sound
    <2>2. Reached(v)
        BY <1>2, <2>1 DEF Calm, Reached
    <2>3. v.ptr = Nobody
        <3>1. u.ptr \in [Kinds -> TimerIds \cup {None}]
            BY DEF Sound, Typed, AmfUe
        <3>2. \A j \in Kinds : j # k => u.ptr[j] = None
            BY <2>1 DEF Calm, OneWait
        <3> QED BY <1>1, <1>2, <3>1, <3>2 DEF Nobody
    <2>4. v.removals = 0
        <3>1. v.removals \in 0 .. 2
            BY <1>2 DEF AmfUe
        <3> QED BY <1>1, <1>2, <2>1, <3>1 DEF Calm, Gone
    <2>5. OneWait(v) /\ Gone(v)
        BY <2>3, <2>4 DEF OneWait, Gone, Nobody, Kinds
    <2>6. Waits(v)
        BY <1>1, <1>2 DEF Waits, Asks, Still
    <2>7. Secured(v)
        BY <1>2, <2>1 DEF Calm, Secured
    <2> QED BY <2>2, <2>3, <2>4, <2>5, <2>6, <2>7 DEF Calm
<1>5. Clear(v)
    BY <1>1, <1>2, <1>3, <1>4 DEF Clear, Sound, HasRoom
<1>6. u.odd \/ u.ptr[k] = None => v.odd
    BY <1>1, <1>2
<1>7. Handled(u, v)
    BY <1>1, <1>2, <1>5, <1>6 DEF Handled, Clear
<1> QED BY <1>1, <1>2, <1>5, <1>6, <1>7 DEF v

\* Which procedure may wait for which answer.
Fits(u, k) ==
    /\ k = "T3550" => u.gmm = "ContextSetup" /\ u.reg # "none"
    /\ k = "T3560" => u.gmm \in {"Authentication", "SecurityMode"} /\ (u.gmm = "Authentication" => u.auth)
    /\ k = "T3570" => u.gmm \in {"Authentication", "ContextSetup"}

\* A request and its timer, when no other one runs.
LEMMA SentSound ==
    ASSUME NEW u, Clear(u), NEW k \in Kinds, ~u.odd => Fits(u, k)
    PROVE  Handled(u, Sent(u, k))
<1> DEFINE t == CHOOSE x \in TimerIds : u.timers[x] = Idle
           new == [kind |-> k, n |-> 0, stopped |-> FALSE]
           ts == [u.timers EXCEPT ![t] = new]
           ps == [u.ptr EXCEPT ![k] = t]
           v == [u EXCEPT !.timers = ts, !.ptr = ps]
           w == [v EXCEPT !.cut = FALSE]
<1>1. u \in AmfUe /\ u.ptr \in [Kinds -> TimerIds \cup {None}] /\ u.timers \in [TimerIds -> Timer]
    BY DEF Clear, Sound, Typed, AmfUe
<1>2. t \in TimerIds /\ u.timers[t] = Idle
    BY DEF Clear, HasRoom
<1>3. Sent(u, k) = w
    BY <1>1 DEF Sent, NewTimer, AmfUe
<1> HIDE DEF t
<1>4. new \in Timer /\ new # Idle /\ new.kind = k /\ ~new.stopped
    BY Assumptions DEF Timer, Idle, Kinds
<1> HIDE DEF new
<1>5. ts \in [TimerIds -> Timer] /\ ts[t] = new /\ \A x \in TimerIds : x # t => ts[x] = u.timers[x]
    BY <1>1, <1>2, <1>4
<1>6. ps \in [Kinds -> TimerIds \cup {None}] /\ ps[k] = t /\ \A j \in Kinds : j # k => ps[j] = u.ptr[j]
    BY <1>1, <1>2
<1> HIDE DEF ts, ps
<1>7. v \in AmfUe
    BY <1>1, <1>5, <1>6 DEF AmfUe
<1>8. /\ v.timers = ts /\ v.ptr = ps /\ v.odd = u.odd /\ v.removals = u.removals /\ v.gmm = u.gmm
      /\ v.reg = u.reg /\ v.auth = u.auth /\ v.sec = u.sec /\ v.ran = u.ran /\ v.pool = u.pool
      /\ v.at = u.at
    BY <1>1 DEF AmfUe
<1> HIDE DEF v
<1>9. /\ w \in AmfUe
      /\ w.timers = ts /\ w.ptr = ps /\ w.odd = u.odd /\ w.removals = u.removals /\ w.gmm = u.gmm
      /\ w.reg = u.reg /\ w.auth = u.auth /\ w.sec = u.sec /\ w.ran = u.ran /\ w.pool = u.pool
      /\ w.at = u.at
    BY <1>7, <1>8 DEF AmfUe
<1> HIDE DEF w
<1>10. Typed(w)
    <2>1. \A x \in TimerIds : ts[x] # Idle => ts[x].kind \in Kinds
        BY <1>4, <1>5 DEF Clear, Sound, Typed
    <2>2. ASSUME NEW j \in Kinds, ps[j] # None PROVE ts[ps[j]].kind = j /\ ~ts[ps[j]].stopped
        <3>1. CASE j = k
            BY <3>1, <1>4, <1>5, <1>6
        <3>2. CASE j # k
            <4>1. ps[j] = u.ptr[j] /\ u.ptr[j] \in TimerIds
                BY <3>2, <2>2, <1>1, <1>6
            <4>2. u.timers[u.ptr[j]].kind = j /\ ~u.timers[u.ptr[j]].stopped
                BY <2>2, <4>1 DEF Clear, Sound, Typed
            <4>3. u.ptr[j] # t
                BY <1>2, <4>2 DEF Idle, Kinds
            <4> QED BY <1>5, <4>1, <4>2, <4>3
        <3> QED BY <3>1, <3>2
    <2> QED BY <1>9, <2>1, <2>2 DEF Typed
<1>11. ASSUME ~w.odd PROVE Calm(w)
    <2>1. Calm(u) /\ u.ptr = Nobody /\ u.removals = 0 /\ u.at = "none" /\ Fits(u, k)
        BY <1>9, <1>11 DEF Clear, Sound
    <2>2. \A j \in Kinds : j # k => ps[j] = None
        BY <1>6, <2>1 DEF Nobody
    <2>3. Reached(w)
        <3> SUFFICES ASSUME NEW x \in TimerIds, Running(ts[x]) PROVE ps[ts[x].kind] = x
            BY <1>9 DEF Reached
        <3>1. CASE x = t
            BY <3>1, <1>4, <1>5, <1>6
        <3>2. CASE x # t
            <4>1. Running(u.timers[x])
                BY <3>2, <1>5
            <4>2. u.timers[x].kind \in Kinds /\ u.ptr[u.timers[x].kind] = x
                BY <2>1, <4>1 DEF Calm, Reached, Clear, Sound, Typed, Running
            <4> QED BY <2>1, <4>2, Assumptions DEF Nobody
        <3> QED BY <3>1, <3>2
    <2>4. OneWait(w)
        <3>1. \A i, j \in Kinds : w.ptr[i] # None /\ w.ptr[j] # None => i = j
            BY <1>9, <2>2
        <3>2. w.ptr["T3550"] # None => k = "T3550"
            BY <1>9, <2>2 DEF Kinds
        <3>3. w.ptr["T3560"] # None => k = "T3560"
            BY <1>9, <2>2 DEF Kinds
        <3>4. w.ptr["T3570"] # None => k = "T3570"
            BY <1>9, <2>2 DEF Kinds
        <3> QED BY <1>9, <2>1, <3>1, <3>2, <3>3, <3>4 DEF OneWait, Fits
    <2>5. Gone(w) /\ Secured(w)
        BY <1>9, <2>1 DEF Gone, Calm, Secured
    <2>6. Waits(w)
        BY <1>9, <2>1 DEF Waits, Asks, Still
    <2> QED BY <2>3, <2>4, <2>5, <2>6 DEF Calm
<1>12. Sound(w)
    BY <1>10, <1>11 DEF Sound
<1> QED BY <1>3, <1>9, <1>12 DEF Handled

\* A request that may fail to be built.
LEMMA SendSound ==
    ASSUME NEW u, Clear(u), NEW k \in Kinds, ~u.odd => Fits(u, k), NEW v \in Send(u, k)
    PROVE  Handled(u, v)
<1>1. v = u \/ v = Sent(u, k)
    BY DEF Send
<1> QED BY <1>1, SentSound, HandledSelf DEF Clear

LEMMA SendIdentitySound ==
    ASSUME NEW u, Clear(u), ~u.odd => u.gmm \in {"Authentication", "ContextSetup"},
           NEW type \in {"suci", "imei"}, NEW v \in SendIdentityRequest(u, type)
    PROVE  Handled(u, v)
<1> DEFINE w == [u EXCEPT !.want = type]
<1>1. u \in AmfUe /\ Sound(u)
    BY DEF Clear, Sound, Typed
<1>2. SameTimers(u, w) /\ w.gmm = u.gmm /\ w.sec = u.sec
    <2>1. w \in AmfUe
        BY <1>1 DEF AmfUe
    <2> QED BY <1>1, <2>1 DEF AmfUe, SameTimers
<1>3. ~w.odd /\ w.gmm = "ContextSetup" => w.sec
    BY <1>1, <1>2 DEF Sound, Calm, Secured, SameTimers, Clear
<1>4. v = u \/ v = Sent(w, "T3570")
    BY DEF SendIdentityRequest
<1> HIDE DEF w
<1>5. Clear(w) /\ w.odd = u.odd
    BY <1>2, <1>3, ClearKept
<1>6. "T3570" \in Kinds /\ (~w.odd => Fits(w, "T3570"))
    BY <1>2, <1>5 DEF Kinds, Fits
<1>7. Handled(w, Sent(w, "T3570"))
    BY <1>5, <1>6, SentSound
<1> QED BY <1>1, <1>2, <1>4, <1>7, HandledSelf DEF Handled, SameTimers

-----------------------------------------------------------------------------
(* Removal and the states of the FSM.                                      *)

\* AmfUe.Remove: no field names a goroutine, no message finds the context.
RemovedFrom(u, others, v) ==
    /\ Typed(v) /\ v.ptr = Nobody /\ v.timers = StopAll(u).timers /\ v.odd = (u.odd \/ others)
    /\ v.gmm = u.gmm /\ v.at = u.at /\ v.ran = FALSE /\ v.pool = FALSE
    /\ u.removals = 0 => v.removals = 1

LEMMA RemoveFacts ==
    ASSUME NEW u, Typed(u), NEW others
    PROVE  RemovedFrom(u, others, RemoveAmfUe(u, others))
<1> DEFINE s == StopAll(u)
           d == Detach(s)
           e == [d EXCEPT !.pool = FALSE, !.removals = IF @ = 2 THEN 2 ELSE @ + 1]
           f == Discard(s)
           o == [f EXCEPT !.odd = @ \/ others]
<1>1. /\ Typed(s) /\ s \in AmfUe /\ s.ptr = Nobody /\ s.odd = u.odd /\ s.removals = u.removals
      /\ s.gmm = u.gmm /\ s.at = u.at
    BY StopAllFacts DEF Typed
<1>2. RemoveAmfUe(u, others) = o
    BY DEF RemoveAmfUe
<1> HIDE DEF s
<1>3. /\ d \in AmfUe /\ d.timers = s.timers /\ d.ptr = s.ptr /\ d.odd = s.odd /\ d.at = s.at
      /\ d.removals = s.removals /\ d.gmm = s.gmm /\ d.ran = FALSE
    BY <1>1, DetachFacts DEF SameTimers
<1>4. f = e \/ f = Forget(e)
    BY DEF Discard
<1> HIDE DEF d
<1>5. /\ e \in AmfUe /\ e.timers = d.timers /\ e.ptr = d.ptr /\ e.odd = d.odd /\ e.at = d.at
      /\ e.gmm = d.gmm /\ e.ran = FALSE /\ e.pool = FALSE
      /\ d.removals = 0 => e.removals = 1
    <2>1. (IF d.removals = 2 THEN 2 ELSE d.removals + 1) \in 0 .. 2
        BY <1>3 DEF AmfUe
    <2>2. e \in AmfUe
        BY <1>3, <2>1 DEF AmfUe
    <2> QED BY <1>3, <2>2 DEF AmfUe
<1> HIDE DEF e, f
<1>6. /\ f \in AmfUe /\ f.timers = e.timers /\ f.ptr = e.ptr /\ f.odd = e.odd /\ f.at = e.at
      /\ f.gmm = e.gmm /\ f.ran = FALSE /\ f.pool = FALSE /\ f.removals = e.removals
    <2>1. CASE f = e
        BY <1>5, <2>1
    <2>2. CASE f = Forget(e)
        BY <1>5, <2>2 DEF AmfUe, Forget
    <2> QED BY <1>4, <2>1, <2>2
<1>7. /\ o \in AmfUe /\ o.timers = f.timers /\ o.ptr = f.ptr /\ o.odd = (f.odd \/ others)
      /\ o.gmm = f.gmm /\ o.ran = FALSE /\ o.pool = FALSE /\ o.at = f.at /\ o.removals = f.removals
    BY <1>6 DEF AmfUe
<1> HIDE DEF o
<1>8. Typed(o)
    BY <1>1, <1>3, <1>5, <1>6, <1>7 DEF Typed
<1> QED BY <1>1, <1>2, <1>3, <1>5, <1>6, <1>7, <1>8 DEF s, RemovedFrom

\* A context removed once, on which nobody is at work.
LEMMA RemovedCalm ==
    ASSUME NEW w, w.ptr = Nobody, ~w.ran, ~w.pool, w.at = "none", w.removals = 1,
           Cancelling(w) = {}, Reached(w)
    PROVE  Calm(w)
<1>1. OneWait(w) /\ Gone(w)
    BY DEF OneWait, Gone, Nobody, Kinds
<1>2. Waits(w) /\ Secured(w)
    BY DEF Waits, Asks, Still, Secured
<1> QED BY <1>1, <1>2 DEF Calm

LEMMA RemoveSound ==
    ASSUME NEW u, Sound(u), NEW others,
           ~u.odd /\ ~others => u.removals = 0 /\ u.at = "none" /\ Cancelling(u) = {}
    PROVE  Sound(RemoveAmfUe(u, others))
<1> DEFINE v == RemoveAmfUe(u, others)
<1>1. Typed(u)
    BY DEF Sound
<1>2. /\ Typed(v) /\ v.ptr = Nobody /\ v.timers = StopAll(u).timers /\ v.odd = (u.odd \/ others)
      /\ v.at = u.at /\ v.ran = FALSE /\ v.pool = FALSE
      /\ u.removals = 0 => v.removals = 1
    <2>1. RemovedFrom(u, others, v)
        BY <1>1, RemoveFacts
    <2> QED BY <2>1 DEF RemovedFrom
<1> HIDE DEF v
<1>3. ASSUME ~v.odd PROVE Calm(v)
    <2>1. ~u.odd /\ ~others
        BY <1>2, <1>3
    <2>2. u.removals = 0 /\ u.at = "none" /\ Cancelling(u) = {} /\ Reached(u)
        BY <2>1 DEF Sound, Calm
    <2>3. Reached(StopAll(u)) /\ StopAll(u).ptr = v.ptr
        BY <1>1, <1>2, <2>2, StopAllFacts
    <2>4. Reached(v)
        BY <1>2, <2>3 DEF Reached
    <2>5. \A t \in TimerIds : v.timers[t].n = u.timers[t].n
        BY <1>1, <1>2, StopAllFacts
    <2>6. Cancelling(v) = {}
        BY <2>2, <2>5 DEF Cancelling
    <2> QED BY <1>2, <2>2, <2>4, <2>6, RemovedCalm
<1> QED BY <1>2, <1>3 DEF Sound, v

\* What entering and leaving a state changes.
LEMMA EnterFacts ==
    ASSUME NEW u \in AmfUe
    PROVE  /\ SameTimers(u, EnterDeregistered(u)) /\ EnterDeregistered(u).gmm = "Deregistered"
           /\ EnterDeregistered(u).ran = u.ran /\ EnterDeregistered(u).pool = u.pool
           /\ SameTimers(u, EnterRegistered(u)) /\ EnterRegistered(u).gmm = "Registered"
           /\ EnterRegistered(u).ran = u.ran /\ EnterRegistered(u).pool = u.pool
           /\ EnterRegistered(u).sec = u.sec
           /\ SameTimers(u, LeaveAuthentication(u)) /\ LeaveAuthentication(u).gmm = u.gmm
           /\ LeaveAuthentication(u).ran = u.ran /\ LeaveAuthentication(u).pool = u.pool
           /\ LeaveAuthentication(u).sec = u.sec /\ LeaveAuthentication(u).reg = u.reg
<1>1. ASSUME NEW g \in States
      PROVE  LET e == ClearRegistration([u EXCEPT !.gmm = g])
             IN  SameTimers(u, e) /\ e.gmm = g /\ e.ran = u.ran /\ e.pool = u.pool /\ e.sec = u.sec
    <2> DEFINE d == [u EXCEPT !.gmm = g]
               e == ClearRegistration(d)
    <2>1. d \in AmfUe
        BY DEF AmfUe
    <2>2. SameTimers(u, d) /\ d.gmm = g /\ d.ran = u.ran /\ d.pool = u.pool /\ d.sec = u.sec
        BY <2>1 DEF AmfUe, SameTimers
    <2> HIDE DEF d
    <2>3. e \in AmfUe
        BY <2>1 DEF AmfUe, ClearRegistration
    <2>4. SameTimers(d, e) /\ e.gmm = d.gmm /\ e.ran = d.ran /\ e.pool = d.pool /\ e.sec = d.sec
        BY <2>1, <2>3 DEF AmfUe, ClearRegistration, SameTimers
    <2> HIDE DEF e
    <2>5. SameTimers(u, e) /\ e.gmm = g /\ e.ran = u.ran /\ e.pool = u.pool /\ e.sec = u.sec
        BY <2>2, <2>4 DEF SameTimers
    <2> QED BY <2>5 DEF e, d
<1>2. /\ SameTimers(u, EnterDeregistered(u)) /\ EnterDeregistered(u).gmm = "Deregistered"
      /\ EnterDeregistered(u).ran = u.ran /\ EnterDeregistered(u).pool = u.pool
    BY <1>1 DEF EnterDeregistered, States
<1>3. /\ SameTimers(u, EnterRegistered(u)) /\ EnterRegistered(u).gmm = "Registered"
      /\ EnterRegistered(u).ran = u.ran /\ EnterRegistered(u).pool = u.pool
      /\ EnterRegistered(u).sec = u.sec
    BY <1>1 DEF EnterRegistered, States
<1>4. LeaveAuthentication(u) \in AmfUe
    BY DEF AmfUe, LeaveAuthentication
<1>5. /\ SameTimers(u, LeaveAuthentication(u)) /\ LeaveAuthentication(u).gmm = u.gmm
      /\ LeaveAuthentication(u).ran = u.ran /\ LeaveAuthentication(u).pool = u.pool
      /\ LeaveAuthentication(u).sec = u.sec /\ LeaveAuthentication(u).reg = u.reg
    BY <1>4 DEF AmfUe, LeaveAuthentication, SameTimers
<1> QED BY <1>2, <1>3, <1>5

\* A procedure that is over without a context set up.
LEMMA DeregisteredSound ==
    ASSUME NEW u, Sound(u), u.at = "none", ~u.odd => u.ptr = Nobody
    PROVE  Handled(u, EnterDeregistered(u))
<1> DEFINE v == EnterDeregistered(u)
<1>1. u \in AmfUe
    BY DEF Sound, Typed
<1>2. SameTimers(u, v) /\ v.gmm = "Deregistered" /\ v.ran = u.ran /\ v.pool = u.pool
    BY <1>1, EnterFacts
<1> HIDE DEF v
<1>3. Sound(v)
    BY <1>2, QuietKept DEF Secured
<1> QED BY <1>2, <1>3 DEF Handled, SameTimers, v

LEMMA AuthErrorSound ==
    ASSUME NEW u, Sound(u), u.at = "none", ~u.odd => u.ptr = Nobody
    PROVE  Handled(u, AuthError(u)) /\ AuthError(u).gmm = "Deregistered" /\ AuthError(u).odd = u.odd
<1> DEFINE v == LeaveAuthentication(u)
           w == EnterDeregistered(v)
<1>1. u \in AmfUe
    BY DEF Sound, Typed
<1>2. /\ SameTimers(u, v) /\ v.gmm = u.gmm /\ v.sec = u.sec /\ v.ran = u.ran /\ v.pool = u.pool
      /\ v \in AmfUe
    BY <1>1, EnterFacts DEF SameTimers
<1>3. AuthError(u) = w
    BY DEF AuthError
<1> HIDE DEF v
<1>4. /\ SameTimers(v, w) /\ w.gmm = "Deregistered" /\ w.ran = v.ran /\ w.pool = v.pool
    BY <1>2, EnterFacts
<1> HIDE DEF w
<1>5. SameTimers(u, w)
    BY <1>2, <1>4 DEF SameTimers
<1>6. Sound(w)
    BY <1>2, <1>4, <1>5, QuietKept DEF Secured
<1> QED BY <1>3, <1>4, <1>5, <1>6 DEF Handled, SameTimers

\* AuthFailEvent.
LEMMA AuthFailSound ==
    ASSUME NEW u, Clear(u), ~u.odd => u.gmm = "Authentication"
    PROVE  Handled(u, AuthFail(u))
<1> DEFINE d == Detach(u)
<1>1. u \in AmfUe
    BY DEF Clear, Sound, Typed
<1>2. SameTimers(u, d) /\ d.gmm = u.gmm /\ d.sec = u.sec
    BY <1>1, DetachFacts
<1>3. AuthFail(u) = Await(d, "fail")
    BY DEF AuthFail
<1> HIDE DEF d
<1>4. ~d.odd /\ d.gmm = "ContextSetup" => d.sec
    BY <1>2 DEF SameTimers
<1>5. Clear(d) /\ d.odd = u.odd
    BY <1>2, <1>4, ClearKept
<1>6. "fail" \in Calls /\ (~d.odd => Asks(d, "fail"))
    BY <1>2, <1>5 DEF Calls, Still, Asks
<1>7. Handled(d, Await(d, "fail"))
    BY <1>5, <1>6, AwaitClear
<1> QED BY <1>2, <1>3, <1>7 DEF Handled, SameTimers

-----------------------------------------------------------------------------
(* The procedures.                                                         *)

\* EntryEvent of ContextSetup.
LEMMA RegisterSound ==
    ASSUME NEW u, Clear(u), ~u.odd => u.gmm = "ContextSetup"
    PROVE  Handled(u, Register(u))
<1>1. CASE u.reg = "none"
    BY <1>1, HandledSelf DEF Register, Clear
<1>2. CASE u.reg # "none"
    <2>1. "setup" \in Calls /\ (~u.odd => Asks(u, "setup"))
        BY <1>2 DEF Calls, Still, Asks
    <2> QED BY <1>2, <2>1, AwaitClear DEF Register
<1> QED BY <1>1, <1>2

LEMMA ContextSetupSound ==
    ASSUME NEW u, Clear(u), ~u.odd => u.sec
    PROVE  Handled(u, EnterContextSetup(u))
<1> DEFINE w == [u EXCEPT !.gmm = "ContextSetup"]
<1>1. u \in AmfUe
    BY DEF Clear, Sound, Typed
<1>2. w \in AmfUe
    BY <1>1 DEF AmfUe, States
<1>3. SameTimers(u, w) /\ w.gmm = "ContextSetup" /\ w.sec = u.sec
    BY <1>1, <1>2 DEF AmfUe, SameTimers
<1>4. EnterContextSetup(u) = Register(w)
    BY DEF EnterContextSetup
<1> HIDE DEF w
<1>5. Clear(w)
    BY <1>3, ClearKept DEF SameTimers
<1>6. Handled(w, Register(w))
    BY <1>3, <1>5, RegisterSound
<1> QED BY <1>3, <1>4, <1>6, HandledFrom

\* HandleInitialRegistration and its sibling after their calls.
LEMMA AcceptSound ==
    ASSUME NEW u, Clear(u), ~u.odd => u.gmm = "ContextSetup" /\ u.reg # "none",
           NEW v \in Accept(u)
    PROVE  Handled(u, v)
<1>1. Sound(u) /\ u.at = "none" /\ (~u.odd => u.ptr = Nobody)
    BY DEF Clear
<1>2. Handled(u, u) /\ Handled(u, EnterDeregistered(u))
    BY <1>1, HandledSelf, DeregisteredSound
<1>3. ASSUME v \in SendIdentityRequest(u, "imei") PROVE Handled(u, v)
    BY <1>3, SendIdentitySound
<1>4. Handled(u, Await(u, "policy"))
    <2>1. "policy" \in Calls /\ (~u.odd => Asks(u, "policy"))
        BY DEF Calls, Still, Asks
    <2> QED BY <2>1, AwaitClear
<1>5. ASSUME v \in Send(u, "T3550") PROVE Handled(u, v)
    <2>1. "T3550" \in Kinds /\ (~u.odd => Fits(u, "T3550"))
        BY DEF Kinds, Fits
    <2> QED BY <1>5, <2>1, SendSound
<1> QED BY <1>2, <1>3, <1>4, <1>5 DEF Accept, Event

\* EntryEvent of SecurityMode: a context that is called valid is a secured one.
LEMMA SecurityModeSound ==
    ASSUME NEW u, Clear(u), NEW valid \in BOOLEAN, valid /\ ~u.odd => u.sec,
           NEW v \in EnterSecurityMode(u, valid)
    PROVE  Handled(u, v)
<1> DEFINE l == LeaveAuthentication(u)
           s == [l EXCEPT !.gmm = "SecurityMode"]
<1>1. u \in AmfUe /\ Sound(u)
    BY DEF Clear, Sound, Typed
<1>2. SameTimers(u, l) /\ l.sec = u.sec /\ l \in AmfUe
    BY <1>1, EnterFacts DEF SameTimers
<1>3. \/ valid /\ v = EnterContextSetup(s)
      \/ v = EnterDeregistered(s) \/ v = s \/ v = [s EXCEPT !.sec = FALSE]
      \/ v = Sent([s EXCEPT !.sec = TRUE], "T3560")
    BY DEF EnterSecurityMode
<1> HIDE DEF l
<1>4. s \in AmfUe
    BY <1>2 DEF AmfUe, States
<1>5. SameTimers(l, s) /\ s.gmm = "SecurityMode" /\ s.sec = l.sec
    BY <1>2, <1>4 DEF AmfUe, SameTimers
<1> HIDE DEF s
<1>6. SameTimers(u, s) /\ s.gmm = "SecurityMode" /\ s.sec = u.sec
    BY <1>2, <1>5 DEF SameTimers
<1>7. Clear(s) /\ s.odd = u.odd
    BY <1>6, ClearKept
<1>8. CASE valid /\ v = EnterContextSetup(s)
    <2>1. Handled(s, v)
        BY <1>6, <1>7, <1>8, ContextSetupSound
    <2> QED BY <2>1, <1>6, HandledFrom
<1>9. CASE v = EnterDeregistered(s) \/ v = s
    <2>1. Handled(s, v)
        BY <1>7, <1>9, DeregisteredSound, HandledSelf DEF Clear
    <2> QED BY <2>1, <1>6, HandledFrom
<1>10. ASSUME NEW b \in BOOLEAN
       PROVE  LET w == [s EXCEPT !.sec = b]
              IN  Clear(w) /\ w.gmm = "SecurityMode" /\ SameTimers(u, w)
    <2> DEFINE w == [s EXCEPT !.sec = b]
    <2>1. w \in AmfUe
        BY <1>4 DEF AmfUe
    <2>2. SameTimers(s, w) /\ w.gmm = "SecurityMode"
        BY <1>4, <1>6, <2>1 DEF AmfUe, SameTimers
    <2> HIDE DEF w
    <2>3. Clear(w)
        BY <1>7, <2>2, ClearKept
    <2>4. SameTimers(u, w)
        BY <1>6, <2>2 DEF SameTimers
    <2> QED BY <2>2, <2>3, <2>4 DEF w
<1>11. CASE v = [s EXCEPT !.sec = FALSE]
    <2>1. Clear(v) /\ v.gmm = "SecurityMode" /\ SameTimers(u, v)
        BY <1>10, <1>11
    <2>2. Handled(v, v)
        BY <2>1, HandledSelf DEF Clear
    <2> QED BY <2>1, <2>2, HandledFrom
<1>12. CASE v = Sent([s EXCEPT !.sec = TRUE], "T3560")
    <2> DEFINE w == [s EXCEPT !.sec = TRUE]
    <2>1. Clear(w) /\ w.gmm = "SecurityMode" /\ SameTimers(u, w)
        BY <1>10
    <2> HIDE DEF w
    <2>2. "T3560" \in Kinds /\ Fits(w, "T3560")
        BY <2>1 DEF Kinds, Fits
    <2>3. Handled(w, v)
        BY <1>12, <2>1, <2>2, SentSound DEF w
    <2> QED BY <2>1, <2>3, HandledFrom
<1> QED BY <1>3, <1>8, <1>9, <1>11, <1>12

\* AuthenticationProcedure.
LEMMA AuthenticationSound ==
    ASSUME NEW u, Clear(u), u.gmm = "Authentication", NEW valid \in BOOLEAN,
           valid /\ ~u.odd => u.sec, NEW v \in AuthenticationProcedure(u, valid)
    PROVE  Handled(u, v)
<1>1. u \in AmfUe
    BY DEF Clear, Sound, Typed
<1>2. ASSUME v \in SendIdentityRequest([u EXCEPT !.idSent = TRUE], "suci") PROVE Handled(u, v)
    <2> DEFINE w == [u EXCEPT !.idSent = TRUE]
    <2>1. w \in AmfUe
        BY <1>1 DEF AmfUe
    <2>2. SameTimers(u, w) /\ w.gmm = "Authentication"
        BY <1>1, <2>1 DEF AmfUe, SameTimers
    <2> HIDE DEF w
    <2>3. Clear(w)
        BY <2>2, ClearKept
    <2>4. v \in SendIdentityRequest(w, "suci")
        BY <1>2 DEF w
    <2>5. Handled(w, v)
        BY <2>2, <2>3, <2>4, SendIdentitySound
    <2> QED BY <2>2, <2>5, HandledFrom
<1>3. ASSUME valid, v \in EnterSecurityMode(u, TRUE) PROVE Handled(u, v)
    BY <1>3, SecurityModeSound
<1>4. Handled(u, Await(u, "authenticate"))
    <2>1. "authenticate" \in Calls /\ Asks(u, "authenticate")
        BY DEF Calls, Still, Asks
    <2> QED BY <2>1, AwaitClear
<1> QED BY <1>2, <1>3, <1>4 DEF AuthenticationProcedure

\* StartAuthEvent.
LEMMA StartAuthenticationSound ==
    ASSUME NEW u, Clear(u), NEW valid \in BOOLEAN, valid /\ ~u.odd => u.sec,
           NEW v \in StartAuthentication(u, valid)
    PROVE  Handled(u, v)
<1> DEFINE w == [u EXCEPT !.gmm = "Authentication"]
<1>1. u \in AmfUe
    BY DEF Clear, Sound, Typed
<1>2. w \in AmfUe
    BY <1>1 DEF AmfUe, States
<1>3. SameTimers(u, w) /\ w.gmm = "Authentication" /\ w.sec = u.sec
    BY <1>1, <1>2 DEF AmfUe, SameTimers
<1>4. v \in AuthenticationProcedure(w, valid)
    BY DEF StartAuthentication
<1> HIDE DEF w
<1>5. Clear(w) /\ w.odd = u.odd
    BY <1>3, ClearKept
<1>6. Handled(w, v)
    BY <1>3, <1>4, <1>5, AuthenticationSound
<1> QED BY <1>3, <1>6, HandledFrom

-----------------------------------------------------------------------------
(* The handlers of NAS messages.                                           *)

\* Neither the state of the FSM nor the security context changes.
LEMMA ClearSame ==
    ASSUME NEW u, Clear(u), NEW w, SameTimers(u, w), w.gmm = u.gmm, w.sec = u.sec
    PROVE  Clear(w) /\ w.odd = u.odd
<1>1. ~w.odd /\ w.gmm = "ContextSetup" => w.sec
    BY DEF Clear, Sound, Calm, Secured, SameTimers
<1> QED BY <1>1, ClearKept

\* A connected context is not removed.
LEMMA Present ==
    ASSUME NEW u, Sound(u), ~u.odd, u.ran \/ u.pool \/ u.ptr # Nobody
    PROVE  u.removals = 0
<1>1. Calm(u) /\ u.removals \in 0 .. 2
    BY DEF Sound, Typed, AmfUe
<1> QED BY <1>1 DEF Calm, Gone

\* A context that is there takes a new connection.
LEMMA AttachSound ==
    ASSUME NEW u, Sound(u), ~u.odd => u.removals = 0
    PROVE  /\ Handled(u, Attach(u)) /\ SameTimers(u, Attach(u)) /\ Attach(u).ran
           /\ Attach(u).gmm = u.gmm
<1>1. u \in AmfUe
    BY DEF Sound, Typed
<1>2. Attach(u) \in AmfUe
    BY <1>1 DEF AmfUe, Attach
<1>3. SameProcedure(u, Attach(u)) /\ Attach(u).ran
    BY <1>1, <1>2 DEF AmfUe, Attach, SameTimers, SameProcedure
<1>4. Handled(u, Attach(u))
    BY <1>3, SoundKept
<1> QED BY <1>3, <1>4 DEF SameProcedure

\* The connection a message comes over.
LEMMA ConnectionSound ==
    ASSUME NEW u, Sound(u), HasRoom(u), NEW c \in Connections(u)
    PROVE  Handled(u, c) /\ c.ran /\ c.gmm = u.gmm /\ c.at = u.at /\ HasRoom(c)
<1>1. CASE c = u /\ u.ran
    BY <1>1, HandledSelf
<1>2. CASE c = Attach(u) /\ u.pool
    <2>1. Handled(u, c) /\ SameTimers(u, c) /\ c.ran /\ c.gmm = u.gmm
        BY <1>2, AttachSound, Present
    <2> QED BY <2>1 DEF SameTimers, HasRoom
<1>3. CASE c = Reconnect(u) /\ u.pool
    <2> DEFINE s == Cut(u)
               d == Detach(s)
    <2>1. /\ Handled(u, s) /\ s \in AmfUe /\ s.gmm = u.gmm /\ s.pool = u.pool /\ s.at = u.at
          /\ HasRoom(s)
        BY CutFacts
    <2>2. c = Attach(d)
        BY <1>3 DEF Reconnect
    <2> HIDE DEF s
    <2>3. Handled(s, d) /\ SameTimers(s, d) /\ d.gmm = s.gmm /\ d.pool = s.pool
        BY <2>1, DetachSound, DetachFacts DEF Handled
    <2> HIDE DEF d
    <2>4. Sound(d) /\ d.pool
        BY <1>3, <2>1, <2>3 DEF Handled
    <2>5. Handled(d, c) /\ SameTimers(d, c) /\ c.ran /\ c.gmm = d.gmm
        BY <2>2, <2>4, AttachSound, Present
    <2>6. Handled(u, c)
        BY <2>1, <2>3, <2>5, HandledTrans
    <2> QED BY <2>1, <2>3, <2>5, <2>6 DEF SameTimers, HasRoom
<1> QED BY <1>1, <1>2, <1>3 DEF Connections

\* A connected context that waits for nothing.
LEMMA IdleClear ==
    ASSUME NEW u, Sound(u), u.ran, u.at = "none", HasRoom(u),
           u.gmm \in {"Deregistered", "Registered"}
    PROVE  Clear(u)
<1> SUFFICES ASSUME ~u.odd PROVE u.ptr = Nobody /\ u.removals = 0
    BY DEF Clear
<1>1. Calm(u) /\ u.ptr \in [Kinds -> TimerIds \cup {None}]
    BY DEF Sound, Typed, AmfUe
<1>2. \A k \in Kinds : u.ptr[k] = None
    BY <1>1 DEF Calm, OneWait, Kinds
<1> QED BY <1>1, <1>2, Present DEF Nobody

\* HandleRegistrationRequest and StartAuthEvent.
LEMMA RegistrationSound ==
    ASSUME NEW u, Clear(u), u.gmm \in {"Deregistered", "Registered"}, NEW type, NEW identity,
           NEW keep, NEW v \in HandleRegistrationRequest(u, type, identity, keep)
    PROVE  Handled(u, v)
<1> DEFINE r == IF type = "update" THEN "update" ELSE "initial"
           a == [u EXCEPT !.reg = r, !.guti = identity = "guti",
                          !.sec = @ /\ type # "initial" /\ keep,
                          !.id = @ \/ identity = "suci", !.pei = @ \/ identity = "pei"]
<1>1. u \in AmfUe
    BY DEF Clear, Sound, Typed
<1>2. a \in AmfUe
    <2>0. r \in {"none", "initial", "update"}
        OBVIOUS
    <2> HIDE DEF r
    <2>1. ASSUME NEW g \in BOOLEAN, NEW s \in BOOLEAN, NEW i \in BOOLEAN, NEW e \in BOOLEAN
          PROVE  [u EXCEPT !.reg = r, !.guti = g, !.sec = s, !.id = i, !.pei = e] \in AmfUe
        BY <1>1, <2>0 DEF AmfUe
    <2>2. /\ (identity = "guti") \in BOOLEAN /\ (u.sec /\ type # "initial" /\ keep) \in BOOLEAN
          /\ (u.id \/ identity = "suci") \in BOOLEAN /\ (u.pei \/ identity = "pei") \in BOOLEAN
        OBVIOUS
    <2> QED BY <2>1, <2>2, Zenon
<1>3. SameTimers(u, a) /\ a.gmm = u.gmm
    BY <1>1, <1>2 DEF AmfUe, SameTimers
<1>4. \/ v = u \/ v = a \/ v = Await(a, "transfer")
      \/ \E b \in {FALSE, a.sec} : v \in StartAuthentication(a, b)
    BY DEF HandleRegistrationRequest
<1> HIDE DEF a
<1>5. Clear(a) /\ a.odd = u.odd
    BY <1>3, ClearKept
<1>6. CASE v = u
    BY <1>6, HandledSelf DEF Clear
<1>7. CASE v = a
    <2>1. Handled(a, a)
        BY <1>5, HandledSelf DEF Clear
    <2> QED BY <1>3, <1>7, <2>1, HandledFrom
<1>8. CASE v = Await(a, "transfer")
    <2>1. "transfer" \in Calls /\ Asks(a, "transfer")
        BY DEF Calls, Still, Asks
    <2>2. Handled(a, v)
        BY <1>5, <1>8, <2>1, AwaitClear
    <2> QED BY <1>3, <2>2, HandledFrom
<1>9. ASSUME NEW b \in {FALSE, a.sec}, v \in StartAuthentication(a, b) PROVE Handled(u, v)
    <2>1. b \in BOOLEAN /\ (b => a.sec)
        BY <1>2 DEF AmfUe
    <2>2. Handled(a, v)
        BY <1>5, <1>9, <2>1, StartAuthenticationSound
    <2> QED BY <1>3, <2>2, HandledFrom
<1> QED BY <1>4, <1>6, <1>7, <1>8, <1>9

\* After the context transfer.
LEMMA TransferSound ==
    ASSUME NEW u, Clear(u), NEW v \in HandleTransfer(u)
    PROVE  Handled(u, v)
<1> DEFINE a == [u EXCEPT !.sec = TRUE, !.id = TRUE]
<1>1. u \in AmfUe
    BY DEF Clear, Sound, Typed
<1>2. a \in AmfUe
    BY <1>1 DEF AmfUe
<1>3. SameTimers(u, a) /\ a.gmm = u.gmm /\ a.sec
    BY <1>1, <1>2 DEF AmfUe, SameTimers
<1>4. v \in StartAuthentication(a, TRUE) \/ \E b \in {FALSE, u.sec} : v \in StartAuthentication(u, b)
    BY DEF HandleTransfer
<1> HIDE DEF a
<1>5. Clear(a)
    BY <1>3, ClearKept
<1>6. CASE v \in StartAuthentication(a, TRUE)
    <2>1. Handled(a, v)
        BY <1>3, <1>5, <1>6, StartAuthenticationSound
    <2> QED BY <1>3, <2>1, HandledFrom
<1>7. ASSUME NEW b \in {FALSE, u.sec}, v \in StartAuthentication(u, b) PROVE Handled(u, v)
    <2>1. b \in BOOLEAN /\ (b => u.sec)
        BY <1>1 DEF AmfUe
    <2> QED BY <1>7, <2>1, StartAuthenticationSound
<1> QED BY <1>4, <1>6, <1>7

\* A challenge is sent.
LEMMA ChallengeSent ==
    ASSUME NEW u, Clear(u), ~u.odd => u.gmm = "Authentication",
           NEW v \in Send([u EXCEPT !.auth = TRUE], "T3560")
    PROVE  Handled(u, v)
<1> DEFINE w == [u EXCEPT !.auth = TRUE]
<1>1. u \in AmfUe
    BY DEF Clear, Sound, Typed
<1>2. w \in AmfUe
    BY <1>1 DEF AmfUe
<1>3. SameTimers(u, w) /\ w.gmm = u.gmm /\ w.sec = u.sec /\ w.auth
    BY <1>1, <1>2 DEF AmfUe, SameTimers
<1>4. v \in Send(w, "T3560")
    OBVIOUS
<1> HIDE DEF w
<1>5. Clear(w) /\ w.odd = u.odd
    BY <1>3, ClearSame
<1>6. "T3560" \in Kinds /\ (~w.odd => Fits(w, "T3560"))
    BY <1>3, <1>5 DEF Kinds, Fits
<1>7. Handled(w, v)
    BY <1>4, <1>5, <1>6, SendSound
<1> QED BY <1>3, <1>7, HandledFrom

LEMMA ChallengeSound ==
    ASSUME NEW u, Clear(u), ~u.odd => u.gmm = "Authentication", NEW v \in HandleChallenge(u)
    PROVE  Handled(u, v)
<1>1. v = AuthError(u) \/ v = u \/ v \in Send([u EXCEPT !.auth = TRUE], "T3560")
    BY DEF HandleChallenge, Event
<1>2. Handled(u, AuthError(u)) /\ Handled(u, u)
    BY AuthErrorSound, HandledSelf DEF Clear
<1> QED BY <1>1, <1>2, ChallengeSent

\* HandleIdentityResponse.
LEMMA IdentitySound ==
    ASSUME NEW u, Sound(u), u.ran, u.at = "none", HasRoom(u),
           u.gmm \in {"Authentication", "ContextSetup"}, NEW k,
           NEW v \in HandleIdentityResponse(u, k)
    PROVE  Handled(u, v)
<1> DEFINE s == StopAfter(u, "T3570")
           w == [s EXCEPT !.id = @ \/ k = "suci", !.pei = @ \/ k = "imei"]
           x == [w EXCEPT !.guti = FALSE]
<1>1. Clear(s) /\ s \in AmfUe /\ Handled(u, s) /\ s.gmm = u.gmm
    BY StopAfterClear DEF Kinds
<1>2. \/ v = s
      \/ u.gmm = "Authentication" /\ \E b \in {FALSE, w.sec} : v \in AuthenticationProcedure(x, b)
      \/ u.gmm # "Authentication" /\ v = Register(w)
    BY DEF HandleIdentityResponse
<1> HIDE DEF s
<1>3. w \in AmfUe
    BY <1>1 DEF AmfUe
<1>4. SameTimers(s, w) /\ w.gmm = s.gmm /\ w.sec = s.sec
    BY <1>1, <1>3 DEF AmfUe, SameTimers
<1> HIDE DEF w
<1>5. x \in AmfUe
    BY <1>3 DEF AmfUe
<1>6. SameTimers(w, x) /\ x.gmm = w.gmm /\ x.sec = w.sec
    BY <1>3, <1>5 DEF AmfUe, SameTimers
<1> HIDE DEF x
<1>7. Clear(w) /\ w.odd = s.odd
    BY <1>1, <1>4, ClearSame
<1>8. Clear(x) /\ x.odd = w.odd
    BY <1>6, <1>7, ClearSame
<1>9. ASSUME Handled(w, v) PROVE Handled(u, v)
    <2>1. Handled(s, v)
        BY <1>4, <1>9, HandledFrom
    <2> QED BY <1>1, <2>1, HandledTrans
<1>10. ASSUME u.gmm = "Authentication", NEW b \in {FALSE, w.sec}, v \in AuthenticationProcedure(x, b)
       PROVE  Handled(u, v)
    <2>1. b \in BOOLEAN /\ (b => x.sec)
        BY <1>3, <1>6 DEF AmfUe
    <2>2. Handled(x, v)
        BY <1>1, <1>4, <1>6, <1>8, <1>10, <2>1, AuthenticationSound
    <2>3. Handled(w, v)
        BY <1>6, <2>2, HandledFrom
    <2> QED BY <1>9, <2>3
<1>11. ASSUME u.gmm # "Authentication", v = Register(w) PROVE Handled(u, v)
    <2>1. Handled(w, v)
        BY <1>1, <1>4, <1>7, <1>11, RegisterSound
    <2> QED BY <1>9, <2>1
<1> QED BY <1>1, <1>2, <1>10, <1>11

\* A refused authentication.
LEMMA RefuseSound ==
    ASSUME NEW u, Clear(u), ~u.odd => u.gmm = "Authentication", NEW v \in Refuse(u)
    PROVE  Handled(u, v)
<1> DEFINE w == [u EXCEPT !.idSent = TRUE]
<1>1. u \in AmfUe
    BY DEF Clear, Sound, Typed
<1>2. w \in AmfUe
    BY <1>1 DEF AmfUe
<1>3. SameTimers(u, w) /\ w.gmm = u.gmm /\ w.sec = u.sec
    BY <1>1, <1>2 DEF AmfUe, SameTimers
<1>4. v \in SendIdentityRequest(w, "suci") \/ v = AuthFail(u) \/ v = u
    BY DEF Refuse, Event
<1> HIDE DEF w
<1>5. Clear(w) /\ w.odd = u.odd
    BY <1>3, ClearSame
<1>6. CASE v \in SendIdentityRequest(w, "suci")
    <2>1. Handled(w, v)
        BY <1>3, <1>5, <1>6, SendIdentitySound
    <2> QED BY <1>3, <2>1, HandledFrom
<1>7. Handled(u, AuthFail(u)) /\ Handled(u, u)
    BY AuthFailSound, HandledSelf DEF Clear
<1> QED BY <1>4, <1>6, <1>7

\* HandleAuthenticationResponse as far as the call of the AUSF.
LEMMA ResponseSound ==
    ASSUME NEW u, Sound(u), u.ran, u.at = "none", HasRoom(u), u.gmm = "Authentication",
           NEW v \in HandleAuthenticationResponse(u)
    PROVE  Handled(u, v)
<1> DEFINE s == StopAfter(u, "T3560")
<1>1. Clear(s) /\ Handled(u, s) /\ s.gmm = u.gmm
    BY StopAfterClear DEF Kinds
<1>2. v = s \/ (s.auth /\ v = Await(s, "confirm")) \/ v \in Refuse(s)
    BY DEF HandleAuthenticationResponse
<1> HIDE DEF s
<1>3. CASE s.auth /\ v = Await(s, "confirm")
    <2>1. "confirm" \in Calls /\ Asks(s, "confirm")
        BY <1>1, <1>3 DEF Calls, Still, Asks
    <2>2. Handled(s, v)
        BY <1>1, <1>3, <2>1, AwaitClear
    <2> QED BY <1>1, <2>2, HandledTrans
<1>4. CASE v \in Refuse(s)
    <2>1. Handled(s, v)
        BY <1>1, <1>4, RefuseSound
    <2> QED BY <1>1, <2>1, HandledTrans
<1> QED BY <1>1, <1>2, <1>3, <1>4

\* The AUSF has answered.
LEMMA ConfirmationSound ==
    ASSUME NEW u, Clear(u), ~u.odd => u.gmm = "Authentication" /\ u.auth,
           NEW v \in HandleConfirmation(u)
    PROVE  Handled(u, v)
<1> DEFINE w == [u EXCEPT !.id = TRUE]
<1>1. u \in AmfUe
    BY DEF Clear, Sound, Typed
<1>2. w \in AmfUe
    BY <1>1 DEF AmfUe
<1>3. SameTimers(u, w) /\ w.gmm = u.gmm /\ w.sec = u.sec
    BY <1>1, <1>2 DEF AmfUe, SameTimers
<1>4. \/ v = u \/ v \in Send(u, "T3560") \/ v \in Refuse(u)
      \/ \E b \in {FALSE, u.sec} : v \in EnterSecurityMode(w, b)
    BY DEF HandleConfirmation, Event
<1> HIDE DEF w
<1>5. Clear(w) /\ w.odd = u.odd
    BY <1>3, ClearSame
<1>6. CASE v \in Send(u, "T3560")
    <2>1. "T3560" \in Kinds /\ (~u.odd => Fits(u, "T3560"))
        BY DEF Kinds, Fits
    <2> QED BY <1>6, <2>1, SendSound
<1>7. ASSUME NEW b \in {FALSE, u.sec}, v \in EnterSecurityMode(w, b) PROVE Handled(u, v)
    <2>1. b \in BOOLEAN /\ (b => w.sec)
        BY <1>1, <1>3 DEF AmfUe
    <2>2. Handled(w, v)
        BY <1>5, <1>7, <2>1, SecurityModeSound
    <2> QED BY <1>3, <2>2, HandledFrom
<1>8. Handled(u, u)
    BY HandledSelf DEF Clear
<1> QED BY <1>4, <1>6, <1>7, <1>8, RefuseSound

\* HandleAuthenticationFailure.
LEMMA FailureSound ==
    ASSUME NEW u, Sound(u), u.ran, u.at = "none", HasRoom(u), u.gmm = "Authentication", u.auth,
           NEW v \in HandleAuthenticationFailure(u)
    PROVE  Handled(u, v)
<1> DEFINE s == StopAfter(u, "T3560")
<1>1. Clear(s) /\ Handled(u, s) /\ s.gmm = u.gmm /\ s.auth
    BY StopAfterClear DEF Kinds
<1>2. v = AuthFail(s) \/ v = Await(s, "resync") \/ v \in Send(s, "T3560")
    BY DEF HandleAuthenticationFailure
<1> HIDE DEF s
<1>3. "T3560" \in Kinds /\ Fits(s, "T3560") /\ "resync" \in Calls /\ Asks(s, "resync")
    BY <1>1 DEF Kinds, Fits, Calls, Still, Asks
<1>4. Handled(s, v)
    BY <1>1, <1>2, <1>3, AuthFailSound, AwaitClear, SendSound
<1> QED BY <1>1, <1>4, HandledTrans

\* HandleSecurityModeComplete.
LEMMA CompleteSound ==
    ASSUME NEW u, Sound(u), u.ran, u.at = "none", HasRoom(u), u.gmm = "SecurityMode", u.sec,
           NEW v \in HandleSecurityModeComplete(u)
    PROVE  Handled(u, v)
<1> DEFINE s == StopAfter(u, "T3560")
           d == EnterDeregistered(s)
<1>1. Clear(s) /\ s \in AmfUe /\ Handled(u, s) /\ s.gmm = u.gmm /\ s.sec
    BY StopAfterClear DEF Kinds
<1>2. \/ v = s \/ v = [d EXCEPT !.rel = "normal"]
      \/ \E p \in {s.pei, TRUE} : v = EnterContextSetup([s EXCEPT !.pei = p])
    BY DEF HandleSecurityModeComplete
<1> HIDE DEF s
<1>3. CASE v = [d EXCEPT !.rel = "normal"]
    <2>1. Handled(s, d)
        BY <1>1, DeregisteredSound DEF Clear
    <2> HIDE DEF d
    <2>2. Handled(d, v)
        BY <1>3, <2>1, RelSound DEF Handled
    <2> QED BY <1>1, <2>1, <2>2, HandledTrans
<1>4. ASSUME NEW p \in {s.pei, TRUE}, v = EnterContextSetup([s EXCEPT !.pei = p])
      PROVE  Handled(u, v)
    <2> DEFINE w == [s EXCEPT !.pei = p]
    <2>1. p \in BOOLEAN
        BY <1>1 DEF AmfUe
    <2>2. w \in AmfUe
        BY <1>1, <2>1 DEF AmfUe
    <2>3. SameTimers(s, w) /\ w.gmm = s.gmm /\ w.sec = s.sec
        BY <1>1, <2>2 DEF AmfUe, SameTimers
    <2>4. v = EnterContextSetup(w)
        BY <1>4
    <2> HIDE DEF w
    <2>5. Clear(w)
        BY <1>1, <2>3, ClearSame
    <2>6. Handled(w, v)
        BY <1>1, <2>3, <2>4, <2>5, ContextSetupSound
    <2>7. Handled(s, v)
        BY <2>3, <2>6, HandledFrom
    <2> QED BY <1>1, <2>7, HandledTrans
<1> QED BY <1>1, <1>2, <1>3, <1>4

-----------------------------------------------------------------------------
(* The timers.                                                             *)

\* A goroutine ends that no field names, or goes on.
Put(v, t, y, w) ==
    /\ Typed(w) /\ w.timers = [v.timers EXCEPT ![t] = y] /\ w.ptr = v.ptr /\ w.at = v.at
    /\ w.odd = v.odd /\ w.removals = v.removals /\ w.gmm = v.gmm /\ w.reg = v.reg
    /\ w.auth = v.auth /\ w.sec = v.sec /\ w.ran = v.ran /\ w.pool = v.pool

LEMMA PutTyped ==
    ASSUME NEW v, Typed(v), NEW t \in TimerIds, NEW y \in Timer,
           \/ y = Idle /\ \A k \in Kinds : v.ptr[k] # t
           \/ y.kind = v.timers[t].kind /\ y.stopped = v.timers[t].stopped /\ y.kind \in Kinds
    PROVE  Put(v, t, y, [v EXCEPT !.timers[t] = y])
<1> DEFINE ts == [v.timers EXCEPT ![t] = y]
           w == [v EXCEPT !.timers = ts]
<1>1. v \in AmfUe /\ v.timers \in [TimerIds -> Timer] /\ v.ptr \in [Kinds -> TimerIds \cup {None}]
    BY DEF Typed, AmfUe
<1>2. ts \in [TimerIds -> Timer] /\ ts[t] = y /\ \A x \in TimerIds : x # t => ts[x] = v.timers[x]
    BY <1>1
<1> HIDE DEF ts
<1>3. w \in AmfUe
    BY <1>1, <1>2 DEF AmfUe
<1>4. /\ w.timers = ts /\ w.ptr = v.ptr /\ w.odd = v.odd /\ w.removals = v.removals /\ w.gmm = v.gmm
      /\ w.reg = v.reg /\ w.auth = v.auth /\ w.sec = v.sec /\ w.ran = v.ran /\ w.pool = v.pool
      /\ w.at = v.at
    BY <1>1 DEF AmfUe
<1> HIDE DEF w
<1>5. \A x \in TimerIds : ts[x] # Idle => ts[x].kind \in Kinds
    BY <1>2 DEF Typed
<1>6. ASSUME NEW k \in Kinds, v.ptr[k] # None PROVE ts[v.ptr[k]].kind = k /\ ~ts[v.ptr[k]].stopped
    <2>1. v.ptr[k] \in TimerIds /\ v.timers[v.ptr[k]].kind = k /\ ~v.timers[v.ptr[k]].stopped
        BY <1>1, <1>6 DEF Typed
    <2> QED BY <1>2, <2>1
<1>7. Typed(w)
    BY <1>3, <1>4, <1>5, <1>6 DEF Typed
<1>8. [v EXCEPT !.timers[t] = y] = w
    BY <1>1 DEF w, ts, AmfUe
<1> QED BY <1>4, <1>7, <1>8 DEF ts, Put

\* What every step keeps, RegisteredSecured included.
Kept ==
    /\ IInv'
    /\ ~ue'.odd /\ ue.gmm # "Registered" /\ ue'.gmm = "Registered" => ue'.sec

LEMMA HandledKept ==
    ASSUME IInv, Handled(ue, ue'), UNCHANGED <<releasing, crashed>>
    PROVE  Kept
BY DEF IInv, Handled, Kept

\* The goroutine finds done and returns.
LEMMA TimerEndsKept ==
    ASSUME IInv, NEW t \in TimerIds, TimerEnds(t)
    PROVE  Kept
<1>1. /\ Sound(ue) /\ Typed(ue) /\ ue.timers \in [TimerIds -> Timer]
      /\ ue.ptr \in [Kinds -> TimerIds \cup {None}] /\ ue.timers[t].stopped
    BY DEF IInv, Sound, Typed, AmfUe, TimerEnds
<1>2. Idle \in Timer /\ \A k \in Kinds : ue.ptr[k] # t
    BY <1>1, Assumptions DEF Idle, Timer, Typed
<1>3. Put(ue, t, Idle, ue')
    BY <1>1, <1>2, PutTyped DEF TimerEnds
<1>4. ASSUME ~ue'.odd PROVE Calm(ue')
    <2>1. Calm(ue)
        BY <1>1, <1>3, <1>4 DEF Sound, Put
    <2>2. \A x \in TimerIds : ue'.timers[x] = IF x = t THEN Idle ELSE ue.timers[x]
        BY <1>1, <1>3 DEF Put
    <2>3. Reached(ue')
        BY <1>3, <2>1, <2>2 DEF Calm, Reached, Put, Running
    <2>4. OneWait(ue')
        BY <1>3, <2>1 DEF Calm, OneWait, Put
    <2>5. Cancelling(ue) = {} => Cancelling(ue') = {}
        <3>1. Idle.n = 0 /\ ~(0 > MaxRetry)
            BY Assumptions DEF Idle
        <3> QED BY <2>2, <3>1 DEF Cancelling
    <2>6. Gone(ue')
        BY <1>3, <2>1, <2>5 DEF Calm, Gone, Put
    <2>7. Waits(ue') /\ Secured(ue')
        BY <1>3, <2>1 DEF Calm, Waits, Asks, Secured, Put
    <2> QED BY <2>3, <2>4, <2>6, <2>7 DEF Calm
<1>5. Handled(ue, ue')
    BY <1>3, <1>4 DEF Handled, Sound, Put
<1> QED BY <1>5, HandledKept DEF TimerEnds

\* The cancel function of T3560 and T3570 removes the context, alone or with a race.
LEMMA CancelKept ==
    ASSUME IInv, NEW t \in TimerIds, CancelReturns(t)
    PROVE  Kept
<1> DEFINE others == releasing > 0 \/ ue.at # "none" \/ Cancelling(ue) # {t} \/ ue.timers[t].stopped
           w == RemoveAmfUe(ue, others)
<1>1. Sound(ue) /\ Typed(ue) /\ ue.removals \in 0 .. 2
    BY DEF IInv, Sound, Typed, AmfUe
<1>2. ue' = [w EXCEPT !.timers[t] = Idle]
    BY DEF CancelReturns
<1> HIDE DEF others
<1>3. RemovedFrom(ue, others, w)
    BY <1>1, RemoveFacts
<1> HIDE DEF w
<1>4. Typed(w) /\ w.timers \in [TimerIds -> Timer] /\ w.ptr = Nobody
    BY <1>3 DEF RemovedFrom, Typed, AmfUe
<1>5. Idle \in Timer /\ \A k \in Kinds : w.ptr[k] # t
    BY <1>4, Assumptions DEF Idle, Timer, Nobody
<1>6. Put(w, t, Idle, ue')
    BY <1>2, <1>4, <1>5, PutTyped
<1>7. ASSUME ~ue'.odd
      PROVE  /\ Calm(ue') /\ ~(releasing > 0) /\ ~ue.odd /\ ue'.gmm = ue.gmm
    <2>1. ~ue.odd /\ ~others
        BY <1>3, <1>6, <1>7 DEF RemovedFrom, Put
    <2>2. ~(releasing > 0) /\ ue.at = "none" /\ Cancelling(ue) = {t}
        BY <2>1 DEF others
    <2>3. ue.removals = 0 /\ Reached(ue)
        BY <1>1, <2>1, <2>2 DEF Sound, Calm, Gone
    <2>4. StopAll(ue).ptr = Nobody /\ Reached(StopAll(ue))
        BY <1>1, <2>3, StopAllFacts
    <2>5. \A x \in TimerIds : w.timers[x].n = ue.timers[x].n
        BY <1>1, <1>3, StopAllFacts DEF RemovedFrom
    <2>6. \A x \in TimerIds : ue'.timers[x] = IF x = t THEN Idle ELSE w.timers[x]
        BY <1>4, <1>6 DEF Put
    <2>7. Reached(ue')
        BY <1>3, <1>6, <2>4, <2>6 DEF Reached, RemovedFrom, Put, Running
    <2>8. Cancelling(ue') = {}
        <3>1. Idle.n = 0 /\ ~(0 > MaxRetry)
            BY Assumptions DEF Idle
        <3>2. \A x \in TimerIds : x # t => ~(ue.timers[x].n > MaxRetry)
            BY <2>2 DEF Cancelling
        <3> QED BY <2>5, <2>6, <3>1, <3>2 DEF Cancelling
    <2>9. ue'.ptr = Nobody /\ ~ue'.ran /\ ~ue'.pool /\ ue'.at = "none" /\ ue'.removals = 1 /\ ue'.gmm = ue.gmm
        BY <1>3, <1>6, <2>2, <2>3 DEF RemovedFrom, Put
    <2> QED BY <2>1, <2>2, <2>7, <2>8, <2>9, RemovedCalm
<1>8. ue.odd => ue'.odd
    BY <1>3, <1>6 DEF RemovedFrom, Put
<1>9. Sound(ue')
    BY <1>6, <1>7 DEF Sound, Put
<1>10. UNCHANGED <<releasing, crashed>>
    BY DEF CancelReturns
<1> QED BY <1>7, <1>8, <1>9, <1>10 DEF Kept, IInv

\* An expiry, also of a goroutine that was stopped.
LEMMA TickKept ==
    ASSUME IInv, NEW t \in TimerIds, Tick(t)
    PROVE  Kept
<1> DEFINE x == ue.timers[t]
           u == [ue EXCEPT !.odd = @ \/ x.stopped]
           p == [u EXCEPT !.ptr = [ue.ptr EXCEPT ![x.kind] = None]]
           last == x.n = MaxRetry
           v == IF last THEN Cancel(u, x.kind) ELSE Expire(u, x.kind)
           y == IF (last /\ x.kind = "T3550") \/ (~last /\ x.stopped) THEN Idle
                ELSE [x EXCEPT !.n = x.n + 1]
<1>1. /\ ue \in AmfUe /\ ue.timers \in [TimerIds -> Timer] /\ x \in Timer
      /\ ue.ptr \in [Kinds -> TimerIds \cup {None}] /\ Typed(ue) /\ Sound(ue)
    BY DEF IInv, Sound, Typed, AmfUe
<1>2. x # Idle /\ x.kind \in Kinds /\ x.n <= MaxRetry
    BY <1>1 DEF Tick, Typed
<1>3. u \in AmfUe
    BY <1>1 DEF AmfUe, Timer
<1>4. /\ u.odd = (ue.odd \/ x.stopped) /\ u.timers = ue.timers /\ u.ptr = ue.ptr /\ u.gmm = ue.gmm
      /\ u.removals = ue.removals /\ u.reg = ue.reg /\ u.auth = ue.auth /\ u.sec = ue.sec
      /\ u.ran = ue.ran /\ u.pool = ue.pool /\ u.at = ue.at
    BY <1>1 DEF AmfUe
<1>5. ue' = [v EXCEPT !.timers[t] = y] /\ UNCHANGED <<releasing, crashed>>
    BY DEF Tick
<1> HIDE DEF u
<1>6. Typed(u)
    BY <1>1, <1>3, <1>4 DEF Typed
<1>7. Idle \in Timer
    BY Assumptions DEF Idle, Timer
<1>8. \A k \in Kinds : k # x.kind \/ x.stopped => ue.ptr[k] # t
    BY <1>1, Assumptions DEF Typed
<1>9. ASSUME ~u.odd
      PROVE  /\ ~ue.odd /\ ~x.stopped /\ Calm(ue) /\ ue.ptr[x.kind] = t /\ t # None
             /\ ue.removals = 0 /\ ue.at \notin Still
             /\ \A k \in Kinds : k # x.kind => ue.ptr[k] = None
             /\ \A z \in TimerIds : z # t => ~Running(ue.timers[z])
    <2>1. ~ue.odd /\ Calm(ue) /\ ~x.stopped
        BY <1>1, <1>4, <1>9 DEF Sound
    <2>2. ue.ptr[x.kind] = t /\ t # None
        BY <1>2, <2>1, Assumptions DEF Calm, Reached, Running
    <2>3. \A k \in Kinds : k # x.kind => ue.ptr[k] = None
        BY <1>2, <2>1, <2>2 DEF Calm, OneWait
    <2>4. ue.ptr # Nobody
        BY <1>2, <2>2 DEF Nobody
    <2>5. ue.removals = 0 /\ ue.at \notin Still
        BY <1>1, <2>1, <2>4, Present DEF Calm, Waits
    <2>6. ASSUME NEW z \in TimerIds, z # t, Running(ue.timers[z]) PROVE FALSE
        <3>1. ue.timers[z].kind \in Kinds
            BY <1>1, <2>6 DEF Typed, Running
        <3> QED BY <2>1, <2>2, <2>3, <2>6, <3>1, Assumptions DEF Calm, Reached
    <2> QED BY <2>1, <2>2, <2>3, <2>5, <2>6
<1> HIDE DEF x
<1>10. /\ Typed(p) /\ p \in AmfUe /\ p.odd = u.odd /\ p.timers = u.timers /\ p.gmm = u.gmm
       /\ p.removals = u.removals /\ p.sec = u.sec /\ p.at = u.at
       /\ p.ptr = [ue.ptr EXCEPT ![x.kind] = None] /\ \A k \in Kinds : p.ptr[k] # t
       /\ ~u.odd => p.ptr = Nobody
    <2> DEFINE ps == [ue.ptr EXCEPT ![x.kind] = None]
    <2>1. /\ ps \in [Kinds -> TimerIds \cup {None}] /\ ps[x.kind] = None
          /\ \A k \in Kinds : k # x.kind => ps[k] = ue.ptr[k]
        BY <1>1, <1>2
    <2>2. ~u.odd => ps = Nobody
        BY <1>9, <2>1 DEF Nobody
    <2> HIDE DEF ps
    <2>3. p = [u EXCEPT !.ptr = ps]
        BY DEF ps
    <2>4. p \in AmfUe
        BY <1>3, <2>1, <2>3 DEF AmfUe
    <2>5. /\ p.odd = u.odd /\ p.timers = u.timers /\ p.gmm = u.gmm /\ p.removals = u.removals
          /\ p.sec = u.sec /\ p.at = u.at /\ p.ptr = ps
        BY <1>3, <2>3 DEF AmfUe
    <2> HIDE DEF p
    <2>6. Typed(p)
        BY <1>4, <1>6, <2>1, <2>4, <2>5 DEF Typed
    <2>7. \A k \in Kinds : p.ptr[k] # t
        BY <1>8, <2>1, <2>5, Assumptions
    <2> QED BY <2>2, <2>4, <2>5, <2>6, <2>7 DEF ps
<1>11. [u EXCEPT !.ptr[x.kind] = None] = p
    BY <1>3, <1>4 DEF AmfUe
<1> HIDE DEF p
<1>12. \* the counter goes on
       ASSUME y = [x EXCEPT !.n = x.n + 1]
       PROVE  /\ y \in Timer /\ y.kind = x.kind /\ y.stopped = x.stopped
              /\ last => y.n > MaxRetry
    <2>1. x.n + 1 \in 0 .. MaxRetry + 1 /\ (last => x.n + 1 > MaxRetry)
        <3>1. x.n \in 0 .. MaxRetry + 1 /\ x.n <= MaxRetry /\ MaxRetry \in Nat
            BY <1>1, <1>2, Assumptions DEF Timer
        <3> QED BY <3>1
    <2> HIDE DEF y, last
    <2> QED BY <1>1, <1>12, <2>1 DEF Timer
<1>13. y = Idle \/ y = [x EXCEPT !.n = x.n + 1]
    OBVIOUS
<1>14. y = Idle => (last /\ x.kind = "T3550") \/ (~last /\ x.stopped)
    <2>1. ASSUME y = [x EXCEPT !.n = x.n + 1] PROVE y # Idle
        <3>1. y.kind = x.kind
            BY <2>1, <1>12
        <3> QED BY <1>2, <3>1 DEF Idle, Kinds
    <2> QED BY <2>1
\* What the expiry function does.
<1>15. /\ Typed(v) /\ v.timers = ue.timers /\ v.removals = ue.removals /\ v.at = ue.at
       /\ (u.odd => v.odd) /\ (v.odd \/ v.odd = u.odd)
       /\ y = Idle => \A k \in Kinds : v.ptr[k] # t
       /\ ~v.odd => \/ last /\ x.kind = "T3550" /\ v.ptr = Nobody /\ v.gmm = "Registered" /\ v.sec = ue.sec
                    \/ last /\ x.kind = "T3560" /\ v.ptr = Nobody /\ v.gmm = ue.gmm /\ v.sec = ue.sec
                    \/ x.kind = "T3570" /\ v = u
                    \/ ~last /\ v = u
    <2>1. CASE last /\ x.kind = "T3550"
        <3>1. v = EnterRegistered(p)
            BY <1>11, <2>1 DEF Cancel
        <3> HIDE DEF v, y, last
        <3>2. SameTimers(p, v) /\ v.gmm = "Registered" /\ v.sec = p.sec
            BY <1>10, <3>1, EnterFacts
        <3>3. Typed(v) /\ v.odd = u.odd /\ \A k \in Kinds : v.ptr[k] # t
            BY <1>10, <3>2 DEF Typed, SameTimers
        <3> QED BY <1>4, <1>10, <2>1, <3>2, <3>3 DEF SameTimers
    <2>2. CASE last /\ x.kind = "T3560"
        <3>1. v = p /\ y # Idle
            BY <1>11, <1>14, <2>2 DEF Cancel
        <3> HIDE DEF v, y, last
        <3> QED BY <1>4, <1>10, <2>2, <3>1
    <2>3. CASE last /\ x.kind = "T3570"
        <3>1. v = u /\ y # Idle
            BY <1>14, <2>3 DEF Cancel
        <3> HIDE DEF v, y, last
        <3> QED BY <1>4, <1>6, <2>3, <3>1
    <2>4. CASE ~last
        <3>1. v = u \/ v = [p EXCEPT !.odd = TRUE]
            <4>1. [u EXCEPT !.ptr[x.kind] = None, !.odd = TRUE] = [p EXCEPT !.odd = TRUE]
                BY <1>11
            <4> QED BY <2>4, <4>1 DEF Expire
        <3>2. y = Idle => x.stopped
            BY <1>14, <2>4
        <3> HIDE DEF v, y, last
        <3>3. CASE v = u
            BY <1>4, <1>6, <1>8, <2>4, <3>2, <3>3
        <3>4. CASE v = [p EXCEPT !.odd = TRUE]
            <4>1. v \in AmfUe
                BY <1>10, <3>4 DEF AmfUe
            <4>2. v.odd /\ v.timers = p.timers /\ v.ptr = p.ptr /\ v.removals = p.removals /\ v.at = p.at
                BY <1>10, <3>4 DEF AmfUe
            <4>3. Typed(v)
                BY <1>10, <4>1, <4>2 DEF Typed
            <4> QED BY <1>4, <1>10, <4>2, <4>3
        <3> QED BY <3>1, <3>3, <3>4
    <2> QED BY <1>2, <2>1, <2>2, <2>3, <2>4 DEF Kinds
<1>16. v.timers[t] = x
    BY <1>15 DEF x
<1> HIDE DEF v, y, last
<1>17. Put(v, t, y, ue')
    <2>1. y \in Timer
        BY <1>7, <1>12, <1>13
    <2>2. \/ y = Idle /\ \A k \in Kinds : v.ptr[k] # t
          \/ y.kind = v.timers[t].kind /\ y.stopped = v.timers[t].stopped /\ y.kind \in Kinds
        BY <1>2, <1>12, <1>13, <1>15, <1>16
    <2> QED BY <1>5, <1>15, <2>1, <2>2, PutTyped
<1>18. ASSUME ~ue'.odd
       PROVE  Calm(ue') /\ (ue'.gmm = "Registered" => ue.gmm = "Registered" \/ ue'.sec)
    <2>1. ~v.odd /\ ~u.odd
        BY <1>15, <1>17, <1>18 DEF Put
    <2>2. /\ ~ue.odd /\ ~x.stopped /\ Calm(ue) /\ ue.ptr[x.kind] = t /\ t # None
          /\ ue.removals = 0 /\ ue.at \notin Still
          /\ \A k \in Kinds : k # x.kind => ue.ptr[k] = None
          /\ \A z \in TimerIds : z # t => ~Running(ue.timers[z])
        BY <1>9, <2>1
    <2>3. ue'.removals = 0 /\ ue'.at \notin Still
        BY <1>15, <1>17, <2>2 DEF Put
    <2>4. Gone(ue') /\ Waits(ue')
        BY <2>3 DEF Gone, Waits, Asks, Still
    <2>5. \A z \in TimerIds : ue'.timers[z] = IF z = t THEN y ELSE ue.timers[z]
        BY <1>1, <1>15, <1>17 DEF Put
    <2>6. CASE last /\ x.kind = "T3550"
        <3>1. ue'.ptr = Nobody /\ ue'.gmm = "Registered" /\ ue'.sec = ue.sec
            BY <1>15, <1>17, <2>1, <2>6 DEF Put
        <3>2. ue.gmm = "ContextSetup" /\ ue.sec
            BY <2>2, <2>6 DEF Calm, OneWait, Secured
        <3>3. ~Running(y)
            <4>1. y = Idle \/ y.n > MaxRetry
                BY <1>12, <1>13, <2>6
            <4>2. y \in Timer
                BY <1>7, <1>12, <1>13
            <4>3. y = Idle \/ ~(y.n <= MaxRetry)
                BY <4>1, <4>2, Assumptions DEF Timer
            <4> QED BY <4>3 DEF Running
        <3>4. Reached(ue')
            BY <2>2, <2>5, <3>3 DEF Reached
        <3>5. OneWait(ue') /\ Secured(ue')
            BY <3>1 DEF OneWait, Secured, Nobody, Kinds
        <3> QED BY <2>4, <3>1, <3>2, <3>4, <3>5 DEF Calm
    <2>7. CASE last /\ x.kind = "T3560"
        <3>1. ue'.ptr = Nobody /\ ue'.gmm = ue.gmm /\ ue'.sec = ue.sec
            BY <1>15, <1>17, <2>1, <2>7 DEF Put
        <3>2. ~Running(y)
            <4>1. y = Idle \/ y.n > MaxRetry
                BY <1>12, <1>13, <2>7
            <4>2. y \in Timer
                BY <1>7, <1>12, <1>13
            <4>3. y = Idle \/ ~(y.n <= MaxRetry)
                BY <4>1, <4>2, Assumptions DEF Timer
            <4> QED BY <4>3 DEF Running
        <3>3. Reached(ue')
            BY <2>2, <2>5, <3>2 DEF Reached
        <3>4. OneWait(ue')
            BY <3>1 DEF OneWait, Nobody, Kinds
        <3>5. Secured(ue')
            BY <2>2, <2>3, <3>1 DEF Calm, Secured
        <3> QED BY <2>4, <3>1, <3>3, <3>4, <3>5 DEF Calm
    <2>8. CASE v = u
        <3>1. /\ ue'.ptr = ue.ptr /\ ue'.gmm = ue.gmm /\ ue'.sec = ue.sec /\ ue'.reg = ue.reg
              /\ ue'.auth = ue.auth
            BY <1>4, <1>17, <2>8 DEF Put
        <3>2. y = Idle \/ y.kind = x.kind
            BY <1>12, <1>13
        <3>3. Reached(ue')
            BY <2>2, <2>5, <3>1, <3>2 DEF Reached, Running
        <3>4. OneWait(ue')
            BY <2>2, <3>1 DEF Calm, OneWait
        <3>5. Secured(ue')
            BY <2>2, <2>3, <3>1 DEF Calm, Secured
        <3> QED BY <2>4, <3>1, <3>3, <3>4, <3>5 DEF Calm
    <2> QED BY <1>15, <2>1, <2>6, <2>7, <2>8
<1>19. Sound(ue') /\ (ue.odd => ue'.odd) /\ ue'.removals = ue.removals
    BY <1>4, <1>15, <1>17, <1>18 DEF Sound, Put
<1> QED BY <1>5, <1>18, <1>19 DEF Kept, IInv

-----------------------------------------------------------------------------
(* The steps of a handler: a message, or the answer to a call.             *)

\* The handler that goes on after a call.
Resumed(h, call) ==
    /\ Handled(ue, h) /\ Sound(h) /\ h \in AmfUe /\ h.at = "none" /\ HasRoom(h)
    /\ h.gmm = ue.gmm /\ h.reg = ue.reg /\ h.auth = ue.auth /\ h.sec = ue.sec /\ h.odd = ue.odd
    /\ h.timers = ue.timers
    /\ ~h.odd => h.removals = 0 /\ Asks(h, call)
    /\ call \in Still => Clear(h)

LEMMA HandlerFacts ==
    ASSUME IInv, NEW call \in Calls, call # "none", Return(call)
    PROVE  Resumed(Handler, call)
<1> DEFINE h == Await(ue, "none")
<1>1. Sound(ue) /\ ue \in AmfUe /\ ue.at = call /\ HasRoom(ue) /\ "none" \in Calls
    BY DEF IInv, Sound, Typed, Return, Room, HasRoom, Calls
<1>2. /\ h \in AmfUe /\ h.at = "none" /\ h.timers = ue.timers /\ h.ptr = ue.ptr /\ h.odd = ue.odd
      /\ h.removals = ue.removals /\ h.gmm = ue.gmm /\ h.reg = ue.reg /\ h.auth = ue.auth
      /\ h.sec = ue.sec
    BY <1>1, AwaitFacts
<1>3. Asks(ue, "none")
    BY DEF Asks
<1>4. Handled(ue, h)
    BY <1>1, <1>3, AwaitSound DEF Still
<1>5. Sound(h) /\ HasRoom(h)
    BY <1>1, <1>2, <1>4 DEF Handled, HasRoom
<1> HIDE DEF h
<1>6. ASSUME ~h.odd PROVE h.removals = 0 /\ Asks(h, call) /\ (call \in Still => h.ptr = Nobody)
    <2>1. Calm(ue) /\ ue.removals \in 0 .. 2
        BY <1>1, <1>2, <1>6 DEF Sound, AmfUe
    <2>2. ue.removals = 0
        BY <1>1, <2>1 DEF Calm, Gone
    <2>3. Asks(ue, call) /\ (call \in Still => ue.ptr = Nobody)
        BY <1>1, <2>1 DEF Calm, Waits
    <2> QED BY <1>2, <2>2, <2>3 DEF Asks
<1>7. Handler = h
    BY DEF Handler, h
<1> QED BY <1>2, <1>4, <1>5, <1>6, <1>7 DEF Resumed, Clear

LEMMA RegistrationRequestKept ==
    ASSUME IInv, NEW type, NEW identity, NEW keep, RegistrationRequest(type, identity, keep)
    PROVE  Kept
<1>1. Sound(ue) /\ HasRoom(ue) /\ ue.at = "none" /\ UNCHANGED <<releasing, crashed>>
    BY DEF IInv, RegistrationRequest, Receive, Room, HasRoom
<1>2. PICK c \in Connections(ue) :
          ue' \in IF c.gmm \in {"Deregistered", "Registered"}
                  THEN HandleRegistrationRequest(c, type, identity, keep) ELSE {c}
    BY DEF RegistrationRequest
<1>3. Handled(ue, c) /\ Sound(c) /\ c.ran /\ c.at = "none" /\ HasRoom(c)
    BY <1>1, ConnectionSound DEF Handled
<1>4. CASE c.gmm \in {"Deregistered", "Registered"}
    <2>1. Clear(c)
        BY <1>3, <1>4, IdleClear
    <2>2. Handled(c, ue')
        BY <1>2, <1>4, <2>1, RegistrationSound
    <2> QED BY <1>1, <1>3, <2>2, HandledTrans, HandledKept
<1>5. CASE c.gmm \notin {"Deregistered", "Registered"}
    <2>1. ue' = c
        BY <1>2, <1>5
    <2> QED BY <1>1, <1>3, <2>1, HandledKept
<1> QED BY <1>4, <1>5

LEMMA ServiceRequestKept ==
    ASSUME IInv, ServiceRequest
    PROVE  Kept
<1>1. Sound(ue) /\ HasRoom(ue) /\ ue.at = "none" /\ UNCHANGED <<releasing, crashed>>
    BY DEF IInv, ServiceRequest, Receive, Room, HasRoom
<1>2. PICK c \in Connections(ue) : ue' = c \/ ue' = Await(c, "service")
    BY DEF ServiceRequest
<1>3. Handled(ue, c) /\ Sound(c) /\ c.ran
    BY <1>1, ConnectionSound DEF Handled
<1>4. CASE ue' = Await(c, "service")
    <2>1. "service" \in Calls /\ "service" \notin Still /\ Asks(c, "service")
        BY DEF Calls, Still, Asks
    <2>2. ~c.odd => c.removals = 0
        BY <1>3, Present
    <2>3. Handled(c, ue')
        BY <1>3, <1>4, <2>1, <2>2, AwaitSound
    <2> QED BY <1>1, <1>3, <2>3, HandledTrans, HandledKept
<1> QED BY <1>1, <1>2, <1>3, <1>4, HandledKept

\* The answers that are handled in a step, or as far as a call.
LEMMA AnswerKept ==
    ASSUME IInv,
           \/ \E k \in {"suci", "imei"} : IdentityResponse(k)
           \/ AuthenticationResponse \/ SecurityModeComplete \/ SecurityModeReject
    PROVE  Kept
<1>1. Sound(ue) /\ HasRoom(ue) /\ ue.ran /\ ue.at = "none" /\ UNCHANGED <<releasing, crashed>>
    BY DEF IInv, IdentityResponse, AuthenticationResponse, SecurityModeComplete,
           SecurityModeReject, Answer, Receive, Room, HasRoom
<1>2. ASSUME NEW k, IdentityResponse(k) PROVE Handled(ue, ue')
    BY <1>1, <1>2, IdentitySound DEF IdentityResponse, Answer
<1>3. CASE AuthenticationResponse
    BY <1>1, <1>3, ResponseSound, HandledKept DEF AuthenticationResponse, Answer
<1>4. CASE SecurityModeComplete
    BY <1>1, <1>4, CompleteSound, HandledKept DEF SecurityModeComplete, Answer
<1>5. CASE SecurityModeReject
    <2> DEFINE s == StopAfter(ue, "T3560")
    <2>1. Clear(s) /\ Handled(ue, s)
        BY <1>1, StopAfterClear DEF Kinds
    <2>2. ue' = EnterDeregistered(s)
        BY <1>5 DEF SecurityModeReject, HandleSecurityModeReject
    <2> HIDE DEF s
    <2>3. Handled(s, ue')
        BY <2>1, <2>2, DeregisteredSound DEF Clear
    <2> QED BY <1>1, <2>1, <2>3, HandledTrans, HandledKept
<1> QED BY <1>1, <1>2, <1>3, <1>4, <1>5, HandledKept

\* The authentication context is missing only after an answer without a timer.
LEMMA AuthenticationFailureKept ==
    ASSUME IInv, AuthenticationFailure
    PROVE  Kept
<1>1. /\ Sound(ue) /\ HasRoom(ue) /\ ue.ran /\ ue.at = "none" /\ ue.gmm = "Authentication"
      /\ releasing' = releasing
    BY DEF IInv, AuthenticationFailure, Answer, Receive, Room, HasRoom
<1>2. CASE ue.auth
    <2>1. ue' \in HandleAuthenticationFailure(ue) /\ crashed' = crashed
        BY <1>2 DEF AuthenticationFailure
    <2> QED BY <1>1, <1>2, <2>1, FailureSound, HandledKept
<1>3. CASE ~ue.auth
    <2>1. ue' = StopAfter(ue, "T3560") /\ "T3560" \in Kinds
        BY <1>3 DEF AuthenticationFailure, Kinds
    <2>2. Handled(ue, ue') /\ (ue.odd \/ ue.ptr["T3560"] = None => ue'.odd)
        BY <1>1, <2>1, StopAfterClear
    <2>3. ue'.odd
        BY <1>1, <1>3, <2>2 DEF Sound, Calm, OneWait
    <2> QED BY <1>1, <2>2, <2>3 DEF Kept, IInv, Handled
<1> QED BY <1>2, <1>3

\* The handlers that go on after a call, except those that remove or register.
LEMMA ReturnsKept ==
    ASSUME IInv,
           \/ TransferReturns \/ AuthenticateReturns \/ ServiceReturns \/ ConfirmReturns
           \/ ResyncReturns \/ PolicyReturns \/ ReleaseRequestReturns
           \/ \E target \in {"3gpp", "non3gpp", "both"} : DeregisterReturns(target)
           \/ Return("normal") /\ ue' = Detach(Handler) /\ UNCHANGED crashed
    PROVE  Kept
<1> DEFINE h == Handler
<1>1. ASSUME NEW call \in Calls, call # "none", Return(call), UNCHANGED crashed, Handled(h, ue')
      PROVE  Kept
    <2>1. Handled(ue, h)
        BY <1>1, HandlerFacts DEF Resumed
    <2>2. UNCHANGED <<releasing, crashed>>
        BY <1>1 DEF Return
    <2> QED BY <1>1, <2>1, <2>2, HandledTrans, HandledKept
<1>2. CASE TransferReturns
    <2>1. Return("transfer") /\ ue' \in HandleTransfer(h) /\ UNCHANGED crashed
        BY <1>2 DEF TransferReturns
    <2>2. "transfer" \in Calls /\ "transfer" \in Still
        BY DEF Calls, Still
    <2>3. Clear(h)
        BY <2>1, <2>2, HandlerFacts DEF Resumed
    <2> HIDE DEF h
    <2> QED BY <1>1, <2>1, <2>2, <2>3, TransferSound
<1>3. CASE AuthenticateReturns
    <2>1. Return("authenticate") /\ ue' \in HandleChallenge(h) /\ UNCHANGED crashed
        BY <1>3 DEF AuthenticateReturns
    <2>2. "authenticate" \in Calls /\ "authenticate" \in Still
        BY DEF Calls, Still
    <2>3. Clear(h) /\ (~h.odd => h.gmm = "Authentication")
        BY <2>1, <2>2, HandlerFacts DEF Resumed, Asks
    <2> HIDE DEF h
    <2> QED BY <1>1, <2>1, <2>2, <2>3, ChallengeSound
<1>4. CASE ServiceReturns
    <2>1. /\ Return("service") /\ UNCHANGED crashed
          /\ ue' = h \/ ue' = Command(h, "normal")
        BY <1>4 DEF ServiceReturns
    <2>2. "service" \in Calls
        BY DEF Calls
    <2>3. Sound(h)
        BY <2>1, <2>2, HandlerFacts DEF Resumed
    <2> HIDE DEF h
    <2> QED BY <1>1, <2>1, <2>2, <2>3, CommandSound, HandledSelf
<1>5. CASE ConfirmReturns
    <2>1. Return("confirm") /\ ue' \in HandleConfirmation(h) /\ UNCHANGED crashed
        BY <1>5 DEF ConfirmReturns
    <2>2. "confirm" \in Calls /\ "confirm" \in Still
        BY DEF Calls, Still
    <2>3. Clear(h) /\ (~h.odd => h.gmm = "Authentication" /\ h.auth)
        BY <2>1, <2>2, HandlerFacts DEF Resumed, Asks
    <2> HIDE DEF h
    <2> QED BY <1>1, <2>1, <2>2, <2>3, ConfirmationSound
<1>6. CASE ResyncReturns
    <2>1. /\ Return("resync") /\ UNCHANGED crashed
          /\ ue' = h \/ ue' \in Send([h EXCEPT !.auth = TRUE], "T3560")
        BY <1>6 DEF ResyncReturns
    <2>2. "resync" \in Calls /\ "resync" \in Still
        BY DEF Calls, Still
    <2>3. Sound(h) /\ Clear(h) /\ (~h.odd => h.gmm = "Authentication")
        BY <2>1, <2>2, HandlerFacts DEF Resumed, Asks
    <2> HIDE DEF h
    <2> QED BY <1>1, <2>1, <2>2, <2>3, ChallengeSent, HandledSelf
<1>7. CASE PolicyReturns
    <2> DEFINE w == [h EXCEPT !.pool = TRUE]
    <2>1. Return("policy") /\ UNCHANGED crashed /\ ue' \in Send(w, "T3550")
        BY <1>7 DEF PolicyReturns
    <2>2. "policy" \in Calls /\ "policy" \in Still
        BY DEF Calls, Still
    <2>3. h \in AmfUe /\ Clear(h) /\ (~h.odd => h.gmm = "ContextSetup" /\ h.reg # "none")
        BY <2>1, <2>2, HandlerFacts DEF Resumed, Asks
    <2> HIDE DEF h
    <2>4. w \in AmfUe
        BY <2>3 DEF AmfUe
    <2>5. SameTimers(h, w) /\ w.gmm = h.gmm /\ w.sec = h.sec /\ w.reg = h.reg
        BY <2>3, <2>4 DEF AmfUe, SameTimers
    <2> HIDE DEF w
    <2>6. Clear(w) /\ w.odd = h.odd
        BY <2>3, <2>5, ClearSame
    <2>7. "T3550" \in Kinds /\ (~w.odd => Fits(w, "T3550"))
        BY <2>3, <2>5, <2>6 DEF Kinds, Fits
    <2>8. Handled(w, ue')
        BY <2>1, <2>6, <2>7, SendSound
    <2>9. Handled(h, ue')
        BY <2>5, <2>8, HandledFrom
    <2> QED BY <1>1, <2>1, <2>2, <2>9
<1>8. ASSUME NEW target, DeregisterReturns(target) PROVE Kept
    <2> DEFINE c == Command(h, "context")
    <2>1. /\ Return("deregister") /\ UNCHANGED crashed
          /\ ue' = h \/ ue' = c \/ ue' = EnterDeregistered(c)
        BY <1>8 DEF DeregisterReturns, HandleDeregistration, Event
    <2>2. "deregister" \in Calls /\ "deregister" \in Still
        BY DEF Calls, Still
    <2>3. Sound(h) /\ Clear(h)
        BY <2>1, <2>2, HandlerFacts DEF Resumed
    <2> HIDE DEF h
    <2>4. Handled(h, c) /\ Clear(c)
        BY <2>3, CommandSound, ClearSame
    <2> HIDE DEF c
    <2>5. Handled(c, EnterDeregistered(c))
        BY <2>4, DeregisteredSound DEF Clear
    <2>6. Handled(h, ue')
        BY <2>1, <2>3, <2>4, <2>5, HandledSelf, HandledTrans
    <2> QED BY <1>1, <2>1, <2>2, <2>6
<1>9. CASE ReleaseRequestReturns
    <2>1. PICK call \in {"deactivate", "sessions"}, r \in {"normal", "context"} :
              Return(call) /\ UNCHANGED crashed /\ ue' = Command(h, r)
        BY <1>9 DEF ReleaseRequestReturns
    <2>2. call \in Calls /\ call # "none"
        BY DEF Calls, Still
    <2>3. Sound(h)
        BY <2>1, <2>2, HandlerFacts DEF Resumed
    <2> HIDE DEF h
    <2> QED BY <1>1, <2>1, <2>2, <2>3, CommandSound
<1>10. CASE Return("normal") /\ ue' = Detach(h) /\ UNCHANGED crashed
    <2>1. "normal" \in Calls
        BY DEF Calls
    <2>2. Sound(h)
        BY <1>10, <2>1, HandlerFacts DEF Resumed
    <2> HIDE DEF h
    <2> QED BY <1>1, <1>10, <2>1, <2>2, DetachSound
<1> QED BY <1>2, <1>3, <1>4, <1>5, <1>6, <1>7, <1>8, <1>9, <1>10

\* The registration goes on: its request is there unless a race is noted.
LEMMA SetupReturnsKept ==
    ASSUME IInv, SetupReturns
    PROVE  Kept
<1> DEFINE h == Handler
<1>1. Return("setup") /\ "setup" \in Calls /\ "setup" \in Still /\ releasing' = releasing
    BY DEF SetupReturns, Calls, Still, Return
<1>2. /\ Handled(ue, h) /\ Clear(h) /\ h.odd = ue.odd /\ h.reg = ue.reg
      /\ ~h.odd => h.gmm = "ContextSetup" /\ h.reg # "none"
    BY <1>1, HandlerFacts DEF Resumed, Asks
<1>3. CASE ue.reg = "none"
    <2>1. ue.odd /\ ue' = ue
        BY <1>2, <1>3 DEF SetupReturns
    <2> QED BY <1>1, <2>1 DEF IInv, Kept
<1>4. CASE ue.reg # "none"
    <2>1. ue' \in Accept(h) /\ UNCHANGED crashed
        BY <1>4 DEF SetupReturns
    <2> HIDE DEF h
    <2>2. Handled(h, ue')
        BY <1>2, <2>1, AcceptSound
    <2> QED BY <1>1, <1>2, <2>1, <2>2, HandledTrans, HandledKept
<1> QED BY <1>3, <1>4

LEMMA RegistrationCompleteKept ==
    ASSUME IInv, RegistrationComplete
    PROVE  Kept
<1> DEFINE s == StopAfter(ue, "T3550")
<1>1. /\ Sound(ue) /\ HasRoom(ue) /\ ue.ran /\ ue.at = "none" /\ ue.gmm = "ContextSetup"
      /\ UNCHANGED <<releasing, crashed>> /\ "T3550" \in Kinds
    BY DEF IInv, RegistrationComplete, Answer, Receive, Room, HasRoom, Kinds
<1>2. ue' = Await(s, "complete")
    BY DEF RegistrationComplete
<1>3. /\ Clear(s) /\ Handled(ue, s) /\ s.gmm = ue.gmm /\ s.reg = ue.reg
      /\ ue.odd \/ ue.ptr["T3550"] = None => s.odd
    BY <1>1, StopAfterClear
<1> HIDE DEF s
<1>4. ~s.odd => Asks(s, "complete")
    BY <1>1, <1>3 DEF Asks, Sound, Calm, OneWait
<1>5. Handled(s, ue')
    BY <1>2, <1>3, <1>4, AwaitClear DEF Calls, Still
<1> QED BY <1>1, <1>3, <1>5, HandledTrans, HandledKept

LEMMA CompleteReturnsKept ==
    ASSUME IInv, CompleteReturns
    PROVE  Kept
<1> DEFINE h == Handler
<1>1. Return("complete") /\ "complete" \in Calls /\ "complete" \in Still /\ releasing' = releasing
    BY DEF CompleteReturns, Calls, Still, Return
<1>2. /\ Handled(ue, h) /\ Sound(h) /\ Clear(h) /\ h.odd = ue.odd /\ h.reg = ue.reg
      /\ ~h.odd => h.gmm = "ContextSetup" /\ h.reg # "none"
    BY <1>1, HandlerFacts DEF Resumed, Asks
<1>3. CASE ue.reg = "none"
    <2>1. ue.odd /\ ue' = ue
        BY <1>2, <1>3 DEF CompleteReturns
    <2> QED BY <1>1, <2>1 DEF IInv, Kept
<1>4. CASE ue.reg # "none"
    <2>1. PICK c \in {h, Command(h, "normal")} : ue' = EnterRegistered(c) \/ ue' = c
        BY <1>4 DEF CompleteReturns, Event
    <2>2. crashed' = crashed
        BY <1>4 DEF CompleteReturns
    <2> HIDE DEF h
    <2>3. Handled(h, c) /\ Clear(c) /\ c.gmm = h.gmm /\ c.odd = h.odd
        BY <1>2, HandledSelf, CommandSound, ClearSame
    <2>4. Handled(ue, c) /\ c \in AmfUe /\ Sound(c)
        BY <1>2, <2>3, HandledTrans DEF Clear, Sound, Typed
    <2>5. CASE ue' = c
        BY <1>1, <2>2, <2>4, <2>5, HandledKept
    <2>6. CASE ue' = EnterRegistered(c)
        <3>1. SameTimers(c, ue') /\ ue'.gmm = "Registered" /\ ue'.sec = c.sec
            BY <2>4, <2>6, EnterFacts
        <3>2. Sound(ue')
            BY <2>3, <3>1, ClearKept
        <3>3. ~ue'.odd => ue'.sec
            BY <1>2, <2>3, <2>4, <3>1 DEF SameTimers, Sound, Calm, Secured, Clear
        <3>4. (ue.odd => ue'.odd) /\ (~ue'.odd => ue'.removals = ue.removals)
            BY <2>4, <3>1 DEF Handled, SameTimers
        <3> QED BY <1>1, <2>2, <3>2, <3>3, <3>4 DEF Kept, IInv
    <2> QED BY <2>1, <2>5, <2>6
<1> QED BY <1>3, <1>4

LEMMA DeregistrationRequestKept ==
    ASSUME IInv, DeregistrationRequest
    PROVE  Kept
<1> DEFINE d == [ue EXCEPT !.gmm = "DeregistrationInitiated"]
<1>1. /\ Sound(ue) /\ ue \in AmfUe /\ HasRoom(ue) /\ ue.ran /\ ue.at = "none"
      /\ ue.gmm = "Registered" /\ UNCHANGED <<releasing, crashed>>
    BY DEF IInv, Sound, Typed, DeregistrationRequest, Receive, Room, HasRoom
<1>2. ue' = Await(d, "deregister")
    BY DEF DeregistrationRequest
<1>3. d \in AmfUe
    BY <1>1 DEF AmfUe, States
<1>4. SameTimers(ue, d) /\ d.gmm = "DeregistrationInitiated"
    BY <1>1, <1>3 DEF AmfUe, SameTimers
<1> HIDE DEF d
<1>5. Clear(d)
    BY <1>1, <1>4, IdleClear, ClearKept
<1>6. "deregister" \in Calls /\ Asks(d, "deregister")
    BY DEF Calls, Still, Asks
<1>7. Handled(d, ue')
    BY <1>2, <1>5, <1>6, AwaitClear
<1> QED BY <1>1, <1>4, <1>7, HandledFrom, HandledKept

-----------------------------------------------------------------------------
(* Removals and changes of the N2 connection.                              *)

\* A handler that removes the context is alone, or the race is noted.
LEMMA HandlerRemoves ==
    ASSUME IInv, NEW call \in Calls, call # "none", Return(call),
           NEW r, r = RemoveAmfUe(Handler, releasing > 0 \/ Cancelling(ue) # {})
    PROVE  /\ Sound(r) /\ r.ptr = Nobody /\ r.at = "none" /\ r.gmm = ue.gmm
           /\ ue.odd => r.odd
           /\ ~r.odd => ~(releasing > 0)
<1> DEFINE h == Handler
           others == releasing > 0 \/ Cancelling(ue) # {}
<1>1. Sound(h) /\ h.at = "none" /\ h.gmm = ue.gmm /\ h.odd = ue.odd /\ h.timers = ue.timers
    BY HandlerFacts DEF Resumed
<1>2. ~h.odd => h.removals = 0
    BY HandlerFacts DEF Resumed
<1> HIDE DEF h
<1>3. Cancelling(h) = Cancelling(ue)
    BY <1>1 DEF Cancelling
<1>4. ~others => Cancelling(h) = {} /\ ~(releasing > 0)
    BY <1>3
<1>5. r = RemoveAmfUe(h, others)
    BY DEF h
<1> HIDE DEF others
<1>6. Sound(r)
    BY <1>1, <1>2, <1>4, <1>5, RemoveSound
<1>7. RemovedFrom(h, others, r)
    BY <1>1, <1>5, RemoveFacts DEF Sound
<1> QED BY <1>1, <1>4, <1>6, <1>7 DEF RemovedFrom

LEMMA FailReturnsKept ==
    ASSUME IInv, FailReturns
    PROVE  Kept
<1> DEFINE r == RemoveAmfUe(Handler, releasing > 0 \/ Cancelling(ue) # {})
<1>1. Return("fail") /\ "fail" \in Calls /\ UNCHANGED <<releasing, crashed>> /\ ue' = AuthError(r)
    BY DEF FailReturns, Calls, Still, Return
<1>2. Sound(r) /\ r.ptr = Nobody /\ r.at = "none" /\ (ue.odd => r.odd) /\ (~r.odd => ~(releasing > 0))
    BY <1>1, HandlerRemoves
<1> HIDE DEF r
<1>3. Handled(r, ue') /\ ue'.gmm = "Deregistered" /\ ue'.odd = r.odd
    BY <1>1, <1>2, AuthErrorSound
<1> QED BY <1>1, <1>2, <1>3 DEF Kept, IInv, Handled

LEMMA ContextReleasedKept ==
    ASSUME IInv, Return("context"), UNCHANGED crashed,
           ue' = RemoveAmfUe(Handler, releasing > 0 \/ Cancelling(ue) # {})
    PROVE  Kept
<1>1. "context" \in Calls /\ releasing' = releasing
    BY DEF Calls, Return
<1>2. Sound(ue') /\ (ue.odd => ue'.odd) /\ (~ue'.odd => ~(releasing > 0)) /\ ue'.gmm = ue.gmm
    BY <1>1, HandlerRemoves
<1> QED BY <1>1, <1>2 DEF Kept, IInv

\* The SBI server removes the context it has found.
LEMMA ReleaseKept ==
    ASSUME IInv, ReleaseUEContext
    PROVE  Kept
<1> DEFINE others == ue.at # "none" \/ releasing > 1 \/ Cancelling(ue) # {}
<1>1. /\ Sound(ue) /\ releasing \in Nat /\ releasing > 0 /\ releasing' = releasing - 1
      /\ ue' = RemoveAmfUe(ue, others) /\ crashed' = crashed
    BY DEF IInv, ReleaseUEContext
<1>2. ~ue.odd => ue.removals = 0
    BY <1>1 DEF IInv
<1>3. ~others => ue.at = "none" /\ Cancelling(ue) = {} /\ ~(releasing > 1)
    OBVIOUS
<1> HIDE DEF others
<1>4. Sound(ue')
    BY <1>1, <1>2, <1>3, RemoveSound
<1>5. RemovedFrom(ue, others, ue')
    BY <1>1, RemoveFacts DEF Sound
<1>6. (ue.odd => ue'.odd) /\ (~ue'.odd => ~(releasing > 1)) /\ ue'.gmm = ue.gmm
    BY <1>3, <1>5 DEF RemovedFrom
<1>7. releasing' \in Nat /\ (~(releasing > 1) => ~(releasing' > 0))
    BY <1>1
<1> QED BY <1>1, <1>4, <1>6, <1>7 DEF Kept, IInv

\* A goroutine of the SBI server finds only a context that is there.
LEMMA FindKept ==
    ASSUME IInv, FindUEContext
    PROVE  Kept
<1>1. UNCHANGED <<ue, crashed>> /\ releasing' = releasing + 1 /\ ue.pool /\ Sound(ue)
    BY DEF FindUEContext, IInv
<1>2. ~ue.odd => ue.removals = 0
    BY <1>1, Present
<1>3. releasing' \in Nat
    BY <1>1 DEF IInv
<1> QED BY <1>1, <1>2, <1>3 DEF IInv, Kept

\* A running T3550 counts as a registration only of a secured context.
LEMMA SettleSound ==
    ASSUME NEW u, Sound(u), u.at = "none", NEW q, q = Cut(Settle(u))
    PROVE  /\ Sound(q) /\ q \in AmfUe /\ q.at = "none" /\ q.odd = u.odd /\ q.removals = u.removals
           /\ q.ran = u.ran /\ q.pool = u.pool
           /\ ~q.odd /\ u.gmm # "Registered" /\ q.gmm = "Registered" => q.sec
<1> DEFINE e == Settle(u)
<1>1. u \in AmfUe /\ Typed(u)
    BY DEF Sound, Typed
<1>2. CASE u.ptr["T3550"] = None
    <2>1. q = Cut(u)
        BY <1>2 DEF Settle
    <2> QED BY <2>1, CutFacts DEF Handled
<1>3. CASE u.ptr["T3550"] # None
    <2>1. e = [u EXCEPT !.gmm = "Registered"]
        BY <1>3 DEF Settle
    <2>2. e \in AmfUe
        BY <1>1, <2>1 DEF AmfUe, States
    <2>3. /\ SameTimers(u, e) /\ e.gmm = "Registered" /\ e.sec = u.sec
          /\ e.ran = u.ran /\ e.pool = u.pool
        BY <1>1, <2>1, <2>2 DEF AmfUe, SameTimers
    <2> HIDE DEF e
    <2>4. Typed(e)
        BY <1>1, <2>3 DEF Typed, SameTimers
    <2> DEFINE s == StopAll(e)
               b == s.cut \/ (silent /\ e.ptr # Nobody)
    <2>5. /\ Typed(s) /\ s \in AmfUe /\ s.ptr = Nobody /\ s.odd = e.odd /\ s.removals = e.removals
          /\ s.gmm = e.gmm /\ s.sec = e.sec /\ s.ran = e.ran /\ s.pool = e.pool /\ s.at = e.at
        BY <2>4, StopAllFacts DEF Typed
    <2>6. Reached(u) => Reached(s)
        BY <2>3, <2>4, StopAllFacts DEF Reached, SameTimers
    <2>7. q = [s EXCEPT !.cut = b] /\ b \in BOOLEAN
        BY DEF Cut, e
    <2> HIDE DEF s, b
    <2>8. q \in AmfUe
        BY <2>5, <2>7 DEF AmfUe
    <2>9. /\ SameTimers(s, q) /\ q.gmm = s.gmm /\ q.sec = s.sec /\ q.ran = s.ran /\ q.pool = s.pool
        BY <2>5, <2>7, <2>8 DEF AmfUe, SameTimers
    <2>10. /\ q.odd = u.odd /\ q.removals = u.removals /\ q.at = "none" /\ q.ptr = Nobody
           /\ q.gmm = "Registered" /\ q.sec = u.sec /\ q.ran = u.ran /\ q.pool = u.pool
           /\ q.timers = s.timers /\ q.ptr = s.ptr
        BY <2>3, <2>5, <2>9 DEF SameTimers
    <2>11. Typed(q)
        BY <2>5, <2>8, <2>10 DEF Typed
    <2>12. ASSUME ~q.odd PROVE Calm(q) /\ q.sec
        <3>1. ~u.odd /\ Calm(u) /\ u.removals = 0
            <4>1. u.ptr # Nobody
                BY <1>3 DEF Nobody, Kinds
            <4> QED BY <2>10, <2>12, <4>1, Present DEF Sound
        <3>2. u.sec
            BY <1>3, <3>1 DEF Calm, OneWait, Secured
        <3>3. Reached(q)
            BY <2>6, <2>10, <3>1 DEF Calm, Reached
        <3>4. OneWait(q) /\ Gone(q)
            BY <2>10, <3>1 DEF OneWait, Gone, Nobody, Kinds
        <3>5. Waits(q) /\ Secured(q)
            BY <2>10, <3>2 DEF Waits, Asks, Still, Secured
        <3> QED BY <2>10, <3>2, <3>3, <3>4, <3>5 DEF Calm
    <2> QED BY <2>8, <2>10, <2>11, <2>12 DEF Sound
<1> QED BY <1>2, <1>3

\* What the RAN does.
LEMMA NgapKept ==
    ASSUME IInv,
           \/ InitialUEMessageOfAnother \/ UEContextReleaseRequest \/ UEContextReleaseComplete
           \/ RanLost \/ ErrorIndication \/ HandoverNotify
    PROVE  Kept
<1>1. /\ Sound(ue) /\ ue \in AmfUe /\ ue.ran /\ ue.at = "none"
      /\ UNCHANGED <<releasing, crashed>>
    BY DEF IInv, Sound, Typed, Ngap, InitialUEMessageOfAnother, UEContextReleaseRequest,
           UEContextReleaseComplete, RanLost, ErrorIndication, HandoverNotify
<1>2. ~ue.odd => ue.removals = 0
    BY <1>1, Present
<1> DEFINE s == Cut(ue)
<1>3. /\ Handled(ue, s) /\ Sound(s) /\ s.ptr = Nobody /\ s.odd = ue.odd /\ s.removals = ue.removals
    BY <1>1, CutFacts DEF Handled
<1>4. CASE InitialUEMessageOfAnother
    <2>1. ue' = Detach(s)
        BY <1>4 DEF InitialUEMessageOfAnother
    <2> HIDE DEF s
    <2> QED BY <1>1, <1>3, <2>1, DetachSound, HandledTrans, HandledKept
<1>5. CASE UEContextReleaseRequest
    <2>1. ue' = Detach(s) \/ ue' = Await(s, "deactivate") \/ ue' = Await(s, "sessions")
        BY <1>5 DEF UEContextReleaseRequest
    <2> HIDE DEF s
    <2>2. /\ "deactivate" \in Calls /\ Asks(s, "deactivate")
          /\ "sessions" \in Calls /\ Asks(s, "sessions")
        BY DEF Calls, Still, Asks
    <2>3. Handled(s, ue')
        BY <1>2, <1>3, <2>1, <2>2, DetachSound, AwaitSound
    <2> QED BY <1>1, <1>3, <2>3, HandledTrans, HandledKept
<1>6. CASE UEContextReleaseComplete
    <2>1. ue' = Await(ue, ue.rel) /\ ue.rel \in {"normal", "context"}
        BY <1>1, <1>6 DEF UEContextReleaseComplete, AmfUe
    <2>2. ue.rel \in Calls /\ ue.rel \notin Still /\ Asks(ue, ue.rel)
        BY <2>1 DEF Calls, Still, Asks
    <2> QED BY <1>1, <1>2, <2>1, <2>2, AwaitSound, HandledKept
<1>7. CASE RanLost
    BY <1>1, <1>7, DetachSound, HandledKept DEF RanLost
<1>8. CASE ErrorIndication
    <2> DEFINE q == Cut(Settle(ue))
    <2>1. ue' = Detach(q)
        BY <1>8 DEF ErrorIndication
    <2>2. /\ Sound(q) /\ q \in AmfUe /\ q.odd = ue.odd /\ q.removals = ue.removals
          /\ ~q.odd /\ ue.gmm # "Registered" /\ q.gmm = "Registered" => q.sec
        BY <1>1, SettleSound
    <2> HIDE DEF q
    <2>3. /\ Sound(ue') /\ ue'.odd = q.odd /\ ue'.removals = q.removals /\ ue'.gmm = q.gmm
          /\ ue'.sec = q.sec
        BY <2>1, <2>2, DetachSound, DetachFacts DEF Handled, SameTimers
    <2> QED BY <1>1, <2>2, <2>3 DEF Kept, IInv
<1>9. CASE HandoverNotify
    <2>1. ue' = Await(ue, "handover")
        BY <1>9 DEF HandoverNotify
    <2>2. "handover" \in Calls /\ "handover" \notin Still /\ Asks(ue, "handover")
        BY DEF Calls, Still, Asks
    <2> QED BY <1>1, <1>2, <2>1, <2>2, AwaitSound, HandledKept
<1> QED BY <1>4, <1>5, <1>6, <1>7, <1>8, <1>9

LEMMA HandoverKept ==
    ASSUME IInv, HandoverReturns
    PROVE  Kept
<1> DEFINE h == Handler
           q == Cut(Settle(h))
           d == Detach(q)
<1>1. /\ Return("handover") /\ "handover" \in Calls /\ UNCHANGED <<releasing, crashed>>
      /\ ue' = Attach(d)
    BY DEF HandoverReturns, Calls, Return
<1>2. /\ Sound(h) /\ h.at = "none" /\ h.odd = ue.odd /\ h.gmm = ue.gmm
      /\ Handled(ue, h) /\ (~h.odd => h.removals = 0)
    BY <1>1, HandlerFacts DEF Resumed
<1> HIDE DEF h
<1>3. /\ Sound(q) /\ q \in AmfUe /\ q.odd = h.odd /\ q.removals = h.removals
      /\ ~q.odd /\ h.gmm # "Registered" /\ q.gmm = "Registered" => q.sec
    BY <1>2, SettleSound
<1> HIDE DEF q
<1>4. Sound(d) /\ SameTimers(q, d) /\ d.gmm = q.gmm /\ d.sec = q.sec
    BY <1>3, DetachSound, DetachFacts DEF Handled
<1> HIDE DEF d
<1>5. ~d.odd => d.removals = 0
    BY <1>2, <1>3, <1>4 DEF SameTimers
<1>6. Handled(d, ue') /\ SameTimers(d, ue') /\ ue'.gmm = d.gmm /\ ue'.sec = d.sec
    <2>1. d \in AmfUe
        BY <1>4 DEF SameTimers
    <2>2. Attach(d).sec = d.sec
        BY <2>1 DEF Attach, AmfUe
    <2> QED BY <1>1, <1>4, <1>5, <2>2, AttachSound
<1>7. /\ Sound(ue') /\ ue'.odd = ue.odd /\ (~ue'.odd => ue'.removals = 0) /\ ue'.gmm = q.gmm
      /\ ue'.sec = q.sec /\ q.odd = ue.odd
    BY <1>2, <1>3, <1>4, <1>5, <1>6 DEF Handled, SameTimers
<1> QED BY <1>1, <1>2, <1>3, <1>7 DEF Kept, IInv

-----------------------------------------------------------------------------
(* The invariant.                                                          *)

LEMMA InitInv == Init => IInv
<1> SUFFICES ASSUME Init PROVE IInv
    OBVIOUS
<1> DEFINE u == NewAmfUe
<1>1. ue = u /\ releasing = 0 /\ crashed = "no"
    BY DEF Init
<1>2. Nobody \in [Kinds -> TimerIds \cup {None}] /\ [t \in TimerIds |-> Idle] \in [TimerIds -> Timer]
    BY Assumptions DEF Nobody, Idle, Timer
<1>3. u \in AmfUe
    BY <1>2 DEF NewAmfUe, AmfUe, States, Calls
<1>4. /\ u.ptr = Nobody /\ u.removals = 0 /\ u.gmm = "Deregistered" /\ u.at = "none"
      /\ \A t \in TimerIds : u.timers[t] = Idle
    BY DEF NewAmfUe
<1> HIDE DEF u
<1>5. Typed(u)
    BY <1>3, <1>4 DEF Typed, Nobody
<1>6. Reached(u) /\ OneWait(u) /\ Gone(u)
    BY <1>4 DEF Reached, Running, OneWait, Gone, Nobody, Kinds
<1>7. Waits(u) /\ Secured(u)
    BY <1>4 DEF Waits, Asks, Still, Secured
<1> QED BY <1>1, <1>5, <1>6, <1>7 DEF IInv, Sound, Calm

\* Every step keeps the invariant, and registers no UE without security.
LEMMA NextKept ==
    ASSUME IInv, [Next]_vars
    PROVE  Kept
<1>1. ASSUME UNCHANGED <<ue, releasing>>, crashed' = crashed \/ crashed' = "timer" PROVE Kept
    BY <1>1 DEF IInv, Kept
<1>2. CASE FallSilent \/ UNCHANGED vars \/ \E k \in Kinds : StopRace(k)
    BY <1>1, <1>2 DEF FallSilent, StopRace, vars
<1>3. CASE ReleaseReturns
    BY <1>3, ReturnsKept, ContextReleasedKept DEF ReleaseReturns
<1>4. CASE Returns
    BY <1>3, <1>4, ReturnsKept, FailReturnsKept, SetupReturnsKept, CompleteReturnsKept, HandoverKept
       DEF Returns
<1>5. CASE \E type \in {"initial", "reserved", "update"}, id \in {"suci", "guti", "pei", "none"},
              keep \in BOOLEAN : RegistrationRequest(type, id, keep)
    BY <1>5, RegistrationRequestKept
<1>6. CASE \/ \E k \in {"suci", "imei"} : IdentityResponse(k)
           \/ AuthenticationResponse \/ SecurityModeComplete \/ SecurityModeReject
    BY <1>6, AnswerKept
<1>7. CASE \/ InitialUEMessageOfAnother \/ UEContextReleaseRequest \/ UEContextReleaseComplete
           \/ RanLost \/ ErrorIndication \/ HandoverNotify
    BY <1>7, NgapKept
<1>8. CASE \E t \in TimerIds : Tick(t) \/ TimerEnds(t) \/ CancelReturns(t)
    BY <1>8, TickKept, TimerEndsKept, CancelKept
<1>9. CASE \/ ServiceRequest \/ AuthenticationFailure \/ RegistrationComplete
           \/ DeregistrationRequest \/ PolicyReturns \/ FindUEContext \/ ReleaseUEContext
    BY <1>9, ServiceRequestKept, AuthenticationFailureKept, RegistrationCompleteKept,
       DeregistrationRequestKept, ReturnsKept, FindKept, ReleaseKept
<1> QED BY <1>2, <1>4, <1>5, <1>6, <1>7, <1>8, <1>9 DEF Next

\* The inductive invariant holds in every reachable state.
LEMMA InvHolds == Spec => []IInv
<1>1. IInv /\ [Next]_vars => IInv'
    BY NextKept DEF Kept
<1> QED BY InitInv, <1>1, PTL DEF Spec

-----------------------------------------------------------------------------
(* The theorems.                                                           *)

\* The context keeps its types, and a goroutine that runs is the one its field
\* names, as long as none of the races has happened.
THEOREM TimersFound == Spec => []TimersReachable
<1>1. IInv => TimersReachable
    <2> SUFFICES ASSUME IInv PROVE TimersReachable
        OBVIOUS
    <2>1. Typed(ue) /\ ue \in AmfUe /\ (~ue.odd => Reached(ue))
        BY DEF IInv, Sound, Typed, Calm
    <2>2. ASSUME NEW t \in TimerIds, ue.timers[t] # Idle
          PROVE  ue.timers[t] \in [kind : Kinds, n : 0 .. MaxRetry + 1, stopped : BOOLEAN]
        <3>1. ue.timers[t] \in Timer /\ ue.timers[t].kind \in Kinds
            BY <2>1, <2>2 DEF Typed, AmfUe
        <3> QED BY <3>1 DEF Timer
    <2>3. TypeOK
        BY <2>1, <2>2 DEF TypeOK, AmfUe, States
    <2> QED BY <2>1, <2>3 DEF TimersReachable, Reached
<1> QED BY <1>1, InvHolds, PTL

\* A context is removed once and for good, short of these races: the handlers that
\* wait for an answer, the SBI server and the timers included.
THEOREM RemovalFinal == Spec => []RemovedForGood
<1>1. IInv => RemovedForGood
    <2> SUFFICES ASSUME IInv, ~ue.odd, Removed(ue) PROVE
                 /\ ue.removals = 1 /\ ~ue.ran /\ ~ue.pool
                 /\ \A t \in TimerIds : ~Running(ue.timers[t])
        BY DEF RemovedForGood
    <2>1. Typed(ue) /\ Reached(ue) /\ Gone(ue) /\ ue.removals \in 0 .. 2
        BY DEF IInv, Sound, Calm, Typed, AmfUe
    <2>2. ue.removals = 1 /\ ~ue.ran /\ ~ue.pool /\ ue.ptr = Nobody
        BY <2>1 DEF Gone, Removed
    <2>3. ASSUME NEW t \in TimerIds, Running(ue.timers[t]) PROVE FALSE
        <3>1. ue.timers[t].kind \in Kinds /\ ue.ptr[ue.timers[t].kind] = t
            BY <2>1, <2>3 DEF Typed, Reached, Running
        <3> QED BY <2>2, <3>1, Assumptions DEF Nobody
    <2> QED BY <2>2, <2>3
<1> QED BY <1>1, InvHolds, PTL

\* No handler dereferences a registration request or an authentication context
\* that is gone, at once or after a call, short of these races.
THEOREM DataFound == Spec => []AnswersFindTheirData
<1>1. IInv => AnswersFindTheirData
    BY DEF IInv, AnswersFindTheirData
<1> QED BY <1>1, InvHolds, PTL

\* Neither a handler nor an expiry nor the RAN registers a UE that has no
\* security context.
THEOREM NoInsecureRegistration == Spec => RegisteredSecured
<1>1. IInv /\ [Next]_vars =>
          [~ue'.odd /\ ue.gmm # "Registered" /\ ue'.gmm = "Registered" => ue'.sec]_vars
    BY NextKept DEF Kept
<1> QED BY <1>1, InvHolds, PTL DEF Spec, RegisteredSecured
=============================================================================
