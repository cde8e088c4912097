-------------------------- MODULE SmfSessionsProofs --------------------------
(***************************************************************************)
(* Proofs about SmfSessions: whatever goroutines are to remove a context   *)
(* and whatever handler found it before it was removed, its address and    *)
(* its TEIDs are given back once (FreedOnce), it leaves no session in the  *)
(* UPF unless an exchange failed, an answer came unasked or a policy       *)
(* decision changed its data paths (NoUpfLeak), a release both sides have  *)
(* answered ends (ReleaseEnds), and the outcome of an establishment comes  *)
(* after the answer to the call that created the context (AnswerFirst).    *)
(***************************************************************************)
EXTENDS SmfSessions, TLAPS

-----------------------------------------------------------------------------
(* The inductive invariant.                                                *)

Context ==
    [state : States, an : BOOLEAN, upf : BOOLEAN, addr : BOOLEAN, path : BOOLEAN,
     dup : BOOLEAN, timer : [Kinds -> Timers \cup {None}]]

History ==
    [failed : SUBSET Refs, n1 : SUBSET Refs, n2 : SUBSET Refs, unasked : SUBSET Refs,
     steered : SUBSET Refs, leased : SUBSET Refs, lost : SUBSET Refs,
     addrFrees : [Refs -> Nat], teidFrees : [Refs -> Nat]]

TimerPcs == {"unused", "select", "expire", "sending", "cancel", "notifying", "ended"}
Goroutine ==
    [pc : TimerPcs, ref : Refs \cup {None}, kind : Kinds, done : BOOLEAN, expired : Nat]

CallPcs == {"idle", "create", "dup", "new", "ret", "lock"}
Call == [pc : CallPcs, op : Ops, ref : Refs \cup {None}]

\* The fields of the contexts, and what is kept of each.
Contexts ==
    /\ ctx \in [Refs -> Context]
    /\ lock \in [Refs -> Holders \cup Timers \cup {None}]
    /\ removal \in [Refs -> [BOOLEAN -> Nat]]
    /\ hist \in History

\* The sets of references.
Sets ==
    /\ made \subseteq Refs /\ pool \subseteq made /\ canonical \in pool \cup {None}
    /\ upf \subseteq made /\ commanded \subseteq made
    /\ amf \in made \cup {None}

\* A timer that was started belongs to a context, and holds its SMLock while
\* its function calls the AMF.
TimersOK ==
    /\ timers \in [Timers -> Goroutine]
    /\ \A t \in Timers :
          /\ timers[t].pc # "unused" => timers[t].ref \in made
          /\ timers[t].pc \in {"sending", "notifying"} => lock[timers[t].ref] = t

\* A thread that creates a session holds the Lock of the UE; a call that waits
\* for a context knows it.
CallsOK ==
    /\ call \in [Threads -> Call]
    /\ ueLock \in Threads \cup {None}
    /\ \A c \in Threads :
          /\ call[c].pc \in {"create", "dup", "new", "ret"} => ueLock = c
          /\ call[c].pc \in {"lock", "dup"} => call[c].ref \in made
          /\ call[c].pc = "ret" => call[c].ref \in made \cup {None}

\* Goroutines are to remove a context.
Leaving(r) == removal[r][TRUE] > 0 \/ removal[r][FALSE] > 0

\* Nothing is known of a reference before it is handed out.
Fresh(r) == r \notin made => lock[r] = None /\ r \notin hist.leased /\ ~Leaving(r)

\* The address of a context that is in the pool, and what was given back.
Has(r) == ctx[r].upf /\ ctx[r].addr
Books(r) ==
    /\ hist.teidFrees[r] = IF r \in made /\ r \notin pool THEN 1 ELSE 0
    /\ Has(r) => r \in pool /\ r \in hist.leased
    /\ hist.addrFrees[r] = IF r \in hist.leased /\ ~Has(r) THEN 1 ELSE 0

\* A context that may be removed without a further release of its PFCP session
\* has none, unless an exchange failed, an answer came unasked or a policy
\* decision changed its data paths; and its establishment is over.
Doomed(r) ==
    \/ r \in made /\ r \notin pool
    \/ Leaving(r)
    \/ lock[r] \in {"notify", "reject", "loss"}
    \/ r \in commanded
    \/ ctx[r].dup
    \/ ctx[r].state \in {"InActive", "InActivePending"}
Excused(r) == r \in hist.failed \/ r \in hist.unasked \/ r \in hist.steered
Clean(r) == r \in upf => Excused(r)
Settled(r) == Doomed(r) => Clean(r) /\ lock[r] # "pfcp"

\* The release of a context: it is answered after the establishment, and it ends.
Ending(r) ==
    /\ r \in hist.n1 \/ r \in hist.n2 => r \in made /\ lock[r] \notin {"pfcp", "accept", "reject"}
    /\ lock[r] = "loss" => r \in hist.lost
    /\ /\ r \in pool /\ r \in hist.n1 /\ r \in hist.n2 /\ r \notin hist.lost
       /\ ctx[r].state = "InActive" /\ ~ctx[r].an
       => Leaving(r) \/ lock[r] = "notify"

Good(r) == Fresh(r) /\ Books(r) /\ Settled(r) /\ Ending(r)

IInv == Contexts /\ Sets /\ TimersOK /\ CallsOK /\ \A r \in Refs : Good(r)
-----------------------------------------------------------------------------
(* What a step leaves alone.                                               *)

\* The history of a context is as it was.
SameHist(s) ==
    /\ s \in hist'.failed <=> s \in hist.failed
    /\ s \in hist'.unasked <=> s \in hist.unasked
    /\ s \in hist'.steered <=> s \in hist.steered
    /\ s \in hist'.n1 <=> s \in hist.n1
    /\ s \in hist'.n2 <=> s \in hist.n2
    /\ s \in hist'.leased <=> s \in hist.leased
    /\ s \in hist'.lost <=> s \in hist.lost
    /\ hist'.addrFrees[s] = hist.addrFrees[s]
    /\ hist'.teidFrees[s] = hist.teidFrees[s]

\* So is everything else about it.
Same(s) ==
    /\ s \in made' <=> s \in made
    /\ s \in pool' <=> s \in pool
    /\ s \in upf' <=> s \in upf
    /\ s \in commanded' <=> s \in commanded
    /\ ctx'[s] = ctx[s] /\ lock'[s] = lock[s] /\ removal'[s] = removal[s]
    /\ SameHist(s)

\* A context that a step does not touch stays good.
LEMMA SameGood == ASSUME NEW s \in Refs, Good(s), Same(s) PROVE Good(s)'
  <1>1. Leaving(s)' <=> Leaving(s)
    BY DEF Same, Leaving
  <1>2. Fresh(s)'
    BY <1>1 DEF Good, Same, SameHist, Fresh
  <1>3. Has(s)' <=> Has(s)
    BY DEF Same, Has
  <1>4. Books(s)'
    BY <1>3 DEF Good, Same, SameHist, Books
  <1>5. Settled(s)'
    BY <1>1 DEF Good, Same, SameHist, Settled, Doomed, Clean, Excused
  <1>6. Ending(s)'
    BY <1>1 DEF Good, Same, SameHist, Ending
  <1> QED BY <1>2, <1>4, <1>5, <1>6 DEF Good

\* A step that touches one context.
LEMMA OneGood ==
  ASSUME \A s \in Refs : Good(s), NEW r \in Refs, Good(r)',
         \A s \in Refs : s # r => Same(s)
  PROVE  (\A s \in Refs : Good(s))'
  <1>1. ASSUME NEW s \in Refs PROVE Good(s)'
    BY SameGood
  <1> QED BY <1>1

\* A call that ends leaves the other calls as they are.
LEMMA EndCalls ==
  ASSUME CallsOK, NEW c \in Threads, End(c), made \subseteq made', commanded \subseteq commanded'
  PROVE  CallsOK'
  <1>1. Idle \in Call
    BY DEF Idle, Call, CallPcs, Ops
  <1>2. call' \in [Threads -> Call] /\ ueLock' \in Threads \cup {None}
    BY <1>1 DEF CallsOK, End
  <1>3. ASSUME NEW d \in Threads
        PROVE  /\ call'[d].pc \in {"create", "dup", "new", "ret"} => ueLock' = d
               /\ call'[d].pc \in {"lock", "dup"} => call'[d].ref \in made'
               /\ call'[d].pc = "ret" => call'[d].ref \in made' \cup {None}
    <2>1. CASE d = c
      <3>1. call'[d].pc = "idle"
        BY <2>1 DEF CallsOK, End, Idle
      <3> QED BY <3>1
    <2>2. CASE d # c
      <3>1. call'[d] = call[d]
        BY <2>2 DEF CallsOK, End
      <3>2. ueLock = d => ueLock' = d
        BY <2>2 DEF End
      <3> QED BY <3>1, <3>2 DEF CallsOK
    <2> QED BY <2>1, <2>2
  <1> QED BY <1>2, <1>3 DEF CallsOK

\* Calls that go on as they are.
LEMMA SameCalls ==
  ASSUME CallsOK, UNCHANGED <<call, ueLock>>, made \subseteq made', commanded \subseteq commanded'
  PROVE  CallsOK'
  <1> QED BY DEF CallsOK

\* Timers that go on as they are.
LEMMA SameTimers ==
  ASSUME TimersOK, timers' = timers, made \subseteq made',
         \A r \in Refs : lock[r] \in Timers => lock'[r] = lock[r], made \subseteq Refs
  PROVE  TimersOK'
  <1> QED BY DEF TimersOK

\* A timer that is told to end is where it was.
LEMMA StopOne ==
  ASSUME NEW ts \in [Timers -> Goroutine], NEW x \in Context, NEW k \in Kinds
  PROVE  /\ StopTimer(ts, x, k) \in [Timers -> Goroutine]
         /\ \A t \in Timers : /\ StopTimer(ts, x, k)[t].pc = ts[t].pc
                              /\ StopTimer(ts, x, k)[t].ref = ts[t].ref
  <1> DEFINE u == x.timer[k]
  <1>1. u \in Timers \cup {None}
    BY DEF Context
  <1>2. CASE u = None
    BY <1>2 DEF StopTimer
  <1>3. CASE u \in Timers /\ u # None
    <2>1. StopTimer(ts, x, k) = [ts EXCEPT ![u] = [ts[u] EXCEPT !.done = TRUE]]
      BY <1>3 DEF StopTimer, Stopped
    <2>2. [ts[u] EXCEPT !.done = TRUE] \in Goroutine
      BY <1>3 DEF Goroutine
    <2>3. [ts[u] EXCEPT !.done = TRUE].pc = ts[u].pc /\ [ts[u] EXCEPT !.done = TRUE].ref = ts[u].ref
      BY <1>3 DEF Goroutine
    <2> HIDE DEF u
    <2> QED BY <1>3, <2>1, <2>2, <2>3
  <1> QED BY <1>1, <1>2, <1>3

LEMMA StoppedTimers ==
  ASSUME TimersOK, timers' \in [Timers -> Goroutine],
         \A t \in Timers : timers'[t].pc = timers[t].pc /\ timers'[t].ref = timers[t].ref,
         lock' = lock, made' = made
  PROVE  TimersOK'
  <1> QED BY DEF TimersOK

\* A new timer replaces the one of its kind.
LEMMA RestartedTimers ==
  ASSUME TimersOK, NEW r \in Refs, r \in made, NEW k \in Kinds, ctx[r] \in Context, NEW x,
         Restart(r, k, x), lock' = lock, made' = made
  PROVE  /\ TimersOK'
         /\ \E t \in Timers \cup {None} : ctx' = [ctx EXCEPT ![r] = [x EXCEPT !.timer[k] = t]]
  <1>1. PICK t \in {u \in Timers : timers[u].pc = "unused"} \cup {None} :
          /\ ctx' = [ctx EXCEPT ![r] = [x EXCEPT !.timer[k] = t]]
          /\ timers' = [u \in Timers |->
               IF u = t THEN [pc |-> "select", ref |-> r, kind |-> k, done |-> FALSE, expired |-> 0]
               ELSE StopTimer(timers, ctx[r], k)[u]]
    BY DEF Restart
  <1>2. timers \in [Timers -> Goroutine]
    BY DEF TimersOK
  <1>3. /\ StopTimer(timers, ctx[r], k) \in [Timers -> Goroutine]
        /\ \A u \in Timers : /\ StopTimer(timers, ctx[r], k)[u].pc = timers[u].pc
                             /\ StopTimer(timers, ctx[r], k)[u].ref = timers[u].ref
    BY <1>2, StopOne
  <1>4. [pc |-> "select", ref |-> r, kind |-> k, done |-> FALSE, expired |-> 0] \in Goroutine
    BY DEF Goroutine, TimerPcs
  <1>5. timers' \in [Timers -> Goroutine]
    BY <1>1, <1>3, <1>4
  <1>6. ASSUME NEW u \in Timers
        PROVE  /\ timers'[u].pc # "unused" => timers'[u].ref \in made
               /\ timers'[u].pc \in {"sending", "notifying"} => lock[timers'[u].ref] = u
    <2>1. CASE u = t
      BY <1>1, <2>1
    <2>2. CASE u # t
      <3>1. timers'[u].pc = timers[u].pc /\ timers'[u].ref = timers[u].ref
        BY <1>1, <1>3, <2>2
      <3> QED BY <3>1 DEF TimersOK
    <2> QED BY <2>1, <2>2
  <1>7. TimersOK'
    BY <1>5, <1>6 DEF TimersOK
  <1> QED BY <1>1, <1>7
-----------------------------------------------------------------------------
(* A handler in its critical section.                                      *)

\* The answers to its release have ended a context.
BothAnswered(r) ==
    /\ r \in pool /\ r \in hist.n1 /\ r \in hist.n2 /\ r \notin hist.lost
    /\ ctx[r].state = "InActive" /\ ~ctx[r].an

\* A handler gives the fields y to a context whose SMLock is free, and q
\* goroutines are to remove it.
LEMMA SteeredGood ==
  ASSUME Contexts, Sets, \A s \in Refs : Good(s), NEW r \in Refs, r \in made, lock[r] = None,
         NEW y \in Context, NEW q \in [BOOLEAN -> Nat],
         ctx' = [ctx EXCEPT ![r] = y], removal' = [removal EXCEPT ![r] = q],
         UNCHANGED <<pool, canonical, made, lock>>, amf' \in {amf, None},
         upf' \in {upf, upf \ {r}, upf \cup {r}}, r \in upf' => r \in upf \/ Excused(r)',
         commanded' \in {commanded, commanded \cup {r}}, hist' \in History, \A s \in Refs : s # r => SameHist(s),
         Excused(r) => Excused(r)',
         Books(r)',
         Clean(r)' \/ (Doomed(r)' => Doomed(r)),
         BothAnswered(r)' => q[TRUE] > 0 \/ q[FALSE] > 0
  PROVE  Contexts' /\ Sets' /\ (\A s \in Refs : Good(s))'
  <1>1. Contexts'
    BY DEF Contexts
  <1>2. Sets'
    BY DEF Sets
  <1>3. ASSUME NEW s \in Refs, s # r PROVE Same(s)
    <2>1. ctx'[s] = ctx[s] /\ lock'[s] = lock[s] /\ removal'[s] = removal[s]
      BY <1>3 DEF Contexts
    <2>2. (s \in upf' <=> s \in upf) /\ (s \in commanded' <=> s \in commanded)
      BY <1>3
    <2> QED BY <2>1, <2>2, <1>3 DEF Same
  <1>4. Fresh(r)'
    BY DEF Fresh
  <1>5. None \notin {"pfcp", "accept", "reject", "loss"}
    BY HoldersAssumption DEF Holders
  <1>6. Settled(r)'
    <2>1. Clean(r) => Clean(r)'
      BY DEF Clean, Excused
    <2>2. Doomed(r) => Clean(r)
      BY DEF Good, Settled
    <2> QED BY <1>5, <2>1, <2>2 DEF Settled
  <1>7. Ending(r)'
    <2>1. removal'[r] = q
      BY DEF Contexts
    <2> QED BY <1>5, <2>1 DEF Ending, BothAnswered, Leaving
  <1>8. Good(r)'
    BY <1>4, <1>6, <1>7 DEF Good
  <1>9. (\A s \in Refs : Good(s))'
    BY <1>3, <1>8, OneGood
  <1> QED BY <1>1, <1>2, <1>9

\* Mostly it makes no new session in the UPF.
LEMMA HandledGood ==
  ASSUME Contexts, Sets, \A s \in Refs : Good(s), NEW r \in Refs, r \in made, lock[r] = None,
         NEW y \in Context, NEW q \in [BOOLEAN -> Nat],
         ctx' = [ctx EXCEPT ![r] = y], removal' = [removal EXCEPT ![r] = q],
         UNCHANGED <<pool, canonical, made, lock>>, amf' \in {amf, None},
         upf' \in {upf, upf \ {r}}, commanded' \in {commanded, commanded \cup {r}},
         hist' \in History, \A s \in Refs : s # r => SameHist(s),
         Excused(r) => Excused(r)',
         Books(r)',
         Clean(r)' \/ (Doomed(r)' => Doomed(r)),
         BothAnswered(r)' => q[TRUE] > 0 \/ q[FALSE] > 0
  PROVE  Contexts' /\ Sets' /\ (\A s \in Refs : Good(s))'
  <1>1. upf' \in {upf, upf \ {r}, upf \cup {r}} /\ (r \in upf' => r \in upf \/ Excused(r)')
    OBVIOUS
  <1> QED BY <1>1, SteeredGood

\* Nothing was given back, and the context keeps its address.
LEMMA SameBooks ==
  ASSUME NEW r \in Refs, Books(r), ctx'[r].upf = ctx[r].upf, ctx'[r].addr = ctx[r].addr,
         UNCHANGED <<pool, made>>, r \in hist'.leased <=> r \in hist.leased,
         hist'.addrFrees[r] = hist.addrFrees[r], hist'.teidFrees[r] = hist.teidFrees[r]
  PROVE  Books(r)'
  <1>1. Has(r)' <=> Has(r)
    BY DEF Has
  <1> QED BY <1>1 DEF Books

\* The history after an exchange with the UPF.
LEMMA FailedHistory ==
  ASSUME hist \in History, NEW F \in SUBSET Refs, hist' = [hist EXCEPT !.failed = F]
  PROVE  /\ hist' \in History /\ hist'.failed = F
         /\ hist'.n1 = hist.n1 /\ hist'.n2 = hist.n2 /\ hist'.unasked = hist.unasked
         /\ hist'.steered = hist.steered /\ hist'.leased = hist.leased
         /\ hist'.lost = hist.lost /\ hist'.addrFrees = hist.addrFrees
         /\ hist'.teidFrees = hist.teidFrees
  <1> QED BY DEF History

\* A release of the PFCP session: there is none any more, unless it failed.
LEMMA ReleasedClean ==
  ASSUME hist \in History, NEW r \in Refs, NEW ok \in BOOLEAN, ReleaseSession(r, ok)
  PROVE  /\ upf' \in {upf, upf \ {r}} /\ hist' \in History
         /\ hist'.n1 = hist.n1 /\ hist'.n2 = hist.n2 /\ hist'.unasked = hist.unasked
         /\ hist'.steered = hist.steered /\ hist'.leased = hist.leased
         /\ hist'.lost = hist.lost /\ hist'.addrFrees = hist.addrFrees
         /\ hist'.teidFrees = hist.teidFrees
         /\ Excused(r) => Excused(r)'
         /\ \A s \in Refs : s # r => SameHist(s)
         /\ Clean(r)'
  <1> DEFINE F == IF ~ok /\ r \in upf THEN hist.failed \cup {r} ELSE hist.failed
  <1>1. F \in SUBSET Refs
    BY DEF History
  <1>2. hist' = [hist EXCEPT !.failed = F]
    BY DEF ReleaseSession
  <1>3. /\ hist' \in History /\ hist'.failed = F
        /\ hist'.n1 = hist.n1 /\ hist'.n2 = hist.n2 /\ hist'.unasked = hist.unasked
         /\ hist'.steered = hist.steered /\ hist'.leased = hist.leased
        /\ hist'.lost = hist.lost /\ hist'.addrFrees = hist.addrFrees
        /\ hist'.teidFrees = hist.teidFrees
    <2> HIDE DEF F
    <2> QED BY <1>1, <1>2, FailedHistory
  <1>4. upf' \in {upf, upf \ {r}}
    BY DEF ReleaseSession
  <1>5. \A s \in Refs : s # r => SameHist(s)
    BY <1>3 DEF SameHist
  <1>6. Clean(r)'
    BY <1>3 DEF Clean, Excused, ReleaseSession
  <1> QED BY <1>3, <1>4, <1>5, <1>6 DEF Excused

\* One goroutine more is to remove a context.
LEMMA Spawned ==
  ASSUME NEW q \in [BOOLEAN -> Nat], NEW n \in BOOLEAN
  PROVE  /\ Spawn(q, n) \in [BOOLEAN -> Nat]
         /\ Spawn(q, n)[TRUE] > 0 \/ Spawn(q, n)[FALSE] > 0
  <1>1. Spawn(q, n) \in [BOOLEAN -> Nat] /\ Spawn(q, n)[n] = q[n] + 1
    BY DEF Spawn
  <1>2. Spawn(q, n)[n] > 0
    BY <1>1
  <1>3. n = TRUE \/ n = FALSE
    OBVIOUS
  <1> QED BY <1>1, <1>2, <1>3

\* One goroutine fewer is.
LEMMA Fewer ==
  ASSUME NEW q \in [BOOLEAN -> Nat], NEW n \in BOOLEAN, q[n] > 0
  PROVE  [q EXCEPT ![n] = q[n] - 1] \in [BOOLEAN -> Nat]
  <1>1. q[n] \in Nat
    OBVIOUS
  <1>2. q[n] - 1 \in Nat
    BY <1>1
  <1> QED BY <1>2

\* What a handler starts from.
LEMMA LockedKnows ==
  ASSUME IInv, NEW c \in Threads, NEW op, NEW r \in Refs, Locked(c, op, r)
  PROVE  /\ r \in made /\ lock[r] = None /\ Good(r) /\ ctx[r] \in Context
         /\ removal[r] \in [BOOLEAN -> Nat] /\ hist \in History
  <1>1. r \in made /\ lock[r] = None
    BY DEF IInv, CallsOK, Locked
  <1> QED BY <1>1 DEF IInv, Contexts

-----------------------------------------------------------------------------
(* The handlers.                                                           *)

\* An update that touches the context only: it is no nearer to its end than it
\* was, unless it is a duplicate.
LEMMA PlainKeeps ==
  ASSUME IInv, NEW c \in Threads, NEW op, NEW r \in Refs, NEW x \in Context,
         NEW ts \in [Timers -> Goroutine], PlainUpdate(c, op, r, x, ts),
         \A t \in Timers : ts[t].pc = timers[t].pc /\ ts[t].ref = timers[t].ref,
         x.upf = ctx[r].upf, x.addr = ctx[r].addr, x.dup = ctx[r].dup,
         x.state \in {"InActive", "InActivePending"} =>
            ctx[r].state \in {"InActive", "InActivePending"},
         x.state = "InActive" /\ ~x.an => ctx[r].state = "InActive" /\ ~ctx[r].an
  PROVE  IInv'
  <1> DEFINE y == DupTail(x)
             q == DupSpawn(removal[r], x)
  <1>1. /\ r \in made /\ lock[r] = None /\ Good(r) /\ ctx[r] \in Context
        /\ removal[r] \in [BOOLEAN -> Nat] /\ hist \in History
    BY LockedKnows DEF PlainUpdate
  <1>2. y \in Context /\ y.upf = x.upf /\ y.addr = x.addr /\ y.dup = x.dup /\ y.an = x.an
    <2>1. CASE x.dup
      BY <2>1 DEF DupTail, RemoveFromAllNF, Context, States
    <2>2. CASE ~x.dup
      BY <2>2 DEF DupTail
    <2> QED BY <2>1, <2>2
  <1>3. q \in [BOOLEAN -> Nat]
    BY <1>1, Spawned DEF DupSpawn
  <1>4. x.dup => q[TRUE] > 0 \/ q[FALSE] > 0
    BY <1>1, Spawned DEF DupSpawn
  <1>5. ~x.dup => y = x /\ q = removal[r]
    BY DEF DupSpawn, DupTail
  <1>6. /\ ctx' = [ctx EXCEPT ![r] = y] /\ removal' = [removal EXCEPT ![r] = q]
        /\ UNCHANGED <<pool, canonical, made, lock, upf, amf, commanded, hist>>
        /\ timers' = ts /\ End(c)
    BY DEF PlainUpdate
  <1> HIDE DEF y, q
  <1>7. ctx'[r] = y /\ removal'[r] = q
    BY <1>6 DEF IInv, Contexts
  <1>8. Books(r)'
    <2>1. ctx'[r].upf = ctx[r].upf /\ ctx'[r].addr = ctx[r].addr
      BY <1>2, <1>7
    <2> QED BY <1>1, <1>6, <2>1, SameBooks DEF Good
  <1>9. Clean(r)' \/ (Doomed(r)' => Doomed(r))
    <2>1. CASE x.dup
      BY <2>1 DEF Doomed
    <2>2. CASE ~x.dup
      BY <2>2, <1>2, <1>5, <1>6, <1>7 DEF Doomed, Leaving
    <2> QED BY <2>1, <2>2
  <1>10. BothAnswered(r)' => q[TRUE] > 0 \/ q[FALSE] > 0
    <2>1. CASE x.dup
      BY <2>1, <1>4
    <2>2. CASE ~x.dup
      <3>1. SUFFICES ASSUME BothAnswered(r)' PROVE q[TRUE] > 0 \/ q[FALSE] > 0
        OBVIOUS
      <3>2. x.state = "InActive" /\ ~x.an
        BY <2>2, <3>1, <1>5, <1>7 DEF BothAnswered
      <3>3. Leaving(r) \/ lock[r] = "notify"
        BY <3>1, <3>2, <1>1, <1>6 DEF BothAnswered, Good, Ending
      <3>4. lock[r] # "notify"
        BY <1>1, HoldersAssumption DEF Holders
      <3> QED BY <3>3, <3>4, <2>2, <1>5 DEF Leaving
    <2> QED BY <2>1, <2>2
  <1>11. \A s \in Refs : s # r => SameHist(s)
    BY <1>6 DEF SameHist
  <1>13. Contexts' /\ Sets' /\ (\A s \in Refs : Good(s))'
    <2>1. Contexts /\ Sets /\ \A s \in Refs : Good(s)
      BY DEF IInv
    <2>2. UNCHANGED <<pool, canonical, made, lock>>
      BY <1>6
    <2>3. amf' \in {amf, None} /\ upf' \in {upf, upf \ {r}}
          /\ commanded' \in {commanded, commanded \cup {r}} /\ hist' \in History
      BY <1>1, <1>6
    <2>4. Excused(r) => Excused(r)'
      BY <1>6 DEF Excused
    <2> QED BY <1>1, <1>2, <1>3, <1>6, <1>8, <1>9, <1>10, <1>11, <2>1, <2>2, <2>3, <2>4, HandledGood
  <1>14. TimersOK'
    BY <1>6, StoppedTimers DEF IInv
  <1>15. CallsOK'
    BY <1>6, EndCalls DEF IInv
  <1> QED BY <1>13, <1>14, <1>15 DEF IInv

\* The fields of a context that a handler changes: its state, ...
LEMMA StateField ==
  ASSUME NEW x \in Context, NEW s \in States
  PROVE  /\ [x EXCEPT !.state = s] \in Context
         /\ [x EXCEPT !.state = s].state = s /\ [x EXCEPT !.state = s].an = x.an
         /\ [x EXCEPT !.state = s].upf = x.upf /\ [x EXCEPT !.state = s].addr = x.addr
         /\ [x EXCEPT !.state = s].dup = x.dup
  <1> QED BY DEF Context

\* ... and its timers.
LEMMA TimerField ==
  ASSUME NEW x \in Context, NEW k \in Kinds, NEW t \in Timers \cup {None}
  PROVE  /\ [x EXCEPT !.timer[k] = t] \in Context
         /\ [x EXCEPT !.timer[k] = t].state = x.state /\ [x EXCEPT !.timer[k] = t].an = x.an
         /\ [x EXCEPT !.timer[k] = t].upf = x.upf /\ [x EXCEPT !.timer[k] = t].addr = x.addr
         /\ [x EXCEPT !.timer[k] = t].dup = x.dup
  <1>1. [x.timer EXCEPT ![k] = t] \in [Kinds -> Timers \cup {None}]
    BY DEF Context
  <1>2. [x EXCEPT !.timer[k] = t] = [x EXCEPT !.timer = [x.timer EXCEPT ![k] = t]]
    OBVIOUS
  <1>3. \A f \in [Kinds -> Timers \cup {None}] :
           /\ [x EXCEPT !.timer = f] \in Context
           /\ [x EXCEPT !.timer = f].state = x.state /\ [x EXCEPT !.timer = f].an = x.an
           /\ [x EXCEPT !.timer = f].upf = x.upf /\ [x EXCEPT !.timer = f].addr = x.addr
           /\ [x EXCEPT !.timer = f].dup = x.dup
    BY DEF Context
  <1> QED BY <1>1, <1>2, <1>3

LEMMA Forgotten ==
  ASSUME NEW x \in Context, NEW k \in Kinds
  PROVE  /\ Forget(x, k) \in Context
         /\ Forget(x, k).state = x.state /\ Forget(x, k).an = x.an /\ Forget(x, k).upf = x.upf
         /\ Forget(x, k).addr = x.addr /\ Forget(x, k).dup = x.dup
  <1> QED BY TimerField DEF Forget

LEMMA ModificationEndKeeps ==
  ASSUME IInv, NEW c \in Threads, UpdateModificationEnd(c) PROVE IInv'
  <1>1. PICK r \in Refs :
          PlainUpdate(c, "modificationEnd", r,
                      [Forget(ctx[r], "T3591") EXCEPT !.state = FinalState(Forget(ctx[r], "T3591").state)],
                      StopTimer(timers, ctx[r], "T3591"))
    BY DEF UpdateModificationEnd
  <1> DEFINE w == Forget(ctx[r], "T3591")
             s == FinalState(w.state)
             x == [w EXCEPT !.state = s]
             ts == StopTimer(timers, ctx[r], "T3591")
  <1>2. ctx[r] \in Context /\ "T3591" \in Kinds /\ timers \in [Timers -> Goroutine]
    BY DEF IInv, Contexts, TimersOK, Kinds
  <1>3. /\ w \in Context /\ w.state = ctx[r].state /\ w.an = ctx[r].an /\ w.upf = ctx[r].upf
        /\ w.addr = ctx[r].addr /\ w.dup = ctx[r].dup
    BY <1>2, Forgotten
  <1>4. s \in States /\ (s \in {"InActive", "InActivePending"} => s = w.state)
    <2>1. w.state \in States
      BY <1>3 DEF Context
    <2> QED BY <2>1 DEF FinalState, States
  <1>5. ts \in [Timers -> Goroutine]
        /\ \A t \in Timers : ts[t].pc = timers[t].pc /\ ts[t].ref = timers[t].ref
    BY <1>2, StopOne
  <1>6. PlainUpdate(c, "modificationEnd", r, x, ts)
    BY <1>1
  <1> HIDE DEF w, s, ts
  <1>7. /\ x \in Context /\ x.state = s /\ x.an = w.an /\ x.upf = w.upf /\ x.addr = w.addr
        /\ x.dup = w.dup
    BY <1>3, <1>4, StateField
  <1> HIDE DEF x
  <1> QED BY <1>3, <1>4, <1>5, <1>6, <1>7, PlainKeeps

LEMMA DeactivateKeeps ==
  ASSUME IInv, NEW c \in Threads, UpdateDeactivate(c) PROVE IInv'
  <1>1. CASE UNCHANGED <<pool, canonical, made, ctx, lock, removal, timers, upf, amf, commanded, hist>> /\ End(c)
    <2>1. CallsOK'
      BY <1>1, EndCalls DEF IInv
    <2>2. Contexts' /\ Sets'
      BY <1>1 DEF IInv, Contexts, Sets
    <2>3. TimersOK'
      BY <1>1 DEF IInv, TimersOK
    <2>4. (\A r \in Refs : Good(r))'
      <3>1. ASSUME NEW r \in Refs PROVE Same(r)
        BY <1>1 DEF Same, SameHist
      <3> QED BY <3>1, SameGood DEF IInv
    <2> QED BY <2>1, <2>2, <2>3, <2>4 DEF IInv
  <1>2. ASSUME NEW r \in Refs,
               PlainUpdate(c, "deactivate", r, [ctx[r] EXCEPT !.state = "Active"], timers)
        PROVE  IInv'
    <2> DEFINE x == [ctx[r] EXCEPT !.state = "Active"]
    <2>1. ctx[r] \in Context /\ timers \in [Timers -> Goroutine]
      BY DEF IInv, Contexts, TimersOK
    <2>2. /\ x \in Context /\ x.state = "Active" /\ x.an = ctx[r].an /\ x.upf = ctx[r].upf
          /\ x.addr = ctx[r].addr /\ x.dup = ctx[r].dup
      BY <2>1, StateField DEF States
    <2>3. PlainUpdate(c, "deactivate", r, x, timers)
      BY <1>2
    <2> HIDE DEF x
    <2> QED BY <2>1, <2>2, <2>3, PlainKeeps
  <1> QED BY <1>1, <1>2 DEF UpdateDeactivate

LEMMA SetupResponseKeeps ==
  ASSUME IInv, NEW c \in Threads, UpdateSetupResponse(c) PROVE IInv'
  <1>1. PICK r \in Refs, an \in BOOLEAN :
          PlainUpdate(c, "setupRsp", r,
                      [ctx[r] EXCEPT !.an = ctx[r].an \/ an, !.state = "Active"], timers)
    BY DEF UpdateSetupResponse
  <1> DEFINE b == ctx[r].an \/ an
             x == [ctx[r] EXCEPT !.an = b, !.state = "Active"]
  <1>2. ctx[r] \in Context /\ timers \in [Timers -> Goroutine] /\ b \in BOOLEAN
    BY DEF IInv, Contexts, TimersOK
  <1>3. PlainUpdate(c, "setupRsp", r, x, timers)
    BY <1>1
  <1> HIDE DEF b
  <1>4. /\ x \in Context /\ x.state = "Active" /\ x.upf = ctx[r].upf
        /\ x.addr = ctx[r].addr /\ x.dup = ctx[r].dup
    <2>1. "Active" \in States
      BY DEF States
    <2>2. ASSUME NEW a \in BOOLEAN
          PROVE  LET z == [ctx[r] EXCEPT !.an = a, !.state = "Active"] IN
                 /\ z \in Context /\ z.state = "Active" /\ z.upf = ctx[r].upf
                 /\ z.addr = ctx[r].addr /\ z.dup = ctx[r].dup
      BY <1>2, <2>1 DEF Context
    <2> QED BY <1>2, <2>2
  <1> HIDE DEF x
  <1> QED BY <1>2, <1>3, <1>4, PlainKeeps

LEMMA MoveKeeps ==
  ASSUME IInv, NEW c \in Threads, UpdateMove(c) PROVE IInv'
  <1>1. PICK r \in Refs, an \in BOOLEAN : \E w \in Moved(ctx[r]) :
          PlainUpdate(c, "move", r, [w EXCEPT !.an = w.an \/ an], timers)
    BY DEF UpdateMove
  <1>2. PICK w \in Moved(ctx[r]) :
          PlainUpdate(c, "move", r, [w EXCEPT !.an = w.an \/ an], timers)
    BY <1>1
  <1>3. ctx[r] \in Context /\ timers \in [Timers -> Goroutine]
    BY DEF IInv, Contexts, TimersOK
  <1>4. PICK s \in States : /\ w = [ctx[r] EXCEPT !.state = s]
                            /\ s \in {"Active", ctx[r].state}
    <2>1. ctx[r].state \in States /\ "Active" \in States
      BY <1>3 DEF Context, States
    <2> QED BY <2>1 DEF Moved, TunnelChange, FinalState
  <1>5. /\ w \in Context /\ w.state = s /\ w.an = ctx[r].an /\ w.upf = ctx[r].upf
        /\ w.addr = ctx[r].addr /\ w.dup = ctx[r].dup
    BY <1>3, <1>4, StateField
  <1>6. PICK b \in BOOLEAN : b = (w.an \/ an)
    OBVIOUS
  <1> DEFINE x == [w EXCEPT !.an = b]
  <1>7. /\ x \in Context /\ x.an = b /\ x.state = w.state /\ x.upf = w.upf
        /\ x.addr = w.addr /\ x.dup = w.dup
    BY <1>5, <1>6 DEF Context
  <1>8. PlainUpdate(c, "move", r, x, timers)
    BY <1>2, <1>6
  <1> HIDE DEF x
  <1>9. /\ x.state \in {"InActive", "InActivePending"} =>
              ctx[r].state \in {"InActive", "InActivePending"}
        /\ x.state = "InActive" /\ ~x.an => ctx[r].state = "InActive" /\ ~ctx[r].an
    BY <1>4, <1>5, <1>6, <1>7
  <1> QED BY <1>3, <1>5, <1>7, <1>8, <1>9, PlainKeeps

\* What is left of a handler's step once its context is good.
LEMMA HandlerKeeps ==
  ASSUME IInv, NEW c \in Threads, End(c), TimersOK', made' = made,
         commanded \subseteq commanded', Contexts', Sets', (\A s \in Refs : Good(s))'
  PROVE  IInv'
  <1>1. CallsOK'
    BY EndCalls DEF IInv
  <1> QED BY <1>1 DEF IInv

\* A free lock is nobody's.
LEMMA FreeLock == None \notin Timers /\ \A h \in Holders : None # h
  <1> QED BY NoneAssumption, HoldersAssumption

LEMMA ReleaseRequestKeeps ==
  ASSUME IInv, NEW c \in Threads, UpdateReleaseRequest(c) PROVE IInv'
  <1>0. PICK r \in Refs, ok \in BOOLEAN :
          LET frees == ctx[r].upf /\ ctx[r].addr
              x == [ctx[r] EXCEPT !.addr = ctx[r].addr /\ ~frees,
                                  !.state = IF ok THEN "InActivePending" ELSE "Active"] IN
          /\ Locked(c, "releaseReq", r)
          /\ ok \in ReleaseAnswers(r)
          /\ IF ok THEN upf' = upf \ {r} ELSE upf' \in {upf, upf \ {r}}
          /\ hist' = [hist EXCEPT !.failed = IF ~ok /\ r \in upf THEN @ \cup {r} ELSE @,
                                  !.addrFrees[r] = IF frees THEN @ + 1 ELSE @]
          /\ Restart(r, "T3592", DupTail(x))
          /\ removal' = [removal EXCEPT ![r] = DupSpawn(removal[r], x)]
          /\ commanded' = commanded \cup {r}
          /\ End(c)
          /\ UNCHANGED <<pool, canonical, made, lock, calls, amf>>
    BY DEF UpdateReleaseRequest
  <1> DEFINE b == ctx[r].addr /\ ~(ctx[r].upf /\ ctx[r].addr)
             s0 == IF ok THEN "InActivePending" ELSE "Active"
             x == [ctx[r] EXCEPT !.addr = b, !.state = s0]
             F == IF ~ok /\ r \in upf THEN hist.failed \cup {r} ELSE hist.failed
             A == [hist.addrFrees EXCEPT ![r] =
                      IF ctx[r].upf /\ ctx[r].addr THEN hist.addrFrees[r] + 1 ELSE hist.addrFrees[r]]
             q == DupSpawn(removal[r], x)
  <1>1. /\ r \in made /\ lock[r] = None /\ Good(r) /\ ctx[r] \in Context
        /\ removal[r] \in [BOOLEAN -> Nat] /\ hist \in History
    BY <1>0, LockedKnows
  <1>2. b \in BOOLEAN /\ ~(ctx[r].upf /\ b) /\ s0 \in States /\ s0 # "InActive"
    BY <1>1 DEF Context, States
  <1>3. F \in SUBSET Refs /\ A \in [Refs -> Nat] /\ \A s \in Refs : s # r => A[s] = hist.addrFrees[s]
    BY <1>1 DEF History
  <1>4. A[r] = IF Has(r) THEN hist.addrFrees[r] + 1 ELSE hist.addrFrees[r]
    BY <1>1 DEF History, Has
  <1>5. /\ hist' = [hist EXCEPT !.failed = F, !.addrFrees = A]
        /\ Restart(r, "T3592", DupTail(x))
        /\ removal' = [removal EXCEPT ![r] = q]
    BY <1>0
  <1>6. /\ upf' \in {upf, upf \ {r}} /\ (ok => r \notin upf')
        /\ commanded' = commanded \cup {r} /\ End(c)
        /\ UNCHANGED <<pool, canonical, made, lock, amf>>
    BY <1>0
  <1>7. r \in upf' => r \in F
    BY <1>6
  <1>8. \A s \in Refs : s # r => (s \in F <=> s \in hist.failed)
    OBVIOUS
  <1>9. r \in hist.failed => r \in F
    OBVIOUS
  <1> HIDE DEF b, s0, F, A
  <1>10. \A a \in BOOLEAN, s \in States :
            LET z == [ctx[r] EXCEPT !.addr = a, !.state = s] IN
            /\ z \in Context /\ z.state = s /\ z.upf = ctx[r].upf /\ z.addr = a
            /\ z.dup = ctx[r].dup
    <2>1. ASSUME NEW a \in BOOLEAN, NEW s \in States
          PROVE LET z == [ctx[r] EXCEPT !.addr = a, !.state = s] IN
                /\ z \in Context /\ z.state = s /\ z.upf = ctx[r].upf /\ z.addr = a
                /\ z.dup = ctx[r].dup
      BY <1>1 DEF Context
    <2> QED BY <2>1
  <1>11. x \in Context /\ x.state = s0 /\ x.upf = ctx[r].upf /\ x.addr = b /\ x.dup = ctx[r].dup
    BY <1>2, <1>10
  <1>12. /\ hist' \in History /\ hist'.failed = F /\ hist'.addrFrees = A
         /\ hist'.n1 = hist.n1 /\ hist'.n2 = hist.n2 /\ hist'.unasked = hist.unasked
         /\ hist'.steered = hist.steered /\ hist'.leased = hist.leased
         /\ hist'.lost = hist.lost /\ hist'.teidFrees = hist.teidFrees
    BY <1>1, <1>3, <1>5 DEF History
  <1> HIDE DEF x
  <1>13. /\ DupTail(x) \in Context /\ DupTail(x).upf = x.upf /\ DupTail(x).addr = x.addr
         /\ (~x.dup => DupTail(x).state = s0)
    <2>1. CASE x.dup
      BY <2>1, <1>11, StateField DEF DupTail, RemoveFromAllNF, States
    <2>2. CASE ~x.dup
      BY <2>2, <1>11 DEF DupTail
    <2> QED BY <2>1, <2>2
  <1>14. q \in [BOOLEAN -> Nat] /\ (x.dup => q[TRUE] > 0 \/ q[FALSE] > 0)
    BY <1>1, Spawned DEF DupSpawn
  <1> HIDE DEF q
  <1>15. TimersOK' /\ \E t \in Timers \cup {None} :
            ctx' = [ctx EXCEPT ![r] = [DupTail(x) EXCEPT !.timer["T3592"] = t]]
    BY <1>1, <1>5, <1>6, RestartedTimers DEF IInv, Kinds
  <1>16. PICK t \in Timers \cup {None} :
            ctx' = [ctx EXCEPT ![r] = [DupTail(x) EXCEPT !.timer["T3592"] = t]]
    BY <1>15
  <1> DEFINE y == [DupTail(x) EXCEPT !.timer["T3592"] = t]
  <1>17. /\ y \in Context /\ y.upf = ctx[r].upf /\ y.addr = b /\ (~x.dup => y.state = s0)
    BY <1>11, <1>13, TimerField DEF Kinds
  <1>18. ctx' = [ctx EXCEPT ![r] = y]
    BY <1>16
  <1> HIDE DEF y
  <1>19. ctx'[r] = y
    BY <1>18 DEF IInv, Contexts
  <1>20. Books(r)'
    <2>1. ~Has(r)'
      BY <1>2, <1>17, <1>19 DEF Has
    <2>2. Books(r)
      BY <1>1 DEF Good
    <2>3. hist'.addrFrees[r] = IF r \in hist'.leased THEN 1 ELSE 0
      BY <2>2, <1>4, <1>12 DEF Books
    <2> QED BY <2>1, <2>2, <2>3, <1>6, <1>12 DEF Books
  <1>21. Clean(r)'
    BY <1>7, <1>12 DEF Clean, Excused
  <1>22. BothAnswered(r)' => q[TRUE] > 0 \/ q[FALSE] > 0
    BY <1>2, <1>14, <1>17, <1>19 DEF BothAnswered
  <1>23. \A s \in Refs : s # r => SameHist(s)
    BY <1>3, <1>8, <1>12 DEF SameHist
  <1>24. r \in commanded' /\ commanded' \in {commanded, commanded \cup {r}}
    BY <1>6
  <1>25. amf' \in {amf, None} /\ UNCHANGED <<pool, canonical, made, lock>>
    BY <1>6
  <1>26. Excused(r) => Excused(r)'
    BY <1>9, <1>12 DEF Excused
  <1>27. Contexts /\ Sets /\ \A s \in Refs : Good(s)
    BY DEF IInv
  <1>28. Contexts' /\ Sets' /\ (\A s \in Refs : Good(s))'
    BY <1>1, <1>5, <1>6, <1>12, <1>14, <1>17, <1>18, <1>20, <1>21, <1>22, <1>23, <1>24, <1>25, <1>26,
       <1>27, HandledGood
  <1> QED BY <1>6, <1>15, <1>28, HandlerKeeps

LEMMA ReleaseCompleteKeeps ==
  ASSUME IInv, NEW c \in Threads, UpdateReleaseComplete(c) PROVE IInv'
  <1>0. PICK r \in Refs :
          LET x == [Forget(ctx[r], "T3592") EXCEPT !.state = "InActive"] IN
          /\ Locked(c, "releaseComplete", r)
          /\ timers' = StopTimer(timers, ctx[r], "T3592")
          /\ ctx' = [ctx EXCEPT ![r] = x]
          /\ removal' = [removal EXCEPT ![r] =
                DupSpawn(IF x.an THEN removal[r] ELSE Spawn(removal[r], TRUE), x)]
          /\ hist' = AnswerSeen([hist EXCEPT !.n1 = hist.n1 \cup {r}], r)
          /\ End(c)
          /\ UNCHANGED <<pool, canonical, made, lock, calls, upf, amf, commanded>>
    BY DEF UpdateReleaseComplete
  <1> DEFINE x == [Forget(ctx[r], "T3592") EXCEPT !.state = "InActive"]
             q == DupSpawn(IF x.an THEN removal[r] ELSE Spawn(removal[r], TRUE), x)
             U == IF r \in commanded THEN hist.unasked ELSE hist.unasked \cup {r}
  <1>1. /\ r \in made /\ lock[r] = None /\ Good(r) /\ ctx[r] \in Context
        /\ removal[r] \in [BOOLEAN -> Nat] /\ hist \in History
    BY <1>0, LockedKnows
  <1>2. /\ ctx' = [ctx EXCEPT ![r] = x] /\ removal' = [removal EXCEPT ![r] = q]
        /\ timers' = StopTimer(timers, ctx[r], "T3592") /\ End(c)
        /\ UNCHANGED <<pool, canonical, made, lock, upf, amf, commanded>>
    BY <1>0
  <1>3. /\ x \in Context /\ x.upf = ctx[r].upf /\ x.addr = ctx[r].addr
    <2>1. "T3592" \in Kinds /\ "InActive" \in States
      BY DEF Kinds, States
    <2>2. /\ Forget(ctx[r], "T3592") \in Context /\ Forget(ctx[r], "T3592").upf = ctx[r].upf
          /\ Forget(ctx[r], "T3592").addr = ctx[r].addr
      BY <1>1, <2>1, Forgotten
    <2> QED BY <2>1, <2>2, StateField
  <1> HIDE DEF x
  <1>4. q \in [BOOLEAN -> Nat] /\ (~x.an => q[TRUE] > 0 \/ q[FALSE] > 0)
    BY <1>1, Spawned DEF DupSpawn
  <1> HIDE DEF q
  <1>5. /\ hist' \in History /\ hist'.n1 = hist.n1 \cup {r} /\ hist'.failed = hist.failed
        /\ hist'.unasked = U /\ hist'.steered = hist.steered
        /\ hist'.n2 = hist.n2 /\ hist'.leased = hist.leased /\ hist'.lost = hist.lost
        /\ hist'.addrFrees = hist.addrFrees /\ hist'.teidFrees = hist.teidFrees
    <2>1. PICK N \in SUBSET Refs, V \in SUBSET Refs : N = hist.n1 \cup {r} /\ V = U
      BY <1>1 DEF History
    <2>2. hist' = [hist EXCEPT !.n1 = N, !.unasked = V]
      BY <1>0, <1>1, <2>1 DEF AnswerSeen, History
    <2> HIDE DEF U
    <2> QED BY <1>1, <2>1, <2>2 DEF History
  <1>6. ctx'[r] = x
    BY <1>2 DEF IInv, Contexts
  <1>7. Books(r)'
    BY <1>1, <1>2, <1>3, <1>5, <1>6, SameBooks DEF Good
  <1>8. Clean(r)' \/ Doomed(r)
    BY <1>5 DEF Clean, Excused, Doomed
  <1>9. BothAnswered(r)' => q[TRUE] > 0 \/ q[FALSE] > 0
    BY <1>4, <1>6 DEF BothAnswered
  <1>10. \A s \in Refs : s # r => SameHist(s)
    BY <1>5 DEF SameHist
  <1>11. /\ amf' \in {amf, None} /\ upf' \in {upf, upf \ {r}}
         /\ commanded' \in {commanded, commanded \cup {r}}
         /\ UNCHANGED <<pool, canonical, made, lock>>
         /\ Excused(r) => Excused(r)'
    BY <1>1, <1>2, <1>5 DEF Excused
  <1>12. Contexts /\ Sets /\ \A s \in Refs : Good(s)
    BY DEF IInv
  <1>13. Contexts' /\ Sets' /\ (\A s \in Refs : Good(s))'
    BY <1>1, <1>2, <1>3, <1>4, <1>5, <1>7, <1>8, <1>9, <1>10, <1>11, <1>12, HandledGood
  <1>14. TimersOK'
    <2>1. timers \in [Timers -> Goroutine] /\ "T3592" \in Kinds
      BY DEF IInv, TimersOK, Kinds
    <2> QED BY <1>1, <1>2, <2>1, StopOne, StoppedTimers DEF IInv
  <1> QED BY <1>2, <1>13, <1>14, HandlerKeeps

LEMMA ModificationRequestKeeps ==
  ASSUME IInv, NEW c \in Threads, UpdateModificationRequest(c) PROVE IInv'
  <1>0. PICK r \in Refs :
          /\ Locked(c, "modificationReq", r)
          /\ Restart(r, "T3591", ctx[r]) \/ UNCHANGED <<ctx, timers>>
          /\ End(c)
          /\ UNCHANGED <<pool, canonical, made, lock, removal, calls, upf, amf, commanded, hist>>
    BY DEF UpdateModificationRequest
  <1>1. /\ r \in made /\ lock[r] = None /\ Good(r) /\ ctx[r] \in Context
        /\ removal[r] \in [BOOLEAN -> Nat] /\ hist \in History
    BY <1>0, LockedKnows
  <1>2. /\ TimersOK'
        /\ \E y \in Context :
              /\ ctx' = [ctx EXCEPT ![r] = y] /\ y.state = ctx[r].state /\ y.an = ctx[r].an
              /\ y.upf = ctx[r].upf /\ y.addr = ctx[r].addr /\ y.dup = ctx[r].dup
    <2>1. CASE Restart(r, "T3591", ctx[r])
      <3>1. TimersOK' /\ \E t \in Timers \cup {None} :
              ctx' = [ctx EXCEPT ![r] = [ctx[r] EXCEPT !.timer["T3591"] = t]]
        BY <1>0, <1>1, <2>1, RestartedTimers DEF IInv, Kinds
      <3>2. PICK t \in Timers \cup {None} :
              ctx' = [ctx EXCEPT ![r] = [ctx[r] EXCEPT !.timer["T3591"] = t]]
        BY <3>1
      <3> DEFINE y == [ctx[r] EXCEPT !.timer["T3591"] = t]
      <3>3. /\ y \in Context /\ y.state = ctx[r].state /\ y.an = ctx[r].an
            /\ y.upf = ctx[r].upf /\ y.addr = ctx[r].addr /\ y.dup = ctx[r].dup
        BY <1>1, TimerField DEF Kinds
      <3>4. ctx' = [ctx EXCEPT ![r] = y]
        BY <3>2
      <3> HIDE DEF y
      <3> QED BY <3>1, <3>3, <3>4
    <2>2. CASE UNCHANGED <<ctx, timers>>
      <3>1. ctx' = [ctx EXCEPT ![r] = ctx[r]]
        BY <2>2 DEF IInv, Contexts
      <3>2. TimersOK'
        BY <1>0, <2>2 DEF IInv, TimersOK
      <3> QED BY <1>1, <3>1, <3>2
    <2> QED BY <1>0, <2>1, <2>2
  <1>3. PICK y \in Context :
              /\ ctx' = [ctx EXCEPT ![r] = y] /\ y.state = ctx[r].state /\ y.an = ctx[r].an
              /\ y.upf = ctx[r].upf /\ y.addr = ctx[r].addr /\ y.dup = ctx[r].dup
    BY <1>2
  <1>4. removal' = [removal EXCEPT ![r] = removal[r]]
    BY <1>0 DEF IInv, Contexts
  <1>5. ctx'[r] = y
    BY <1>3 DEF IInv, Contexts
  <1>6. Books(r)'
    BY <1>0, <1>1, <1>3, <1>5, SameBooks DEF Good
  <1>7. Doomed(r)' => Doomed(r)
    BY <1>0, <1>3, <1>5 DEF Doomed, Leaving
  <1>8. BothAnswered(r)' => removal[r][TRUE] > 0 \/ removal[r][FALSE] > 0
    <2>1. lock[r] # "notify"
      BY <1>1, FreeLock DEF Holders
    <2> QED BY <1>0, <1>1, <1>3, <1>5, <2>1 DEF BothAnswered, Good, Ending, Leaving
  <1>9. \A s \in Refs : s # r => SameHist(s)
    BY <1>0 DEF SameHist
  <1>10. /\ amf' \in {amf, None} /\ upf' \in {upf, upf \ {r}}
         /\ commanded' \in {commanded, commanded \cup {r}} /\ hist' \in History
         /\ UNCHANGED <<pool, canonical, made, lock>>
         /\ Excused(r) => Excused(r)'
    BY <1>0, <1>1 DEF Excused
  <1>12. Contexts /\ Sets /\ \A s \in Refs : Good(s)
    BY DEF IInv
  <1>13. Contexts' /\ Sets' /\ (\A s \in Refs : Good(s))'
    BY <1>1, <1>3, <1>4, <1>6, <1>7, <1>8, <1>9, <1>10, <1>12, HandledGood
  <1> QED BY <1>0, <1>2, <1>13, HandlerKeeps

LEMMA ReleaseResponseKeeps ==
  ASSUME IInv, NEW c \in Threads, UpdateReleaseResponse(c) PROVE IInv'
  <1>0. PICK r \in Refs :
          LET x == [ctx[r] EXCEPT !.an = FALSE, !.state = FinalState(ctx[r].state)] IN
          /\ Locked(c, "releaseRsp", r)
          /\ ctx' = [ctx EXCEPT ![r] = DupTail(x)]
          /\ removal' = [removal EXCEPT ![r] =
                DupSpawn(IF ctx[r].state = "InActive" THEN Spawn(removal[r], TRUE) ELSE removal[r], x)]
          /\ hist' = AnswerSeen([hist EXCEPT !.n2 = hist.n2 \cup {r}], r)
          /\ End(c)
          /\ UNCHANGED <<pool, canonical, made, lock, timers, calls, upf, amf, commanded>>
    BY DEF UpdateReleaseResponse
  <1> DEFINE s0 == FinalState(ctx[r].state)
             x == [ctx[r] EXCEPT !.an = FALSE, !.state = s0]
             y == DupTail(x)
             q == DupSpawn(IF ctx[r].state = "InActive" THEN Spawn(removal[r], TRUE) ELSE removal[r], x)
             U == IF r \in commanded THEN hist.unasked ELSE hist.unasked \cup {r}
  <1>1. /\ r \in made /\ lock[r] = None /\ Good(r) /\ ctx[r] \in Context
        /\ removal[r] \in [BOOLEAN -> Nat] /\ hist \in History
    BY <1>0, LockedKnows
  <1>2. /\ ctx' = [ctx EXCEPT ![r] = y] /\ removal' = [removal EXCEPT ![r] = q]
        /\ End(c)
        /\ UNCHANGED <<pool, canonical, made, lock, timers, upf, amf, commanded>>
    BY <1>0
  <1>3. s0 \in States /\ (s0 = "InActive" => ctx[r].state = "InActive")
    <2>1. ctx[r].state \in States
      BY <1>1 DEF Context
    <2> QED BY <2>1 DEF FinalState, States
  <1> HIDE DEF s0
  <1>4. x \in Context /\ x.state = s0 /\ x.upf = ctx[r].upf /\ x.addr = ctx[r].addr
    BY <1>1, <1>3 DEF Context
  <1> HIDE DEF x
  <1>5. y \in Context /\ y.upf = x.upf /\ y.addr = x.addr /\ (~x.dup => y = x)
    <2>1. CASE x.dup
      BY <2>1, <1>4, StateField DEF DupTail, RemoveFromAllNF, States
    <2>2. CASE ~x.dup
      BY <2>2, <1>4 DEF DupTail
    <2> QED BY <2>1, <2>2
  <1>6. q \in [BOOLEAN -> Nat]
    BY <1>1, Spawned DEF DupSpawn
  <1>7. x.dup \/ ctx[r].state = "InActive" => q[TRUE] > 0 \/ q[FALSE] > 0
    BY <1>1, Spawned DEF DupSpawn
  <1> HIDE DEF q, y
  <1>8. /\ hist' \in History /\ hist'.n2 = hist.n2 \cup {r} /\ hist'.failed = hist.failed
        /\ hist'.unasked = U /\ hist'.steered = hist.steered
        /\ hist'.n1 = hist.n1 /\ hist'.leased = hist.leased /\ hist'.lost = hist.lost
        /\ hist'.addrFrees = hist.addrFrees /\ hist'.teidFrees = hist.teidFrees
    <2>1. PICK N \in SUBSET Refs, V \in SUBSET Refs : N = hist.n2 \cup {r} /\ V = U
      BY <1>1 DEF History
    <2>2. hist' = [hist EXCEPT !.n2 = N, !.unasked = V]
      BY <1>0, <1>1, <2>1 DEF AnswerSeen, History
    <2> HIDE DEF U
    <2> QED BY <1>1, <2>1, <2>2 DEF History
  <1>9. ctx'[r] = y
    BY <1>2 DEF IInv, Contexts
  <1>10. Books(r)'
    BY <1>1, <1>2, <1>4, <1>5, <1>8, <1>9, SameBooks DEF Good
  <1>11. Clean(r)' \/ Doomed(r)
    BY <1>8 DEF Clean, Excused, Doomed
  <1>12. BothAnswered(r)' => q[TRUE] > 0 \/ q[FALSE] > 0
    BY <1>3, <1>4, <1>5, <1>7, <1>9 DEF BothAnswered
  <1>13. \A s \in Refs : s # r => SameHist(s)
    BY <1>8 DEF SameHist
  <1>14. /\ amf' \in {amf, None} /\ upf' \in {upf, upf \ {r}}
         /\ commanded' \in {commanded, commanded \cup {r}}
         /\ UNCHANGED <<pool, canonical, made, lock>>
         /\ Excused(r) => Excused(r)'
    BY <1>1, <1>2, <1>8 DEF Excused
  <1>15. Contexts /\ Sets /\ \A s \in Refs : Good(s)
    BY DEF IInv
  <1>16. Contexts' /\ Sets' /\ (\A s \in Refs : Good(s))'
    BY <1>1, <1>2, <1>5, <1>6, <1>8, <1>10, <1>11, <1>12, <1>13, <1>14, <1>15, HandledGood
  <1>17. TimersOK'
    BY <1>2 DEF IInv, TimersOK
  <1> QED BY <1>2, <1>16, <1>17, HandlerKeeps

LEMMA PolicyUpdateKeeps ==
  ASSUME IInv, NEW c \in Threads, PolicyUpdate(c) PROVE IInv'
  <1>0. PICK r \in Refs :
          /\ Locked(c, "policy", r)
          /\ \/ /\ ctx' = [ctx EXCEPT ![r] = [ctx[r] EXCEPT !.state = "ModificationPending"]]
                /\ UNCHANGED <<upf, hist>>
             \/ /\ ctx' = [ctx EXCEPT ![r] = [ctx[r] EXCEPT !.state = "ModificationPending",
                                                            !.path = TRUE]]
                /\ upf' \in {upf, upf \cup {r}}
                /\ hist' = [hist EXCEPT !.steered = hist.steered \cup {r}]
          /\ End(c)
          /\ UNCHANGED <<pool, canonical, made, lock, removal, timers, calls, amf, commanded>>
    BY DEF PolicyUpdate
  <1>1. /\ r \in made /\ lock[r] = None /\ Good(r) /\ ctx[r] \in Context
        /\ removal[r] \in [BOOLEAN -> Nat] /\ hist \in History
    BY <1>0, LockedKnows
  <1>2. \E y \in Context :
           /\ ctx' = [ctx EXCEPT ![r] = y] /\ y.state = "ModificationPending"
           /\ y.upf = ctx[r].upf /\ y.addr = ctx[r].addr /\ y.dup = ctx[r].dup
    <2>1. CASE ctx' = [ctx EXCEPT ![r] = [ctx[r] EXCEPT !.state = "ModificationPending"]]
      BY <2>1, <1>1, StateField DEF States
    <2>2. CASE ctx' = [ctx EXCEPT ![r] = [ctx[r] EXCEPT !.state = "ModificationPending",
                                                        !.path = TRUE]]
      <3> DEFINE y == [ctx[r] EXCEPT !.state = "ModificationPending", !.path = TRUE]
      <3>1. /\ y \in Context /\ y.state = "ModificationPending" /\ y.upf = ctx[r].upf
            /\ y.addr = ctx[r].addr /\ y.dup = ctx[r].dup
        BY <1>1 DEF Context, States
      <3>2. ctx' = [ctx EXCEPT ![r] = y]
        BY <2>2
      <3> HIDE DEF y
      <3> QED BY <3>1, <3>2
    <2> QED BY <1>0, <2>1, <2>2
  <1>3. PICK y \in Context :
           /\ ctx' = [ctx EXCEPT ![r] = y] /\ y.state = "ModificationPending"
           /\ y.upf = ctx[r].upf /\ y.addr = ctx[r].addr /\ y.dup = ctx[r].dup
    BY <1>2
  <1>4. removal' = [removal EXCEPT ![r] = removal[r]] /\ ctx'[r] = y
    BY <1>0, <1>3 DEF IInv, Contexts
  <1>5. /\ hist' \in History /\ hist'.failed = hist.failed /\ hist'.unasked = hist.unasked
        /\ hist'.n1 = hist.n1 /\ hist'.n2 = hist.n2 /\ hist'.leased = hist.leased
        /\ hist'.lost = hist.lost /\ hist'.addrFrees = hist.addrFrees
        /\ hist'.teidFrees = hist.teidFrees
        /\ hist'.steered \in {hist.steered, hist.steered \cup {r}}
        /\ r \in hist'.steered \/ upf' = upf
    <2>1. CASE UNCHANGED <<upf, hist>>
      BY <2>1, <1>1
    <2>2. CASE hist' = [hist EXCEPT !.steered = hist.steered \cup {r}]
      BY <2>2, <1>1 DEF History
    <2> QED BY <1>0, <2>1, <2>2
  <1>6. Books(r)'
    BY <1>0, <1>1, <1>3, <1>4, <1>5, SameBooks DEF Good
  <1>7. Doomed(r)' => Doomed(r)
    BY <1>0, <1>3, <1>4 DEF Doomed, Leaving
  <1>8. ~BothAnswered(r)'
    BY <1>3, <1>4 DEF BothAnswered
  <1>9. \A s \in Refs : s # r => SameHist(s)
    BY <1>5 DEF SameHist
  <1>10. (Excused(r) => Excused(r)') /\ (r \in upf' => r \in upf \/ Excused(r)')
    BY <1>5 DEF Excused
  <1>11. /\ amf' \in {amf, None} /\ upf' \in {upf, upf \ {r}, upf \cup {r}}
         /\ commanded' \in {commanded, commanded \cup {r}}
         /\ UNCHANGED <<pool, canonical, made, lock>>
    BY <1>0
  <1>12. Contexts /\ Sets /\ \A s \in Refs : Good(s)
    BY DEF IInv
  <1>13. Contexts' /\ Sets' /\ (\A s \in Refs : Good(s))'
    BY <1>1, <1>3, <1>4, <1>5, <1>6, <1>7, <1>8, <1>9, <1>10, <1>11, <1>12, SteeredGood
  <1>14. TimersOK'
    BY <1>0 DEF IInv, TimersOK
  <1> QED BY <1>0, <1>13, <1>14, HandlerKeeps

LEMMA DuplicateKeeps ==
  ASSUME IInv, NEW c \in Threads, UpdateDuplicate(c) PROVE IInv'
  <1>0. PICK r \in Refs :
          /\ Locked(c, "duplicate", r)
          /\ \/ /\ ctx[r].state \in {"ActivePending", "ModificationPending", "Active"}
                /\ \E ok \in BOOLEAN : ReleaseSession(r, ok) /\ amf' = IF ok THEN amf ELSE None
                /\ commanded' = commanded \cup {r}
             \/ /\ ctx[r].state \notin {"ActivePending", "ModificationPending", "Active"}
                /\ UNCHANGED <<upf, hist, amf, commanded>>
          /\ ctx' = [ctx EXCEPT ![r] = RemoveFromAllNF([ctx[r] EXCEPT !.dup = TRUE])]
          /\ removal' = [removal EXCEPT ![r] = Spawn(removal[r], TRUE)]
          /\ End(c)
          /\ UNCHANGED <<pool, canonical, made, lock, timers, calls>>
    BY DEF UpdateDuplicate
  <1> DEFINE y == RemoveFromAllNF([ctx[r] EXCEPT !.dup = TRUE])
             q == Spawn(removal[r], TRUE)
  <1>1. /\ r \in made /\ lock[r] = None /\ Good(r) /\ ctx[r] \in Context
        /\ removal[r] \in [BOOLEAN -> Nat] /\ hist \in History
    BY <1>0, LockedKnows
  <1>2. /\ y \in Context /\ y.upf = ctx[r].upf /\ y.addr = ctx[r].addr
    <2>1. /\ [ctx[r] EXCEPT !.dup = TRUE] \in Context /\ [ctx[r] EXCEPT !.dup = TRUE].upf = ctx[r].upf
          /\ [ctx[r] EXCEPT !.dup = TRUE].addr = ctx[r].addr
      BY <1>1 DEF Context
    <2>2. "InActive" \in States
      BY DEF States
    <2> QED BY <2>1, <2>2, StateField DEF RemoveFromAllNF
  <1>3. q \in [BOOLEAN -> Nat] /\ (q[TRUE] > 0 \/ q[FALSE] > 0)
    BY <1>1, Spawned
  <1>4. /\ ctx' = [ctx EXCEPT ![r] = y] /\ removal' = [removal EXCEPT ![r] = q] /\ End(c)
        /\ UNCHANGED <<pool, canonical, made, lock, timers>>
    BY <1>0
  <1> HIDE DEF y, q
  <1>5. /\ upf' \in {upf, upf \ {r}} /\ hist' \in History
        /\ hist'.n1 = hist.n1 /\ hist'.n2 = hist.n2 /\ hist'.unasked = hist.unasked
         /\ hist'.steered = hist.steered /\ hist'.leased = hist.leased
        /\ hist'.addrFrees = hist.addrFrees /\ hist'.teidFrees = hist.teidFrees
        /\ Excused(r) => Excused(r)'
        /\ \A s \in Refs : s # r => SameHist(s)
        /\ Clean(r)' \/ Doomed(r)
        /\ amf' \in {amf, None} /\ commanded' \in {commanded, commanded \cup {r}}
    <2>1. CASE /\ \E ok \in BOOLEAN : ReleaseSession(r, ok) /\ amf' = IF ok THEN amf ELSE None
               /\ commanded' = commanded \cup {r}
      BY <1>1, <2>1, ReleasedClean
    <2>2. CASE /\ ctx[r].state \notin {"ActivePending", "ModificationPending", "Active"}
               /\ UNCHANGED <<upf, hist, amf, commanded>>
      <3>1. Doomed(r)
        BY <1>1, <2>2 DEF Context, States, Doomed
      <3>2. \A s \in Refs : s # r => SameHist(s)
        BY <2>2 DEF SameHist
      <3> QED BY <1>1, <2>2, <3>1, <3>2 DEF Excused
    <2> QED BY <1>0, <2>1, <2>2
  <1>6. ctx'[r] = y
    BY <1>4 DEF IInv, Contexts
  <1>7. Books(r)'
    BY <1>1, <1>2, <1>4, <1>5, <1>6, SameBooks DEF Good
  <1>9. UNCHANGED <<pool, canonical, made, lock>> /\ made' = made /\ commanded \subseteq commanded'
    BY <1>4, <1>5
  <1>10. Contexts /\ Sets /\ \A s \in Refs : Good(s)
    BY DEF IInv
  <1>11. Contexts' /\ Sets' /\ (\A s \in Refs : Good(s))'
    BY <1>1, <1>2, <1>3, <1>4, <1>5, <1>7, <1>9, <1>10, HandledGood
  <1>12. TimersOK'
    BY <1>4 DEF IInv, TimersOK
  <1> QED BY <1>4, <1>9, <1>11, <1>12, HandlerKeeps

LEMMA ReleaseKeeps ==
  ASSUME IInv, NEW c \in Threads, Release(c) PROVE IInv'
  <1>0. PICK r \in Refs, ok \in BOOLEAN :
          /\ Locked(c, "release", r)
          /\ ReleaseSession(r, ok)
          /\ timers' = StopTimer(StopTimer(timers, ctx[r], "T3591"), ctx[r], "T3592")
          /\ ctx' = [ctx EXCEPT ![r] = RemoveFromAllNF(Forget(Forget(ctx[r], "T3591"), "T3592"))]
          /\ removal' = [removal EXCEPT ![r] = Spawn(removal[r], FALSE)]
          /\ amf' = IF ok THEN None ELSE amf
          /\ End(c)
          /\ UNCHANGED <<pool, canonical, made, lock, calls, commanded>>
    BY DEF Release
  <1> DEFINE v == Forget(ctx[r], "T3591")
             w == Forget(v, "T3592")
             y == RemoveFromAllNF(w)
             q == Spawn(removal[r], FALSE)
             ts == StopTimer(timers, ctx[r], "T3591")
  <1>1. /\ r \in made /\ lock[r] = None /\ Good(r) /\ ctx[r] \in Context
        /\ removal[r] \in [BOOLEAN -> Nat] /\ hist \in History
    BY <1>0, LockedKnows
  <1>2. "T3591" \in Kinds /\ "T3592" \in Kinds /\ "InActive" \in States
    BY DEF Kinds, States
  <1>3. /\ ctx' = [ctx EXCEPT ![r] = y] /\ removal' = [removal EXCEPT ![r] = q] /\ End(c)
        /\ timers' = StopTimer(ts, ctx[r], "T3592") /\ ReleaseSession(r, ok)
        /\ UNCHANGED <<pool, canonical, made, lock, commanded>> /\ amf' \in {amf, None}
    BY <1>0
  <1>4. v \in Context /\ v.upf = ctx[r].upf /\ v.addr = ctx[r].addr
    BY <1>1, <1>2, Forgotten
  <1> HIDE DEF v
  <1>5. w \in Context /\ w.upf = ctx[r].upf /\ w.addr = ctx[r].addr
    BY <1>2, <1>4, Forgotten
  <1> HIDE DEF w
  <1>6. y \in Context /\ y.upf = ctx[r].upf /\ y.addr = ctx[r].addr
    BY <1>2, <1>5, StateField DEF RemoveFromAllNF
  <1>7. q \in [BOOLEAN -> Nat] /\ (q[TRUE] > 0 \/ q[FALSE] > 0)
    BY <1>1, Spawned
  <1>8. timers \in [Timers -> Goroutine]
    BY DEF IInv, TimersOK
  <1>9. ts \in [Timers -> Goroutine]
        /\ \A t \in Timers : ts[t].pc = timers[t].pc /\ ts[t].ref = timers[t].ref
    BY <1>1, <1>2, <1>8, StopOne
  <1> HIDE DEF y, q, ts
  <1>10. timers' \in [Timers -> Goroutine]
         /\ \A t \in Timers : timers'[t].pc = timers[t].pc /\ timers'[t].ref = timers[t].ref
    BY <1>1, <1>2, <1>3, <1>9, StopOne
  <1>11. TimersOK'
    BY <1>3, <1>10, StoppedTimers DEF IInv
  <1>12. /\ upf' \in {upf, upf \ {r}} /\ hist' \in History
         /\ hist'.n1 = hist.n1 /\ hist'.n2 = hist.n2 /\ hist'.unasked = hist.unasked
         /\ hist'.steered = hist.steered /\ hist'.leased = hist.leased
         /\ hist'.addrFrees = hist.addrFrees /\ hist'.teidFrees = hist.teidFrees
         /\ Excused(r) => Excused(r)'
         /\ \A s \in Refs : s # r => SameHist(s)
         /\ Clean(r)'
    BY <1>1, <1>3, ReleasedClean
  <1>13. ctx'[r] = y
    BY <1>3 DEF IInv, Contexts
  <1>14. Books(r)'
    BY <1>1, <1>3, <1>6, <1>12, <1>13, SameBooks DEF Good
  <1>16. UNCHANGED <<pool, canonical, made, lock>> /\ commanded' \in {commanded, commanded \cup {r}}
    BY <1>3
  <1>17. Contexts /\ Sets /\ \A s \in Refs : Good(s)
    BY DEF IInv
  <1>18. Contexts' /\ Sets' /\ (\A s \in Refs : Good(s))'
    BY <1>1, <1>3, <1>6, <1>7, <1>12, <1>14, <1>16, <1>17, HandledGood
  <1> QED BY <1>3, <1>11, <1>18, HandlerKeeps

\* The local release of a duplicate: the thread goes on to make the new context.
LEMMA LocalReleaseKeeps ==
  ASSUME IInv, NEW c \in Threads, LocalRelease(c) PROVE IInv'
  <1>2. call[c].ref \in made /\ call[c].ref \in Refs
    BY DEF IInv, CallsOK, Sets, LocalRelease
  <1>r. PICK r \in Refs : r = call[c].ref
    BY <1>2
  <1>0. /\ call[c].pc = "dup" /\ lock[r] = None
        /\ \E ok \in BOOLEAN :
             /\ ReleaseSession(r, ok)
             /\ ctx' = [ctx EXCEPT ![r] = IF ok THEN RemoveFromAllNF(ctx[r])
                                          ELSE [ctx[r] EXCEPT !.state = "Active"]]
             /\ removal' = [removal EXCEPT ![r] = IF ok THEN Spawn(removal[r], FALSE) ELSE removal[r]]
        /\ call' = [call EXCEPT ![c] = [call[c] EXCEPT !.pc = "new"]]
        /\ UNCHANGED <<pool, canonical, made, lock, timers, amf, ueLock, commanded>>
    BY <1>r DEF LocalRelease
  <1>1. PICK ok \in BOOLEAN :
             /\ ReleaseSession(r, ok)
             /\ ctx' = [ctx EXCEPT ![r] = IF ok THEN RemoveFromAllNF(ctx[r])
                                          ELSE [ctx[r] EXCEPT !.state = "Active"]]
             /\ removal' = [removal EXCEPT ![r] = IF ok THEN Spawn(removal[r], FALSE) ELSE removal[r]]
    BY <1>0
  <1> DEFINE y == IF ok THEN RemoveFromAllNF(ctx[r]) ELSE [ctx[r] EXCEPT !.state = "Active"]
             q == IF ok THEN Spawn(removal[r], FALSE) ELSE removal[r]
  <1>3. CallsOK'
    <2>1. call[c] \in Call
      BY DEF IInv, CallsOK
    <2>2. [call[c] EXCEPT !.pc = "new"] \in Call /\ [call[c] EXCEPT !.pc = "new"].pc = "new"
      BY <2>1 DEF Call, CallPcs
    <2>3. call' \in [Threads -> Call] /\ call'[c].pc = "new"
          /\ \A d \in Threads : d # c => call'[d] = call[d]
      BY <1>0, <2>2 DEF IInv, CallsOK
    <2>4. ueLock = c
      BY <1>0 DEF IInv, CallsOK
    <2> QED BY <1>0, <2>3, <2>4 DEF IInv, CallsOK
  <1>4. /\ lock[r] = None /\ ReleaseSession(r, ok)
        /\ ctx' = [ctx EXCEPT ![r] = y] /\ removal' = [removal EXCEPT ![r] = q]
        /\ UNCHANGED <<pool, canonical, made, lock, timers, amf, commanded>>
    BY <1>0, <1>1
  <1>5. r \in made /\ Good(r) /\ ctx[r] \in Context /\ removal[r] \in [BOOLEAN -> Nat] /\ hist \in History
    BY <1>2, <1>r DEF IInv, Contexts
  <1>6. /\ y \in Context /\ y.upf = ctx[r].upf /\ y.addr = ctx[r].addr
        /\ (~ok => y.state = "Active")
    <2>1. "InActive" \in States /\ "Active" \in States
      BY DEF States
    <2> QED BY <1>5, <2>1, StateField DEF RemoveFromAllNF
  <1>7. q \in [BOOLEAN -> Nat] /\ (ok => q[TRUE] > 0 \/ q[FALSE] > 0)
    BY <1>5, Spawned
  <1> HIDE DEF y, q
  <1>8. /\ upf' \in {upf, upf \ {r}} /\ hist' \in History
        /\ hist'.n1 = hist.n1 /\ hist'.n2 = hist.n2 /\ hist'.unasked = hist.unasked
         /\ hist'.steered = hist.steered /\ hist'.leased = hist.leased
        /\ hist'.addrFrees = hist.addrFrees /\ hist'.teidFrees = hist.teidFrees
        /\ Excused(r) => Excused(r)'
        /\ \A s \in Refs : s # r => SameHist(s)
        /\ Clean(r)'
    BY <1>4, <1>5, ReleasedClean
  <1>9. ctx'[r] = y
    BY <1>4 DEF IInv, Contexts
  <1>10. Books(r)'
    BY <1>4, <1>5, <1>6, <1>8, <1>9, SameBooks DEF Good
  <1>12. BothAnswered(r)' => q[TRUE] > 0 \/ q[FALSE] > 0
    BY <1>6, <1>7, <1>9 DEF BothAnswered
  <1>13. /\ UNCHANGED <<pool, canonical, made, lock>> /\ amf' \in {amf, None}
         /\ commanded' \in {commanded, commanded \cup {r}}
    BY <1>4
  <1>14. Contexts /\ Sets /\ \A s \in Refs : Good(s)
    BY DEF IInv
  <1>15. Contexts' /\ Sets' /\ (\A s \in Refs : Good(s))'
    BY <1>4, <1>5, <1>6, <1>7, <1>8, <1>10, <1>12, <1>13, <1>14, HandledGood
  <1>16. TimersOK'
    BY <1>4 DEF IInv, TimersOK
  <1> QED BY <1>3, <1>15, <1>16 DEF IInv

-----------------------------------------------------------------------------
(* The calls of the AMF, and the creation of a context.                    *)

\* Steps that leave the contexts alone.
LEMMA QuietContexts ==
  ASSUME IInv, UNCHANGED <<pool, canonical, made, ctx, lock, removal, upf, commanded, hist>>,
         amf' \in made \cup {None}
  PROVE  Contexts' /\ Sets' /\ (\A s \in Refs : Good(s))'
  <1>1. Contexts' /\ Sets'
    BY DEF IInv, Contexts, Sets
  <1>2. ASSUME NEW s \in Refs PROVE Good(s)'
    <2>1. Same(s)
      BY DEF Same, SameHist
    <2> QED BY <2>1, SameGood DEF IInv
  <1> QED BY <1>1, <1>2

\* One call changes; the thread keeps, takes or does not need the Lock of the UE.
LEMMA CallChanged ==
  ASSUME CallsOK, NEW c \in Threads, NEW n \in Call, call' = [call EXCEPT ![c] = n],
         UNCHANGED commanded, made \subseteq made',
         ueLock' = ueLock \/ (ueLock = None /\ ueLock' = c),
         n.pc \in {"create", "dup", "new", "ret"} => ueLock' = c,
         n.pc \in {"lock", "dup"} => n.ref \in made',
         n.pc = "ret" => n.ref \in made' \cup {None}
  PROVE  CallsOK'
  <1>1. call' \in [Threads -> Call] /\ ueLock' \in Threads \cup {None}
    BY DEF CallsOK
  <1>2. ASSUME NEW d \in Threads
        PROVE  /\ call'[d].pc \in {"create", "dup", "new", "ret"} => ueLock' = d
               /\ call'[d].pc \in {"lock", "dup"} => call'[d].ref \in made'
               /\ call'[d].pc = "ret" => call'[d].ref \in made' \cup {None}
    <2>1. CASE d = c
      <3>1. call'[d] = n
        BY <2>1 DEF CallsOK
      <3> QED BY <2>1, <3>1
    <2>2. CASE d # c
      <3>1. call'[d] = call[d]
        BY <2>2 DEF CallsOK
      <3>2. ueLock = d => ueLock' = d
        BY NoneAssumption
      <3> QED BY <3>1, <3>2 DEF CallsOK
    <2> QED BY <2>1, <2>2
  <1> QED BY <1>1, <1>2 DEF CallsOK

LEMMA AmfCreateKeeps ==
  ASSUME IInv, NEW c \in Threads, AmfCreate(c) PROVE IInv'
  <1> DEFINE n == [pc |-> "create", op |-> "create", ref |-> None]
  <1>1. n \in Call /\ n.pc = "create"
    BY DEF Call, CallPcs, Ops
  <1>2. /\ call' = [call EXCEPT ![c] = n] /\ ueLock = None /\ ueLock' = c
        /\ UNCHANGED <<pool, canonical, made, ctx, lock, removal, timers, upf, amf, commanded, hist>>
    BY DEF AmfCreate
  <1> HIDE DEF n
  <1>3. CallsOK'
    <2>1. CallsOK /\ made \subseteq made' /\ UNCHANGED commanded
      BY <1>2 DEF IInv
    <2>2. n.pc \notin {"lock", "dup", "ret"}
      BY <1>1
    <2> QED BY <1>1, <1>2, <2>1, <2>2, CallChanged
  <1>4. TimersOK'
    BY <1>2 DEF IInv, TimersOK
  <1>5. amf' \in made \cup {None}
    BY <1>2 DEF IInv, Sets
  <1> QED BY <1>2, <1>3, <1>4, <1>5, QuietContexts DEF IInv

LEMMA AmfCallKeeps ==
  ASSUME IInv, NEW c \in Threads, NEW op \in Ops, NEW r \in Refs, NEW locked \in BOOLEAN,
         AmfCall(c, op, r, locked)
  PROVE  IInv'
  <1> DEFINE n == [pc |-> "lock", op |-> op, ref |-> r]
  <1>1. UNCHANGED <<pool, canonical, made, ctx, lock, removal, timers, upf, commanded, hist>>
    BY DEF AmfCall
  <1>2. amf' \in made \cup {None}
    BY DEF AmfCall, IInv, Sets
  <1>3. TimersOK'
    BY <1>1 DEF IInv, TimersOK
  <1>4. CallsOK'
    <2>1. CASE r \in pool
      <3>1. call' = [call EXCEPT ![c] = n]
        BY <2>1 DEF AmfCall
      <3>2. ueLock' = ueLock \/ (ueLock = None /\ ueLock' = c)
        BY <2>1 DEF AmfCall
      <3>3. n \in Call /\ n.pc = "lock" /\ n.op = op /\ n.ref = r
        BY DEF Call, CallPcs
      <3>4. r \in made
        BY <2>1 DEF AmfCall, IInv, Sets
      <3>5. CallsOK /\ made \subseteq made' /\ UNCHANGED commanded /\ made' = made
        BY <1>1 DEF IInv
      <3> HIDE DEF n
      <3> QED BY <3>1, <3>2, <3>3, <3>4, <3>5, CallChanged
    <2>2. CASE r \notin pool
      <3>1. UNCHANGED <<call, ueLock>>
        BY <2>2 DEF AmfCall
      <3> QED BY <1>1, <3>1, SameCalls DEF IInv
    <2> QED BY <2>1, <2>2
  <1> QED BY <1>1, <1>2, <1>3, <1>4, QuietContexts DEF IInv

LEMMA LookupDuplicateKeeps ==
  ASSUME IInv, NEW c \in Threads, LookupDuplicate(c) PROVE IInv'
  <1> DEFINE p == IF canonical = None THEN "new" ELSE "dup"
             n == [call[c] EXCEPT !.pc = p, !.ref = canonical]
  <1>1. call[c] \in Call /\ call[c].pc = "create"
    BY DEF IInv, CallsOK, LookupDuplicate
  <1>2. canonical \in Refs \cup {None} /\ p \in {"new", "dup"} /\ (p = "dup" => canonical \in made)
    BY DEF IInv, Sets
  <1>3. /\ call' = [call EXCEPT ![c] = n] /\ UNCHANGED ueLock
        /\ UNCHANGED <<pool, canonical, made, ctx, lock, removal, timers, upf, amf, commanded, hist>>
    BY DEF LookupDuplicate
  <1> HIDE DEF p
  <1>4. n \in Call /\ n.pc = p /\ n.ref = canonical
    BY <1>1, <1>2 DEF Call, CallPcs
  <1> HIDE DEF n
  <1>5. CallsOK'
    <2>1. CallsOK /\ made \subseteq made' /\ UNCHANGED commanded /\ made' = made
      BY <1>3 DEF IInv
    <2>2. ueLock' = c
      BY <1>1, <1>3 DEF IInv, CallsOK
    <2>3. n.pc # "lock" /\ n.pc # "ret" /\ (n.pc \in {"lock", "dup"} => n.ref \in made')
      BY <1>2, <1>4, <2>1
    <2>4. ueLock' = ueLock
      BY <1>3
    <2> QED BY <1>3, <1>4, <2>1, <2>2, <2>3, <2>4, CallChanged
  <1>6. TimersOK'
    BY <1>3 DEF IInv, TimersOK
  <1>7. amf' \in made \cup {None}
    BY <1>3 DEF IInv, Sets
  <1> QED BY <1>3, <1>5, <1>6, <1>7, QuietContexts DEF IInv

LEMMA AmfStoreKeeps ==
  ASSUME IInv, NEW c \in Threads, AmfStore(c) PROVE IInv'
  <1>1. /\ End(c) /\ call[c].pc = "ret" /\ amf' \in {amf, call[c].ref}
        /\ UNCHANGED <<pool, canonical, made, ctx, lock, removal, timers, upf, commanded, hist>>
    BY DEF AmfStore
  <1>2. amf' \in made \cup {None}
    BY <1>1 DEF IInv, Sets, CallsOK
  <1>3. TimersOK'
    BY <1>1 DEF IInv, TimersOK
  <1>4. CallsOK'
    BY <1>1, EndCalls DEF IInv
  <1> QED BY <1>1, <1>2, <1>3, <1>4, QuietContexts DEF IInv

\* A step that touches one context in any of its parts.
LEMMA TouchGood ==
  ASSUME Contexts, \A s \in Refs : Good(s), NEW r \in Refs, NEW y \in Context,
         NEW q \in [BOOLEAN -> Nat], NEW h \in Holders \cup Timers \cup {None},
         ctx' = [ctx EXCEPT ![r] = y], removal' = [removal EXCEPT ![r] = q],
         lock' = [lock EXCEPT ![r] = h], hist' \in History,
         \A s \in Refs : s # r => SameHist(s),
         \A s \in Refs : s # r => /\ s \in made' <=> s \in made
                                  /\ s \in pool' <=> s \in pool
                                  /\ s \in upf' <=> s \in upf
                                  /\ s \in commanded' <=> s \in commanded,
         Good(r)'
  PROVE  Contexts' /\ (\A s \in Refs : Good(s))'
  <1>1. Contexts'
    BY DEF Contexts
  <1>2. ASSUME NEW s \in Refs, s # r PROVE Same(s)
    <2>1. ctx'[s] = ctx[s] /\ lock'[s] = lock[s] /\ removal'[s] = removal[s]
      BY <1>2 DEF Contexts
    <2> QED BY <1>2, <2>1 DEF Same
  <1>3. (\A s \in Refs : Good(s))'
    BY <1>2, OneGood
  <1> QED BY <1>1, <1>3

\* A new context is good: nothing is known of it but its address.
LEMMA NewGood ==
  ASSUME IInv, NEW r \in Refs, r \notin made, made' = made \cup {r}, pool' = pool \cup {r},
         NEW y \in Context, NEW q \in [BOOLEAN -> Nat], NEW h \in {None, "pfcp"},
         ctx' = [ctx EXCEPT ![r] = y], removal' = [removal EXCEPT ![r] = q],
         lock' = [lock EXCEPT ![r] = h], UNCHANGED <<upf, commanded>>,
         NEW B \in SUBSET Refs, B = hist.leased \/ B = hist.leased \cup {r},
         hist' = [hist EXCEPT !.leased = B], y.upf /\ y.addr <=> r \in B,
         h = "pfcp" => y.state = "ActivePending" /\ ~y.dup /\ q = removal[r]
  PROVE  Contexts' /\ (\A s \in Refs : Good(s))'
  <1>1. Good(r) /\ hist \in History /\ Contexts /\ \A s \in Refs : Good(s)
    BY DEF IInv, Contexts
  <1>2. r \notin pool /\ r \notin upf /\ r \notin commanded
    BY DEF IInv, Sets
  <1>3. /\ hist' \in History /\ hist'.leased = B /\ hist'.failed = hist.failed
        /\ hist'.n1 = hist.n1 /\ hist'.n2 = hist.n2 /\ hist'.unasked = hist.unasked
        /\ hist'.steered = hist.steered /\ hist'.lost = hist.lost
        /\ hist'.addrFrees = hist.addrFrees /\ hist'.teidFrees = hist.teidFrees
    BY <1>1 DEF History
  <1>4. ctx'[r] = y /\ removal'[r] = q /\ lock'[r] = h
    BY <1>1 DEF Contexts
  <1>5. r \notin hist.leased /\ ~Leaving(r)
    BY <1>1 DEF Good, Fresh
  <1>6. hist.addrFrees[r] = 0 /\ hist.teidFrees[r] = 0
    BY <1>1, <1>5 DEF Good, Books
  <1>7. Has(r)' <=> r \in hist'.leased
    BY <1>3, <1>4 DEF Has
  <1>8. Books(r)'
    BY <1>3, <1>6, <1>7 DEF Books
  <1>9. Settled(r)'
    <2>1. Clean(r)'
      BY <1>2 DEF Clean, Excused
    <2>2. CASE h = None
      BY <2>1, <2>2, <1>4, FreeLock DEF Settled, Holders
    <2>3. CASE h = "pfcp"
      <3>1. ~Leaving(r)'
        BY <2>3, <1>4, <1>5 DEF Leaving
      <3>2. r \in pool' /\ r \notin commanded' /\ lock'[r] = "pfcp"
        BY <2>3, <1>2, <1>4
      <3>3. ~ctx'[r].dup /\ ctx'[r].state = "ActivePending"
        BY <2>3, <1>4
      <3> QED BY <3>1, <3>2, <3>3 DEF Settled, Doomed
    <2> QED BY <2>2, <2>3
  <1>10. Ending(r)'
    <2>1. r \notin hist'.n1 /\ r \notin hist'.n2
      BY <1>1, <1>2, <1>3 DEF Good, Ending
    <2>2. lock'[r] # "loss"
      BY <1>4, FreeLock DEF Holders
    <2> QED BY <2>1, <2>2 DEF Ending
  <1>11. Good(r)'
    BY <1>8, <1>9, <1>10 DEF Good, Fresh
  <1>12. \A s \in Refs : s # r => SameHist(s)
    BY <1>3 DEF SameHist
  <1>13. \A s \in Refs : s # r => /\ s \in made' <=> s \in made
                                  /\ s \in pool' <=> s \in pool
                                  /\ s \in upf' <=> s \in upf
                                  /\ s \in commanded' <=> s \in commanded
    OBVIOUS
  <1>14. h \in Holders \cup Timers \cup {None}
    BY DEF Holders
  <1> QED BY <1>1, <1>3, <1>11, <1>12, <1>13, <1>14, TouchGood

LEMMA NewContextTyped ==
  /\ NewContext \in Context /\ ~NewContext.upf
  /\ NewContext.state = "ActivePending" /\ ~NewContext.dup
  <1>1. [k \in Kinds |-> None] \in [Kinds -> Timers \cup {None}]
    OBVIOUS
  <1>2. ASSUME NEW f \in [Kinds -> Timers \cup {None}]
        PROVE  [state |-> "ActivePending", an |-> FALSE, upf |-> FALSE, addr |-> FALSE,
                path |-> FALSE, dup |-> FALSE, timer |-> f] \in Context
    BY DEF Context, States
  <1> QED BY <1>1, <1>2 DEF NewContext

LEMMA NewSMContextKeeps ==
  ASSUME IInv, NEW c \in Threads, NEW r \in Refs, NewSMContext(c, r) PROVE IInv'
  <1>1. /\ r \notin made /\ made' = made \cup {r} /\ pool' = pool \cup {r} /\ canonical' = r
        /\ call[c].pc = "new" /\ UNCHANGED <<timers, upf, amf, ueLock, commanded>>
    BY DEF NewSMContext
  <1>2. /\ Good(r) /\ ctx[r] \in Context /\ removal[r] \in [BOOLEAN -> Nat] /\ hist \in History
        /\ lock[r] = None /\ r \notin hist.leased
    BY <1>1 DEF IInv, Contexts, Good, Fresh
  <1>3. \E y \in Context, q \in [BOOLEAN -> Nat], h \in {None, "pfcp"}, B \in SUBSET Refs :
           /\ ctx' = [ctx EXCEPT ![r] = y] /\ removal' = [removal EXCEPT ![r] = q]
           /\ lock' = [lock EXCEPT ![r] = h] /\ hist' = [hist EXCEPT !.leased = B]
           /\ B = hist.leased \/ B = hist.leased \cup {r}
           /\ y.upf /\ y.addr <=> r \in B
           /\ h = "pfcp" => y.state = "ActivePending" /\ ~y.dup /\ q = removal[r]
    <2>1. CASE /\ ctx' = [ctx EXCEPT ![r] = NewContext]
               /\ UNCHANGED <<lock, removal, hist>>
      <3>1. /\ removal' = [removal EXCEPT ![r] = removal[r]] /\ lock' = [lock EXCEPT ![r] = None]
        BY <2>1, <1>2 DEF IInv, Contexts
      <3>2. hist' = [hist EXCEPT !.leased = hist.leased] /\ hist.leased \in SUBSET Refs
        BY <2>1, <1>2 DEF History
      <3>3. None # "pfcp"
        BY FreeLock DEF Holders
      <3> QED BY <2>1, <3>1, <3>2, <3>3, <1>2, NewContextTyped
    <2>2. ASSUME NEW a \in BOOLEAN,
                 hist' = [hist EXCEPT !.leased = IF a THEN hist.leased \cup {r} ELSE hist.leased],
                 ctx' = [ctx EXCEPT ![r] = [RemoveFromAllNF(NewContext) EXCEPT !.upf = a, !.addr = a]],
                 removal' = [removal EXCEPT ![r] = Spawn(removal[r], FALSE)],
                 UNCHANGED lock
          PROVE  \E y \in Context, q \in [BOOLEAN -> Nat], h \in {None, "pfcp"}, B \in SUBSET Refs :
                    /\ ctx' = [ctx EXCEPT ![r] = y] /\ removal' = [removal EXCEPT ![r] = q]
                    /\ lock' = [lock EXCEPT ![r] = h] /\ hist' = [hist EXCEPT !.leased = B]
                    /\ B = hist.leased \/ B = hist.leased \cup {r}
                    /\ y.upf /\ y.addr <=> r \in B
                    /\ h = "pfcp" => y.state = "ActivePending" /\ ~y.dup /\ q = removal[r]
      <3> DEFINE z == RemoveFromAllNF(NewContext)
                 y == [z EXCEPT !.upf = a, !.addr = a]
                 q == Spawn(removal[r], FALSE)
                 B == IF a THEN hist.leased \cup {r} ELSE hist.leased
      <3>1. z \in Context
        BY NewContextTyped, StateField DEF RemoveFromAllNF, States
      <3>2. ctx' = [ctx EXCEPT ![r] = y]
        BY <2>2
      <3> HIDE DEF z
      <3>3. y \in Context /\ y.upf = a /\ y.addr = a
        BY <3>1 DEF Context
      <3>4. q \in [BOOLEAN -> Nat]
        BY <1>2, Spawned
      <3>5. B \in SUBSET Refs /\ (B = hist.leased \/ B = hist.leased \cup {r}) /\ (r \in B <=> a)
        BY <1>2 DEF History
      <3>6. lock' = [lock EXCEPT ![r] = None] /\ None # "pfcp"
        BY <2>2, <1>2, FreeLock DEF IInv, Contexts, Holders
      <3>7. removal' = [removal EXCEPT ![r] = q] /\ hist' = [hist EXCEPT !.leased = B]
        BY <2>2
      <3>8. y.upf /\ y.addr <=> r \in B
        BY <3>3, <3>5
      <3> HIDE DEF y, q, B
      <3> QED BY <3>2, <3>3, <3>4, <3>5, <3>6, <3>7, <3>8
    <2>3. CASE /\ ctx' = [ctx EXCEPT ![r] =
                     [NewContext EXCEPT !.upf = TRUE, !.addr = TRUE, !.path = TRUE]]
               /\ hist' = [hist EXCEPT !.leased = hist.leased \cup {r}]
               /\ lock' = [lock EXCEPT ![r] = "pfcp"]
               /\ UNCHANGED removal
      <3> DEFINE y == [NewContext EXCEPT !.upf = TRUE, !.addr = TRUE, !.path = TRUE]
                 B == hist.leased \cup {r}
      <3>1. y \in Context /\ y.upf = TRUE /\ y.addr = TRUE /\ y.state = "ActivePending" /\ ~y.dup
        BY NewContextTyped DEF Context
      <3>2. removal' = [removal EXCEPT ![r] = removal[r]]
        BY <2>3, <1>2 DEF IInv, Contexts
      <3>3. B \in SUBSET Refs /\ r \in B /\ B = hist.leased \cup {r}
        BY <1>2 DEF History
      <3>4. /\ ctx' = [ctx EXCEPT ![r] = y] /\ hist' = [hist EXCEPT !.leased = B]
            /\ lock' = [lock EXCEPT ![r] = "pfcp"]
        BY <2>3
      <3> HIDE DEF y, B
      <3> QED BY <3>1, <3>2, <3>3, <3>4, <1>2
    <2> QED BY <2>1, <2>2, <2>3 DEF NewSMContext
  <1>4. Contexts' /\ (\A s \in Refs : Good(s))'
    <2>1. PICK y \in Context, q \in [BOOLEAN -> Nat], h \in {None, "pfcp"}, B \in SUBSET Refs :
           /\ ctx' = [ctx EXCEPT ![r] = y] /\ removal' = [removal EXCEPT ![r] = q]
           /\ lock' = [lock EXCEPT ![r] = h] /\ hist' = [hist EXCEPT !.leased = B]
           /\ B = hist.leased \/ B = hist.leased \cup {r}
           /\ y.upf /\ y.addr <=> r \in B
           /\ h = "pfcp" => y.state = "ActivePending" /\ ~y.dup /\ q = removal[r]
      BY <1>3
    <2>2. UNCHANGED <<upf, commanded>>
      BY <1>1
    <2> QED BY <1>1, <2>1, <2>2, NewGood
  <1>5. Sets'
    BY <1>1 DEF IInv, Sets
  <1>6. \A s \in Refs : lock[s] \in Timers => lock'[s] = lock[s]
    BY <1>2, <1>3, FreeLock DEF IInv, Contexts
  <1>7. TimersOK'
    BY <1>1, <1>6, SameTimers DEF IInv, Sets
  <1>8. CallsOK'
    <2>1. \E u \in {None, r} : call' = [call EXCEPT ![c] = [call[c] EXCEPT !.pc = "ret", !.ref = u]]
      BY DEF NewSMContext
    <2>2. PICK u \in {None, r} : call' = [call EXCEPT ![c] = [call[c] EXCEPT !.pc = "ret", !.ref = u]]
      BY <2>1
    <2> DEFINE n == [call[c] EXCEPT !.pc = "ret", !.ref = u]
    <2>3. call[c] \in Call /\ ueLock = c
      BY <1>1 DEF IInv, CallsOK
    <2>4. n \in Call /\ n.pc = "ret" /\ n.ref = u
      BY <2>3 DEF Call, CallPcs
    <2>5. call' = [call EXCEPT ![c] = n]
      BY <2>2
    <2> HIDE DEF n
    <2>6. /\ CallsOK /\ made \subseteq made' /\ UNCHANGED commanded /\ ueLock' = c /\ ueLock' = ueLock
          /\ n.ref \in made' \cup {None}
      BY <1>1, <2>3, <2>4 DEF IInv
    <2> QED BY <2>4, <2>5, <2>6, CallChanged
  <1> QED BY <1>4, <1>5, <1>7, <1>8 DEF IInv

-----------------------------------------------------------------------------
(* The goroutines of a context.                                            *)

\* What a goroutine that works on a context starts from.
LEMMA ContextKnows ==
  ASSUME IInv, NEW r \in Refs, lock[r] # None \/ Leaving(r) \/ r \in pool
  PROVE  /\ r \in made /\ Good(r) /\ ctx[r] \in Context /\ removal[r] \in [BOOLEAN -> Nat]
         /\ hist \in History /\ Contexts /\ \A s \in Refs : Good(s)
         /\ lock[r] \in Holders \cup Timers \cup {None}
  <1>1. Good(r)
    BY DEF IInv
  <1>2. r \in made
    BY <1>1 DEF Good, Fresh, IInv, Sets
  <1> QED BY <1>1, <1>2 DEF IInv, Contexts

\* What is left of a goroutine's step once the contexts are good.
LEMMA GoroutineKeeps ==
  ASSUME IInv, NEW r \in Refs, lock[r] \notin Timers, NEW h, lock' = [lock EXCEPT ![r] = h],
         UNCHANGED <<timers, call, ueLock, made>>, commanded \subseteq commanded',
         Contexts', Sets', (\A s \in Refs : Good(s))'
  PROVE  IInv'
  <1>1. CallsOK'
    BY SameCalls DEF IInv
  <1>2. \A s \in Refs : lock[s] \in Timers => lock'[s] = lock[s]
    BY DEF IInv, Contexts
  <1>3. TimersOK'
    BY <1>2, SameTimers DEF IInv, Sets
  <1> QED BY <1>1, <1>3 DEF IInv

LEMMA EstablishKeeps ==
  ASSUME IInv, NEW r \in Refs, Establish(r) PROVE IInv'
  <1>0. /\ lock[r] = "pfcp"
        /\ UNCHANGED <<pool, canonical, made, ctx, removal, timers, call, amf, ueLock, commanded>>
    BY DEF Establish
  <1>1. lock[r] # None /\ lock[r] \notin Timers
    BY <1>0, FreeLock, HoldersAssumption DEF Holders
  <1>2. /\ r \in made /\ Good(r) /\ ctx[r] \in Context /\ removal[r] \in [BOOLEAN -> Nat]
        /\ hist \in History /\ Contexts /\ \A s \in Refs : Good(s)
    BY <1>1, ContextKnows
  <1>3. ~Doomed(r)
    BY <1>0, <1>2 DEF Good, Settled
  <1>4. r \notin commanded /\ r \in pool
    BY <1>2, <1>3 DEF Doomed
  <1>5. ctx' = [ctx EXCEPT ![r] = ctx[r]] /\ removal' = [removal EXCEPT ![r] = removal[r]]
    BY <1>0, <1>2 DEF Contexts
  <1>6. upf' \in {upf, upf \cup {r}}
    BY DEF Establish
  <1>7. \E h \in {"accept", "reject"}, F \in {hist.failed, hist.failed \cup {r}} :
            /\ lock' = [lock EXCEPT ![r] = h] /\ hist' = [hist EXCEPT !.failed = F]
            /\ h = "reject" => r \in F
    <2>1. CASE lock' = [lock EXCEPT ![r] = "accept"] /\ UNCHANGED hist
      <3>1. hist' = [hist EXCEPT !.failed = hist.failed]
        BY <2>1, <1>2 DEF History
      <3> QED BY <2>1, <3>1
    <2>2. CASE lock' = [lock EXCEPT ![r] = "reject"] /\ hist' = [hist EXCEPT !.failed = hist.failed \cup {r}]
      BY <2>2
    <2> QED BY <2>1, <2>2 DEF Establish
  <1>8. PICK h \in {"accept", "reject"}, F \in {hist.failed, hist.failed \cup {r}} :
            /\ lock' = [lock EXCEPT ![r] = h] /\ hist' = [hist EXCEPT !.failed = F]
            /\ h = "reject" => r \in F
    BY <1>7
  <1>9. F \in SUBSET Refs
    BY <1>2 DEF History
  <1>10. /\ hist' \in History /\ hist'.failed = F
         /\ hist'.n1 = hist.n1 /\ hist'.n2 = hist.n2 /\ hist'.unasked = hist.unasked
         /\ hist'.steered = hist.steered /\ hist'.leased = hist.leased
         /\ hist'.lost = hist.lost /\ hist'.addrFrees = hist.addrFrees
         /\ hist'.teidFrees = hist.teidFrees
    BY <1>2, <1>8, <1>9, FailedHistory
  <1>11. lock'[r] = h
    BY <1>2, <1>8 DEF Contexts
  <1>12. Good(r)'
    <2>1. Books(r)'
      BY <1>0, <1>2, <1>10, SameBooks DEF Good
    <2>2. Settled(r)'
      <3>1. CASE h = "accept"
        BY <3>1, <1>0, <1>3, <1>11 DEF Settled, Doomed, Leaving
      <3>2. CASE h = "reject"
        BY <3>2, <1>8, <1>10, <1>11 DEF Settled, Clean, Excused
      <3> QED BY <3>1, <3>2
    <2>3. Ending(r)'
      BY <1>0, <1>2, <1>4, <1>10, <1>11 DEF Good, Ending
    <2> QED BY <1>0, <1>2, <2>1, <2>2, <2>3 DEF Good, Fresh
  <1>13. \A s \in Refs : s # r => SameHist(s)
    BY <1>8, <1>10 DEF SameHist
  <1>14. \A s \in Refs : s # r => /\ s \in made' <=> s \in made
                                  /\ s \in pool' <=> s \in pool
                                  /\ s \in upf' <=> s \in upf
                                  /\ s \in commanded' <=> s \in commanded
    BY <1>0, <1>6
  <1>15. h \in Holders \cup Timers \cup {None}
    BY DEF Holders
  <1>16. Contexts' /\ (\A s \in Refs : Good(s))'
    BY <1>2, <1>5, <1>8, <1>10, <1>12, <1>13, <1>14, <1>15, TouchGood
  <1>17. Sets'
    BY <1>0, <1>2, <1>6 DEF IInv, Sets
  <1> QED BY <1>0, <1>1, <1>8, <1>16, <1>17, GoroutineKeeps

\* A goroutine touches a context whose address and PFCP session it leaves alone.
LEMMA StepGood ==
  ASSUME IInv, NEW r \in Refs, r \in made, NEW y \in Context, NEW q \in [BOOLEAN -> Nat],
         NEW h \in Holders \cup Timers \cup {None}, h # "pfcp",
         ctx' = [ctx EXCEPT ![r] = y], removal' = [removal EXCEPT ![r] = q],
         lock' = [lock EXCEPT ![r] = h], UNCHANGED <<pool, canonical, made, upf, hist>>,
         amf' \in {amf, None}, commanded' \in {commanded, commanded \cup {r}},
         y.upf = ctx[r].upf, y.addr = ctx[r].addr,
         Doomed(r)' => Doomed(r), Ending(r)'
  PROVE  Contexts' /\ Sets' /\ (\A s \in Refs : Good(s))'
  <1>1. Good(r) /\ hist \in History /\ Contexts /\ \A s \in Refs : Good(s)
    BY DEF IInv, Contexts
  <1>2. ctx'[r] = y /\ lock'[r] = h
    BY <1>1 DEF Contexts
  <1>3. Books(r)'
    BY <1>1, <1>2, SameBooks DEF Good
  <1>4. Settled(r)'
    <2>1. Clean(r) <=> Clean(r)'
      BY DEF Clean, Excused
    <2> QED BY <1>1, <1>2, <2>1 DEF Good, Settled
  <1>5. Good(r)'
    BY <1>3, <1>4 DEF Good, Fresh
  <1>6. \A s \in Refs : s # r => SameHist(s)
    BY DEF SameHist
  <1>7. \A s \in Refs : s # r => /\ s \in made' <=> s \in made
                                 /\ s \in pool' <=> s \in pool
                                 /\ s \in upf' <=> s \in upf
                                 /\ s \in commanded' <=> s \in commanded
    OBVIOUS
  <1>8. hist' \in History
    BY <1>1
  <1>9. Contexts' /\ (\A s \in Refs : Good(s))'
    BY <1>1, <1>5, <1>6, <1>7, <1>8, TouchGood
  <1>10. Sets'
    BY DEF IInv, Sets
  <1> QED BY <1>9, <1>10

LEMMA AcceptKeeps ==
  ASSUME IInv, NEW r \in Refs, EstHandlerAccept(r) PROVE IInv'
  <1>0. /\ lock[r] = "accept" /\ lock' = [lock EXCEPT ![r] = None]
        /\ UNCHANGED <<pool, canonical, made, removal, timers, call, upf, amf, ueLock, commanded, hist>>
    BY DEF EstHandlerAccept
  <1>1. lock[r] # None /\ lock[r] \notin Timers
    BY <1>0, FreeLock, HoldersAssumption DEF Holders
  <1>2. /\ r \in made /\ Good(r) /\ ctx[r] \in Context /\ removal[r] \in [BOOLEAN -> Nat]
        /\ hist \in History /\ Contexts /\ \A s \in Refs : Good(s)
    BY <1>1, ContextKnows
  <1>3. \E y \in Context : /\ ctx' = [ctx EXCEPT ![r] = y] /\ y.upf = ctx[r].upf
                           /\ y.addr = ctx[r].addr /\ y.dup = ctx[r].dup
                           /\ y.state \in {ctx[r].state, "Active"}
    <2>1. CASE ctx' = ctx
      <3>1. ctx' = [ctx EXCEPT ![r] = ctx[r]]
        BY <2>1, <1>2 DEF Contexts
      <3> QED BY <1>2, <3>1
    <2>2. CASE ctx' = [ctx EXCEPT ![r].state = "Active"]
      <3>1. ctx' = [ctx EXCEPT ![r] = [ctx[r] EXCEPT !.state = "Active"]] /\ "Active" \in States
        BY <2>2 DEF States
      <3>2. PICK x \in Context : x = ctx[r]
        BY <1>2
      <3>3. PICK y : y = [x EXCEPT !.state = "Active"]
        OBVIOUS
      <3>4. y \in Context /\ y.state = "Active" /\ y.upf = x.upf /\ y.addr = x.addr /\ y.dup = x.dup
        BY <3>1, <3>2, <3>3, StateField
      <3> QED BY <3>1, <3>2, <3>3, <3>4
    <2> QED BY <2>1, <2>2 DEF EstHandlerAccept
  <1>4. PICK y \in Context : /\ ctx' = [ctx EXCEPT ![r] = y] /\ y.upf = ctx[r].upf
                             /\ y.addr = ctx[r].addr /\ y.dup = ctx[r].dup
                             /\ y.state \in {ctx[r].state, "Active"}
    BY <1>3
  <1>5. removal' = [removal EXCEPT ![r] = removal[r]]
    BY <1>0, <1>2 DEF Contexts
  <1>6. ctx'[r] = y /\ lock'[r] = None
    BY <1>0, <1>2, <1>4 DEF Contexts
  <1>7. None \notin Holders
    BY FreeLock
  <1>8. Doomed(r)' => Doomed(r)
    BY <1>0, <1>4, <1>6, <1>7 DEF Doomed, Leaving, Holders
  <1>9. Ending(r)'
    <2>1. r \notin hist'.n1
      BY <1>0, <1>2 DEF Good, Ending
    <2> QED BY <1>0, <1>2, <1>6, <1>7, <2>1 DEF Good, Ending, Holders
  <1>10. /\ None \in Holders \cup Timers \cup {None} /\ None # "pfcp"
         /\ UNCHANGED <<pool, canonical, made, upf, hist>>
         /\ amf' \in {amf, None} /\ commanded' \in {commanded, commanded \cup {r}}
    BY <1>0, <1>7 DEF Holders
  <1>11. Contexts' /\ Sets' /\ (\A s \in Refs : Good(s))'
    BY <1>0, <1>2, <1>4, <1>5, <1>8, <1>9, <1>10, StepGood
  <1> QED BY <1>0, <1>1, <1>11, GoroutineKeeps

LEMMA RejectKeeps ==
  ASSUME IInv, NEW r \in Refs, EstHandlerReject(r) PROVE IInv'
  <1> DEFINE y == [ctx[r] EXCEPT !.state = "InActive"]
  <1>0. /\ lock[r] = "reject" /\ lock' = [lock EXCEPT ![r] = None] /\ ctx' = [ctx EXCEPT ![r] = y]
        /\ UNCHANGED <<pool, canonical, made, timers, call, upf, amf, ueLock, commanded, hist>>
    BY DEF EstHandlerReject
  <1>1. lock[r] # None /\ lock[r] \notin Timers
    BY <1>0, FreeLock, HoldersAssumption DEF Holders
  <1>2. /\ r \in made /\ Good(r) /\ ctx[r] \in Context /\ removal[r] \in [BOOLEAN -> Nat]
        /\ hist \in History /\ Contexts /\ \A s \in Refs : Good(s)
    BY <1>1, ContextKnows
  <1>3. y \in Context /\ y.upf = ctx[r].upf /\ y.addr = ctx[r].addr
    BY <1>2, StateField DEF States
  <1> HIDE DEF y
  <1>4. \E q \in [BOOLEAN -> Nat] : removal' = [removal EXCEPT ![r] = q]
    <2>1. CASE removal' = removal
      <3>1. removal' = [removal EXCEPT ![r] = removal[r]]
        BY <2>1, <1>2 DEF Contexts
      <3> QED BY <1>2, <3>1
    <2>2. CASE removal' = [removal EXCEPT ![r] = Spawn(removal[r], TRUE)]
      BY <2>2, <1>2, Spawned
    <2> QED BY <2>1, <2>2 DEF EstHandlerReject
  <1>5. PICK q \in [BOOLEAN -> Nat] : removal' = [removal EXCEPT ![r] = q]
    BY <1>4
  <1>6. lock'[r] = None /\ None \notin Holders
    BY <1>0, <1>2, FreeLock DEF Contexts
  <1>7. Doomed(r)
    BY <1>0 DEF Doomed
  <1>8. Ending(r)'
    <2>1. r \notin hist'.n1
      BY <1>0, <1>2 DEF Good, Ending
    <2> QED BY <1>0, <1>2, <1>6, <2>1 DEF Good, Ending, Holders
  <1>9. /\ None \in Holders \cup Timers \cup {None} /\ None # "pfcp"
        /\ UNCHANGED <<pool, canonical, made, upf, hist>>
        /\ amf' \in {amf, None} /\ commanded' \in {commanded, commanded \cup {r}}
    BY <1>0, <1>6 DEF Holders
  <1>10. Contexts' /\ Sets' /\ (\A s \in Refs : Good(s))'
    BY <1>0, <1>2, <1>3, <1>5, <1>7, <1>8, <1>9, StepGood
  <1> QED BY <1>0, <1>1, <1>10, GoroutineKeeps

LEMMA NotifyStartKeeps ==
  ASSUME IInv, NEW r \in Refs, NotifyStart(r) PROVE IInv'
  <1> DEFINE q == [removal[r] EXCEPT ![TRUE] = removal[r][TRUE] - 1]
  <1>0. /\ removal[r][TRUE] > 0 /\ lock[r] = None /\ lock' = [lock EXCEPT ![r] = "notify"]
        /\ removal' = [removal EXCEPT ![r] = q]
        /\ UNCHANGED <<pool, canonical, made, ctx, timers, call, upf, amf, ueLock, commanded, hist>>
    BY DEF NotifyStart
  <1>1. Leaving(r)
    BY <1>0 DEF Leaving
  <1>2. /\ r \in made /\ Good(r) /\ ctx[r] \in Context /\ removal[r] \in [BOOLEAN -> Nat]
        /\ hist \in History /\ Contexts /\ \A s \in Refs : Good(s)
    BY <1>1, ContextKnows
  <1>3. q \in [BOOLEAN -> Nat]
    BY <1>0, <1>2, Fewer
  <1> HIDE DEF q
  <1>4. ctx' = [ctx EXCEPT ![r] = ctx[r]]
    BY <1>0, <1>2 DEF Contexts
  <1>5. lock'[r] = "notify"
    BY <1>0, <1>2 DEF Contexts
  <1>6. Doomed(r)
    BY <1>1 DEF Doomed
  <1>7. Ending(r)'
    BY <1>0, <1>2, <1>5 DEF Good, Ending
  <1>8. /\ "notify" \in Holders \cup Timers \cup {None} /\ "notify" # "pfcp"
        /\ UNCHANGED <<pool, canonical, made, upf, hist>>
        /\ amf' \in {amf, None} /\ commanded' \in {commanded, commanded \cup {r}}
    BY <1>0 DEF Holders
  <1>9. Contexts' /\ Sets' /\ (\A s \in Refs : Good(s))'
    BY <1>0, <1>2, <1>3, <1>4, <1>6, <1>7, <1>8, StepGood
  <1> QED BY <1>0, <1>9, FreeLock, GoroutineKeeps

\* RemoveSMContext gives back what the context has, when it is in the pool.
LEMMA RemovedGood ==
  ASSUME IInv, NEW r \in Refs, r \in made, Doomed(r), RemoveSMContext(r),
         NEW q \in [BOOLEAN -> Nat], removal' = [removal EXCEPT ![r] = q],
         lock' = [lock EXCEPT ![r] = None], UNCHANGED <<made, upf, commanded>>,
         amf' \in {amf, None}
  PROVE  Contexts' /\ Sets' /\ (\A s \in Refs : Good(s))'
  <1>1. /\ Good(r) /\ ctx[r] \in Context /\ hist \in History /\ Contexts
        /\ \A s \in Refs : Good(s)
    BY DEF IInv, Contexts
  <1>2. lock'[r] = None /\ None \notin Holders
    BY <1>1, FreeLock DEF Contexts
  <1>3. pool' \in {pool, pool \ {r}} /\ r \notin pool'
    BY DEF RemoveSMContext
  <1>4. \E y \in Context, A \in [Refs -> Nat], T \in [Refs -> Nat] :
           /\ ctx' = [ctx EXCEPT ![r] = y]
           /\ hist' = [hist EXCEPT !.addrFrees = A, !.teidFrees = T]
           /\ \A s \in Refs : s # r => A[s] = hist.addrFrees[s] /\ T[s] = hist.teidFrees[s]
           /\ T[r] = 1
           /\ ~(y.upf /\ y.addr)
           /\ A[r] = IF r \in hist.leased THEN 1 ELSE 0
    <2>1. CASE r \in pool
      <3> DEFINE b == ctx[r].upf /\ ~(ctx[r].upf /\ ctx[r].addr)
                 y == [ctx[r] EXCEPT !.upf = b]
                 A == [hist.addrFrees EXCEPT ![r] =
                          IF ctx[r].upf /\ ctx[r].addr THEN hist.addrFrees[r] + 1
                          ELSE hist.addrFrees[r]]
                 T == [hist.teidFrees EXCEPT ![r] = hist.teidFrees[r] + 1]
      <3>1. ctx' = [ctx EXCEPT ![r] = y] /\ hist' = [hist EXCEPT !.addrFrees = A, !.teidFrees = T]
        BY <2>1 DEF RemoveSMContext
      <3>2. b \in BOOLEAN /\ ~(b /\ ctx[r].addr)
        BY <1>1 DEF Context
      <3>3. Has(r) <=> ctx[r].upf /\ ctx[r].addr
        BY DEF Has
      <3>4. /\ A \in [Refs -> Nat] /\ T \in [Refs -> Nat]
            /\ \A s \in Refs : s # r => A[s] = hist.addrFrees[s] /\ T[s] = hist.teidFrees[s]
            /\ T[r] = hist.teidFrees[r] + 1
            /\ A[r] = IF Has(r) THEN hist.addrFrees[r] + 1 ELSE hist.addrFrees[r]
        BY <1>1, <3>3 DEF History
      <3>5. T[r] = 1 /\ A[r] = IF r \in hist.leased THEN 1 ELSE 0
        <4>1. hist.teidFrees[r] = 0
          BY <1>1, <2>1 DEF Good, Books
        <4>2. CASE Has(r)
          <5>1. r \in hist.leased /\ hist.addrFrees[r] = 0
            BY <4>2, <1>1 DEF Good, Books
          <5> HIDE DEF A, T
          <5> QED BY <4>1, <4>2, <5>1, <3>4
        <4>3. CASE ~Has(r)
          <5>1. hist.addrFrees[r] = IF r \in hist.leased THEN 1 ELSE 0
            BY <4>3, <1>1 DEF Good, Books
          <5> HIDE DEF A, T
          <5> QED BY <4>1, <4>3, <5>1, <3>4
        <4> QED BY <4>2, <4>3
      <3> HIDE DEF b, A, T
      <3>6. y \in Context /\ y.upf = b /\ y.addr = ctx[r].addr
        <4>1. ASSUME NEW a \in BOOLEAN
              PROVE  LET z == [ctx[r] EXCEPT !.upf = a] IN
                     z \in Context /\ z.upf = a /\ z.addr = ctx[r].addr
          BY <1>1 DEF Context
        <4> QED BY <3>2, <4>1
      <3>7. ~(y.upf /\ y.addr)
        BY <3>2, <3>6
      <3> HIDE DEF y
      <3> QED BY <3>1, <3>4, <3>5, <3>6, <3>7
    <2>2. CASE r \notin pool
      <3>1. UNCHANGED <<ctx, hist>>
        BY <2>2 DEF RemoveSMContext
      <3>2. ctx' = [ctx EXCEPT ![r] = ctx[r]]
        BY <3>1, <1>1 DEF Contexts
      <3>3. /\ hist' = [hist EXCEPT !.addrFrees = hist.addrFrees, !.teidFrees = hist.teidFrees]
            /\ hist.addrFrees \in [Refs -> Nat] /\ hist.teidFrees \in [Refs -> Nat]
        BY <3>1, <1>1 DEF History
      <3>4. ~Has(r) /\ hist.teidFrees[r] = 1
        BY <2>2, <1>1 DEF Good, Books
      <3>5. hist.addrFrees[r] = IF r \in hist.leased THEN 1 ELSE 0
        BY <3>4, <1>1 DEF Good, Books
      <3>6. ~(ctx[r].upf /\ ctx[r].addr)
        BY <3>4 DEF Has
      <3> QED BY <1>1, <3>2, <3>3, <3>4, <3>5, <3>6
    <2> QED BY <2>1, <2>2
  <1>5. PICK y \in Context, A \in [Refs -> Nat], T \in [Refs -> Nat] :
           /\ ctx' = [ctx EXCEPT ![r] = y]
           /\ hist' = [hist EXCEPT !.addrFrees = A, !.teidFrees = T]
           /\ \A s \in Refs : s # r => A[s] = hist.addrFrees[s] /\ T[s] = hist.teidFrees[s]
           /\ T[r] = 1
           /\ ~(y.upf /\ y.addr)
           /\ A[r] = IF r \in hist.leased THEN 1 ELSE 0
    BY <1>4
  <1>6. /\ hist' \in History /\ hist'.failed = hist.failed
        /\ hist'.n1 = hist.n1 /\ hist'.n2 = hist.n2 /\ hist'.unasked = hist.unasked
         /\ hist'.steered = hist.steered /\ hist'.leased = hist.leased
        /\ hist'.lost = hist.lost /\ hist'.addrFrees = A /\ hist'.teidFrees = T
    BY <1>1, <1>5 DEF History
  <1>7. ctx'[r] = y
    BY <1>1, <1>5 DEF Contexts
  <1>8. ~Has(r)'
    BY <1>5, <1>7 DEF Has
  <1>9. Books(r)'
    BY <1>3, <1>5, <1>6, <1>8 DEF Books
  <1>10. Settled(r)'
    <2>1. Clean(r)
      BY <1>1 DEF Good, Settled
    <2>2. Clean(r)'
      BY <2>1, <1>6 DEF Clean, Excused
    <2> QED BY <1>2, <2>2 DEF Settled, Holders
  <1>11. Ending(r)'
    BY <1>1, <1>2, <1>3, <1>6 DEF Good, Ending, Holders
  <1>12. Good(r)'
    BY <1>9, <1>10, <1>11 DEF Good, Fresh
  <1>13. \A s \in Refs : s # r => SameHist(s)
    BY <1>5, <1>6 DEF SameHist
  <1>14. \A s \in Refs : s # r => /\ s \in made' <=> s \in made
                                  /\ s \in pool' <=> s \in pool
                                  /\ s \in upf' <=> s \in upf
                                  /\ s \in commanded' <=> s \in commanded
    BY <1>3
  <1>15. Contexts' /\ (\A s \in Refs : Good(s))'
    BY <1>1, <1>5, <1>6, <1>12, <1>13, <1>14, TouchGood
  <1>16. canonical' \in pool' \cup {None}
    BY DEF RemoveSMContext, IInv, Sets
  <1>17. Sets'
    BY <1>3, <1>16 DEF IInv, Sets
  <1> QED BY <1>15, <1>17

LEMMA RemoveQuietlyKeeps ==
  ASSUME IInv, NEW r \in Refs, RemoveQuietly(r) PROVE IInv'
  <1> DEFINE q == [removal[r] EXCEPT ![FALSE] = removal[r][FALSE] - 1]
  <1>0. /\ removal[r][FALSE] > 0 /\ lock[r] = None /\ RemoveSMContext(r)
        /\ removal' = [removal EXCEPT ![r] = q]
        /\ UNCHANGED <<made, lock, timers, call, upf, amf, ueLock, commanded>>
    BY DEF RemoveQuietly
  <1>1. Leaving(r)
    BY <1>0 DEF Leaving
  <1>2. r \in made /\ removal[r] \in [BOOLEAN -> Nat] /\ Contexts
    BY <1>1, ContextKnows
  <1>3. q \in [BOOLEAN -> Nat]
    BY <1>0, <1>2, Fewer
  <1> HIDE DEF q
  <1>4. lock' = [lock EXCEPT ![r] = None]
    BY <1>0, <1>2 DEF Contexts
  <1>5. Doomed(r)
    BY <1>1 DEF Doomed
  <1>6. UNCHANGED <<made, upf, commanded>> /\ amf' \in {amf, None}
    BY <1>0
  <1>7. Contexts' /\ Sets' /\ (\A s \in Refs : Good(s))'
    BY <1>0, <1>2, <1>3, <1>4, <1>5, <1>6, RemovedGood
  <1> QED BY <1>0, <1>4, <1>7, FreeLock, GoroutineKeeps

LEMMA NotifyAndRemoveKeeps ==
  ASSUME IInv, NEW r \in Refs, NotifyAndRemove(r) PROVE IInv'
  <1>0. /\ lock[r] = "notify" /\ amf' \in {amf, None} /\ RemoveSMContext(r)
        /\ lock' = [lock EXCEPT ![r] = None]
        /\ UNCHANGED <<made, removal, timers, call, upf, ueLock, commanded>>
    BY DEF NotifyAndRemove
  <1>1. lock[r] # None /\ lock[r] \notin Timers
    BY <1>0, FreeLock, HoldersAssumption DEF Holders
  <1>2. r \in made /\ removal[r] \in [BOOLEAN -> Nat] /\ Contexts
    BY <1>1, ContextKnows
  <1>3. removal' = [removal EXCEPT ![r] = removal[r]]
    BY <1>0, <1>2 DEF Contexts
  <1>4. Doomed(r)
    BY <1>0 DEF Doomed
  <1>5. UNCHANGED <<made, upf, commanded>>
    BY <1>0
  <1>6. Contexts' /\ Sets' /\ (\A s \in Refs : Good(s))'
    BY <1>0, <1>2, <1>3, <1>4, <1>5, RemovedGood
  <1> QED BY <1>0, <1>1, <1>6, GoroutineKeeps

LEMMA LossStartKeeps ==
  ASSUME IInv, NEW r \in Refs, LossStart(r) PROVE IInv'
  <1>0. /\ r \in pool /\ lock[r] = None /\ lock' = [lock EXCEPT ![r] = "loss"]
        /\ upf' \in {upf, upf \ {r}}
        /\ hist' = [hist EXCEPT !.failed = hist.failed \cup {r}, !.lost = hist.lost \cup {r}]
        /\ UNCHANGED <<pool, canonical, made, ctx, removal, timers, call, amf, ueLock, commanded>>
    BY DEF LossStart
  <1>1. /\ r \in made /\ Good(r) /\ ctx[r] \in Context /\ removal[r] \in [BOOLEAN -> Nat]
        /\ hist \in History /\ Contexts /\ \A s \in Refs : Good(s)
    BY <1>0, ContextKnows
  <1>2. ctx' = [ctx EXCEPT ![r] = ctx[r]] /\ removal' = [removal EXCEPT ![r] = removal[r]]
    BY <1>0, <1>1 DEF Contexts
  <1>3. /\ hist' \in History /\ hist'.failed = hist.failed \cup {r} /\ hist'.lost = hist.lost \cup {r}
        /\ hist'.n1 = hist.n1 /\ hist'.n2 = hist.n2 /\ hist'.unasked = hist.unasked
         /\ hist'.steered = hist.steered /\ hist'.leased = hist.leased
        /\ hist'.addrFrees = hist.addrFrees /\ hist'.teidFrees = hist.teidFrees
    BY <1>0, <1>1 DEF History
  <1>4. lock'[r] = "loss"
    BY <1>0, <1>1 DEF Contexts
  <1>5. Good(r)'
    <2>1. Books(r)'
      BY <1>0, <1>1, <1>3, SameBooks DEF Good
    <2>2. Settled(r)'
      BY <1>3, <1>4 DEF Settled, Clean, Excused
    <2>3. Ending(r)'
      BY <1>0, <1>1, <1>3, <1>4 DEF Good, Ending
    <2> QED BY <1>0, <1>1, <2>1, <2>2, <2>3 DEF Good, Fresh
  <1>6. \A s \in Refs : s # r => SameHist(s)
    BY <1>3 DEF SameHist
  <1>7. \A s \in Refs : s # r => /\ s \in made' <=> s \in made
                                 /\ s \in pool' <=> s \in pool
                                 /\ s \in upf' <=> s \in upf
                                 /\ s \in commanded' <=> s \in commanded
    BY <1>0
  <1>8. "loss" \in Holders \cup Timers \cup {None}
    BY DEF Holders
  <1>9. Contexts' /\ (\A s \in Refs : Good(s))'
    BY <1>0, <1>1, <1>2, <1>3, <1>5, <1>6, <1>7, <1>8, TouchGood
  <1>10. Sets'
    BY <1>0 DEF IInv, Sets
  <1> QED BY <1>0, <1>9, <1>10, FreeLock, GoroutineKeeps

LEMMA LossRequestKeeps ==
  ASSUME IInv, NEW r \in Refs, LossRequest(r) PROVE IInv'
  <1>0. /\ lock[r] = "loss" /\ lock' = [lock EXCEPT ![r] = None]
        /\ UNCHANGED <<pool, canonical, made, timers, call, upf, ueLock, hist>>
    BY DEF LossRequest
  <1>1. lock[r] # None /\ lock[r] \notin Timers
    BY <1>0, FreeLock, HoldersAssumption DEF Holders
  <1>2. /\ r \in made /\ Good(r) /\ ctx[r] \in Context /\ removal[r] \in [BOOLEAN -> Nat]
        /\ hist \in History /\ Contexts /\ \A s \in Refs : Good(s)
    BY <1>1, ContextKnows
  <1>3. "InActive" \in States /\ "InActivePending" \in States
    BY DEF States
  <1>4. \E y \in Context : ctx' = [ctx EXCEPT ![r] = y] /\ y.upf = ctx[r].upf /\ y.addr = ctx[r].addr
    <2>1. CASE ctx' = ctx
      <3>1. ctx' = [ctx EXCEPT ![r] = ctx[r]]
        BY <2>1, <1>2 DEF Contexts
      <3> QED BY <1>2, <3>1
    <2>2. CASE \E s \in {"InActive", "InActivePending"} :
                  ctx' = [ctx EXCEPT ![r] = [ctx[r] EXCEPT !.state = s]]
      <3>1. PICK s \in {"InActive", "InActivePending"} :
              ctx' = [ctx EXCEPT ![r] = [ctx[r] EXCEPT !.state = s]]
        BY <2>2
      <3>2. /\ [ctx[r] EXCEPT !.state = s] \in Context
            /\ [ctx[r] EXCEPT !.state = s].upf = ctx[r].upf
            /\ [ctx[r] EXCEPT !.state = s].addr = ctx[r].addr
        BY <1>2, <1>3, StateField
      <3> QED BY <3>1, <3>2
    <2> QED BY <2>1, <2>2 DEF LossRequest, RemoveFromAllNF
  <1>5. PICK y \in Context :
            ctx' = [ctx EXCEPT ![r] = y] /\ y.upf = ctx[r].upf /\ y.addr = ctx[r].addr
    BY <1>4
  <1>6. \E q \in [BOOLEAN -> Nat] : removal' = [removal EXCEPT ![r] = q]
    <2>1. CASE removal' = removal
      <3>1. removal' = [removal EXCEPT ![r] = removal[r]]
        BY <2>1, <1>2 DEF Contexts
      <3> QED BY <1>2, <3>1
    <2>2. CASE removal' = [removal EXCEPT ![r] = Spawn(removal[r], FALSE)]
      BY <2>2, <1>2, Spawned
    <2> QED BY <2>1, <2>2 DEF LossRequest
  <1>7. PICK q \in [BOOLEAN -> Nat] : removal' = [removal EXCEPT ![r] = q]
    BY <1>6
  <1>8. amf' \in {amf, None} /\ commanded' \in {commanded, commanded \cup {r}}
    BY DEF LossRequest
  <1>9. lock'[r] = None /\ None \notin Holders
    BY <1>0, <1>2, FreeLock DEF Contexts
  <1>10. Doomed(r)
    BY <1>0 DEF Doomed
  <1>11. Ending(r)'
    <2>1. r \in hist'.lost
      BY <1>0, <1>2 DEF Good, Ending
    <2>2. r \in made'
      BY <1>0, <1>2
    <2> QED BY <1>9, <2>1, <2>2 DEF Ending, Holders
  <1>12. /\ None \in Holders \cup Timers \cup {None} /\ None # "pfcp"
         /\ UNCHANGED <<pool, canonical, made, upf, hist>>
    BY <1>0, <1>9 DEF Holders
  <1>13. Contexts' /\ Sets' /\ (\A s \in Refs : Good(s))'
    BY <1>0, <1>2, <1>5, <1>7, <1>8, <1>10, <1>11, <1>12, StepGood
  <1> QED BY <1>0, <1>1, <1>8, <1>13, GoroutineKeeps

-----------------------------------------------------------------------------
(* The goroutines of the timers.                                           *)

\* One timer goes on.
LEMMA TimerChanged ==
  ASSUME TimersOK, NEW t \in Timers, NEW g \in Goroutine, timers' = [timers EXCEPT ![t] = g],
         g.ref = timers[t].ref, timers[t].pc # "unused", made' = made,
         g.pc \in {"sending", "notifying"} => lock'[timers[t].ref] = t,
         \A u \in Timers : u # t /\ timers[u].pc \in {"sending", "notifying"} =>
                              lock'[timers[u].ref] = u
  PROVE  TimersOK'
  <1>1. timers' \in [Timers -> Goroutine] /\ timers'[t] = g
        /\ \A u \in Timers : u # t => timers'[u] = timers[u]
    BY DEF TimersOK
  <1> QED BY <1>1 DEF TimersOK

\* What a timer that runs starts from.
LEMMA TimerKnows ==
  ASSUME IInv, NEW t \in Timers, timers[t].pc # "unused"
  PROVE  /\ timers[t] \in Goroutine /\ timers[t].ref \in made /\ timers[t].ref \in Refs
         /\ TimersOK /\ Contexts
  <1> QED BY DEF IInv, TimersOK, Sets

\* The place in its loop is a field of its own.
LEMMA PcField ==
  ASSUME NEW g \in Goroutine, NEW p \in TimerPcs
  PROVE  /\ [g EXCEPT !.pc = p] \in Goroutine /\ [g EXCEPT !.pc = p].pc = p
         /\ [g EXCEPT !.pc = p].ref = g.ref
  <1> QED BY DEF Goroutine

\* Calls and contexts after a step of a timer.
LEMMA TimerQuiet ==
  ASSUME IInv, TimersOK',
         UNCHANGED <<pool, canonical, made, ctx, lock, removal, call, upf, amf, ueLock, commanded, hist>>
  PROVE  IInv'
  <1>1. CallsOK'
    BY SameCalls DEF IInv
  <1>2. amf' \in made \cup {None}
    BY DEF IInv, Sets
  <1>3. Contexts' /\ Sets' /\ (\A s \in Refs : Good(s))'
    BY <1>2, QuietContexts
  <1> QED BY <1>1, <1>3 DEF IInv

LEMMA TimerTickKeeps ==
  ASSUME IInv, NEW t \in Timers, TimerTick(t) PROVE IInv'
  <1> DEFINE p == IF timers[t].expired >= MaxRetry THEN "cancel" ELSE "expire"
             e == timers[t].expired + 1
             g == [timers[t] EXCEPT !.expired = e, !.pc = p]
  <1>0. /\ timers[t].pc = "select" /\ timers' = [timers EXCEPT ![t] = g]
        /\ UNCHANGED <<pool, canonical, made, ctx, lock, removal, call, upf, amf, ueLock, commanded, hist>>
    BY DEF TimerTick
  <1>1. timers[t] \in Goroutine /\ TimersOK
    BY <1>0, TimerKnows
  <1>2. p \in {"cancel", "expire"} /\ e \in Nat
    BY <1>1 DEF Goroutine
  <1> HIDE DEF p, e
  <1>3. g \in Goroutine /\ g.pc = p /\ g.ref = timers[t].ref
    BY <1>1, <1>2 DEF Goroutine, TimerPcs
  <1> HIDE DEF g
  <1>4. \A u \in Timers : u # t /\ timers[u].pc \in {"sending", "notifying"} =>
                              lock'[timers[u].ref] = u
    BY <1>0, <1>1 DEF TimersOK
  <1>5. TimersOK'
    BY <1>0, <1>1, <1>2, <1>3, <1>4, TimerChanged
  <1> QED BY <1>0, <1>5, TimerQuiet

LEMMA TimerDoneKeeps ==
  ASSUME IInv, NEW t \in Timers, TimerDone(t) PROVE IInv'
  <1> DEFINE g == [timers[t] EXCEPT !.pc = "ended"]
  <1>0. /\ timers[t].pc = "select" /\ timers' = [timers EXCEPT ![t] = g]
        /\ UNCHANGED <<pool, canonical, made, ctx, lock, removal, call, upf, amf, ueLock, commanded, hist>>
    BY DEF TimerDone
  <1>1. timers[t] \in Goroutine /\ TimersOK
    BY <1>0, TimerKnows
  <1>2. g \in Goroutine /\ g.pc = "ended" /\ g.ref = timers[t].ref
    BY <1>1, PcField DEF TimerPcs
  <1> HIDE DEF g
  <1>3. \A u \in Timers : u # t /\ timers[u].pc \in {"sending", "notifying"} =>
                              lock'[timers[u].ref] = u
    BY <1>0, <1>1 DEF TimersOK
  <1>4. TimersOK'
    BY <1>0, <1>1, <1>2, <1>3, TimerChanged
  <1> QED BY <1>0, <1>4, TimerQuiet

\* A timer takes or releases the SMLock of its context.
LEMMA TimerLocks ==
  ASSUME IInv, NEW t \in Timers, timers[t].pc # "unused", NEW r \in Refs, r = timers[t].ref,
         lock[r] \in {t, None}, NEW h \in {t, None}, lock' = [lock EXCEPT ![r] = h],
         NEW y \in Context, ctx' = [ctx EXCEPT ![r] = y], y.state = ctx[r].state,
         y.an = ctx[r].an, y.upf = ctx[r].upf, y.addr = ctx[r].addr, y.dup = ctx[r].dup,
         NEW p \in TimerPcs, timers' = [timers EXCEPT ![t] = [timers[t] EXCEPT !.pc = p]],
         p \in {"sending", "notifying"} => h = t, amf' \in {amf, None},
         UNCHANGED <<pool, canonical, made, removal, call, upf, ueLock, commanded, hist>>
  PROVE  IInv'
  <1>1. timers[t] \in Goroutine /\ TimersOK /\ Contexts /\ r \in made /\ Good(r)
    BY TimerKnows DEF IInv
  <1> DEFINE g == [timers[t] EXCEPT !.pc = p]
  <1>2. g \in Goroutine /\ g.pc = p /\ g.ref = timers[t].ref
    BY <1>1, PcField
  <1>3. timers' = [timers EXCEPT ![t] = g]
    OBVIOUS
  <1> HIDE DEF g
  <1>4. lock'[r] = h /\ (\A s \in Refs : s # r => lock'[s] = lock[s]) /\ ctx'[r] = y
    BY <1>1 DEF Contexts
  <1>5. \A u \in Timers : u # t /\ timers[u].pc \in {"sending", "notifying"} =>
                              lock'[timers[u].ref] = u
    <2>1. ASSUME NEW u \in Timers, u # t, timers[u].pc \in {"sending", "notifying"}
          PROVE  lock'[timers[u].ref] = u
      <3>1. lock[timers[u].ref] = u /\ timers[u].ref \in Refs
        BY <1>1, <2>1 DEF TimersOK, IInv, Sets
      <3>2. timers[u].ref # r
        BY <2>1, <3>1, FreeLock
      <3> QED BY <1>4, <3>1, <3>2
    <2> QED BY <2>1
  <1>6. TimersOK'
    <2>1. g.pc \in {"sending", "notifying"} => lock'[timers[t].ref] = t
      BY <1>2, <1>4
    <2>2. made' = made /\ TimersOK /\ timers[t].pc # "unused"
      BY <1>1
    <2> QED BY <1>2, <1>3, <1>5, <2>1, <2>2, TimerChanged
  <1>7. CallsOK'
    BY SameCalls DEF IInv
  <1>8. h \notin Holders /\ lock[r] \notin Holders
    BY HoldersAssumption
  <1>9. removal' = [removal EXCEPT ![r] = removal[r]] /\ removal[r] \in [BOOLEAN -> Nat]
    BY <1>1 DEF Contexts
  <1>10. Leaving(r)' <=> Leaving(r)
    BY DEF Leaving
  <1>11. Doomed(r)' => Doomed(r)
    BY <1>4, <1>8, <1>10 DEF Doomed, Holders
  <1>12. Ending(r)'
    BY <1>1, <1>4, <1>8, <1>10 DEF Good, Ending, Holders
  <1>13. /\ h \in Holders \cup Timers \cup {None} /\ h # "pfcp"
         /\ UNCHANGED <<pool, canonical, made, upf, hist>>
         /\ commanded' \in {commanded, commanded \cup {r}}
    BY <1>8 DEF Holders
  <1>14. Contexts' /\ Sets' /\ (\A s \in Refs : Good(s))'
    BY <1>1, <1>9, <1>11, <1>12, <1>13, StepGood
  <1> QED BY <1>6, <1>7, <1>14 DEF IInv

LEMMA ExpireStartKeeps ==
  ASSUME IInv, NEW t \in Timers, ExpireStart(t) PROVE IInv'
  <1>1. timers[t].pc = "expire" /\ timers[t].pc # "unused"
    BY DEF ExpireStart
  <1>2. timers[t].ref \in Refs /\ Contexts
    BY <1>1, TimerKnows
  <1>3. PICK r \in Refs : r = timers[t].ref
    BY <1>2
  <1>4. /\ lock[r] = None /\ lock' = [lock EXCEPT ![r] = t]
        /\ timers' = [timers EXCEPT ![t] = [timers[t] EXCEPT !.pc = "sending"]]
        /\ UNCHANGED <<pool, canonical, made, removal, call, upf, ueLock, commanded, hist>>
    BY <1>3 DEF ExpireStart
  <1>5. PICK y \in Context :
          /\ ctx' = [ctx EXCEPT ![r] = y] /\ y.state = ctx[r].state /\ y.an = ctx[r].an
          /\ y.upf = ctx[r].upf /\ y.addr = ctx[r].addr /\ y.dup = ctx[r].dup
    BY <1>2 DEF Contexts, ExpireStart
  <1>6. "sending" \in TimerPcs /\ amf' \in {amf, None} /\ lock[r] \in {t, None}
    BY <1>4 DEF TimerPcs, ExpireStart
  <1> QED BY <1>1, <1>3, <1>4, <1>5, <1>6, TimerLocks

LEMMA ExpireSendKeeps ==
  ASSUME IInv, NEW t \in Timers, ExpireSend(t) PROVE IInv'
  <1>1. timers[t].pc = "sending" /\ timers[t].pc # "unused"
    BY DEF ExpireSend
  <1>2. timers[t].ref \in Refs /\ Contexts /\ lock[timers[t].ref] = t
    BY <1>1, TimerKnows DEF TimersOK
  <1>3. PICK r \in Refs : r = timers[t].ref
    BY <1>2
  <1>4. /\ timers' = [timers EXCEPT ![t] = [timers[t] EXCEPT !.pc = "select"]]
        /\ UNCHANGED <<pool, canonical, made, removal, call, upf, ueLock, commanded, hist>>
    BY DEF ExpireSend
  <1>5. PICK y \in Context :
          /\ ctx' = [ctx EXCEPT ![r] = y] /\ y.state = ctx[r].state /\ y.an = ctx[r].an
          /\ y.upf = ctx[r].upf /\ y.addr = ctx[r].addr /\ y.dup = ctx[r].dup
    BY <1>2 DEF Contexts, ExpireSend
  <1>6. "select" \in TimerPcs /\ amf' \in {amf, None} /\ lock[r] \in {t, None}
    BY <1>2, <1>3 DEF TimerPcs, ExpireSend
  <1>7. lock' = [lock EXCEPT ![r] = t] \/ lock' = [lock EXCEPT ![r] = None]
    <2>1. lock = [lock EXCEPT ![r] = t]
      BY <1>2, <1>3 DEF Contexts
    <2> QED BY <1>3, <2>1 DEF ExpireSend
  <1>8. PICK h \in {t, None} : lock' = [lock EXCEPT ![r] = h]
    BY <1>7
  <1> QED BY <1>1, <1>3, <1>4, <1>5, <1>6, <1>8, TimerLocks

LEMMA CancelStartKeeps ==
  ASSUME IInv, NEW t \in Timers, CancelStart(t) PROVE IInv'
  <1>1. timers[t].pc = "cancel" /\ timers[t].pc # "unused"
    BY DEF CancelStart
  <1>2. timers[t].ref \in Refs /\ Contexts /\ timers[t] \in Goroutine
    BY <1>1, TimerKnows
  <1>3. PICK r \in Refs : r = timers[t].ref
    BY <1>2
  <1> DEFINE y == Forget(ctx[r], timers[t].kind)
  <1>4. /\ lock[r] = None /\ ctx' = [ctx EXCEPT ![r] = y]
        /\ UNCHANGED <<pool, canonical, made, removal, call, upf, ueLock, commanded, hist>>
        /\ amf' = amf
    BY <1>3 DEF CancelStart
  <1>5. ctx[r] \in Context /\ timers[t].kind \in Kinds
    BY <1>2 DEF Contexts, Goroutine
  <1>6. /\ y \in Context /\ y.state = ctx[r].state /\ y.an = ctx[r].an /\ y.upf = ctx[r].upf
        /\ y.addr = ctx[r].addr /\ y.dup = ctx[r].dup
    BY <1>5, Forgotten
  <1> HIDE DEF y
  <1>7. amf' \in {amf, None} /\ lock[r] \in {t, None}
    BY <1>4
  <1>8. CASE /\ lock' = [lock EXCEPT ![r] = t]
             /\ timers' = [timers EXCEPT ![t] = [timers[t] EXCEPT !.pc = "notifying"]]
    <2>1. "notifying" \in TimerPcs
      BY DEF TimerPcs
    <2> QED BY <1>1, <1>3, <1>4, <1>6, <1>7, <1>8, <2>1, TimerLocks
  <1>9. CASE lock' = lock /\ timers' = [timers EXCEPT ![t] = [timers[t] EXCEPT !.pc = "ended"]]
    <2>1. "ended" \in TimerPcs
      BY DEF TimerPcs
    <2>2. lock' = [lock EXCEPT ![r] = None]
      BY <1>2, <1>4, <1>9 DEF Contexts
    <2> QED BY <1>1, <1>3, <1>4, <1>6, <1>7, <1>9, <2>1, <2>2, TimerLocks
  <1> QED BY <1>3, <1>8, <1>9 DEF CancelStart

LEMMA CancelNotifyKeeps ==
  ASSUME IInv, NEW t \in Timers, CancelNotify(t) PROVE IInv'
  <1>1. timers[t].pc = "notifying" /\ timers[t].pc # "unused"
    BY DEF CancelNotify
  <1>2. timers[t].ref \in Refs /\ Contexts /\ lock[timers[t].ref] = t
    BY <1>1, TimerKnows DEF TimersOK
  <1>3. PICK r \in Refs : r = timers[t].ref
    BY <1>2
  <1>4. /\ timers' = [timers EXCEPT ![t] = [timers[t] EXCEPT !.pc = "ended"]]
        /\ lock' = [lock EXCEPT ![r] = None] /\ amf' \in {amf, None}
        /\ UNCHANGED <<pool, canonical, made, removal, call, upf, ueLock, commanded, hist>>
    BY <1>3 DEF CancelNotify
  <1>5. PICK y \in Context :
          /\ ctx' = [ctx EXCEPT ![r] = y] /\ y.state = ctx[r].state /\ y.an = ctx[r].an
          /\ y.upf = ctx[r].upf /\ y.addr = ctx[r].addr /\ y.dup = ctx[r].dup
    BY <1>2 DEF Contexts, CancelNotify
  <1>6. "ended" \in TimerPcs /\ lock[r] \in {t, None}
    BY <1>2, <1>3 DEF TimerPcs
  <1> QED BY <1>1, <1>3, <1>4, <1>5, <1>6, TimerLocks

-----------------------------------------------------------------------------
(* The invariant, and what follows from it.                                *)

LEMMA InitGood == Init => IInv
  <1> SUFFICES ASSUME Init PROVE IInv
    OBVIOUS
  <1>1. /\ hist \in History /\ hist.failed = {} /\ hist.n1 = {} /\ hist.n2 = {} /\ hist.leased = {}
        /\ hist.unasked = {} /\ hist.steered = {} /\ hist.lost = {} /\ \A r \in Refs : hist.addrFrees[r] = 0 /\ hist.teidFrees[r] = 0
    BY DEF Init, History
  <1>2. Contexts
    <2>1. ctx \in [Refs -> Context]
      BY NewContextTyped DEF Init
    <2>2. removal \in [Refs -> [BOOLEAN -> Nat]]
      BY DEF Init
    <2>3. lock \in [Refs -> Holders \cup Timers \cup {None}]
      BY DEF Init
    <2> QED BY <1>1, <2>1, <2>2, <2>3 DEF Contexts
  <1>3. Sets
    BY DEF Init, Sets
  <1>4. TimersOK
    <2>1. [pc |-> "unused", ref |-> None, kind |-> "T3591", done |-> FALSE, expired |-> 0] \in Goroutine
      BY DEF Goroutine, TimerPcs, Kinds
    <2> QED BY <2>1 DEF Init, TimersOK
  <1>5. CallsOK
    <2>1. Idle \in Call
      BY DEF Idle, Call, CallPcs, Ops
    <2>2. call \in [Threads -> Call] /\ ueLock = None
      BY <2>1 DEF Init
    <2>3. \A c \in Threads : call[c].pc = "idle"
      BY DEF Init, Idle
    <2> QED BY <2>2, <2>3 DEF CallsOK
  <1>6. ASSUME NEW r \in Refs PROVE Good(r)
    <2>1. /\ ctx[r] = NewContext /\ lock[r] = None /\ r \notin made /\ r \notin pool /\ r \notin upf
          /\ r \notin commanded
      BY DEF Init
    <2>2. ~Leaving(r)
      <3>1. removal[r][TRUE] = 0 /\ removal[r][FALSE] = 0
        BY DEF Init
      <3>2. ~(0 > 0)
        OBVIOUS
      <3> QED BY <3>1, <3>2, Zenon DEF Leaving
    <2>3. ~Has(r)
      BY <2>1, NewContextTyped DEF Has
    <2>4. None \notin Holders
      BY FreeLock
    <2>5. Books(r)
      BY <1>1, <2>1, <2>3 DEF Books
    <2>6. Settled(r) /\ Ending(r)
      BY <1>1, <2>1, <2>4 DEF Settled, Clean, Excused, Ending, Holders
    <2> QED BY <1>1, <2>1, <2>2, <2>5, <2>6 DEF Good, Fresh
  <1> QED BY <1>2, <1>3, <1>4, <1>5, <1>6 DEF IInv

LEMMA NextKeeps == IInv /\ [Next]_vars => IInv'
  <1> SUFFICES ASSUME IInv, [Next]_vars PROVE IInv'
    OBVIOUS
  <1>1. ASSUME NEW c \in Threads, AmfCreate(c) \/ CreateStep(c) PROVE IInv'
    BY <1>1, AmfCreateKeeps, LookupDuplicateKeeps, LocalReleaseKeeps, NewSMContextKeeps,
       AmfStoreKeeps DEF CreateStep
  <1>2. ASSUME NEW c \in Threads, Handle(c) PROVE IInv'
    BY <1>2, ReleaseRequestKeeps, ReleaseCompleteKeeps, ModificationRequestKeeps,
       ModificationEndKeeps, DeactivateKeeps, SetupResponseKeeps, MoveKeeps, ReleaseResponseKeeps,
       DuplicateKeeps, PolicyUpdateKeeps, ReleaseKeeps DEF Handle
  <1>3. ASSUME NEW c \in Threads, NEW op \in Ops \ {"create"}, NEW r \in Refs,
               NEW locked \in BOOLEAN, AmfCall(c, op, r, locked)
        PROVE  IInv'
    BY <1>3, AmfCallKeeps
  <1>4. ASSUME NEW r \in Refs, ContextStep(r) \/ LossStart(r) PROVE IInv'
    BY <1>4, EstablishKeeps, AcceptKeeps, RejectKeeps, RemoveQuietlyKeeps, NotifyStartKeeps,
       NotifyAndRemoveKeeps, LossRequestKeeps, LossStartKeeps DEF ContextStep
  <1>5. ASSUME NEW t \in Timers, TimerTick(t) \/ TimerStep(t) PROVE IInv'
    BY <1>5, TimerTickKeeps, TimerDoneKeeps, ExpireStartKeeps, ExpireSendKeeps, CancelStartKeeps,
       CancelNotifyKeeps DEF TimerStep
  <1>6. CASE UNCHANGED vars
    <2>1. TimersOK'
      BY <1>6 DEF vars, IInv, TimersOK
    <2> QED BY <1>6, <2>1, TimerQuiet DEF vars
  <1> QED BY <1>1, <1>2, <1>3, <1>4, <1>5, <1>6 DEF Next

LEMMA InvariantHolds == Spec => []IInv
  <1> QED BY InitGood, NextKeeps, PTL DEF Spec

\* RemoveSMContext and the handlers that find a context before it is removed: the
\* TEIDs and the address of a context are given back once, on any number of
\* contexts, threads and timers.
THEOREM ReleasedOnce == Spec => []FreedOnce
  <1>1. IInv => FreedOnce
    <2> SUFFICES ASSUME IInv PROVE FreedOnce
      OBVIOUS
    <2>1. TypeOK
      BY DEF IInv, Contexts, Context, Sets, CallsOK, TypeOK
    <2>2. ASSUME NEW r \in made
          PROVE  /\ hist.teidFrees[r] = IF r \in pool THEN 0 ELSE 1
                 /\ hist.addrFrees[r] <= 1
                 /\ r \in hist.leased \ pool => hist.addrFrees[r] = 1
      <3>1. Good(r)
        BY DEF IInv, Sets
      <3>2. hist.addrFrees[r] = IF r \in hist.leased /\ ~Has(r) THEN 1 ELSE 0
        BY <3>1 DEF Good, Books
      <3>3. hist.addrFrees[r] <= 1
        BY <3>2
      <3> QED BY <3>1, <3>2, <3>3 DEF Good, Books
    <2> QED BY <2>1, <2>2 DEF FreedOnce
  <1> QED BY <1>1, InvariantHolds, PTL

\* Every way out of the pool (a release, a duplicate, a rejection, a lost UPF): a
\* removed context leaves no session in the UPF unless an exchange failed, an
\* answer came to a release nobody ordered (pdu_session.go:452 only logs it), or
\* a policy decision changed its data paths (notifier.go:118).
THEOREM NothingLeftBehind == Spec => []NoUpfLeak
  <1>1. IInv => NoUpfLeak
    BY DEF IInv, Sets, Good, Settled, Doomed, Clean, Excused, NoUpfLeak
  <1> QED BY <1>1, InvariantHolds, PTL

\* The two answers to a release, in either order and whatever comes between
\* them: the context is removed or on its way out.
THEOREM ReleasesEnd == Spec => []ReleaseEnds
  <1>1. IInv => ReleaseEnds
    <2> SUFFICES ASSUME IInv, NEW r \in pool, r \in (hist.n1 \cap hist.n2) \ hist.lost,
                        ctx[r].state = "InActive", ~ctx[r].an
                 PROVE  removal[r][TRUE] + removal[r][FALSE] > 0 \/ lock[r] = "notify"
      BY DEF ReleaseEnds
    <2>1. r \in Refs /\ Good(r)
      BY DEF IInv, Sets
    <2>2. Leaving(r) \/ lock[r] = "notify"
      BY <2>1 DEF Good, Ending
    <2>3. removal[r] \in [BOOLEAN -> Nat]
      BY <2>1 DEF IInv, Contexts
    <2>4. ASSUME NEW q \in [BOOLEAN -> Nat], q[TRUE] > 0 \/ q[FALSE] > 0
          PROVE  q[TRUE] + q[FALSE] > 0
      <3> DEFINE m == q[TRUE]
                 n == q[FALSE]
      <3>1. m \in Nat /\ n \in Nat
        OBVIOUS
      <3>2. m > 0 \/ n > 0
        BY <2>4
      <3>3. SUFFICES m + n > 0
        OBVIOUS
      <3> HIDE DEF m, n
      <3> QED BY <3>1, <3>2
    <2> QED BY <2>2, <2>3, <2>4 DEF Leaving
  <1> QED BY <1>1, InvariantHolds, PTL

\* A goroutine that releases SMLock after a call to the AMF has had its answer,
\* for which the AMF took the Lock of the UE.
LEMMA ReleasedFree ==
  ASSUME IInv, Next, NEW r \in Refs, lock[r] # None, lock'[r] = None
  PROVE  ueLock = None
  <1>1. ASSUME NEW s \in Refs, NEW h, h # None, lock' = [lock EXCEPT ![s] = h] PROVE FALSE
    BY <1>1 DEF IInv, Contexts
  <1>2. CASE lock' = lock
    BY <1>2
  <1>3. \A h \in Holders \cup Timers : h # None
    BY FreeLock
  <1>4. ASSUME NEW c \in Threads, AmfCreate(c) \/ CreateStep(c) PROVE ueLock = None
    <2>1. ASSUME NEW s \in Refs, NewSMContext(c, s) PROVE ueLock = None
      <3>1. lock' = lock \/ lock' = [lock EXCEPT ![s] = "pfcp"]
        BY <2>1 DEF NewSMContext
      <3> QED BY <3>1, <1>1, <1>2, <1>3 DEF Holders
    <2>2. CASE AmfCreate(c) \/ LookupDuplicate(c) \/ LocalRelease(c) \/ AmfStore(c)
      <3>1. lock' = lock
        BY <2>2 DEF AmfCreate, LookupDuplicate, LocalRelease, AmfStore
      <3> QED BY <3>1, <1>2
    <2> QED BY <1>4, <2>1, <2>2 DEF CreateStep
  <1>5. ASSUME NEW c \in Threads, Handle(c) PROVE ueLock = None
    <2>1. lock' = lock
      BY <1>5 DEF Handle, UpdateReleaseRequest, UpdateReleaseComplete, UpdateModificationRequest,
         UpdateModificationEnd, UpdateDeactivate, UpdateSetupResponse, UpdateMove, PlainUpdate,
         UpdateReleaseResponse, UpdateDuplicate, PolicyUpdate, Release
    <2> QED BY <2>1, <1>2
  <1>6. ASSUME NEW c \in Threads, NEW op, NEW s, NEW locked, AmfCall(c, op, s, locked)
        PROVE  ueLock = None
    <2>1. lock' = lock
      BY <1>6 DEF AmfCall
    <2> QED BY <2>1, <1>2
  <1>7. ASSUME NEW s \in Refs, ContextStep(s) \/ LossStart(s) PROVE ueLock = None
    <2>1. CASE Establish(s)
      <3>1. \E h \in {"accept", "reject"} : lock' = [lock EXCEPT ![s] = h]
        BY <2>1 DEF Establish
      <3> QED BY <3>1, <1>1, <1>3 DEF Holders
    <2>2. CASE RemoveQuietly(s)
      BY <2>2, <1>2 DEF RemoveQuietly
    <2>3. CASE NotifyStart(s) \/ LossStart(s)
      <3>1. \E h \in {"notify", "loss"} : lock' = [lock EXCEPT ![s] = h]
        BY <2>3 DEF NotifyStart, LossStart
      <3> QED BY <3>1, <1>1, <1>3 DEF Holders
    <2>4. CASE EstHandlerAccept(s) \/ EstHandlerReject(s) \/ NotifyAndRemove(s) \/ LossRequest(s)
      BY <2>4 DEF EstHandlerAccept, EstHandlerReject, NotifyAndRemove, LossRequest
    <2> QED BY <1>7, <2>1, <2>2, <2>3, <2>4 DEF ContextStep
  <1>8. ASSUME NEW t \in Timers, TimerTick(t) \/ TimerStep(t) PROVE ueLock = None
    <2>1. CASE TimerTick(t) \/ TimerDone(t)
      BY <2>1, <1>2 DEF TimerTick, TimerDone
    <2>2. CASE ExpireStart(t) \/ CancelStart(t)
      <3>1. timers[t].ref \in Refs
        BY <2>2, TimerKnows DEF ExpireStart, CancelStart
      <3>2. lock' = lock \/ lock' = [lock EXCEPT ![timers[t].ref] = t]
        BY <2>2 DEF ExpireStart, CancelStart
      <3> QED BY <3>1, <3>2, <1>1, <1>2, <1>3
    <2>3. CASE ExpireSend(t) \/ CancelNotify(t)
      BY <2>3 DEF ExpireSend, CancelNotify
    <2> QED BY <1>8, <2>1, <2>2, <2>3 DEF TimerStep
  <1> QED BY <1>4, <1>5, <1>6, <1>7, <1>8 DEF Next

\* EstHandlerAccept and EstHandlerReject reach the AMF only after the call that
\* created the context has returned: the caller holds the Lock of the UE.
THEOREM OutcomeAfterAnswer == Spec => AnswerFirst
  <1> DEFINE A == \A r \in Refs : lock[r] \in {"accept", "reject"} /\ lock'[r] = None =>
                      \A c \in Threads : call[c].pc = "ret" => call[c].ref # r
  <1>1. IInv /\ [Next]_vars => [A]_vars
    <2> SUFFICES ASSUME IInv, Next, NEW r \in Refs, lock[r] \in {"accept", "reject"},
                        lock'[r] = None, NEW c \in Threads, call[c].pc = "ret"
                 PROVE  FALSE
      OBVIOUS
    <2>1. lock[r] # None
      BY FreeLock DEF Holders
    <2>2. ueLock = None
      BY <2>1, ReleasedFree
    <2>3. ueLock = c
      BY DEF IInv, CallsOK
    <2> QED BY <2>2, <2>3, NoneAssumption
  <1> QED BY <1>1, InvariantHolds, PTL DEF Spec, AnswerFirst
=============================================================================
