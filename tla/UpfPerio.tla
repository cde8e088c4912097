------------------------------- MODULE UpfPerio -------------------------------
(***************************************************************************)
(* The periodic-report server of the UPF                                   *)
(* (NFs/upf/internal/forwarder/perio/server.go) between the goroutines it  *)
(* talks to: the main goroutine of the PFCP server, which starts and ends  *)
(* the measurement of URRs through the gtp5g driver and takes the reports, *)
(* one ticker goroutine per measurement period, and the goroutine that     *)
(* shuts the UPF down (pkg/app/app.go).  They share two bounded channels,  *)
(* evtCh and srCh, and one unbuffered stopCh per ticker.                   *)
(***************************************************************************)
EXTENDS Naturals, Sequences, FiniteSets

CONSTANTS
    Seids,          \* local session ids
    UrrIds,         \* URR ids of a session
    Periods,        \* measurement periods
    EvtCap,         \* capacity of evtCh (EVENT_CHANNEL_LEN, 512)
    SrCap,          \* capacity of srCh (REPORT_CHANNEL_LEN, 128)
    MaxCalls,       \* bound on the requests that create, update or remove a URR
    MaxPending,     \* bound on the ticks waiting in evtCh when another one comes
    Never, Gone     \* a URR without periodic reports, and one that was removed

Urrs == Seids \X UrrIds

ASSUME CapAssumption == EvtCap \in Nat \ {0} /\ SrCap \in Nat \ {0}
ASSUME BoundAssumption == MaxCalls \in Nat /\ MaxPending \in Nat
ASSUME PeriodAssumption == Never \notin Periods /\ Gone \notin Periods /\ Never # Gone

Add(x, p) == [type |-> "add", urr |-> x, period |-> p]
Del(x) == [type |-> "del", urr |-> x]
Timeout(p) == [type |-> "timeout", period |-> p]
CloseEvt == [type |-> "close"]

VARIABLES
    urrs,       \* the URRs as the SMF ordered them: period, Never or Gone
    calls,      \* number of requests so far
    evtCh, evtOpen,
    srCh, srOpen,
    main,       \* the PFCP main goroutine: "idle", "send", "stopped"
    evt,        \* the event it sends (CloseEvt, which it never sends, for none)
    group,      \* perioList: period -> URRs measured, for the periods in list
    list,       \* the keys of perioList
    ticker,     \* ticker goroutine of a period: "none", "wait" in the select, "send"
    perio,      \* what the server does: "idle", "stopTicker", "report",
                \* "close", "stopped"
    arg,        \* the period whose ticker is being stopped, or the sessions
                \* whose reports are still to be sent
    app,        \* the shutdown goroutine: "run", "close" (in driver.Close), "done"
    crashed     \* a goroutine sent on a closed channel

\* History of what main tells the server, for the properties.
VARIABLES
    told,       \* what it was last told of each URR: period, Never or Gone
    twice       \* URRs it was told of with a second period before their removal

orders == <<urrs, calls, told, twice>>
mainVars == <<orders, main, evt>>
perioVars == <<group, list, perio, arg>>
vars == <<mainVars, evtCh, evtOpen, srCh, srOpen, perioVars, ticker, app, crashed>>
Init ==
    /\ urrs = [x \in Urrs |-> Never] /\ calls = 0
    /\ told = urrs /\ twice = {}
    /\ evtCh = <<>> /\ evtOpen = TRUE
    /\ srCh = <<>> /\ srOpen = TRUE
    /\ main = "idle" /\ evt = CloseEvt
    /\ group = [p \in Periods |-> {}] /\ list = {}
    /\ ticker = [p \in Periods |-> "none"]
    /\ perio = "idle" /\ arg = {}
    /\ app = "run"
    /\ crashed = FALSE

-----------------------------------------------------------------------------
(* The main goroutine.                                                     *)

\* Sess.CreateURR for a URR with periodic reports, up to the send in
\* AddPeriodReportTimer.  A URR that exists may be created again: the kernel
\* answers "file exists", but only after the timer was added.
CreateURR(x, p) ==
    /\ ~crashed
    /\ main = "idle" /\ calls < MaxCalls
    /\ urrs' = [urrs EXCEPT ![x] = p] /\ told' = [told EXCEPT ![x] = p]
    /\ twice' = IF told[x] \in Periods \ {p} THEN twice \cup {x} ELSE twice
    /\ calls' = calls + 1
    /\ main' = "send" /\ evt' = Add(x, p)
    /\ UNCHANGED <<evtCh, evtOpen, srCh, srOpen, perioVars, ticker, app, crashed>>

\* Sess.UpdateURR with another period or trigger, of a URR with or without
\* periodic reports, or CreateURR without them, for a URR that exists: the
\* kernel gets the new order, the server is not told.
UpdateURR(x, p) ==
    /\ ~crashed
    /\ main = "idle" /\ calls < MaxCalls
    /\ urrs[x] \notin {p, Gone}
    /\ urrs' = [urrs EXCEPT ![x] = p]
    /\ calls' = calls + 1
    /\ UNCHANGED <<told, twice, main, evt, evtCh, evtOpen, srCh, srOpen, perioVars, ticker, app,
                   crashed>>

\* Mutant: DelPeriodReportTimer is not called.
RemoveURR_TimerKept(x) ==
    /\ ~crashed
    /\ main = "idle" /\ calls < MaxCalls
    /\ told[x] # Never \/ urrs[x] # Never
    /\ urrs' = [urrs EXCEPT ![x] = Gone] /\ told' = [told EXCEPT ![x] = Gone]
    /\ calls' = calls + 1
    /\ UNCHANGED <<twice, main, evt, evtCh, evtOpen, srCh, srOpen, perioVars, ticker, app, crashed>>

\* Sess.RemoveURR, up to the send in DelPeriodReportTimer.  The session may
\* still know a URR that was removed before.  (The removal of one that never
\* had periodic reports has no effect on the server and is left out.)
RemoveURR(x) ==
    /\ ~crashed
    /\ main = "idle" /\ calls < MaxCalls
    /\ told[x] # Never \/ urrs[x] # Never
    /\ urrs' = [urrs EXCEPT ![x] = Gone] /\ told' = [told EXCEPT ![x] = Gone]
    /\ calls' = calls + 1
    /\ main' = "send" /\ evt' = Del(x)
    /\ UNCHANGED <<twice, evtCh, evtOpen, srCh, srOpen, perioVars, ticker, app, crashed>>

\* Mutant: the panic is recovered and the send tried again.
MainSend_Retried ==
    /\ ~crashed
    /\ main = "send"
    /\ \/ /\ evtOpen /\ Len(evtCh) < EvtCap
          /\ evtCh' = Append(evtCh, evt)
          /\ main' = "idle" /\ evt' = CloseEvt
       \/ ~evtOpen /\ UNCHANGED <<evtCh, main, evt>>
    /\ UNCHANGED <<orders, evtOpen, srCh, srOpen, perioVars, ticker, app, crashed>>

\* The send on evtCh that ends AddPeriodReportTimer and DelPeriodReportTimer:
\* it waits for room, and panics if the server has closed the channel.
MainSend ==
    /\ ~crashed
    /\ main = "send"
    /\ \/ /\ evtOpen /\ Len(evtCh) < EvtCap
          /\ evtCh' = Append(evtCh, evt)
          /\ UNCHANGED crashed
       \/ /\ ~evtOpen
          /\ crashed' = TRUE
          /\ UNCHANGED evtCh
    /\ main' = "idle" /\ evt' = CloseEvt
    /\ UNCHANGED <<orders, evtOpen, srCh, srOpen, perioVars, ticker, app>>

\* main takes a report from srCh and serves it.
MainReport ==
    /\ ~crashed
    /\ main = "idle"
    /\ srCh # <<>>
    /\ srCh' = Tail(srCh)
    /\ UNCHANGED <<mainVars, evtCh, evtOpen, srOpen, perioVars, ticker, app, crashed>>

\* main gets an empty packet, because the socket was closed, a read failed or
\* a peer sent an empty datagram, and returns: it closes its channels.
MainReturns ==
    /\ ~crashed
    /\ main = "idle"
    /\ main' = "stopped" /\ srOpen' = FALSE
    /\ UNCHANGED <<orders, evt, evtCh, evtOpen, srCh, perioVars, ticker, app, crashed>>

-----------------------------------------------------------------------------
(* The ticker goroutines.                                                  *)

\* The ticker fires; a tick that comes while the goroutine is not in its
\* select is dropped or merged.
Tick(p) ==
    /\ ~crashed
    /\ ticker[p] = "wait"
    /\ Cardinality({i \in 1 .. Len(evtCh) : evtCh[i].type = "timeout"}) < MaxPending
    /\ ticker' = [ticker EXCEPT ![p] = "send"]
    /\ UNCHANGED <<mainVars, evtCh, evtOpen, srCh, srOpen, perioVars, app, crashed>>

\* The goroutine sends the event, as soon as there is room.  The channel is
\* open then (TickersMatch).
TickerSend(p) ==
    /\ ~crashed
    /\ ticker[p] = "send"
    /\ evtOpen /\ Len(evtCh) < EvtCap
    /\ evtCh' = Append(evtCh, Timeout(p))
    /\ ticker' = [ticker EXCEPT ![p] = "wait"]
    /\ UNCHANGED <<mainVars, evtOpen, srCh, srOpen, perioVars, app, crashed>>

-----------------------------------------------------------------------------
(* The server.                                                             *)

\* The event the loop of Serve takes from evtCh.
Recv(type) ==
    /\ ~crashed
    /\ perio = "idle"
    /\ evtCh # <<>>
    /\ Head(evtCh).type = type
    /\ evtCh' = Tail(evtCh)

\* TYPE_PERIO_ADD.
ServeAdd ==
    LET e == Head(evtCh) IN
    /\ Recv("add")
    /\ group' = [group EXCEPT ![e.period] = @ \cup {e.urr}]
    /\ list' = list \cup {e.period}
    /\ ticker' = IF e.period \in list THEN ticker ELSE [ticker EXCEPT ![e.period] = "wait"]
    /\ UNCHANGED <<mainVars, evtOpen, srCh, srOpen, perio, arg, app, crashed>>

\* Mutant: a group without URRs stays in perioList.
ServeDel_GroupKept ==
    LET e == Head(evtCh) IN
    /\ Recv("del")
    /\ group' = [p \in Periods |-> group[p] \ {e.urr}]
    /\ UNCHANGED <<mainVars, evtOpen, srCh, srOpen, list, perio, arg, ticker, app, crashed>>

\* Mutant: the group goes with its first URR, not with its last.
ServeDel_AlwaysStops ==
    LET e == Head(evtCh)
        with == {p \in list : e.urr \in group[p]} IN
    /\ Recv("del")
    /\ \/ with = {} /\ UNCHANGED <<group, perio, arg>>
       \/ \E p \in with : /\ group' = [group EXCEPT ![p] = @ \ {e.urr}]
                          /\ perio' = "stopTicker" /\ arg' = {p}
    /\ UNCHANGED <<mainVars, evtOpen, srCh, srOpen, list, ticker, app, crashed>>

\* TYPE_PERIO_DEL: the first group found with the URR loses it; map iteration
\* finds any.  The last URR of a group takes the ticker with it.
ServeDel ==
    LET e == Head(evtCh)
        with == {p \in list : e.urr \in group[p]} IN
    /\ Recv("del")
    /\ \/ with = {} /\ UNCHANGED <<group, perio, arg>>
       \/ \E p \in with :
             /\ group' = [group EXCEPT ![p] = @ \ {e.urr}]
             /\ \/ /\ group[p] = {e.urr}
                   /\ perio' = "stopTicker" /\ arg' = {p}
                \/ /\ group[p] # {e.urr}
                   /\ UNCHANGED <<perio, arg>>
    /\ UNCHANGED <<mainVars, evtOpen, srCh, srOpen, list, ticker, app, crashed>>

\* stopTicker: the goroutine takes the message from stopCh when it is in its
\* select; then the group leaves perioList.
StopTicker(p) ==
    /\ ~crashed
    /\ perio \in {"stopTicker", "close"} /\ arg = {p}
    /\ ticker[p] = "wait"
    /\ ticker' = [ticker EXCEPT ![p] = "none"]
    /\ list' = list \ {p}
    /\ group' = [group EXCEPT ![p] = {}]
    /\ perio' = IF perio = "close" THEN "close" ELSE "idle"
    /\ arg' = {}
    /\ UNCHANGED <<mainVars, evtCh, evtOpen, srCh, srOpen, app, crashed>>

\* TYPE_PERIO_TIMEOUT: the kernel is asked for the usage of the URRs of the
\* group; the reports of each session it knows go to srCh.  A query that
\* fails gives none.
ServeTimeout ==
    LET p == Head(evtCh).period IN
    /\ Recv("timeout")
    /\ \E S \in SUBSET {x[1] : x \in IF p \in list THEN group[p] ELSE {}} :
          IF S = {} THEN UNCHANGED <<perio, arg>> ELSE perio' = "report" /\ arg' = S
    /\ UNCHANGED <<mainVars, evtOpen, srCh, srOpen, group, list, ticker, app, crashed>>

\* NotifySessReport, once per session.
NotifySessReport(s) ==
    /\ ~crashed
    /\ perio = "report" /\ s \in arg
    /\ \/ /\ srOpen /\ Len(srCh) < SrCap
          /\ srCh' = Append(srCh, s)
          /\ UNCHANGED crashed
       \/ /\ ~srOpen
          /\ crashed' = TRUE
          /\ UNCHANGED srCh
    /\ arg' = arg \ {s}
    /\ perio' = IF arg = {s} THEN "idle" ELSE "report"
    /\ UNCHANGED <<mainVars, evtCh, evtOpen, srOpen, group, list, ticker, app>>

\* TYPE_SERVER_CLOSE.
ServeClose ==
    /\ Recv("close")
    /\ perio' = "close"
    /\ UNCHANGED <<mainVars, evtOpen, srCh, srOpen, group, list, arg, ticker, app, crashed>>

\* The loop over perioList, which stops the tickers in any order.
CloseNext(p) ==
    /\ ~crashed
    /\ perio = "close" /\ arg = {}
    /\ p \in list
    /\ arg' = {p}
    /\ UNCHANGED <<mainVars, evtCh, evtOpen, srCh, srOpen, group, list, perio, ticker, app, crashed>>

\* Mutant: the server ends when it has nothing left to measure.
ServeReturns_NothingToDo ==
    /\ ~crashed
    /\ perio \in {"idle", "close"} /\ list = {}
    /\ perio' = "stopped" /\ evtOpen' = FALSE
    /\ UNCHANGED <<mainVars, evtCh, srCh, srOpen, group, list, arg, ticker, app, crashed>>

\* Serve returns and closes evtCh.
ServeReturns ==
    /\ ~crashed
    /\ perio = "close" /\ list = {}
    /\ perio' = "stopped" /\ evtOpen' = FALSE
    /\ UNCHANGED <<mainVars, evtCh, srCh, srOpen, group, list, arg, ticker, app, crashed>>

-----------------------------------------------------------------------------
(* Shutdown: listenShutdownEvent calls PfcpServer.Stop and driver.Close.   *)

Shutdown ==
    /\ ~crashed
    /\ app = "run"
    /\ app' = "close"
    /\ UNCHANGED <<mainVars, evtCh, evtOpen, srCh, srOpen, perioVars, ticker, crashed>>

\* perio.Server.Close, the last call of driver.Close.
Close ==
    /\ ~crashed
    /\ app = "close"
    /\ evtOpen /\ Len(evtCh) < EvtCap
    /\ evtCh' = Append(evtCh, CloseEvt)
    /\ app' = "done"
    /\ UNCHANGED <<mainVars, evtOpen, srCh, srOpen, perioVars, ticker, crashed>>

AllStopped == main = "stopped" /\ perio = "stopped" /\ app = "done"

\* wg.Wait has returned, or the panic has ended the process.
Exited ==
    /\ crashed \/ AllStopped
    /\ UNCHANGED vars

Main ==
    \/ \E x \in Urrs : \/ \E p \in Periods : CreateURR(x, p)
                       \/ \E p \in Periods \cup {Never} : UpdateURR(x, p)
                       \/ RemoveURR(x)
    \/ MainSend \/ MainReport \/ MainReturns

Serve ==
    \/ ServeAdd \/ ServeDel \/ ServeTimeout \/ ServeClose \/ ServeReturns
    \/ \E p \in Periods : StopTicker(p) \/ CloseNext(p)
    \/ \E s \in Seids : NotifySessReport(s)

Ticker(p) == Tick(p) \/ TickerSend(p)

Next ==
    \/ Main \/ Serve \/ (\E p \in Periods : Ticker(p)) \/ Shutdown \/ Close
    \/ Exited

Spec == Init /\ [][Next]_vars

\* Every goroutine that can go on does, and one that waits in a send gets its
\* turn: Go serves the senders of a channel in order, hence strong fairness
\* for the sends of several goroutines on one channel.  After Stop the read of
\* the receiver fails and main returns.  No request and no empty datagram
\* needs to come, and the ticker's clock needs no fairness.
FairSpec ==
    /\ Spec
    /\ WF_vars(Serve)
    /\ SF_vars(MainSend)
    /\ SF_vars(Close)
    /\ SF_vars(\E p \in Periods : TickerSend(p))
    /\ SF_vars(\E p \in Periods : StopTicker(p))
    /\ WF_vars(MainReport)
    /\ SF_vars(app # "run" /\ MainReturns)

-----------------------------------------------------------------------------
(* Properties.                                                             *)

Events == {Add(x, p) : x \in Urrs, p \in Periods} \cup {Del(x) : x \in Urrs}
             \cup {Timeout(p) : p \in Periods} \cup {CloseEvt}

\* The channels stay within their capacities and carry only their events.
TypeOK ==
    /\ urrs \in [Urrs -> Periods \cup {Never, Gone}] /\ calls \in 0 .. MaxCalls
    /\ told \in [Urrs -> Periods \cup {Never, Gone}] /\ twice \subseteq Urrs
    /\ evtCh \in Seq(Events) /\ Len(evtCh) <= EvtCap /\ evtOpen \in BOOLEAN
    /\ srCh \in Seq(Seids) /\ Len(srCh) <= SrCap /\ srOpen \in BOOLEAN
    /\ main \in {"idle", "send", "stopped"} /\ evt \in Events
    /\ group \in [Periods -> SUBSET Urrs] /\ list \subseteq Periods
    /\ ticker \in [Periods -> {"none", "wait", "send"}]
    /\ perio \in {"idle", "stopTicker", "report", "close", "stopped"}
    /\ perio = "report" => arg \subseteq Seids
    /\ perio # "report" => arg \subseteq Periods
    /\ app \in {"run", "close", "done"} /\ crashed \in BOOLEAN

\* Is an event about the URR on its way to the server?
Orders(x, e) == e.type \in {"add", "del"} /\ e.urr = x
Pending(x) ==
    \/ \E i \in 1 .. Len(evtCh) : Orders(x, evtCh[i])
    \/ main = "send" /\ Orders(x, evt)

\* The server measures what the SMF ordered, however creations, removals and
\* ticks were interleaved: once the events about a URR have been handled, the
\* URR is in the group of its period, and in no other group unless the SMF
\* created it again with another period while it existed.  Not so for an
\* order the server was not told, which only UpdateURR gives
\* ("TODO: should apply PERIO updateURR", gtp5g.go:1287), until the URR is
\* created again or removed.
MeasurementAgrees ==
    /\ TypeOK
    /\ perio \notin {"close", "stopped"} =>
          \A x \in Urrs : ~Pending(x) /\ told[x] = urrs[x] =>
             \A p \in Periods : /\ urrs[x] = p => x \in group[p]
                                /\ x \in group[p] => urrs[x] = p \/ x \in twice

\* There is exactly one ticker goroutine for each group, and a group without
\* URRs is one whose ticker is just being stopped: tickers do not leak.  They
\* end before evtCh is closed, so none of them ever sends on the closed channel.
TickersMatch ==
    \A p \in Periods :
        /\ p \in list <=> ticker[p] # "none"
        /\ group[p] = {} => p \notin list \/ (perio \in {"stopTicker", "close"} /\ arg = {p})
        /\ p \notin list => group[p] = {}
        /\ ~evtOpen => ticker[p] = "none"

\* evtCh and srCh are closed by their receivers while others send on them: a
\* send finds its channel closed, and ends the process, only after main has
\* returned or the shutdown has begun, whatever is created and removed.
CrashOnlyAfterReturn == crashed => main = "stopped" \/ app # "run"

\* Removed URRs are measured no longer, eventually: when the requests have
\* ceased, none stays in a group, unless the process ends or the URR was in two
\* groups.
RemovalTakesEffect ==
    []<>(crashed \/ \A x \in Urrs \ twice : urrs[x] = Gone => \A p \in Periods : x \notin group[p])

\* "Notify each goroutine and wait them stopped" (pkg/app/app.go:93): once the
\* shutdown has begun, every goroutine ends, or a panic ends the process.
ShutdownCompletes == app # "run" ~> (AllStopped \/ crashed)

=============================================================================
