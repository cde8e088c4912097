---------------------------- MODULE UpfPerioProofs ----------------------------
(***************************************************************************)
(* Proofs about UpfPerio, for any number of sessions, URRs, periods and    *)
(* any capacities of the channels: tickers and groups match                *)
(* (TickersMatch), no goroutine panics before main returns or the shutdown *)
(* begins (CrashOnlyAfterReturn), and the server measures what it was told *)
(* of each URR (MeasurementAgrees).                                        *)
(***************************************************************************)
EXTENDS UpfPerio, TLAPS

-----------------------------------------------------------------------------
(* The inductive invariants.                                               *)

\* Groups and tickers, and the ticker that is being stopped.
Group(p) ==
    /\ p \in list <=> ticker[p] # "none"
    /\ group[p] = {} => p \notin list \/ (perio \in {"stopTicker", "close"} /\ arg = {p})
    /\ p \notin list => group[p] = {}

Stopping ==
    /\ perio = "idle" => arg = {}
    /\ perio = "stopTicker" => \E p \in list : arg = {p} /\ group[p] = {}
    /\ perio = "close" => arg = {} \/ \E p \in list : arg = {p}
    /\ perio = "stopped" => list = {}
    /\ ~evtOpen => perio = "stopped"

\* What only a shutdown, or the return of main, brings about.
Ending ==
    /\ \A i \in 1 .. Len(evtCh) : evtCh[i].type = "close" => app # "run"
    /\ main = "send" => evt.type # "close"
    /\ perio \in {"close", "stopped"} => app # "run"
    /\ ~srOpen => main = "stopped"
    /\ crashed => main = "stopped" \/ app # "run"

ServerInv == TypeOK /\ (\A p \in Periods : Group(p)) /\ Stopping /\ Ending

\* The event e is about x, and is what main said last of x.
Sending(x) == main = "send" /\ Orders(x, evt)
Matches(x, e) == IF e.type = "add" THEN told[x] = e.period ELSE told[x] = Gone
LastOrder(x, i) ==
    /\ Orders(x, evtCh[i])
    /\ \A j \in 1 .. Len(evtCh) : j > i => ~Orders(x, evtCh[j])
InGroups(x) ==
    \A p \in Periods : /\ told[x] = p => x \in group[p]
                       /\ x \in group[p] => told[x] = p \/ x \in twice

\* The last event about a URR that is on its way is what main said last;
\* when there is none, the groups say so.
Agreed(x) ==
    \/ Sending(x) /\ Matches(x, evt)
    \/ ~Sending(x) /\ \E i \in 1 .. Len(evtCh) : LastOrder(x, i) /\ Matches(x, evtCh[i])
    \/ ~Pending(x) /\ InGroups(x)

\* Before a URR is added to the group q, its removal from any other group p
\* has been handled or is on its way: p and q never both hold it, and there is
\* a removal between its presence in p, or its addition to p, and its addition
\* to q.
OneGroup(x, p, q) == ~(x \in group[p] /\ x \in group[q])
LeavesFirst(x, p, q) ==
    x \in group[p] =>
       \A j \in 1 .. Len(evtCh) : evtCh[j] = Add(x, q) => \E k \in 1 .. Len(evtCh) : k < j /\ evtCh[k] = Del(x)
Between(x, p, q) ==
    \A i, j \in 1 .. Len(evtCh) :
       evtCh[i] = Add(x, p) /\ evtCh[j] = Add(x, q) /\ i < j =>
          \E k \in 1 .. Len(evtCh) : i < k /\ k < j /\ evtCh[k] = Del(x)
BeforeSend(x, p, q) ==
    main = "send" /\ evt = Add(x, q) =>
       /\ x \in group[p] => \E k \in 1 .. Len(evtCh) : evtCh[k] = Del(x)
       /\ \A i \in 1 .. Len(evtCh) :
             evtCh[i] = Add(x, p) => \E k \in 1 .. Len(evtCh) : i < k /\ evtCh[k] = Del(x)
Apart(x, p, q) ==
    OneGroup(x, p, q) /\ LeavesFirst(x, p, q) /\ Between(x, p, q) /\ BeforeSend(x, p, q)
AllApart(x) == x \notin twice => \A p, q \in Periods : p # q => Apart(x, p, q)

Serving == perio \notin {"close", "stopped"}

OrderInv ==
    /\ ServerInv
    /\ Serving => \A x \in Urrs : Agreed(x) /\ AllApart(x)

-----------------------------------------------------------------------------
(* Events and channels.                                                    *)

LEMMA EventFields ==
  ASSUME NEW x \in Urrs, NEW p \in Periods
  PROVE  /\ Add(x, p) \in Events /\ Add(x, p).type = "add" /\ Add(x, p).urr = x /\ Add(x, p).period = p
         /\ Del(x) \in Events /\ Del(x).type = "del" /\ Del(x).urr = x
  <1> QED BY DEF Events, Add, Del

LEMMA DelFields ==
  ASSUME NEW x \in Urrs PROVE Del(x) \in Events /\ Del(x).type = "del" /\ Del(x).urr = x
  <1> QED BY DEF Events, Del

LEMMA TimeoutFields ==
  /\ CloseEvt \in Events /\ CloseEvt.type = "close"
  /\ \A p \in Periods : Timeout(p) \in Events /\ Timeout(p).type = "timeout"
  <1> QED BY DEF Events, Timeout, CloseEvt

LEMMA EventKinds ==
  ASSUME NEW e \in Events
  PROVE  /\ e.type = "add" => e.urr \in Urrs /\ e.period \in Periods /\ e = Add(e.urr, e.period)
         /\ e.type = "del" => e.urr \in Urrs /\ e = Del(e.urr)
         /\ e.type = "timeout" => e.period \in Periods
         /\ e.type \in {"add", "del", "timeout", "close"}
  <1>1. CASE \E x \in Urrs, p \in Periods : e = Add(x, p)
    BY <1>1 DEF Add
  <1>2. CASE \E x \in Urrs : e = Del(x)
    BY <1>2 DEF Del
  <1>3. CASE \E p \in Periods : e = Timeout(p)
    BY <1>3 DEF Timeout
  <1>4. CASE e = CloseEvt
    BY <1>4 DEF CloseEvt
  <1> QED BY <1>1, <1>2, <1>3, <1>4 DEF Events

LEMMA AppendSeq ==
  ASSUME NEW S, NEW s \in Seq(S), NEW e \in S
  PROVE  /\ Append(s, e) \in Seq(S) /\ Len(Append(s, e)) = Len(s) + 1 /\ Len(s) \in Nat
         /\ \A i \in 1 .. Len(s) : Append(s, e)[i] = s[i]
         /\ Append(s, e)[Len(s) + 1] = e
  <1> QED OBVIOUS

LEMMA TailSeq ==
  ASSUME NEW S, NEW s \in Seq(S), s # <<>>
  PROVE  /\ Tail(s) \in Seq(S) /\ Len(Tail(s)) = Len(s) - 1 /\ Len(s) \in Nat /\ Len(s) >= 1
         /\ \A i \in 1 .. Len(Tail(s)) : Tail(s)[i] = s[i + 1]
         /\ Head(s) = s[1] /\ s[1] \in S
  <1> QED OBVIOUS

\* A send on evtCh, and the receipt of an event.
Sent(e) ==
    /\ e \in Events /\ evtCh \in Seq(Events) /\ evtCh' \in Seq(Events) /\ Len(evtCh) \in Nat
    /\ Len(evtCh') = Len(evtCh) + 1 /\ Len(evtCh) < EvtCap
    /\ \A i \in 1 .. Len(evtCh) : evtCh'[i] = evtCh[i]
    /\ evtCh'[Len(evtCh) + 1] = e

Taken(e) ==
    /\ e \in Events /\ evtCh \in Seq(Events) /\ evtCh' \in Seq(Events) /\ Len(evtCh) \in Nat
    /\ Len(evtCh') = Len(evtCh) - 1 /\ Len(evtCh) >= 1
    /\ \A i \in 1 .. Len(evtCh') : evtCh'[i] = evtCh[i + 1]
    /\ e = evtCh[1] /\ e = Head(evtCh)

LEMMA SentEvent ==
  ASSUME TypeOK, NEW e \in Events, evtCh' = Append(evtCh, e), Len(evtCh) < EvtCap PROVE Sent(e)
  <1>1. evtCh \in Seq(Events)
    BY DEF TypeOK
  <1> QED BY <1>1, AppendSeq DEF Sent

LEMMA TakenEvent ==
  ASSUME TypeOK, NEW t, Recv(t)
  PROVE  /\ Taken(Head(evtCh)) /\ Head(evtCh) \in Events /\ Head(evtCh).type = t /\ perio = "idle"
         /\ ~crashed
  <1>1. evtCh \in Seq(Events) /\ evtCh # <<>> /\ evtCh' = Tail(evtCh)
    BY DEF TypeOK, Recv
  <1>2. Taken(Head(evtCh))
    BY <1>1, TailSeq DEF Taken
  <1> QED BY <1>2 DEF Recv, Taken

\* The lengths and the close events after a send or a receipt.
LEMMA ChannelSent ==
  ASSUME ServerInv, NEW e, Sent(e), e.type = "close" => app' # "run", app # "run" => app' # "run"
  PROVE  /\ evtCh' \in Seq(Events) /\ Len(evtCh') <= EvtCap
         /\ \A i \in 1 .. Len(evtCh') : evtCh'[i].type = "close" => app' # "run"
  <1>1. Len(evtCh') <= EvtCap
    BY CapAssumption DEF Sent
  <1>2. ASSUME NEW i \in 1 .. Len(evtCh'), evtCh'[i].type = "close" PROVE app' # "run"
    <2>1. i \in 1 .. Len(evtCh) \/ i = Len(evtCh) + 1
      BY DEF Sent
    <2>2. CASE i \in 1 .. Len(evtCh)
      BY <1>2, <2>2 DEF Sent, ServerInv, Ending
    <2>3. CASE i = Len(evtCh) + 1
      BY <1>2, <2>3 DEF Sent
    <2> QED BY <2>1, <2>2, <2>3
  <1> QED BY <1>1, <1>2 DEF Sent

LEMMA ChannelTaken ==
  ASSUME ServerInv, NEW e, Taken(e), app' = app
  PROVE  /\ evtCh' \in Seq(Events) /\ Len(evtCh') <= EvtCap
         /\ \A i \in 1 .. Len(evtCh') : evtCh'[i].type = "close" => app' # "run"
         /\ e.type = "close" => app # "run"
  <1>1. Len(evtCh) <= EvtCap
    BY DEF ServerInv, TypeOK
  <1>2. Len(evtCh') <= EvtCap
    BY <1>1, CapAssumption DEF Taken
  <1>3. ASSUME NEW i \in 1 .. Len(evtCh'), evtCh'[i].type = "close" PROVE app' # "run"
    <2>1. i + 1 \in 1 .. Len(evtCh) /\ evtCh'[i] = evtCh[i + 1]
      BY DEF Taken
    <2> QED BY <1>3, <2>1 DEF ServerInv, Ending
  <1>4. e.type = "close" => app # "run"
    <2>1. 1 \in 1 .. Len(evtCh) /\ e = evtCh[1]
      BY DEF Taken
    <2> QED BY <2>1 DEF ServerInv, Ending
  <1> QED BY <1>2, <1>3, <1>4 DEF Taken

-----------------------------------------------------------------------------
(* ServerInv: tickers, groups and the shutdown.                            *)

\* A step that touches neither the groups nor what the server does.
LEMMA ServerKept ==
  ASSUME ServerInv, UNCHANGED <<perioVars, evtOpen>>,
         \A p \in Periods : (ticker[p] = "none") <=> (ticker'[p] = "none")
  PROVE  (\A p \in Periods : Group(p)') /\ Stopping'
  <1>1. UNCHANGED <<group, list, perio, arg, evtOpen>>
    BY DEF perioVars
  <1>2. Stopping'
    BY <1>1 DEF ServerInv, Stopping
  <1>3. ASSUME NEW p \in Periods PROVE Group(p)'
    <2>1. Group(p)
      BY DEF ServerInv
    <2> QED BY <1>1, <2>1 DEF Group
  <1> QED BY <1>2, <1>3

LEMMA MainServerInv ==
  ASSUME ServerInv, Main PROVE ServerInv'
  <1>1. TypeOK /\ Stopping /\ Ending
    BY DEF ServerInv
  <1>2. ASSUME NEW x \in Urrs, NEW p \in Periods, CreateURR(x, p) PROVE ServerInv'
    <2>1. /\ UNCHANGED <<perioVars, evtOpen>> /\ UNCHANGED <<evtCh, srCh, srOpen, ticker, app, crashed>>
          /\ main = "idle" /\ main' = "send" /\ evt' = Add(x, p) /\ calls' = calls + 1 /\ calls < MaxCalls
          /\ urrs' = [urrs EXCEPT ![x] = p] /\ told' = [told EXCEPT ![x] = p]
          /\ twice' \subseteq twice \cup {x}
      BY <1>2 DEF CreateURR
    <2>2. evt' \in Events /\ evt'.type = "add"
      BY <2>1, EventFields
    <2>3. calls' \in 0 .. MaxCalls
      BY <1>1, <2>1, BoundAssumption DEF TypeOK
    <2>4. /\ urrs' \in [Urrs -> Periods \cup {Never, Gone}] /\ told' \in [Urrs -> Periods \cup {Never, Gone}]
          /\ twice' \subseteq Urrs
      BY <1>1, <2>1 DEF TypeOK
    <2>5. TypeOK'
      BY <1>1, <2>1, <2>2, <2>3, <2>4 DEF TypeOK, perioVars, orders
    <2>6. Ending'
      BY <1>1, <2>1, <2>2 DEF Ending, perioVars
    <2> QED BY <2>1, <2>5, <2>6, ServerKept DEF ServerInv
  <1>3. ASSUME NEW x \in Urrs, RemoveURR(x) PROVE ServerInv'
    <2>1. /\ UNCHANGED <<perioVars, evtOpen>> /\ UNCHANGED <<evtCh, srCh, srOpen, ticker, app, crashed>>
          /\ main = "idle" /\ main' = "send" /\ evt' = Del(x) /\ calls' = calls + 1 /\ calls < MaxCalls
          /\ urrs' = [urrs EXCEPT ![x] = Gone] /\ told' = [told EXCEPT ![x] = Gone] /\ twice' = twice
      BY <1>3 DEF RemoveURR
    <2>2. evt' \in Events /\ evt'.type = "del"
      BY <2>1, DelFields
    <2>3. calls' \in 0 .. MaxCalls
      BY <1>1, <2>1, BoundAssumption DEF TypeOK
    <2>4. /\ urrs' \in [Urrs -> Periods \cup {Never, Gone}] /\ told' \in [Urrs -> Periods \cup {Never, Gone}]
          /\ twice' \subseteq Urrs
      BY <1>1, <2>1 DEF TypeOK
    <2>5. TypeOK'
      BY <1>1, <2>1, <2>2, <2>3, <2>4 DEF TypeOK, perioVars, orders
    <2>6. Ending'
      BY <1>1, <2>1, <2>2 DEF Ending, perioVars
    <2> QED BY <2>1, <2>5, <2>6, ServerKept DEF ServerInv
  <1>4. CASE MainSend
    <2>1. /\ UNCHANGED <<perioVars, evtOpen>> /\ UNCHANGED <<orders, srCh, srOpen, ticker, app>>
          /\ main = "send" /\ main' = "idle" /\ evt \in Events /\ evt.type # "close" /\ evt' \in Events
      BY <1>1, <1>4, TimeoutFields DEF MainSend, Ending, TypeOK
    <2>2. CASE evtOpen /\ Len(evtCh) < EvtCap /\ evtCh' = Append(evtCh, evt) /\ UNCHANGED crashed
      <3>1. Sent(evt)
        BY <1>1, <2>1, <2>2, SentEvent
      <3>2. /\ evtCh' \in Seq(Events) /\ Len(evtCh') <= EvtCap
            /\ \A i \in 1 .. Len(evtCh') : evtCh'[i].type = "close" => app' # "run"
        BY <2>1, <3>1, ChannelSent
      <3>3. TypeOK'
        BY <1>1, <2>1, <2>2, <3>2 DEF TypeOK, perioVars, orders
      <3>4. Ending'
        BY <1>1, <2>1, <2>2, <3>2 DEF Ending, perioVars
      <3> QED BY <2>1, <3>3, <3>4, ServerKept DEF ServerInv
    <2>3. CASE ~evtOpen /\ crashed' = TRUE /\ UNCHANGED evtCh
      <3>1. TypeOK'
        BY <1>1, <2>1, <2>3 DEF TypeOK, perioVars, orders
      <3>2. app # "run"
        BY <1>1, <2>3 DEF Stopping, Ending
      <3>3. Ending'
        BY <1>1, <2>1, <2>3, <3>2 DEF Ending, perioVars
      <3> QED BY <2>1, <3>1, <3>3, ServerKept DEF ServerInv
    <2> QED BY <1>4, <2>2, <2>3 DEF MainSend
  <1>5. CASE MainReport
    <2>1. /\ UNCHANGED <<perioVars, evtOpen>> /\ UNCHANGED <<orders, main, evt, evtCh, srOpen, ticker, app, crashed>>
          /\ srCh # <<>> /\ srCh' = Tail(srCh)
      BY <1>5 DEF MainReport, mainVars
    <2>2. srCh' \in Seq(Seids) /\ Len(srCh') <= SrCap
      <3>1. srCh \in Seq(Seids) /\ Len(srCh) <= SrCap
        BY <1>1 DEF TypeOK
      <3>2. srCh' \in Seq(Seids) /\ Len(srCh') = Len(srCh) - 1 /\ Len(srCh) \in Nat
        BY <2>1, <3>1, TailSeq
      <3> QED BY <3>1, <3>2, CapAssumption
    <2>3. TypeOK'
      BY <1>1, <2>1, <2>2 DEF TypeOK, perioVars, orders
    <2>4. Ending'
      BY <1>1, <2>1 DEF Ending, perioVars
    <2> QED BY <2>1, <2>3, <2>4, ServerKept DEF ServerInv
  <1>6. CASE MainReturns
    <2>1. /\ UNCHANGED <<perioVars, evtOpen>> /\ UNCHANGED <<orders, evt, evtCh, srCh, ticker, app, crashed>>
          /\ main' = "stopped" /\ srOpen' = FALSE
      BY <1>6 DEF MainReturns
    <2>2. TypeOK'
      BY <1>1, <2>1 DEF TypeOK, perioVars, orders
    <2>3. Ending'
      BY <1>1, <2>1 DEF Ending, perioVars
    <2> QED BY <2>1, <2>2, <2>3, ServerKept DEF ServerInv
  <1>7. ASSUME NEW x \in Urrs, NEW p \in Periods \cup {Never}, UpdateURR(x, p) PROVE ServerInv'
    <2>1. /\ UNCHANGED <<perioVars, evtOpen>>
          /\ UNCHANGED <<told, twice, main, evt, evtCh, srCh, srOpen, ticker, app, crashed>>
          /\ calls' = calls + 1 /\ calls < MaxCalls /\ urrs' = [urrs EXCEPT ![x] = p]
      BY <1>7 DEF UpdateURR
    <2>2. calls' \in 0 .. MaxCalls
      BY <1>1, <2>1, BoundAssumption DEF TypeOK
    <2>3. urrs' \in [Urrs -> Periods \cup {Never, Gone}]
      BY <1>1, <2>1 DEF TypeOK
    <2>4. TypeOK'
      BY <1>1, <2>1, <2>2, <2>3 DEF TypeOK, perioVars, orders
    <2>5. Ending'
      BY <1>1, <2>1 DEF Ending, perioVars
    <2> QED BY <2>1, <2>4, <2>5, ServerKept DEF ServerInv
  <1> QED BY <1>2, <1>3, <1>4, <1>5, <1>6, <1>7 DEF Main

LEMMA TickerServerInv ==
  ASSUME ServerInv, NEW p \in Periods, Ticker(p) PROVE ServerInv'
  <1>1. TypeOK /\ Stopping /\ Ending
    BY DEF ServerInv
  <1>2. CASE Tick(p)
    <2>1. /\ UNCHANGED <<perioVars, evtOpen>>
          /\ UNCHANGED <<orders, main, evt, evtCh, srCh, srOpen, app, crashed>>
          /\ ticker[p] = "wait" /\ ticker' = [ticker EXCEPT ![p] = "send"]
      BY <1>2 DEF Tick, mainVars
    <2>2. /\ ticker' \in [Periods -> {"none", "wait", "send"}]
          /\ \A q \in Periods : (ticker[q] = "none") <=> (ticker'[q] = "none")
      BY <1>1, <2>1 DEF TypeOK
    <2>3. TypeOK'
      BY <1>1, <2>1, <2>2 DEF TypeOK, perioVars, orders
    <2>4. Ending'
      BY <1>1, <2>1 DEF Ending, perioVars
    <2> QED BY <2>1, <2>2, <2>3, <2>4, ServerKept DEF ServerInv
  <1>3. CASE TickerSend(p)
    <2>1. /\ UNCHANGED <<perioVars, evtOpen>>
          /\ UNCHANGED <<orders, main, evt, srCh, srOpen, app, crashed>>
          /\ ticker[p] = "send" /\ ticker' = [ticker EXCEPT ![p] = "wait"]
          /\ Len(evtCh) < EvtCap /\ evtCh' = Append(evtCh, Timeout(p))
      BY <1>3 DEF TickerSend, mainVars
    <2>2. /\ ticker' \in [Periods -> {"none", "wait", "send"}]
          /\ \A q \in Periods : (ticker[q] = "none") <=> (ticker'[q] = "none")
      BY <1>1, <2>1 DEF TypeOK
    <2>3. Sent(Timeout(p)) /\ Timeout(p).type = "timeout"
      BY <1>1, <2>1, SentEvent, TimeoutFields
    <2>4. /\ evtCh' \in Seq(Events) /\ Len(evtCh') <= EvtCap
          /\ \A i \in 1 .. Len(evtCh') : evtCh'[i].type = "close" => app' # "run"
      BY <2>1, <2>3, ChannelSent
    <2>5. TypeOK'
      BY <1>1, <2>1, <2>2, <2>4 DEF TypeOK, perioVars, orders
    <2>6. Ending'
      BY <1>1, <2>1, <2>4 DEF Ending, perioVars
    <2> QED BY <2>1, <2>2, <2>5, <2>6, ServerKept DEF ServerInv
  <1> QED BY <1>2, <1>3 DEF Ticker

LEMMA AppServerInv ==
  ASSUME ServerInv, Shutdown \/ Close PROVE ServerInv'
  <1>1. TypeOK /\ Stopping /\ Ending
    BY DEF ServerInv
  <1>2. CASE Shutdown
    <2>1. /\ UNCHANGED <<perioVars, evtOpen>>
          /\ UNCHANGED <<orders, main, evt, evtCh, srCh, srOpen, ticker, crashed>> /\ app' = "close"
      BY <1>2 DEF Shutdown, mainVars
    <2>2. TypeOK'
      BY <1>1, <2>1 DEF TypeOK, perioVars, orders
    <2>3. Ending'
      BY <1>1, <2>1 DEF Ending, perioVars
    <2> QED BY <2>1, <2>2, <2>3, ServerKept DEF ServerInv
  <1>3. CASE Close
    <2>1. /\ UNCHANGED <<perioVars, evtOpen>>
          /\ UNCHANGED <<orders, main, evt, srCh, srOpen, ticker, crashed>> /\ app' = "done"
          /\ Len(evtCh) < EvtCap /\ evtCh' = Append(evtCh, CloseEvt)
      BY <1>3 DEF Close, mainVars
    <2>2. Sent(CloseEvt)
      BY <1>1, <2>1, SentEvent, TimeoutFields
    <2>3. /\ evtCh' \in Seq(Events) /\ Len(evtCh') <= EvtCap
      BY <2>1, <2>2, ChannelSent
    <2>4. TypeOK'
      BY <1>1, <2>1, <2>3 DEF TypeOK, perioVars, orders
    <2>5. Ending'
      BY <1>1, <2>1 DEF Ending, perioVars
    <2> QED BY <2>1, <2>4, <2>5, ServerKept DEF ServerInv
  <1> QED BY <1>2, <1>3

\* The server takes events and stops tickers.
LEMMA ServeServerInv ==
  ASSUME ServerInv, Serve PROVE ServerInv'
  <1>1. TypeOK /\ Stopping /\ Ending /\ \A p \in Periods : Group(p)
    BY DEF ServerInv
  <1>2. CASE ServeAdd
    <2> DEFINE e == Head(evtCh)
    <2>1. /\ Recv("add") /\ UNCHANGED <<orders, main, evt, evtOpen, srCh, srOpen, perio, arg, app, crashed>>
          /\ group' = [group EXCEPT ![e.period] = group[e.period] \cup {e.urr}]
          /\ list' = list \cup {e.period}
          /\ ticker' = IF e.period \in list THEN ticker ELSE [ticker EXCEPT ![e.period] = "wait"]
      BY <1>2 DEF ServeAdd, mainVars
    <2>2. Taken(e) /\ e \in Events /\ e.type = "add" /\ perio = "idle"
      BY <1>1, <2>1, TakenEvent
    <2>3. e.urr \in Urrs /\ e.period \in Periods
      BY <2>2, EventKinds
    <2> HIDE DEF e
    <2>4. /\ evtCh' \in Seq(Events) /\ Len(evtCh') <= EvtCap
          /\ \A i \in 1 .. Len(evtCh') : evtCh'[i].type = "close" => app' # "run"
      BY <2>1, <2>2, ChannelTaken
    <2>5. /\ group' \in [Periods -> SUBSET Urrs] /\ list' \subseteq Periods
          /\ ticker' \in [Periods -> {"none", "wait", "send"}]
      BY <1>1, <2>1, <2>3 DEF TypeOK
    <2>6. TypeOK'
      BY <1>1, <2>1, <2>4, <2>5 DEF TypeOK, orders
    <2>7. Ending'
      BY <1>1, <2>1, <2>4 DEF Ending
    <2>8. Stopping'
      BY <1>1, <2>1, <2>2 DEF Stopping
    <2>9. ASSUME NEW p \in Periods PROVE Group(p)'
      <3>1. Group(p) /\ group \in [Periods -> SUBSET Urrs] /\ ticker \in [Periods -> {"none", "wait", "send"}]
        BY <1>1 DEF TypeOK
      <3>2. CASE p = e.period
        <4>1. p \in list' /\ group'[p] # {} /\ ticker'[p] # "none"
          BY <2>1, <2>3, <3>1, <3>2 DEF Group
        <4> QED BY <4>1 DEF Group
      <3>3. CASE p # e.period
        <4>1. group'[p] = group[p] /\ ticker'[p] = ticker[p] /\ (p \in list' <=> p \in list)
          BY <2>1, <2>3, <3>1, <3>3
        <4> QED BY <2>1, <3>1, <4>1 DEF Group
      <3> QED BY <3>2, <3>3
    <2> QED BY <2>6, <2>7, <2>8, <2>9 DEF ServerInv
  <1>3. CASE ServeDel
    <2> DEFINE e == Head(evtCh)
    <2>1. /\ Recv("del") /\ UNCHANGED <<orders, main, evt, evtOpen, srCh, srOpen, list, ticker, app, crashed>>
      BY <1>3 DEF ServeDel, mainVars
    <2>2. Taken(e) /\ e \in Events /\ e.type = "del" /\ perio = "idle"
      BY <1>1, <2>1, TakenEvent
    <2>3. \/ UNCHANGED <<group, perio, arg>>
          \/ \E p \in list :
                /\ e.urr \in group[p] /\ group' = [group EXCEPT ![p] = group[p] \ {e.urr}]
                /\ \/ group[p] = {e.urr} /\ perio' = "stopTicker" /\ arg' = {p}
                   \/ group[p] # {e.urr} /\ UNCHANGED <<perio, arg>>
      BY <1>3 DEF ServeDel
    <2> HIDE DEF e
    <2>4. /\ evtCh' \in Seq(Events) /\ Len(evtCh') <= EvtCap
          /\ \A i \in 1 .. Len(evtCh') : evtCh'[i].type = "close" => app' # "run"
      BY <2>1, <2>2, ChannelTaken
    <2>5. CASE UNCHANGED <<group, perio, arg>>
      <3>1. TypeOK'
        BY <1>1, <2>1, <2>4, <2>5 DEF TypeOK, orders
      <3>2. Ending'
        BY <1>1, <2>1, <2>4, <2>5 DEF Ending
      <3>3. Stopping'
        BY <1>1, <2>1, <2>5 DEF Stopping
      <3>4. \A p \in Periods : Group(p)'
        BY <1>1, <2>1, <2>5 DEF Group
      <3> QED BY <3>1, <3>2, <3>3, <3>4 DEF ServerInv
    <2>6. ASSUME NEW p \in list, e.urr \in group[p], group' = [group EXCEPT ![p] = group[p] \ {e.urr}],
                 \/ group[p] = {e.urr} /\ perio' = "stopTicker" /\ arg' = {p}
                 \/ group[p] # {e.urr} /\ UNCHANGED <<perio, arg>>
          PROVE  ServerInv'
      <3>1. p \in Periods /\ group \in [Periods -> SUBSET Urrs] /\ perio' \in {"idle", "stopTicker"}
        BY <1>1, <2>2, <2>6 DEF TypeOK
      <3>2. /\ group' \in [Periods -> SUBSET Urrs] /\ group'[p] = group[p] \ {e.urr}
            /\ \A q \in Periods : q # p => group'[q] = group[q]
        BY <2>6, <3>1
      <3>3. arg = {} /\ arg' \subseteq Periods
        BY <1>1, <2>2, <2>6, <3>1 DEF Stopping
      <3>4. TypeOK'
        BY <1>1, <2>1, <2>4, <3>1, <3>2, <3>3 DEF TypeOK, orders
      <3>5. Ending'
        BY <1>1, <2>1, <2>4, <3>1, <2>2 DEF Ending
      <3>6. Stopping'
        BY <1>1, <2>1, <2>2, <2>6, <3>1, <3>2, <3>3 DEF Stopping
      <3>7. ASSUME NEW q \in Periods PROVE Group(q)'
        <4>1. Group(q)
          BY <1>1
        <4>2. CASE q = p
          BY <2>1, <2>6, <3>2, <4>1, <4>2 DEF Group
        <4>3. CASE q # p
          BY <2>1, <2>2, <3>2, <4>1, <4>3 DEF Group
        <4> QED BY <4>2, <4>3
      <3> QED BY <3>4, <3>5, <3>6, <3>7 DEF ServerInv
    <2> QED BY <2>3, <2>5, <2>6
  <1>4. CASE ServeTimeout
    <2>1. /\ Recv("timeout") /\ UNCHANGED <<orders, main, evt, evtOpen, srCh, srOpen, group, list, ticker, app, crashed>>
      BY <1>4 DEF ServeTimeout, mainVars
    <2>2. Taken(Head(evtCh)) /\ Head(evtCh) \in Events /\ Head(evtCh).type = "timeout" /\ perio = "idle"
      BY <1>1, <2>1, TakenEvent
    <2>3. UNCHANGED <<perio, arg>> \/ (perio' = "report" /\ arg' \subseteq Seids)
      <3> DEFINE p == Head(evtCh).period
                 G == IF p \in list THEN group[p] ELSE {}
      <3>1. \E S \in SUBSET {x[1] : x \in G} :
               IF S = {} THEN UNCHANGED <<perio, arg>> ELSE perio' = "report" /\ arg' = S
        BY <1>4 DEF ServeTimeout
      <3>2. G \subseteq Urrs
        BY <1>1 DEF TypeOK
      <3> HIDE DEF G
      <3>3. {x[1] : x \in G} \subseteq Seids
        BY <3>2 DEF Urrs
      <3> QED BY <3>1, <3>3
    <2>4. /\ evtCh' \in Seq(Events) /\ Len(evtCh') <= EvtCap
          /\ \A i \in 1 .. Len(evtCh') : evtCh'[i].type = "close" => app' # "run"
      BY <2>1, <2>2, ChannelTaken
    <2>5. TypeOK'
      BY <1>1, <2>1, <2>2, <2>3, <2>4 DEF TypeOK, orders
    <2>6. Ending'
      BY <1>1, <2>1, <2>2, <2>3, <2>4 DEF Ending
    <2>7. Stopping'
      BY <1>1, <2>1, <2>2, <2>3 DEF Stopping
    <2>8. \A p \in Periods : Group(p)'
      BY <1>1, <2>1, <2>2, <2>3 DEF Group
    <2> QED BY <2>5, <2>6, <2>7, <2>8 DEF ServerInv
  <1>5. CASE ServeClose
    <2>1. /\ Recv("close") /\ perio' = "close"
          /\ UNCHANGED <<orders, main, evt, evtOpen, srCh, srOpen, group, list, arg, ticker, app, crashed>>
      BY <1>5 DEF ServeClose, mainVars
    <2>2. Taken(Head(evtCh)) /\ Head(evtCh) \in Events /\ Head(evtCh).type = "close" /\ perio = "idle"
      BY <1>1, <2>1, TakenEvent
    <2>3. /\ evtCh' \in Seq(Events) /\ Len(evtCh') <= EvtCap
          /\ \A i \in 1 .. Len(evtCh') : evtCh'[i].type = "close" => app' # "run"
          /\ app # "run"
      BY <2>1, <2>2, ChannelTaken
    <2>4. TypeOK'
      BY <1>1, <2>1, <2>2, <2>3 DEF TypeOK, orders
    <2>5. Ending'
      BY <1>1, <2>1, <2>3 DEF Ending
    <2>6. Stopping'
      BY <1>1, <2>1, <2>2 DEF Stopping
    <2>7. \A p \in Periods : Group(p)'
      BY <1>1, <2>1, <2>2 DEF Group
    <2> QED BY <2>4, <2>5, <2>6, <2>7 DEF ServerInv
  <1>6. CASE ServeReturns
    <2>1. /\ perio = "close" /\ list = {} /\ perio' = "stopped" /\ evtOpen' = FALSE
          /\ UNCHANGED <<orders, main, evt, evtCh, srCh, srOpen, group, list, arg, ticker, app, crashed>>
      BY <1>6 DEF ServeReturns, mainVars
    <2>2. TypeOK'
      BY <1>1, <2>1 DEF TypeOK, orders
    <2>3. Ending'
      BY <1>1, <2>1 DEF Ending
    <2>4. Stopping'
      BY <1>1, <2>1 DEF Stopping
    <2>5. \A p \in Periods : Group(p)'
      BY <1>1, <2>1 DEF Group
    <2> QED BY <2>2, <2>3, <2>4, <2>5 DEF ServerInv
  <1>7. ASSUME NEW p \in Periods, StopTicker(p) PROVE ServerInv'
    <2>1. /\ perio \in {"stopTicker", "close"} /\ arg = {p} /\ arg' = {}
          /\ ticker' = [ticker EXCEPT ![p] = "none"] /\ list' = list \ {p} /\ group' = [group EXCEPT ![p] = {}]
          /\ perio' = IF perio = "close" THEN "close" ELSE "idle"
          /\ UNCHANGED <<orders, main, evt, evtCh, evtOpen, srCh, srOpen, app, crashed>>
      BY <1>7 DEF StopTicker, mainVars
    <2>2. /\ group' \in [Periods -> SUBSET Urrs] /\ ticker' \in [Periods -> {"none", "wait", "send"}]
          /\ group'[p] = {} /\ ticker'[p] = "none"
          /\ \A q \in Periods : q # p => group'[q] = group[q] /\ ticker'[q] = ticker[q]
      BY <1>1, <2>1 DEF TypeOK
    <2>3. TypeOK'
      BY <1>1, <2>1, <2>2 DEF TypeOK, orders
    <2>4. Ending'
      BY <1>1, <2>1 DEF Ending
    <2>5. Stopping'
      BY <1>1, <2>1 DEF Stopping
    <2>6. ASSUME NEW q \in Periods PROVE Group(q)'
      <3>1. Group(q)
        BY <1>1
      <3>2. CASE q = p
        BY <2>1, <2>2, <3>2 DEF Group
      <3>3. CASE q # p
        BY <2>1, <2>2, <3>1, <3>3 DEF Group
      <3> QED BY <3>2, <3>3
    <2> QED BY <2>3, <2>4, <2>5, <2>6 DEF ServerInv
  <1>8. ASSUME NEW p \in Periods, CloseNext(p) PROVE ServerInv'
    <2>1. /\ perio = "close" /\ arg = {} /\ p \in list /\ arg' = {p}
          /\ UNCHANGED <<orders, main, evt, evtCh, evtOpen, srCh, srOpen, group, list, perio, ticker, app, crashed>>
      BY <1>8 DEF CloseNext, mainVars
    <2>2. TypeOK'
      BY <1>1, <2>1 DEF TypeOK, orders
    <2>3. Ending'
      BY <1>1, <2>1 DEF Ending
    <2>4. Stopping'
      BY <1>1, <2>1 DEF Stopping
    <2>5. \A q \in Periods : Group(q)'
      BY <1>1, <2>1 DEF Group
    <2> QED BY <2>2, <2>3, <2>4, <2>5 DEF ServerInv
  <1>9. ASSUME NEW s \in Seids, NotifySessReport(s) PROVE ServerInv'
    <2>1. /\ perio = "report" /\ s \in arg /\ arg' = arg \ {s} /\ perio' = IF arg = {s} THEN "idle" ELSE "report"
          /\ UNCHANGED <<orders, main, evt, evtCh, evtOpen, srOpen, group, list, ticker, app>>
      BY <1>9 DEF NotifySessReport, mainVars
    <2>2. /\ srCh' \in Seq(Seids) /\ Len(srCh') <= SrCap /\ crashed' \in BOOLEAN
          /\ (crashed' => crashed \/ ~srOpen)
      <3>1. srCh \in Seq(Seids) /\ Len(srCh) <= SrCap /\ crashed \in BOOLEAN
        BY <1>1 DEF TypeOK
      <3>2. CASE srOpen /\ Len(srCh) < SrCap /\ srCh' = Append(srCh, s) /\ UNCHANGED crashed
        <4>1. srCh' \in Seq(Seids) /\ Len(srCh') = Len(srCh) + 1 /\ Len(srCh) \in Nat
          BY <3>1, <3>2, AppendSeq
        <4>2. Len(srCh') <= SrCap
          BY <3>2, <4>1, CapAssumption
        <4> QED BY <3>1, <3>2, <4>1, <4>2
      <3>3. CASE ~srOpen /\ crashed' = TRUE /\ UNCHANGED srCh
        BY <3>1, <3>3
      <3> QED BY <1>9, <3>2, <3>3 DEF NotifySessReport
    <2>3. perio' = "idle" => arg' = {}
      BY <2>1
    <2>4. TypeOK'
      BY <1>1, <2>1, <2>2, <2>3 DEF TypeOK, orders
    <2>5. Ending'
      BY <1>1, <2>1, <2>2 DEF Ending
    <2>6. Stopping'
      BY <1>1, <2>1, <2>3 DEF Stopping
    <2>7. \A q \in Periods : Group(q)'
      BY <1>1, <2>1 DEF Group
    <2> QED BY <2>4, <2>5, <2>6, <2>7 DEF ServerInv
  <1> QED BY <1>2, <1>3, <1>4, <1>5, <1>6, <1>7, <1>8, <1>9 DEF Serve

LEMMA ServerInit ==
  ASSUME Init PROVE ServerInv
  <1>1. Len(evtCh) = 0 /\ Len(srCh) = 0 /\ evtCh \in Seq(Events) /\ srCh \in Seq(Seids)
    BY DEF Init
  <1>2. evt \in Events /\ calls \in 0 .. MaxCalls
    BY TimeoutFields, BoundAssumption DEF Init
  <1>3. /\ urrs \in [Urrs -> Periods \cup {Never, Gone}] /\ told \in [Urrs -> Periods \cup {Never, Gone}]
        /\ twice \subseteq Urrs /\ group \in [Periods -> SUBSET Urrs]
        /\ ticker \in [Periods -> {"none", "wait", "send"}]
    BY DEF Init
  <1>4. /\ evtOpen = TRUE /\ srOpen = TRUE /\ main = "idle" /\ list = {} /\ perio = "idle" /\ arg = {}
        /\ app = "run" /\ crashed = FALSE
    BY DEF Init
  <1>5. TypeOK
    <2>1. Len(evtCh) <= EvtCap /\ Len(srCh) <= SrCap
      BY <1>1, CapAssumption
    <2>2. evtOpen \in BOOLEAN /\ srOpen \in BOOLEAN /\ crashed \in BOOLEAN
      BY <1>4
    <2>3. list \subseteq Periods /\ arg \subseteq Periods
      BY <1>4
    <2> QED BY <1>1, <1>2, <1>3, <1>4, <2>1, <2>2, <2>3 DEF TypeOK
  <1>6. \A i \in 1 .. Len(evtCh) : FALSE
    BY <1>1
  <1>7. Ending
    BY <1>4, <1>6 DEF Ending
  <1>8. Stopping
    BY <1>4 DEF Stopping
  <1>9. \A p \in Periods : Group(p)
    BY DEF Init, Group
  <1> QED BY <1>5, <1>7, <1>8, <1>9 DEF ServerInv

LEMMA ServerNext ==
  ASSUME ServerInv, [Next]_vars PROVE ServerInv'
  <1>1. CASE UNCHANGED vars
    BY <1>1 DEF vars, mainVars, orders, perioVars, ServerInv, TypeOK, Stopping, Ending, Group
  <1> QED BY <1>1, MainServerInv, ServeServerInv, TickerServerInv, AppServerInv DEF Next, Exited

\* There is one ticker goroutine per group, a group loses its last URR only
\* with its ticker, and every ticker has ended before evtCh is closed
\* (perio/server.go: newTicker, stopTicker and the loop of Serve).
THEOREM TickersDoNotLeak == Spec => []TickersMatch
  <1>1. ServerInv => TickersMatch
    BY DEF ServerInv, Group, Stopping, TickersMatch
  <1> QED BY <1>1, ServerInit, ServerNext, PTL DEF Spec

\* Neither main, nor the server, nor a ticker sends on a closed channel before
\* main has returned, which closes srCh, or the shutdown has begun, at whose end
\* Serve closes evtCh.
THEOREM PerioCrashesAfterReturn == Spec => []CrashOnlyAfterReturn
  <1>1. ServerInv => CrashOnlyAfterReturn
    BY DEF ServerInv, Ending, CrashOnlyAfterReturn
  <1> QED BY <1>1, ServerInit, ServerNext, PTL DEF Spec

-----------------------------------------------------------------------------
(* OrderInv: the events about one URR.                                     *)

LEMMA OrderKinds ==
  ASSUME NEW e \in Events, NEW x \in Urrs
  PROVE  /\ Orders(x, e) =>
               \/ e.type = "add" /\ e.period \in Periods /\ e = Add(x, e.period)
               \/ e.type = "del" /\ e = Del(x)
         /\ \A p \in Periods : e = Add(x, p) => Orders(x, e) /\ e.type = "add" /\ e.period = p
         /\ e = Del(x) => Orders(x, e) /\ e.type = "del"
  <1>1. Orders(x, e) =>
               \/ e.type = "add" /\ e.period \in Periods /\ e = Add(x, e.period)
               \/ e.type = "del" /\ e = Del(x)
    BY EventKinds DEF Orders
  <1>2. ASSUME NEW p \in Periods, e = Add(x, p) PROVE Orders(x, e) /\ e.type = "add" /\ e.period = p
    BY <1>2, EventFields DEF Orders
  <1>3. e = Del(x) => Orders(x, e) /\ e.type = "del"
    BY DelFields DEF Orders
  <1> QED BY <1>1, <1>2, <1>3

\* An event about one URR is about no other.
LEMMA OrderOne ==
  ASSUME NEW e, NEW x \in Urrs, NEW y \in Urrs, Orders(x, e), Orders(y, e) PROVE x = y
  <1> QED BY DEF Orders

\* The channel, main and the groups stay as they are for x.
LEMMA QuietOrders ==
  ASSUME NEW x \in Urrs, Agreed(x), AllApart(x),
         evtCh' = evtCh, evt' = evt, told' = told, twice' = twice, group' = group, (main = "send") <=> (main' = "send")
  PROVE  Agreed(x)' /\ AllApart(x)'
  <1>1. Agreed(x)'
    BY DEF Agreed, Sending, Matches, LastOrder, Pending, InGroups, Orders
  <1>2. ASSUME x \notin twice', NEW p \in Periods, NEW q \in Periods, p # q PROVE Apart(x, p, q)'
    <2>1. Apart(x, p, q)
      BY <1>2 DEF AllApart
    <2> QED BY <2>1 DEF Apart, OneGroup, LeavesFirst, Between, BeforeSend
  <1> QED BY <1>1, <1>2 DEF AllApart

\* A send of an event that is not about x, or of the one main has about x.
LEMMA SentAgreed ==
  ASSUME NEW x \in Urrs, NEW e, Sent(e), Agreed(x), told' = told, twice' = twice, group' = group,
         \/ ~Orders(x, e) /\ (Sending(x) <=> Sending(x)') /\ (Sending(x) => evt' = evt)
         \/ Sending(x) /\ e = evt /\ ~Sending(x)'
  PROVE  Agreed(x)'
  <1> DEFINE n == Len(evtCh)
  <1>1. /\ n \in Nat /\ Len(evtCh') = n + 1 /\ evtCh'[n + 1] = e
        /\ \A i \in 1 .. n : evtCh'[i] = evtCh[i]
    BY DEF Sent
  <1>2. \A i \in 1 .. Len(evtCh') : i \in 1 .. n \/ i = n + 1
    BY <1>1
  <1>3. n + 1 \in 1 .. Len(evtCh') /\ \A i \in 1 .. n : i \in 1 .. Len(evtCh') /\ ~(i > n) /\ ~(i > n + 1)
    BY <1>1
  <1> HIDE DEF n
  <1>4. CASE Sending(x) /\ e = evt /\ ~Sending(x)'
    <2>1. Matches(x, evt) /\ Orders(x, evt)
      BY <1>4 DEF Agreed, Pending, Sending
    <2>2. PICK m \in 1 .. Len(evtCh') : m = n + 1
      BY <1>3
    <2>3. Orders(x, evtCh[m])' /\ Matches(x, evtCh[m])'
      BY <1>1, <1>4, <2>1, <2>2 DEF Matches, Orders
    <2>4. \A j \in 1 .. Len(evtCh') : ~(j > m)
      BY <1>1, <1>2, <1>3, <2>2
    <2>5. LastOrder(x, m)'
      BY <2>3, <2>4 DEF LastOrder
    <2> QED BY <1>4, <2>3, <2>5 DEF Agreed
  <1>5. CASE ~Orders(x, e) /\ (Sending(x) <=> Sending(x)') /\ (Sending(x) => evt' = evt)
    <2>1. CASE Sending(x) /\ Matches(x, evt)
      BY <1>5, <2>1 DEF Agreed, Matches
    <2>2. ASSUME ~Sending(x), NEW i \in 1 .. Len(evtCh), LastOrder(x, i), Matches(x, evtCh[i])
          PROVE  Agreed(x)'
      <3>1. i \in 1 .. n /\ i \in 1 .. Len(evtCh')
        BY <1>3, <2>2 DEF n
      <3>2. Orders(x, evtCh[i])' /\ Matches(x, evtCh[i])'
        BY <1>1, <2>2, <3>1 DEF LastOrder, Matches, Orders
      <3>3. ASSUME NEW j \in 1 .. Len(evtCh'), j > i PROVE ~Orders(x, evtCh'[j])
        BY <1>1, <1>2, <1>5, <2>2, <3>3 DEF LastOrder, n
      <3>4. LastOrder(x, i)'
        BY <3>2, <3>3 DEF LastOrder, Orders
      <3> QED BY <1>5, <2>2, <3>1, <3>2, <3>4 DEF Agreed
    <2>3. CASE ~Pending(x) /\ InGroups(x)
      <3>1. ~Sending(x) /\ \A i \in 1 .. n : ~Orders(x, evtCh[i])
        BY <2>3 DEF Pending, Sending, n
      <3>2. \A i \in 1 .. Len(evtCh') : ~Orders(x, evtCh'[i])
        BY <1>1, <1>2, <1>5, <3>1
      <3>3. ~Pending(x)'
        BY <1>5, <3>1, <3>2 DEF Pending, Sending
      <3> QED BY <2>3, <3>3 DEF Agreed, InGroups
    <2> QED BY <2>1, <2>2, <2>3 DEF Agreed
  <1> QED BY <1>4, <1>5

LEMMA SentApart ==
  ASSUME TypeOK, NEW x \in Urrs, NEW p \in Periods, NEW q \in Periods, p # q, NEW e, Sent(e),
         Apart(x, p, q), group' = group,
         \/ ~Orders(x, e) /\ main' = main /\ evt' = evt
         \/ main = "send" /\ e = evt /\ main' # "send"
  PROVE  Apart(x, p, q)'
  <1> DEFINE n == Len(evtCh)
  <1>1. /\ n \in Nat /\ Len(evtCh') = n + 1 /\ evtCh'[n + 1] = e /\ e \in Events
        /\ \A i \in 1 .. n : evtCh'[i] = evtCh[i]
    BY DEF Sent
  <1>2. \A i \in 1 .. Len(evtCh') : i \in 1 .. n \/ i = n + 1
    BY <1>1
  <1>3. \A i \in 1 .. n : i \in 1 .. Len(evtCh') /\ i < n + 1 /\ ~(n + 1 < i)
    BY <1>1
  <1>4. OneGroup(x, p, q) /\ LeavesFirst(x, p, q) /\ Between(x, p, q) /\ BeforeSend(x, p, q)
    BY DEF Apart
  <1>5. e = Add(x, q) => main = "send" /\ evt = Add(x, q) /\ main' # "send"
    BY <1>1, OrderKinds
  <1> HIDE DEF n
  <1>6. OneGroup(x, p, q)'
    BY <1>4 DEF OneGroup
  <1>7. LeavesFirst(x, p, q)'
    <2> SUFFICES ASSUME x \in group[p], NEW j \in 1 .. Len(evtCh'), evtCh'[j] = Add(x, q)
                 PROVE  \E k \in 1 .. Len(evtCh') : k < j /\ evtCh'[k] = Del(x)
      BY DEF LeavesFirst
    <2>1. CASE j \in 1 .. n
      <3>1. PICK k \in 1 .. n : k < j /\ evtCh[k] = Del(x)
        BY <1>1, <1>4, <2>1 DEF LeavesFirst, n
      <3> QED BY <1>1, <1>3, <3>1
    <2>2. CASE j = n + 1
      <3>1. PICK k \in 1 .. n : evtCh[k] = Del(x)
        BY <1>1, <1>4, <1>5, <2>2 DEF BeforeSend, n
      <3> QED BY <1>1, <1>3, <2>2, <3>1
    <2> QED BY <1>2, <2>1, <2>2
  <1>8. Between(x, p, q)'
    <2> SUFFICES ASSUME NEW i \in 1 .. Len(evtCh'), NEW j \in 1 .. Len(evtCh'),
                        evtCh'[i] = Add(x, p), evtCh'[j] = Add(x, q), i < j
                 PROVE  \E k \in 1 .. Len(evtCh') : i < k /\ k < j /\ evtCh'[k] = Del(x)
      BY DEF Between
    <2>1. i \in 1 .. n
      BY <1>1, <1>2, <1>3
    <2>2. CASE j \in 1 .. n
      <3>1. PICK k \in 1 .. n : i < k /\ k < j /\ evtCh[k] = Del(x)
        BY <1>1, <1>4, <2>1, <2>2 DEF Between, n
      <3> QED BY <1>1, <1>3, <3>1
    <2>3. CASE j = n + 1
      <3>1. PICK k \in 1 .. n : i < k /\ evtCh[k] = Del(x)
        BY <1>1, <1>4, <1>5, <2>1, <2>3 DEF BeforeSend, n
      <3> QED BY <1>1, <1>3, <2>3, <3>1
    <2> QED BY <1>2, <2>2, <2>3
  <1>9. BeforeSend(x, p, q)'
    <2> SUFFICES ASSUME main' = "send", evt' = Add(x, q)
                 PROVE  /\ x \in group[p] => \E k \in 1 .. Len(evtCh') : evtCh'[k] = Del(x)
                        /\ \A i \in 1 .. Len(evtCh') :
                              evtCh'[i] = Add(x, p) => \E k \in 1 .. Len(evtCh') : i < k /\ evtCh'[k] = Del(x)
      BY DEF BeforeSend
    <2>1. ~Orders(x, e) /\ main = "send" /\ evt = Add(x, q)
      OBVIOUS
    <2>2. x \in group[p] => \E k \in 1 .. Len(evtCh') : evtCh'[k] = Del(x)
      <3> SUFFICES ASSUME x \in group[p] PROVE \E k \in 1 .. Len(evtCh') : evtCh'[k] = Del(x)
        OBVIOUS
      <3>1. PICK k \in 1 .. n : evtCh[k] = Del(x)
        BY <1>4, <2>1 DEF BeforeSend, n
      <3> QED BY <1>1, <1>3, <3>1
    <2>3. ASSUME NEW i \in 1 .. Len(evtCh'), evtCh'[i] = Add(x, p)
          PROVE  \E k \in 1 .. Len(evtCh') : i < k /\ evtCh'[k] = Del(x)
      <3>1. i \in 1 .. n
        BY <1>1, <1>2, <2>1, <2>3, OrderKinds
      <3>2. PICK k \in 1 .. n : i < k /\ evtCh[k] = Del(x)
        BY <1>1, <1>4, <2>1, <2>3, <3>1 DEF BeforeSend, n
      <3> QED BY <1>1, <1>3, <3>2
    <2> QED BY <2>2, <2>3
  <1> QED BY <1>6, <1>7, <1>8, <1>9 DEF Apart

\* The server takes the event e.
LEMMA TakenAgreed ==
  ASSUME NEW x \in Urrs, NEW e, Taken(e), Agreed(x), told' = told, twice' = twice, main' = main, evt' = evt,
         ~Orders(x, e) => \A p \in Periods : x \in group'[p] <=> x \in group[p],
         Orders(x, e) /\ Matches(x, e) => InGroups(x)'
  PROVE  Agreed(x)'
  <1> DEFINE n == Len(evtCh)
  <1>1. /\ n \in Nat /\ Len(evtCh') = n - 1 /\ n >= 1 /\ e = evtCh[1]
        /\ \A i \in 1 .. Len(evtCh') : evtCh'[i] = evtCh[i + 1]
    BY DEF Taken
  <1>2. 1 \in 1 .. n /\ \A i \in 1 .. Len(evtCh') : i + 1 \in 1 .. n /\ i + 1 > 1
    BY <1>1
  <1>3. Sending(x) <=> Sending(x)'
    BY DEF Sending
  <1>4. CASE Sending(x) /\ Matches(x, evt)
    BY <1>3, <1>4 DEF Agreed, Matches
  <1>5. ASSUME ~Sending(x), NEW i \in 1 .. Len(evtCh), LastOrder(x, i), Matches(x, evtCh[i])
        PROVE  Agreed(x)'
    <2>1. CASE i = 1
      <3>1. InGroups(x)'
        BY <1>1, <1>5, <2>1 DEF LastOrder
      <3>2. \A j \in 1 .. Len(evtCh') : ~Orders(x, evtCh'[j])
        BY <1>1, <1>2, <1>5, <2>1 DEF LastOrder
      <3>3. ~Pending(x)'
        BY <1>3, <1>5, <3>2 DEF Pending, Sending, Orders
      <3> QED BY <3>1, <3>3 DEF Agreed
    <2>2. CASE i # 1
      <3>1. PICK m \in 1 .. Len(evtCh') : m + 1 = i
        <4>1. i - 1 \in 1 .. Len(evtCh') /\ (i - 1) + 1 = i
          BY <1>1, <1>5, <2>2
        <4> QED BY <4>1
      <3>2. evtCh'[m] = evtCh[i]
        BY <1>1, <3>1
      <3>3. Orders(x, evtCh[m])' /\ Matches(x, evtCh[m])'
        BY <1>5, <3>2 DEF LastOrder, Matches, Orders
      <3>4. ASSUME NEW j \in 1 .. Len(evtCh'), j > m PROVE ~Orders(x, evtCh'[j])
        <4>1. j + 1 \in 1 .. n /\ j + 1 > i /\ evtCh'[j] = evtCh[j + 1]
          BY <1>1, <1>2, <3>1, <3>4
        <4> QED BY <1>5, <4>1 DEF LastOrder
      <3>5. LastOrder(x, m)'
        BY <3>3, <3>4 DEF LastOrder, Orders
      <3> QED BY <1>3, <1>5, <3>3, <3>5 DEF Agreed
    <2> QED BY <2>1, <2>2
  <1>6. CASE ~Pending(x) /\ InGroups(x)
    <2>1. ~Sending(x) /\ \A i \in 1 .. n : ~Orders(x, evtCh[i])
      BY <1>6 DEF Pending, Sending
    <2>2. ~Orders(x, e) /\ \A i \in 1 .. Len(evtCh') : ~Orders(x, evtCh'[i])
      BY <1>1, <1>2, <2>1
    <2>3. ~Pending(x)'
      BY <1>3, <2>1, <2>2 DEF Pending, Sending, Orders
    <2> QED BY <1>6, <2>2, <2>3 DEF Agreed, InGroups
  <1> QED BY <1>4, <1>5, <1>6 DEF Agreed

LEMMA TakenApart ==
  ASSUME TypeOK, NEW x \in Urrs, NEW p \in Periods, NEW q \in Periods, p # q, NEW e, Taken(e),
         \A r, s \in Periods : r # s => Apart(x, r, s),
         main' = main, evt' = evt,
         ~Orders(x, e) => \A r \in Periods : x \in group'[r] <=> x \in group[r],
         e = Del(x) => \A r \in Periods : x \notin group'[r],
         \A s \in Periods : e = Add(x, s) => \A r \in Periods : x \in group'[r] <=> (x \in group[r] \/ r = s)
  PROVE  Apart(x, p, q)'
  <1> DEFINE n == Len(evtCh)
  <1>1. /\ n \in Nat /\ Len(evtCh') = n - 1 /\ n >= 1 /\ e = evtCh[1] /\ e \in Events
        /\ \A i \in 1 .. Len(evtCh') : evtCh'[i] = evtCh[i + 1]
    BY DEF Taken
  <1>2. 1 \in 1 .. n /\ \A i \in 1 .. Len(evtCh') : i + 1 \in 1 .. n /\ 1 < i + 1
    BY <1>1
  <1>3. \A k \in 1 .. n : 1 < k => k - 1 \in 1 .. Len(evtCh') /\ evtCh'[k - 1] = evtCh[k]
    BY <1>1
  <1>4. \A i \in 1 .. Len(evtCh') : \A k \in 1 .. n : (i + 1 < k => i < k - 1) /\ (k < i + 1 => k - 1 < i)
    BY <1>1
  <1>5. OneGroup(x, p, q) /\ LeavesFirst(x, p, q) /\ Between(x, p, q) /\ BeforeSend(x, p, q)
    BY DEF Apart
  <1>6. ASSUME NEW s \in Periods, e = Add(x, s) PROVE \A r \in Periods : r # s => x \notin group[r]
    <2> SUFFICES ASSUME NEW r \in Periods, r # s, x \in group[r] PROVE FALSE
      OBVIOUS
    <2>1. Apart(x, r, s)
      OBVIOUS
    <2>2. PICK k \in 1 .. n : k < 1
      BY <1>1, <1>2, <1>6, <2>1 DEF Apart, LeavesFirst
    <2> QED BY <2>2
  <1> HIDE DEF n
  \* what x \in group'[p] comes from
  <1>7. ASSUME x \in group'[p]
        PROVE  \/ ~Orders(x, e) /\ x \in group[p]
               \/ e = Add(x, p)
    <2>1. CASE ~Orders(x, e)
      BY <1>7, <2>1
    <2>2. CASE Orders(x, e)
      <3>1. PICK s \in Periods : e = Add(x, s)
        BY <1>1, <1>7, <2>2, OrderKinds
      <3>2. x \in group[p] \/ p = s
        BY <1>7, <3>1
      <3>3. p # s => x \notin group[p]
        BY <1>6, <3>1
      <3> QED BY <3>1, <3>2, <3>3
    <2> QED BY <2>1, <2>2
  <1>8. OneGroup(x, p, q)'
    <2> SUFFICES ASSUME x \in group'[p], x \in group'[q] PROVE FALSE
      BY DEF OneGroup
    <2>1. CASE ~Orders(x, e)
      BY <1>5, <2>1 DEF OneGroup
    <2>2. CASE e = Add(x, p)
      <3>1. x \in group[q]
        BY <2>2
      <3> QED BY <1>6, <2>2, <3>1
    <2> QED BY <1>7, <2>1, <2>2
  <1>9. LeavesFirst(x, p, q)'
    <2> SUFFICES ASSUME x \in group'[p], NEW j \in 1 .. Len(evtCh'), evtCh'[j] = Add(x, q)
                 PROVE  \E k \in 1 .. Len(evtCh') : k < j /\ evtCh'[k] = Del(x)
      BY DEF LeavesFirst
    <2>1. j + 1 \in 1 .. n /\ evtCh[j + 1] = Add(x, q) /\ 1 < j + 1
      BY <1>1, <1>2
    <2>2. PICK k \in 1 .. n : k < j + 1 /\ evtCh[k] = Del(x) /\ 1 < k
      <3>1. CASE ~Orders(x, e) /\ x \in group[p]
        <4>1. PICK k \in 1 .. n : k < j + 1 /\ evtCh[k] = Del(x)
          BY <1>5, <2>1, <3>1 DEF LeavesFirst, n
        <4>2. k # 1
          BY <1>1, <3>1, <4>1, OrderKinds
        <4> QED BY <1>1, <4>1, <4>2
      <3>2. CASE e = Add(x, p)
        BY <1>1, <1>2, <1>5, <2>1, <3>2 DEF Between, n
      <3> QED BY <1>7, <3>1, <3>2
    <2> QED BY <1>3, <1>4, <2>2
  <1>10. Between(x, p, q)'
    <2> SUFFICES ASSUME NEW i \in 1 .. Len(evtCh'), NEW j \in 1 .. Len(evtCh'),
                        evtCh'[i] = Add(x, p), evtCh'[j] = Add(x, q), i < j
                 PROVE  \E k \in 1 .. Len(evtCh') : i < k /\ k < j /\ evtCh'[k] = Del(x)
      BY DEF Between
    <2>1. /\ i + 1 \in 1 .. n /\ j + 1 \in 1 .. n /\ evtCh[i + 1] = Add(x, p) /\ evtCh[j + 1] = Add(x, q)
          /\ i + 1 < j + 1
      BY <1>1, <1>2
    <2>2. PICK k \in 1 .. n : i + 1 < k /\ k < j + 1 /\ evtCh[k] = Del(x)
      BY <1>5, <2>1 DEF Between, n
    <2>3. 1 < k
      BY <1>1, <2>2
    <2> QED BY <1>3, <1>4, <2>2, <2>3
  <1>11. BeforeSend(x, p, q)'
    <2> SUFFICES ASSUME main = "send", evt = Add(x, q)
                 PROVE  /\ x \in group'[p] => \E k \in 1 .. Len(evtCh') : evtCh'[k] = Del(x)
                        /\ \A i \in 1 .. Len(evtCh') :
                              evtCh'[i] = Add(x, p) => \E k \in 1 .. Len(evtCh') : i < k /\ evtCh'[k] = Del(x)
      BY DEF BeforeSend
    <2>1. ASSUME x \in group'[p] PROVE \E k \in 1 .. Len(evtCh') : evtCh'[k] = Del(x)
      <3>1. PICK k \in 1 .. n : evtCh[k] = Del(x) /\ 1 < k
        <4>1. CASE ~Orders(x, e) /\ x \in group[p]
          <5>1. PICK k \in 1 .. n : evtCh[k] = Del(x)
            BY <1>5, <4>1 DEF BeforeSend, n
          <5>2. k # 1
            BY <1>1, <4>1, <5>1, OrderKinds
          <5> QED BY <1>1, <5>1, <5>2
        <4>2. CASE e = Add(x, p)
          BY <1>1, <1>2, <1>5, <4>2 DEF BeforeSend, n
        <4> QED BY <1>7, <2>1, <4>1, <4>2
      <3> QED BY <1>3, <3>1
    <2>2. ASSUME NEW i \in 1 .. Len(evtCh'), evtCh'[i] = Add(x, p)
          PROVE  \E k \in 1 .. Len(evtCh') : i < k /\ evtCh'[k] = Del(x)
      <3>1. i + 1 \in 1 .. n /\ evtCh[i + 1] = Add(x, p)
        BY <1>1, <1>2, <2>2
      <3>2. PICK k \in 1 .. n : i + 1 < k /\ evtCh[k] = Del(x)
        BY <1>5, <3>1 DEF BeforeSend, n
      <3>3. 1 < k
        BY <1>1, <3>2
      <3> QED BY <1>3, <1>4, <3>2, <3>3
    <2> QED BY <2>1, <2>2
  <1> QED BY <1>8, <1>9, <1>10, <1>11 DEF Apart

\* main orders something about y: nothing changes for the other URRs.
LEMMA OrderedOther ==
  ASSUME NEW x \in Urrs, Agreed(x), AllApart(x),
         main # "send", evtCh' = evtCh, group' = group, told'[x] = told[x] /\ (x \in twice => x \in twice'), ~Orders(x, evt'),
         evt' \in Events
  PROVE  Agreed(x)' /\ AllApart(x)'
  <1>1. ~Sending(x) /\ ~Sending(x)'
    BY DEF Sending
  <1>2. ASSUME NEW i \in 1 .. Len(evtCh), LastOrder(x, i), Matches(x, evtCh[i]) PROVE Agreed(x)'
    <2>1. LastOrder(x, i)' /\ Matches(x, evtCh[i])'
      BY <1>2 DEF LastOrder, Matches, Orders
    <2> QED BY <1>1, <2>1 DEF Agreed
  <1>3. ASSUME ~Pending(x), InGroups(x) PROVE Agreed(x)'
    <2>1. ~Pending(x)'
      BY <1>3 DEF Pending, Orders
    <2>2. InGroups(x)'
      BY <1>3 DEF InGroups
    <2> QED BY <2>1, <2>2 DEF Agreed
  <1>4. Agreed(x)'
    BY <1>1, <1>2, <1>3 DEF Agreed
  <1>5. ASSUME x \notin twice', NEW p \in Periods, NEW q \in Periods, p # q PROVE Apart(x, p, q)'
    <2>1. Apart(x, p, q) /\ evt' # Add(x, q)
      BY <1>5, OrderKinds DEF AllApart
    <2> QED BY <2>1 DEF Apart, OneGroup, LeavesFirst, Between, BeforeSend
  <1> QED BY <1>4, <1>5 DEF AllApart

\* main orders the URR x itself.
LEMMA CreatedOrder ==
  ASSUME TypeOK, NEW x \in Urrs, NEW r \in Periods, CreateURR(x, r),
         Agreed(x), AllApart(x)
  PROVE  Agreed(x)' /\ AllApart(x)'
  <1>1. /\ main = "idle" /\ main' = "send" /\ evt' = Add(x, r) /\ told'[x] = r
        /\ evtCh' = evtCh /\ group' = group
        /\ (x \notin twice' => x \notin twice /\ (told[x] \in Periods => r = told[x]))
        /\ evtCh \in Seq(Events)
    BY DEF CreateURR, TypeOK, perioVars
  <1>2. evt' \in Events /\ Orders(x, evt') /\ evt'.type = "add" /\ evt'.period = r
    BY <1>1, EventFields DEF Orders
  <1>3. Agreed(x)'
    BY <1>1, <1>2 DEF Agreed, Sending, Matches, Orders
  <1>4. ASSUME x \notin twice', NEW p \in Periods, NEW q \in Periods, p # q PROVE Apart(x, p, q)'
    <2>1. OneGroup(x, p, q) /\ LeavesFirst(x, p, q) /\ Between(x, p, q)
      BY <1>1, <1>4 DEF Apart, AllApart
    <2>2. OneGroup(x, p, q)' /\ LeavesFirst(x, p, q)' /\ Between(x, p, q)'
      BY <1>1, <2>1 DEF OneGroup, LeavesFirst, Between
    <2>3. BeforeSend(x, p, q)'
      <3> SUFFICES ASSUME evt' = Add(x, q)
                   PROVE  /\ x \in group[p] => \E k \in 1 .. Len(evtCh) : evtCh[k] = Del(x)
                          /\ \A i \in 1 .. Len(evtCh) :
                                evtCh[i] = Add(x, p) => \E k \in 1 .. Len(evtCh) : i < k /\ evtCh[k] = Del(x)
        BY <1>1 DEF BeforeSend
      <3>1. q = r
        BY <1>2, OrderKinds
      <3>2. CASE ~Pending(x) /\ InGroups(x)
        <4>1. x \notin group[p]
          BY <1>1, <1>4, <3>1, <3>2 DEF InGroups
        <4>2. \A i \in 1 .. Len(evtCh) : evtCh[i] # Add(x, p)
          <5> TAKE i \in 1 .. Len(evtCh)
          <5>1. ~Orders(x, evtCh[i]) /\ evtCh[i] \in Events
            BY <1>1, <3>2 DEF Pending
          <5> QED BY <5>1, OrderKinds
        <4> QED BY <4>1, <4>2
      <3>3. ASSUME NEW l \in 1 .. Len(evtCh), LastOrder(x, l), Matches(x, evtCh[l])
            PROVE  /\ x \in group[p] => \E k \in 1 .. Len(evtCh) : evtCh[k] = Del(x)
                   /\ \A i \in 1 .. Len(evtCh) :
                         evtCh[i] = Add(x, p) => \E k \in 1 .. Len(evtCh) : i < k /\ evtCh[k] = Del(x)
        <4>1. Orders(x, evtCh[l]) /\ evtCh[l] \in Events
          BY <1>1, <3>3 DEF LastOrder
        <4>2. evtCh[l] = Add(x, q) \/ evtCh[l] = Del(x)
          <5>1. CASE evtCh[l].type = "add"
            <6>1. evtCh[l].period \in Periods /\ evtCh[l] = Add(x, evtCh[l].period) /\ told[x] = evtCh[l].period
              BY <3>3, <4>1, <5>1, OrderKinds DEF Matches
            <6> QED BY <1>1, <1>4, <3>1, <6>1
          <5>2. CASE evtCh[l].type # "add"
            BY <4>1, <5>2, OrderKinds
          <5> QED BY <5>1, <5>2
        <4>3. ASSUME NEW i \in 1 .. Len(evtCh), evtCh[i] = Add(x, p) PROVE i < l
          <5>1. evtCh[i] # evtCh[l]
            <6>1. evtCh[i] \in Events /\ evtCh[i].type = "add" /\ evtCh[i].period = p
              BY <1>1, <4>3, OrderKinds
            <6>2. evtCh[l] = Add(x, q) => evtCh[l].period = q
              BY <4>1, OrderKinds
            <6>3. evtCh[l] = Del(x) => evtCh[l].type = "del"
              BY <4>1, OrderKinds
            <6> QED BY <1>4, <4>2, <6>1, <6>2, <6>3
          <5>2. Orders(x, evtCh[i])
            BY <1>1, <4>3, OrderKinds
          <5>3. ~(i > l)
            BY <3>3, <5>2 DEF LastOrder
          <5> QED BY <1>1, <5>1, <5>3
        <4>4. x \in group[p] => \E k \in 1 .. Len(evtCh) : evtCh[k] = Del(x)
          BY <2>1, <4>2 DEF LeavesFirst
        <4>5. ASSUME NEW i \in 1 .. Len(evtCh), evtCh[i] = Add(x, p)
              PROVE  \E k \in 1 .. Len(evtCh) : i < k /\ evtCh[k] = Del(x)
          <5>1. i < l
            BY <4>3, <4>5
          <5> QED BY <2>1, <4>2, <4>5, <5>1 DEF Between
        <4> QED BY <4>4, <4>5
      <3> QED BY <1>1, <3>2, <3>3 DEF Agreed, Sending
    <2> QED BY <2>2, <2>3 DEF Apart
  <1> QED BY <1>3, <1>4 DEF AllApart

LEMMA RemovedOrder ==
  ASSUME TypeOK, NEW x \in Urrs, RemoveURR(x), Agreed(x), AllApart(x)
  PROVE  Agreed(x)' /\ AllApart(x)'
  <1>1. /\ main' = "send" /\ evt' = Del(x) /\ told'[x] = Gone /\ twice' = twice /\ evtCh' = evtCh /\ group' = group
    BY DEF RemoveURR, TypeOK, perioVars
  <1>2. evt' \in Events /\ Orders(x, evt') /\ evt'.type = "del"
    BY <1>1, DelFields DEF Orders
  <1>3. Agreed(x)'
    BY <1>1, <1>2 DEF Agreed, Sending, Matches, Orders
  <1>4. ASSUME x \notin twice', NEW p \in Periods, NEW q \in Periods, p # q PROVE Apart(x, p, q)'
    <2>1. Apart(x, p, q) /\ evt' # Add(x, q)
      BY <1>1, <1>2, <1>4, OrderKinds DEF AllApart
    <2> QED BY <1>1, <2>1 DEF Apart, OneGroup, LeavesFirst, Between, BeforeSend
  <1> QED BY <1>3, <1>4 DEF AllApart

\* A server that is closing does not serve again.
LEMMA StillServing ==
  ASSUME [Next]_vars, Serving' PROVE Serving
  <1>1. CASE Main
    BY <1>1 DEF Serving, Main, CreateURR, UpdateURR, RemoveURR, MainSend, MainReport, MainReturns, perioVars
  <1>2. CASE Serve
    BY <1>2 DEF Serving, Serve, ServeAdd, ServeDel, ServeTimeout, ServeClose, ServeReturns, StopTicker,
                CloseNext, NotifySessReport, Recv, perioVars
  <1>3. CASE (\E p \in Periods : Ticker(p)) \/ Shutdown \/ Close
    BY <1>3 DEF Serving, Ticker, Tick, TickerSend, Shutdown, Close, perioVars
  <1>4. CASE UNCHANGED vars
    BY <1>4 DEF Serving, vars, perioVars
  <1> QED BY <1>1, <1>2, <1>3, <1>4 DEF Next, Exited

LEMMA MainOrders ==
  ASSUME ServerInv, Serving, Main, NEW x \in Urrs,
         Agreed(x), AllApart(x)
  PROVE  Agreed(x)' /\ AllApart(x)'
  <1>1. TypeOK /\ Stopping
    BY DEF ServerInv
  <1>2. ASSUME NEW y \in Urrs, NEW r \in Periods, CreateURR(y, r)
        PROVE  Agreed(x)' /\ AllApart(x)'
    <2>1. CASE x = y
      BY <1>1, <1>2, <2>1, CreatedOrder
    <2>2. CASE x # y
      <3>1. main # "send" /\ evtCh' = evtCh /\ group' = group /\ told'[x] = told[x] /\ (x \in twice => x \in twice')
        BY <1>1, <1>2, <2>2 DEF CreateURR, TypeOK, perioVars
      <3>2. evt' \in Events /\ Orders(y, evt')
        BY <1>2, EventFields DEF CreateURR, Orders
      <3>3. ~Orders(x, evt')
        BY <2>2, <3>2, OrderOne
      <3> QED BY <3>1, <3>2, <3>3, OrderedOther
    <2> QED BY <2>1, <2>2
  <1>3. ASSUME NEW y \in Urrs, RemoveURR(y)
        PROVE  Agreed(x)' /\ AllApart(x)'
    <2>1. CASE x = y
      BY <1>1, <1>3, <2>1, RemovedOrder
    <2>2. CASE x # y
      <3>1. main # "send" /\ evtCh' = evtCh /\ group' = group /\ told'[x] = told[x] /\ (x \in twice => x \in twice')
        BY <1>1, <1>3, <2>2 DEF RemoveURR, TypeOK, perioVars
      <3>2. evt' \in Events /\ Orders(y, evt')
        BY <1>3, DelFields DEF RemoveURR, Orders
      <3>3. ~Orders(x, evt')
        BY <2>2, <3>2, OrderOne
      <3> QED BY <3>1, <3>2, <3>3, OrderedOther
    <2> QED BY <2>1, <2>2
  <1>4. CASE MainSend
    <2>1. /\ evtOpen /\ Len(evtCh) < EvtCap /\ evtCh' = Append(evtCh, evt)
          /\ main = "send" /\ main' = "idle" /\ told' = told /\ twice' = twice /\ group' = group
          /\ evt \in Events
      BY <1>1, <1>4 DEF MainSend, Stopping, Serving, perioVars, orders, TypeOK
    <2>2. Sent(evt)
      BY <1>1, <2>1, SentEvent
    <2>3. \/ ~Orders(x, evt) /\ (Sending(x) <=> Sending(x)') /\ ~Sending(x)
          \/ Sending(x) /\ ~Sending(x)'
      BY <2>1 DEF Sending
    <2>4. Agreed(x)'
      BY <2>1, <2>2, <2>3, SentAgreed
    <2>5. ASSUME x \notin twice', NEW p \in Periods, NEW q \in Periods, p # q PROVE Apart(x, p, q)'
      <3>1. Apart(x, p, q) /\ main' # "send"
        BY <2>1, <2>5 DEF AllApart
      <3> QED BY <1>1, <2>1, <2>2, <2>5, <3>1, SentApart
    <2> QED BY <2>4, <2>5 DEF AllApart
  <1>5. CASE MainReport \/ MainReturns \/ \E y \in Urrs, r \in Periods \cup {Never} : UpdateURR(y, r)
    <2>1. /\ evtCh' = evtCh /\ evt' = evt /\ told' = told /\ twice' = twice /\ group' = group
          /\ (main = "send") <=> (main' = "send")
      BY <1>5 DEF MainReport, MainReturns, UpdateURR, mainVars, orders, perioVars
    <2> QED BY <2>1, QuietOrders
  <1> QED BY <1>2, <1>3, <1>4, <1>5 DEF Main

LEMMA OthersOrders ==
  ASSUME ServerInv, (\E p \in Periods : Ticker(p)) \/ Shutdown \/ Close, NEW x \in Urrs,
         Agreed(x), AllApart(x)
  PROVE  Agreed(x)' /\ AllApart(x)'
  <1>1. TypeOK
    BY DEF ServerInv
  <1>2. CASE (\E p \in Periods : Tick(p)) \/ Shutdown
    <2>1. evtCh' = evtCh /\ evt' = evt /\ told' = told /\ twice' = twice /\ group' = group /\ main' = main
      BY <1>2 DEF Tick, Shutdown, mainVars, orders, perioVars
    <2> QED BY <2>1, QuietOrders
  <1>3. CASE (\E p \in Periods : TickerSend(p)) \/ Close
    <2>1. /\ evt' = evt /\ told' = told /\ twice' = twice /\ group' = group /\ main' = main
          /\ \E e \in Events : evtCh' = Append(evtCh, e) /\ e.type \in {"timeout", "close"}
          /\ Len(evtCh) < EvtCap
      BY <1>3, TimeoutFields DEF TickerSend, Close, mainVars, orders, perioVars
    <2>2. PICK e \in Events : evtCh' = Append(evtCh, e) /\ e.type \in {"timeout", "close"}
      BY <2>1
    <2>3. Sent(e) /\ ~Orders(x, e)
      BY <1>1, <2>1, <2>2, SentEvent DEF Orders
    <2>4. Sending(x) <=> Sending(x)'
      BY <2>1 DEF Sending
    <2>5. Agreed(x)'
      BY <2>1, <2>3, <2>4, SentAgreed
    <2>6. ASSUME x \notin twice', NEW p \in Periods, NEW q \in Periods, p # q PROVE Apart(x, p, q)'
      <3>1. Apart(x, p, q)
        BY <2>1, <2>6 DEF AllApart
      <3> QED BY <1>1, <2>1, <2>3, <2>6, <3>1, SentApart
    <2> QED BY <2>5, <2>6 DEF AllApart
  <1> QED BY <1>2, <1>3 DEF Ticker

LEMMA ServeOrders ==
  ASSUME ServerInv, Serving, Serving', Serve, NEW x \in Urrs,
         Agreed(x), AllApart(x)
  PROVE  Agreed(x)' /\ AllApart(x)'
  <1>1. TypeOK /\ Stopping /\ (\A p \in Periods : Group(p)) /\ group \in [Periods -> SUBSET Urrs]
    BY DEF ServerInv, TypeOK
  \* a receipt, and what it does to the groups of x
  <1>2. ASSUME NEW e, Taken(e), e \in Events, told' = told, twice' = twice, main' = main, evt' = evt,
               ~Orders(x, e) => \A r \in Periods : x \in group'[r] <=> x \in group[r],
               x \notin twice /\ e = Del(x) => \A r \in Periods : x \notin group'[r],
               \A s \in Periods : e = Add(x, s) => \A r \in Periods : x \in group'[r] <=> (x \in group[r] \/ r = s)
        PROVE  Agreed(x)' /\ AllApart(x)'
    <2>1. ASSUME Orders(x, e), Matches(x, e) PROVE InGroups(x)'
      <3>1. CASE e.type = "add"
        <4>1. e.period \in Periods /\ e = Add(x, e.period) /\ told[x] = e.period
          BY <1>2, <2>1, <3>1, OrderKinds DEF Matches
        <4>2. ASSUME x \notin twice, NEW r \in Periods, r # e.period PROVE x \notin group[r]
          <5>1. LeavesFirst(x, r, e.period)
            BY <4>1, <4>2 DEF Apart, AllApart
          <5>2. 1 \in 1 .. Len(evtCh) /\ evtCh[1] = e /\ Len(evtCh) \in Nat
            BY <1>2 DEF Taken
          <5>3. x \in group[r] => \E k \in 1 .. Len(evtCh) : k < 1
            BY <4>1, <5>1, <5>2 DEF LeavesFirst
          <5> QED BY <5>3
        <4> QED BY <1>2, <4>1, <4>2 DEF InGroups
      <3>2. CASE e.type # "add"
        <4>1. e = Del(x) /\ told[x] = Gone
          BY <1>2, <2>1, <3>2, OrderKinds DEF Matches
        <4> QED BY <1>2, <4>1, PeriodAssumption DEF InGroups
      <3> QED BY <3>1, <3>2
    <2>2. Agreed(x)'
      BY <1>2, <2>1, TakenAgreed
    <2>3. ASSUME x \notin twice', NEW p \in Periods, NEW q \in Periods, p # q PROVE Apart(x, p, q)'
      <3>1. x \notin twice /\ \A r, s \in Periods : r # s => Apart(x, r, s)
        BY <1>2, <2>3 DEF AllApart
      <3> QED BY <1>1, <1>2, <2>3, <3>1, TakenApart
    <2> QED BY <2>2, <2>3 DEF AllApart
  <1>3. CASE ServeAdd
    <2>1. PICK e \in Events : e = Head(evtCh)
      BY <1>1, <1>3, TakenEvent DEF ServeAdd
    <2>2. /\ Taken(e) /\ e.type = "add" /\ told' = told /\ twice' = twice /\ main' = main /\ evt' = evt
          /\ group' = [group EXCEPT ![e.period] = group[e.period] \cup {e.urr}]
      BY <1>1, <1>3, <2>1, TakenEvent DEF ServeAdd, mainVars, orders
    <2>3. e.urr \in Urrs /\ e.period \in Periods
      BY <2>2, EventKinds
    <2>4. \A r \in Periods : x \in group'[r] <=> (x \in group[r] \/ (x = e.urr /\ r = e.period))
      BY <1>1, <2>2, <2>3
    <2>5. ~Orders(x, e) => x # e.urr
      BY <2>2 DEF Orders
    <2>6. e # Del(x)
      BY <2>2, DelFields
    <2>7. \A s \in Periods : e = Add(x, s) => x = e.urr /\ s = e.period
      BY OrderKinds DEF Orders
    <2> QED BY <1>2, <2>2, <2>4, <2>5, <2>6, <2>7
  <1>4. CASE ServeDel
    <2>1. PICK e \in Events : e = Head(evtCh)
      BY <1>1, <1>4, TakenEvent DEF ServeDel
    <2>2. /\ Taken(e) /\ e.type = "del" /\ told' = told /\ twice' = twice /\ main' = main /\ evt' = evt
          /\ \/ (\A p \in list : e.urr \notin group[p]) /\ group' = group
             \/ \E p \in list : e.urr \in group[p] /\ group' = [group EXCEPT ![p] = group[p] \ {e.urr}]
      BY <1>1, <1>4, <2>1, TakenEvent DEF ServeDel, mainVars, orders
    <2>3. \A r \in Periods : x # e.urr => (x \in group'[r] <=> x \in group[r])
      BY <1>1, <2>2 DEF TypeOK
    <2>4. ASSUME x \notin twice, e = Del(x), NEW r \in Periods PROVE x \notin group'[r]
      <3>1. e.urr = x
        BY <2>4, DelFields
      <3>2. CASE (\A p \in list : x \notin group[p]) /\ group' = group
        BY <1>1, <3>2 DEF Group
      <3>3. ASSUME NEW p \in list, x \in group[p], group' = [group EXCEPT ![p] = group[p] \ {x}]
            PROVE  x \notin group'[r]
        <4>1. p \in Periods
          BY <1>1 DEF TypeOK
        <4>2. CASE r = p
          BY <1>1, <3>3, <4>1, <4>2
        <4>3. CASE r # p
          <5>1. OneGroup(x, p, r)
            BY <2>4, <4>1, <4>3 DEF Apart, AllApart
          <5> QED BY <1>1, <3>3, <4>3, <5>1 DEF OneGroup
        <4> QED BY <4>2, <4>3
      <3> QED BY <2>2, <3>1, <3>2, <3>3
    <2>5. ~Orders(x, e) => x # e.urr
      BY <2>2 DEF Orders
    <2>6. \A s \in Periods : e # Add(x, s)
      BY <2>2, OrderKinds
    <2> QED BY <1>2, <2>2, <2>3, <2>4, <2>5, <2>6
  <1>5. CASE ServeTimeout
    <2>1. PICK e \in Events : e = Head(evtCh)
      BY <1>1, <1>5, TakenEvent DEF ServeTimeout
    <2>2. Taken(e) /\ e.type = "timeout" /\ told' = told /\ twice' = twice /\ main' = main /\ evt' = evt /\ group' = group
      BY <1>1, <1>5, <2>1, TakenEvent DEF ServeTimeout, mainVars, orders
    <2>3. e # Del(x) /\ \A s \in Periods : e # Add(x, s)
      BY <2>2, OrderKinds
    <2> QED BY <1>2, <2>2, <2>3
  <1>6. CASE ServeClose \/ ServeReturns \/ \E p \in Periods : CloseNext(p)
    BY <1>6 DEF ServeClose, ServeReturns, CloseNext, Serving
  <1>7. ASSUME NEW p \in Periods, StopTicker(p)
        PROVE  Agreed(x)' /\ AllApart(x)'
    <2>1. /\ evtCh' = evtCh /\ evt' = evt /\ told' = told /\ twice' = twice /\ main' = main /\ perio = "stopTicker" /\ arg = {p}
          /\ group' = [group EXCEPT ![p] = {}]
      BY <1>7 DEF StopTicker, mainVars, orders, Serving
    <2>2. group[p] = {}
      BY <1>1, <2>1 DEF Stopping
    <2>3. group' = group
      BY <1>1, <2>1, <2>2
    <2> QED BY <2>1, <2>3, QuietOrders
  <1>8. ASSUME NEW s \in Seids, NotifySessReport(s)
        PROVE  Agreed(x)' /\ AllApart(x)'
    <2>1. evtCh' = evtCh /\ evt' = evt /\ told' = told /\ twice' = twice /\ group' = group /\ main' = main
      BY <1>8 DEF NotifySessReport, mainVars, orders
    <2> QED BY <2>1, QuietOrders
  <1> QED BY <1>3, <1>4, <1>5, <1>6, <1>7, <1>8 DEF Serve

LEMMA OrderInit ==
  ASSUME Init PROVE OrderInv
  <1>1. ServerInv
    BY ServerInit
  <1>2. /\ Len(evtCh) = 0 /\ main = "idle" /\ (\A p \in Periods : group[p] = {})
        /\ \A x \in Urrs : told[x] = Never
    BY DEF Init
  <1>3. \A i \in 1 .. Len(evtCh) : FALSE
    BY <1>2
  <1>4. ASSUME NEW x \in Urrs PROVE Agreed(x)
    <2>1. ~Pending(x)
      BY <1>2, <1>3 DEF Pending
    <2>2. InGroups(x)
      BY <1>2, PeriodAssumption DEF InGroups
    <2> QED BY <2>1, <2>2 DEF Agreed
  <1>5. ASSUME NEW x \in Urrs, NEW p \in Periods, NEW q \in Periods PROVE Apart(x, p, q)
    BY <1>2, <1>3 DEF Apart, OneGroup, LeavesFirst, Between, BeforeSend
  <1> QED BY <1>1, <1>4, <1>5 DEF OrderInv, AllApart

LEMMA OrderNext ==
  ASSUME OrderInv, [Next]_vars PROVE OrderInv'
  <1>1. ServerInv /\ ServerInv'
    BY ServerNext DEF OrderInv
  <1> SUFFICES ASSUME Serving', NEW x \in Urrs
               PROVE  Agreed(x)' /\ AllApart(x)'
    BY <1>1 DEF OrderInv
  <1>2. Serving
    BY StillServing
  <1>3. Agreed(x) /\ AllApart(x)
    BY <1>2 DEF OrderInv
  <1>4. CASE UNCHANGED vars
    <2>1. evtCh' = evtCh /\ evt' = evt /\ told' = told /\ twice' = twice /\ group' = group /\ main' = main
      BY <1>4 DEF vars, mainVars, orders, perioVars
    <2> QED BY <1>3, <2>1, QuietOrders
  <1>5. CASE Main
    BY <1>1, <1>2, <1>3, <1>5, MainOrders
  <1>6. CASE Serve
    BY <1>1, <1>2, <1>3, <1>6, ServeOrders
  <1>7. CASE (\E p \in Periods : Ticker(p)) \/ Shutdown \/ Close
    BY <1>1, <1>3, <1>7, OthersOrders
  <1> QED BY <1>4, <1>5, <1>6, <1>7 DEF Next, Exited

\* The server measures what it was told, for any channel capacities and any
\* interleaving: with no event about a URR on its way, the URR is in the group
\* of the period the SMF ordered, and in no other unless it was created again
\* with another period, whenever the order was one the server is told of
\* (AddPeriodReportTimer, DelPeriodReportTimer, Serve; not Gtp5g.UpdateURR).
THEOREM ServerMeasuresOrders == Spec => []MeasurementAgrees
  <1>1. OrderInv => MeasurementAgrees
    <2> SUFFICES ASSUME OrderInv PROVE MeasurementAgrees
      OBVIOUS
    <2>1. TypeOK
      BY DEF OrderInv, ServerInv
    <2>2. ASSUME perio \notin {"close", "stopped"}, NEW x \in Urrs, ~Pending(x) PROVE InGroups(x)
      <3>1. Agreed(x)
        BY <2>2 DEF OrderInv, Serving
      <3> QED BY <2>2, <3>1 DEF Agreed, Pending, Sending, LastOrder
    <2> QED BY <2>1, <2>2 DEF MeasurementAgrees, InGroups
  <1> QED BY <1>1, OrderInit, OrderNext, PTL DEF Spec
=============================================================================
