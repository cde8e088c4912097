# TLA+ models of the free5GC core

This directory holds TLA+ specifications of free5GC (`src/base/free5gc`), the
TLC configurations that check them and TLAPS proofs about them. It models the
control of a PDU session from end to end, one component at a time: in the UPF
the PFCP transactions, the association and session tables, the rules of a
session and the periodic usage reports; in the SMF the SM contexts and the
pools of UE addresses; in the AMF the mobility management (GMM) of a UE with its
timers. The other network functions are listed in the inventory.

Paths below are relative to `src/base/free5gc/NFs/`.

## The system

free5GC is a 5G core of separate processes that talk REST (SBI), except for
three binary protocols: NGAP and NAS between the radio side and the AMF, and
PFCP between SMF and UPF.

| Part | State it keeps | Operations | Talks to |
|---|---|---|---|
| UPF PFCP transactions (`upf/internal/pfcp/transaction.go`, `pfcp.go`) | tables `txTrans`, `rxTrans`, a timer per transaction, `txSeq`, channel `trToCh` | send and receive requests and responses, timeouts, retransmission, stop | SMF over UDP; timers' goroutines |
| UPF associations and sessions (`node.go`, `association.go`, `session.go`, `report.go`) | `rnodes`, RemoteNodes, slice `sess` with free list | association setup, session establishment, modification, deletion, report and its answer | transactions, rules |
| UPF rules of a session (`node.go`, `session.go`) | PDR, FAR, QER, URR, BAR tables of `Sess`; the kernel's rules | create, update, remove, query; close | gtp5g driver |
| UPF periodic reports (`upf/internal/forwarder/perio`) | `perioList`, tickers, channel `evtCh` | add, delete, tick, close | main goroutine, driver, `srCh` |
| UPF driver and netlink (`upf/internal/forwarder`) | netlink connections | encoding of rules, queries, packets for the user plane | kernel module gtp5g |
| SMF PDU sessions (`smf/internal/sbi/processor`, `context/sm_context.go`) | `smContextPool`, `canonicalRef`, a context with `SMLock` per session, T3591 and T3592 | create, update (N1, N2, causes), release, local release, policy update, loss of a UPF | AMF, PCF, CHF, UDM (SBI), UPF (PFCP) |
| SMF address pools (`smf/internal/context/pool`, `ue_ip_pool.go`) | list of segments of free addresses | allocate, use a given address, free, reserve | PDU sessions |
| SMF PFCP (`smf/internal/pfcp`, `association.go`) | UPF associations | association set-up, heartbeat, reports | UPF |
| AMF GMM (`amf/internal/gmm`, `context`) | a UE context with its state, T3550, T3560, T3570, security context | registration, identity, authentication, security mode, service request, deregistration | UE (NAS), AUSF, UDM, PCF, SMF |
| AMF NGAP, NAS, SBI (`amf/internal/ngap`, `nas`, `sbi`) | RAN contexts, `UePool`, the Lock of a UE | N2 messages, decoding and security of NAS messages, N1N2 transfer, context release | gNB, SMF, other AMFs |
| CHF, PCF, UDM, UDR, AUSF, NSSF, NEF, NRF | request-scoped state and MongoDB | REST handlers | each other |
| N3IWF, TNGF | IKE and NGAP contexts | access over Wi-Fi | AMF, UE |

`PROJECT.json` lists every part with its status, and the hazards with the line
where each one bites.

The UPF's control is a small concurrent program of its own: one `main`
goroutine owns every table and handles one event at a time, and around it run a
UDP receiver, a goroutine per expired timer, the periodic-report server with a
ticker goroutine per period, the netlink reader and the shutdown. They share
bounded channels, each closed by its consumer. What is hard here: packets lost,
duplicated and reordered; timeouts racing answers; channels at their capacity;
the order of shutdown; tables that refer to each other through pointers and ids
that are reused; and requests of many driver calls any of which may fail without
being rolled back.

In the SMF every SBI request has a goroutine; those of one session exclude each
other by `SMLock`, but look the context up before they wait for it, leave the
removal to another goroutine, and hold the lock over calls to the AMF, which
holds the Lock of its UE over calls to the SMF. In the AMF the NAS messages of a
UE are handled one after the other without its Lock, also over calls to other
network functions, while timers and the SBI server run in goroutines of their own
that change the same state. What is hard here: the order of answers from UE and
RAN, a timer that expires while it is stopped, contexts removed twice or never, or
under a handler that waits, and the two locks.

What makes each part correct:

- transactions: each request of the server has one outcome, each request of a
  peer is handled once, timers and table entries go together, and the tables
  drain;
- sessions: slots are neither lost nor handed out twice, ownership is agreed on
  by both sides, and an association setup removes the sessions of its SMF;
- rules: the session knows every rule the kernel has, and reports are neither
  lost nor duplicated;
- periodic reports: the server measures what was ordered, no ticker leaks, and
  everybody stops;
- address pools: an address belongs to one session at a time, none is lost, and
  a second release is harmless;
- SM contexts: what a context holds (address, TEIDs, session in the UPF) is given
  back once and not forgotten, a release ends whoever answers first, and calls
  return;
- GMM: every running timer can be stopped, a removed context is gone for good, a
  handler finds the data it reads after a call, nobody is registered without a
  security context, and a request ends when the UE falls silent.

## Modules

| Module | Models | Run by | Theorems in |
|---|---|---|---|
| `UpfTransactions` | transaction layer and `main` | itself | `UpfTransactionsProofs` |
| `UpfRetransWindow` | the receive window, with a clock | itself | `UpfRetransWindowProofs` |
| `UpfSessions` | associations, sessions, answers to reports | itself | `UpfSessionsProofs` |
| `UpfPerio` | periodic-report server with all the goroutines around it | itself | `UpfPerioProofs` |
| `UpfRules` | the rules of one session and the kernel | `MCUpfRules` (symmetry), itself | `UpfRulesProofs` |
| `AddressPool` | what the address pools promise | through `UeIPPool` | |
| `UeIPPool` | the static and the dynamic pool of a DNN; implements `AddressPool` | itself | `UeIPPoolProofs` |
| `SmfSessions` | the SM contexts of one session id, with the AMF's side of the calls | itself | `SmfSessionsProofs` |
| `AmfGmm` | one UE context of the AMF over 3GPP access | itself | `AmfGmmProofs` |

The component modules take all their parameters as CONSTANTS and have finite
state for finite constants, so the configurations run them directly; `MCUpfRules`
only adds the symmetry of the ids. An operator
`X_Something` in front of a definition `X` is a plausible wrong version of `X`
(its comment begins with "Mutant"); it is used by no specification, and
`PROJECT.json` says which property finds it.

### UpfTransactions

`status`, `connOpen`, `txSeq`, `txTrans`, `rxTrans` are the fields of
`PfcpServer`. A transaction is known by its id, a pair of address and sequence
number (the string "RemoteAddr-Sequence" in the code). `txTimer` and `rxRsp` say
whose timer field is not nil and whose `msgBuf` holds a response. A timer is a
token in `armed`; when it expires the token moves to `firing` (the goroutine of
`time.AfterFunc`), then to the channel `trToCh`. Actions:

- `SendReqTo` (`sendReqTo`, `NewTxTransaction`, `TxTransaction.send`),
- `RecvNewReq`, `RecvOldReq` (request branch of `main`, `RxTransaction.recv` and
  `send`), `RecvRsp`, `RecvStrayRsp` (response branch, `TxTransaction.recv`),
- `TxTimeout` (with `Retransmit` or `GiveUp`, the two branches of
  `TxTransaction.handleTimeout`) and `RxTimeout`,
- `Expire`, `NotifyTransTimeout` (timers), `Stop` (shutdown), `MainReturns` (the empty
  packet and the deferred function with `stopTrTimers`), `ReceiverSendsOnClosed`.

The network is a set of packets that may be received any number of times or
never, which covers loss, duplication and reordering; the channel between
receiver and `main` is part of it. `main` returns on an empty packet at any time: the
receiver sends one before it ends, when a read has failed (as after `Stop`), and an
empty datagram is one too, after which the receiver (`receiver`) reads on. A send on
a closed channel, and a `Stop` on a nil timer, end the process:
`status = "crashed"`. The sequence field of a
packet holds the number modulo `SeqMod` (2^24 in PFCP); `of` is a history field
that says which transaction a packet belongs to.

### UpfRetransWindow

Only the question whether a request can be handled twice, which needs time: a peer
retransmits `PeerRetrans` times every `PeerTimeout`, a packet is under way for at
most `Delay`, and `RxTimeout` is the window of `NewRxTransaction`. `RxTimeout`
computes `MaxRetrans + 1` modulo 256, as the code does in uint8; a `MaxRetrans` of
255, which the configuration accepts, gives a window of 0. `WindowAssumption` is
the relation under which the code is right, with that same expression; with both
sides configured alike (1 s and 3 retransmissions in `config/upfcfg.yaml`) it says
that `Delay` is less than one `RetransTimeout`. How late `main` handles the
timeout is unbounded.

### UpfSessions

`sess` and `free` are the fields of `LocalNode`, `node` the RemoteNode objects in
memory, `rnodes` the registry. A handler is one action, since `main` runs it to
its end: `AssociationSetup`, `SessionEstablishment`, `SessionTakeover` (a
modification with a Node ID, through `UpdateNodeID`), `SessionDeletion`,
`ServeReport`, and `ReportDone` or `ReportRejected` for the answer (or the
timeout) of a report. `reqs` holds the outstanding reports; its field `about` is
history. An SMF takes its SEIDs from a counter in memory, so a new session has a
new one until the SMF starts again (`FreshSeid`): then the counter does too, and
the new sessions may use a SEID that a report under way still names. An
association setup is how the UPF sees a restart; it marks the outstanding reports
of that SMF as `old`. `Reset` visits the sessions of an association in any order,
since Go iterates over a map. Requests for unknown sessions or associations change
nothing and are left out. Unreachable RemoteNodes are reused, which stands for the
garbage collector. The history variable `taken` says what the SMFs have done so
far: taken no session over, only sessions by an SMF without association, or any.
All of it happens in the run; the properties say up to where they hold.

### UpfPerio

Every goroutine is a small program counter: `main`, `perio`, `ticker[p]`, `app`.
A send is a step of its own that waits for room, or ends the process when the
channel is closed. `stopTicker` is the rendezvous on `stopCh`: it waits until the
ticker is in its select. `CreateURR`, `UpdateURR` and `RemoveURR` stand for the
requests of the SMF up to the send in the driver; an update of period or trigger
reaches the kernel and not the server (`gtp5g.go:1287`). `group` and `list` are
`perioList`, `urrs` is what was ordered, `told` what the server was told.
`ServeTimeout` chooses the sessions the kernel returns reports for, as the query
may fail or return none. A URR that exists may be created again; `twice` remembers
those that got a second period that way. `MainReturns` needs no shutdown, for the
reason given above.

### UpfRules

One session. A request is `Establish` or `Modify`, any number of elements in the
order of the handler's loops (`At(k)` says that the k-th loop has been reached),
and `Respond`; or `Delete`, the visits of `Sess.Close`, and `Deleted`; or `Drop`,
the same visits, and `Discarded`, for an association reset and a rejected report,
which throw away what `Close` returns. The loops of `Close` over BARs and over
URRs may be exchanged: their effects are independent. FAR, QER and BAR are one
kind of `rules`. A driver call of a kind in `Fails` may fail, with or without an
effect on the kernel; the handlers log it and go on. `stuck` (history) are the
URRs whose own removal has failed: `RemoveURR` marks the entry before it calls the
driver (`node.go:411`), and a later report then deletes the entry although the
kernel keeps the URR. Elements rejected before any state changes (unknown ids) are
left out. `term` and `other` count the reports the request has collected;
`Dropped` says that the response leaves one out. Requests may contain anything;
the history variable `use` says how the SMF has used the session so far, and
`DissociationReported` holds as long as the use is plain.

### AddressPool and UeIPPool

`AddressPool` is what a PDU session may rely on: an address belongs to one
session, an address of the static range goes only to a session that asks for it,
network and broadcast address to none. `UeIPPool` models `LazyReusePool` as the
sequence of its segments with the operators `AllocatePool`, `UsePool`, `FreePool`
and `ReservePool`, one per method, and above it the two pools of a DNN with
`Allocate` and `Use` (`SelectUPFAndAllocUEIP`), `Release` (`ReleaseUEIP`) and
`ReleaseAgain`, a second release of an address nobody has got since. The
refinement maps `addr` to the value each session holds and is checked as
`AbstractSpec`. `ahead` is history for `LazyReuse`: the addresses that were in
the head segment when an address came back. `InOrder` is the order of the segments
on which the search in `Free` relies; `Duplicates` says whether a second release
may also happen when the segments are out of order.

### SmfSessions

The contexts of one UE and session id: `pool` and `canonical` are the maps of
`sm_context.go`, `ctx` the fields of a context the control depends on, `lock` its
SMLock when it is held across calls (with the reason). A call of the AMF or PCF is
a thread (`call`): it looks the context up (`AmfCall`), waits for the lock, and
the handler is one action, since nothing else touches the context meanwhile.
`Updates` are the N1 messages, N2 messages and causes that
`HandlePDUSessionSMContextUpdate` tells apart, with one action each; `CreateStep`
are the steps of `HandlePDUSessionSMContextCreate`, `Establish` and `EstHandler…`
the goroutine that sets the session up in the UPF and tells the AMF,
`RemoveQuietly`, `NotifyStart` and `NotifyAndRemove` the goroutines that remove a
context, `Timer…`, `Expire…` and `Cancel…` the timers, `Loss…` the loop over the
contexts of a lost UPF. A release command to UE and RAN is in `commanded`; they
may answer without one (`hist.unasked`), which the code only logs
(`pdu_session.go:452`). `PolicyUpdate` changes the data paths or not; when it does
(`hist.steered`), `ActivateUPFSession` establishes a PFCP session where there is
none (`datapath.go:93`). `UpdateMove` sets the AN side up again or not, depending
on the kind of transfer. The AMF's `amf` and `ueLock` are what its handlers keep
for the session and the Lock of the UE. The UPF accepts, refuses or does not
answer; `hist.failed` marks the contexts where an exchange failed, `hist.lost`
those whose UPF was lost, and `hist` also counts what was given back.

### AmfGmm

`ue` is the AmfUe: GMM state, connection, identities, security context, the timer
fields (`ptr`) and the timer goroutines (`timers`). A timer whose Stop was called
still exists until its goroutine selects, and may take the tick then. An operator
on `ue` that may end in several ways (a call to AUSF, UDM or PCF fails, a message
cannot be built) yields the set of the contexts it may leave. NAS messages come
in any order and number, asked for or not; `Answer` gives the conditions under
which decoding lets them pass. The NGAP actions are what the RAN may do to the
connection.

A handler does not hold the Lock of the UE while it calls another network
function, so it ends its step there: `at` is the call it waits for, and an action
`…Returns` goes on with what it finds then (`TransferReturns`, `AuthenticateReturns`,
`ConfirmReturns`, `ResyncReturns`, `FailReturns`, `SetupReturns`, `PolicyReturns`,
`CompleteReturns`, `ServiceReturns`, `DeregisterReturns`, `ReleaseRequestReturns`,
`ReleaseReturns`, `HandoverReturns`). Meanwhile timers tick, and the SBI server finds
and removes contexts: `releasing` counts its goroutines (release, registration status
update, Deregistration Notification) between finding a context and removing it. A
timer that has expired for the last time removes the context only after its own calls
(`CancelReturns`). `PolicyReturns` is the end of the search for a PCF, which the code
repeats until it finds one; nothing says that it ever comes. `StopRace` is the stop
function of a timer that compares the field with nil and uses it after another
goroutine has cleared it (`amf_ue.go:969`): the process ends.

Two fields are history. `cut`: a change of the N2 connection has stopped the timer of
a silent UE. `odd`: one of four races has happened: an answer that comes without a
running timer, T3550 expiring without a connection, a timer that expires after Stop,
or a removal of the context while somebody else is at work on it (a handler that waits
for a call or for the Lock, another removal, a timer that has expired for the last
time) or after somebody else has removed it. After one of them the code gives no
guarantee, and the properties say that nothing else breaks it. The races themselves
happen in the run, with what is under way when they happen; `AfterRace = FALSE`
ends it there, since nothing but the types is claimed of what comes later. The proofs
hold for both values.

## Runs

| Run | Checks | Bounds |
|---|---|---|
| `transactions` | one timeout per waiting transaction, one outcome per request, number of transmissions, nothing armed after `main` returned, no panic of a running `main`, routing before wrap; every transaction leaves its table | 1 peer, 2 requests of the server and 1 of the peer, 1 retransmission, channel of 1, encoding may fail |
| `retrans_window` | a request is handled at most once | 2 requests, 1 retransmission each side, 7 ticks |
| `sessions` | free list, ownership, registration of all sessions, association setup clears, a rejection hits its own session until the SMF restarts | 2 SMFs, 2 objects, 3 slots, 1 outstanding report, any takeovers |
| `sessions_reject` | *violated*, see below | 2 slots |
| `perio` | server agrees with the orders, tickers match groups and end first, crash only after `main` has returned or in a shutdown, removals take effect, shutdown completes | 2 URRs, 2 periods, 3 requests, `evtCh` of 6, `srCh` of 1 |
| `perio_stuck` | *violated*: shutdown completes | 1 URR, 2 periods, 2 requests, `evtCh` of 1 |
| `rules` | kernel tracked, reports sent, one final report, report on dissociation | 2 PDRs, 2 URRs, 1 rule; any requests; create and any removal may fail |
| `rules_final` | *violated*: report on dissociation when updates add URRs | 2 PDRs, 1 URR |
| `ue_ip_pool` | pools exact, lazy reuse, second release harmless, implements `AddressPool` | 3 sessions, addresses 0 to 7, 1 static |
| `ue_ip_duplicate` | *violated*: second release when the segments are out of order | the same |
| `smf_sessions` | address and TEIDs given back once, release ends, no session left in the UPF, answer before outcome, calls return | 2 contexts, 2 threads, 1 timer with 1 retry, 3 calls |
| `amf_gmm` | timers reachable, removed for good, data found after calls, registered only secured, requests end | 2 timer goroutines, 1 retry, 2 releases at a time; any number of messages until a race |

The bounds are small and chosen so that the hard cases happen: a channel of one is
full after one event, two requests share it, two slots are enough for one to be
reused before the other is empty, two SMFs for one to take over from the other,
two PDRs for a URR to lose one and keep one; two contexts of a session id are an
old one and the duplicate that replaces it, two threads a call and another that
found the context before; two timer goroutines a running timer and one that was
stopped and has not ended. What does not fit (many peers, long channels) is
covered by the proofs where there are some. `MaxTx`, `MaxSess`, `MaxReqs`,
`MaxCalls`, `MaxPending`, `MaxRef`, `MaxReports`, `TimerIds`, `MaxReleases` and
`MaxTime` bound counters the code does not bound; they are guards of the actions
that count. In `perio` the capacity of `evtCh` is larger than the number of events
the bounds allow at once, which is the situation of the code's 512 in normal
operation; `perio_stuck` is the same model with the channel full. CHECK_DEADLOCK
is off where the system may come to rest: after a crash or a shutdown, or when the
bounds are used up. In `UpfPerio` the end of the process is a step of its own
(`Exited`), so that TLC's deadlock check does find goroutines that wait for each
other; in `UpfRules` there is always a next step.

Fairness. `UpfTransactions`: timers expire, `main` takes timeouts, and a goroutine
that waits to send on `trToCh` is served eventually, since Go keeps the senders
of a channel in a queue (strong fairness, because the channel fills and empties
in between). Nothing is assumed of the peers, the network or `Stop`. Packets could
starve the timeouts only if Go's select were unfair; it picks at random.
`UpfPerio`: the server, the sends, the rendezvous and the two steps of `main`
that need no request, where `main` has to return only after `Stop`; ticks need no
fairness, requests and empty datagrams need not come.
`SmfSessions`: some goroutine that can go on does; the calls and ticks are
bounded, so this weakest form is enough. `AmfGmm`: timers tick and their last
expiry function returns; nothing is assumed of the UE, the RAN or the calls to
other network functions, which need not return.

### What the violated runs show

Each of them states what a comment, a message or a test of the repository says,
and TLC's trace shows the code doing otherwise. Quotes are in `PROJECT.json`.

- `sessions_reject`: `RemoteSess` (`node.go:644`) dereferences the empty slots of
  deleted sessions.
- `perio_stuck`: with a full `evtCh`, `stopTicker` (`perio/server.go:87`) waits for
  a ticker that waits in its own send.
- `rules_final`: `UpdatePDR` adds URRs without counting them in `refPdrNum`.
- `ue_ip_duplicate`: `Use` (`lazyReusePool.go:79`) splits the head segment and leaves
  the list behind the head unordered; `Free` then stops its search too early, and
  accepts an address that is free already. A request for a given address is not
  needed: releases in a row can let the head grow until it meets a segment that is
  not the next one, and a second release of the value behind the head extends the
  head over it.

### Limits the passing runs name

Some properties hold only under a condition that the model makes explicit:

- `ResponsesRoutedBeforeWrap`: `txSeq` is a uint32 and part of the key of `txTrans`,
  but the header carries 24 bits of it (`pfcp.go:278`). Beyond 2^24 requests a
  response no longer finds its transaction.
- `MainNeverPanics` and `CrashOnlyAfterReturn`: `rcvCh`, `trToCh`, `srCh` and `evtCh`
  are closed by their consumers, and a goroutine that was about to send then panics.
  This takes no shutdown: `main` returns on every empty packet (`pfcp.go:121`), also on
  an empty datagram, after which the receiver's next send ends the process. The
  properties say that nothing else does.
- `HandledAtMostOnce` under `WindowAssumption`, which a `MaxRetrans` of 255 cannot
  satisfy: the window is 0 then (`transaction.go:132`).
- `MeasurementAgrees` compares with the orders the server was told: an update
  (`gtp5g.go:1287`) is not among them. It exempts from "in no other group" the URRs in
  `twice`: one created again with another period is in two groups, and the removal
  (`perio/server.go:174`) finds one.
- `KernelTracked`, `ReportsSent` and `DissociationReported` exempt the URRs in `stuck`,
  whose own removal failed; `KernelTracked` also what a failed removal in `Close` itself
  leaves in the kernel. `ReportsSent` is about requests that are answered: what `Close`
  returns on a reset or a rejection is thrown away.
- `SessionsRegistered` and `SetupClearsSessions` until an associated SMF takes a
  session over: `UpdateNodeID` (`pfcp.go:253`) then overwrites its association.
- `RejectionHitsOwnSession` for reports that are not `old`: when the SMF has started
  again since the report, its SEIDs have too, and the answer may delete a new session.
  And without takeovers: `UpdateNodeID` changes the Node ID
  of a RemoteNode and not its address, by which answers are matched. It also
  renames the RemoteNode all the sessions of the old SMF share.
- `CallsReturn` names the two ways a call to the SMF can hang: the AMF holds the
  Lock of the UE and waits for a context whose holder waits for that Lock
  (`CyclicWait`), and the expiry function of T3592 returns with SMLock held
  (`LockLost`, `pdu_session.go:1435`).
- `NoUpfLeak` exempts, besides a failed exchange, an answer of UE or RAN to a release
  nobody ordered (`hist.unasked`), which removes the context and not its PFCP session,
  and a policy decision that changed the data paths (`hist.steered`), which may set up
  a session after the release.
- `ReleaseEnds` needs the context to stay InActive without an AN side: a handover
  or set-up response that comes late makes it Active again. It also exempts the
  contexts of a UPF that was lost: the loop over them leaves a context InActive in
  the pool when the AMF refuses the release.
- `PoolsExact` and `DuplicateFreeRejected` with `Duplicates = FALSE`: second releases
  while the segments are `InOrder`. First releases and requests happen in any order.
- the properties of `AmfGmm` and the races behind `odd`. `AnswersFindTheirData` says
  nothing of the timer fields, which `StopRace` reads after they were cleared.
  `ProcedureEnds` is about a request whose timer runs: a handler that returned early
  (an error of the AUSF after T3560 was stopped, `gmm/handler.go:2091`) or that searches
  for a PCF (`gmm/handler.go:752`) leaves a procedure without one, and a change of the N2
  connection (`cut`) stops it.

Other weaknesses of the code that no property states: `ServeReport` returns at
the first downlink report without NOCP (`report.go:38`); `RemoveSMContext` deletes
the canonical reference whatever it names (`sm_context.go:424`); a release request
whose PFCP deletion fails leaves an Active session without address
(`pdu_session.go:449`); the SMF answers a report of an unassociated UPF twice
(`pfcp/handler/handler.go:125`); the AMF never removes a context whose RAN asks
for a release during the first registration (`ngap/handler.go:1129`), and has no
transition out of DeregistrationInitiated for a request that names the other access
(`gmm/init.go:53`).

## Proofs

The theorems hold for every value of the constants that satisfies the ASSUMEs of
the component module, and so for any number of sessions, rules, timers or
addresses and any length of the channels. Every invariant and every action
property of the passing runs is stated by a theorem, and so is the refinement.
Each module is laid out the same way: the invariant in named parts,
lemmas about the operators, one lemma per action (or per group of actions with
the same effect), and the theorems at the end.

`UpfTransactionsProofs`: `TypeCorrect`, `TimeoutsUnique`, `OutcomesUnique`,
`AllTriesMade`, `ShutdownSafe`, `ResponsesFindTheirRequest`, `MainKeepsRunning`.
The inductive invariant has four parts besides the types. `TimersInv`: the tokens
in `armed`, `firing` and `trToCh` are disjoint and without duplicates, belong to
numbers already used, and cover every transaction that waits; without it a second
expiry could not be excluded. `TxInv` ties the history to the table: what was sent
and is gone has one outcome, `sends` is `retransCount + 1`, and numbers not used
yet have no history. `PacketsInv` says where packets come from, and with `txSeq`
below the wrap that a response's key is its transaction's, so that no response
reaches a transaction whose timer is nil already, which is what `MainKeepsRunning`
needs. `StatusInv` is about the return of `main`.

`UpfRetransWindowProofs`: `AtMostOnce`. The invariant says that a copy under way
lies within the peer's schedule and is younger than `Delay`, and that a handled
request without transaction is older than the window; the window assumption, with
the window computed in uint8, then leaves no copy for it.

`UpfSessionsProofs`: `TypeCorrect`, `SlotsExact`, `OwnershipAndRegistry`,
`NoOrphans`, `SetupClears`, `LateAnswersSafe`. The invariant is the conjunction of
the properties with `RegistryKeyed` (the registry is keyed by the Node IDs in its
RemoteNodes) and `SessionsNamed` (the RemoteNode of a live session has a Node ID).
The lemmas on sequences (push, pop and concatenation of lists without duplicates,
orders of a finite set) carry the free list; `DeleteSessInv`, `AddSessInv`,
`ResetInv` and `TakeoverInv` carry the tables. `LateAnswersSafe` adds
`SeidsApart`: without takeovers the sessions of an SMF and the reports still
unanswered have different remote SEIDs, unless the report is about that session or
its SMF has started again (`old`).

`UpfRulesProofs`: `FinalOnce`, `RulesTracked`, `ReportsNotLost`,
`LastPDRReported`. Three invariants, each the one before and more. `FinalInv`
needs nothing of the driver: a URR that has had its final report is out of the
kernel, or no PDR is counted for it and the handler's loop has passed the
removals; the order of the loops is what makes a second final report impossible.
`KernelInv` adds that the kernel has only URRs whose entry is not marked as
removed, or that are `stuck`, and what `Close` has still to visit; it assumes
nothing of the driver, as `stuck` names the only URRs a failed removal affects.
`CountInv` adds that `refPdrNum` is the number of PDRs that name the URR, as long
as the session is used plainly; the theorem also needs queries to succeed, since
the last report is a query.

`UpfPerioProofs`: `TickersDoNotLeak`, `PerioCrashesAfterReturn`,
`ServerMeasuresOrders`. `ServerInv`: a group on the list has a ticker, only the
group that is being stopped may be empty, and what only a shutdown brings about.
`OrderInv` is about the events between driver and server: the last event on its
way about a URR says what the server was told last, and when there is none the
groups do (`Agreed`); before a URR is added to a group its removal from any other
is handled or queued before the addition (`Apart`, for the URRs not in `twice`),
without which the server's removal might find the wrong group.

`UeIPPoolProofs`: `PoolsStayExact`, `ReuseIsLazy`, `DuplicatesRejected`,
`PoolsImplement`, under `~Duplicates`. The first half of the module is a theory of
lists of segments: what concatenation and the replacement of a part of a list do
to its values, to their disjointness and to the order `Precedes` in which
`Allocate` hands them out. From it follow what `Minus`, `ExtendLast`, `FreeBehind`
and `FreeSegs` do, then what the methods of `LazyReusePool` do to a pool. The
invariant says that the pools are sound, that what is free is exactly what no
session holds, that no two sessions hold the same address, and that the addresses
`ahead` of a released one precede it in the list: `LazyReuse` alone is not
inductive, as it does not say where the released address is. `AbstractSpec` maps
`Allocate` and `Use` to `Assign`, `Release` to `Release`, and a second release to
a stuttering step. `Reserve` is proved for lists of at most two segments, which is
what the pools are when `Init` reserves: the general case is an induction over the
list.

`SmfSessionsProofs`: `ReleasedOnce`, `NothingLeftBehind`, `ReleasesEnd`,
`OutcomeAfterAnswer`. Besides types and sets, the invariant says who holds which
lock (`TimersOK`, `CallsOK`) and four things of every context. `Fresh`: nothing is
known of a reference before it is handed out. `Books`: the address and the TEIDs
were given back exactly when the context does not have them any more. `Settled`: a
context that somebody may remove without another PFCP deletion has no session in
the UPF, unless an exchange failed, the answer was unasked for or a policy decision
steered the session. `Ending`: when both sides have answered the
release, somebody is removing the context. `Doomed` lists
the ways a context comes to be removed: it is out of the pool, goroutines are to
remove it, its lock is held for a removal, a release was ordered, a duplicate
replaces it, or an earlier release left it InActive.

`AmfGmmProofs`: `TimersFound`, `RemovalFinal`, `DataFound`,
`NoInsecureRegistration`. The invariant `Sound` says that a timer field names a
goroutine of its kind that was not stopped (`Typed`) and, unless one of the races
behind `odd` has happened, that every running goroutine is in its field
(`Reached`), that a procedure waits for one answer at a time and its timer fits
the GMM state (`OneWait`), that a handler in a call fits the
state, has what it reads after the call and, in the calls of a registration, no timer
running (`Waits`), that nothing finds a
removed context and nobody is at work on it (`Gone`), and that a UE in
ContextSetup has a security context (`Secured`). With it goes that a goroutine of
the SBI server that has found the context finds it not yet removed. `Waits` is
what the calls need: without it nothing says that the registration request is
still there when the handler goes on. The operators on `ue` yield sets of
contexts; each has a lemma that all of them are `Sound`.

Only model-checked: liveness (`TxTransactionsEnd`, `RxTransactionsEnd`,
`RemovalTakesEffect`, `ShutdownCompletes`, `CallsReturn`, `ProcedureEnds`), since it
needs fairness and ENABLED, which the prover does not handle.

## Plan

1. Done: the UPF's transactions, receive window, sessions, periodic reports and
   rules; the address pools and their refinement; the SM contexts; the GMM of the
   AMF; proofs of their safety properties.
2. Proofs left: a condition on the calls under which the segments of a pool stay
   `InOrder`.
3. Later: the packet buffer of a UPF session (`Push`, `Pop`, `applyAction`); a
   composition of sessions and reports in `srCh`, for reports that outlive their
   session; the SMF's PFCP association with its heartbeats; the CHF's quota
   reservation.

## Not modelled

- The contents of rules, reports and messages, and their encoding for PFCP and
  netlink: pure data conversions. A parse error is an element or message that
  changes nothing. UR-SEQN is left out.
- Heartbeat requests (answered, no state), association update and release
  (logged, no answer).
- A failing `ResolveUDPAddr` or `ListenUDP` when the UPF starts.
- In the SMF: the choice of UPF and data path (ULCL, PSA), charging, and the contents
  of N1, N2 and PFCP messages; the association set-up and the reports of a UPF.
- In the AMF: non-3GPP access (the same handlers for a second set of fields), UL NAS
  transport (its calls to the SMF are in `SmfSessions`), paging and configuration
  update with their timers, handover preparation (with the release action "handover"),
  PDU session resource messages. Messages about one UE on two N2 connections at once
  are not interleaved with each other. The Lock of the UE is not modelled: NAS
  handlers and a Deregistration Notification do without it.
  T3522 is started by no code that is called. A disabled timer is left out.
- The other network functions, as listed in `PROJECT.json` with the reasons.
