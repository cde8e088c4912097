--------------------------- MODULE UpfTransactions ---------------------------
(***************************************************************************)
(* The transaction layer of the UPF's PFCP server                          *)
(* (NFs/upf/internal/pfcp/transaction.go and the main loop of pfcp.go).    *)
(*                                                                         *)
(* One goroutine, main, owns the tables txTrans and rxTrans.  Every        *)
(* transaction has a time.AfterFunc timer; when it fires, a goroutine of   *)
(* its own sends the transaction's id on the bounded channel trToCh, which *)
(* main consumes.  Packets arrive over UDP: they are lost, duplicated and  *)
(* reordered.  On an empty packet main stops the timers, closes the        *)
(* channels and returns: the receiver goroutine sends one when its read    *)
(* fails, as it does after Stop closed the socket, and passes on an empty  *)
(* datagram of a peer as one too.                                          *)
(*                                                                         *)
(* The packets in the channel rcvCh between the receiver and main are part *)
(* of the network here: UDP already delays and reorders what it carries.   *)
(***************************************************************************)
EXTENDS Naturals, Sequences

CONSTANTS
    Peers,          \* addresses of the control-plane functions (SMFs)
    RxSeqs,         \* sequence numbers the peers use in their requests
    MaxRetrans,     \* cfg.Pfcp.MaxRetrans
    TrToLen,        \* TRANS_TIMEOUT_CHANNEL_LEN
    SeqMod,         \* the sequence field of a PFCP header holds values below this (2^24)
    MaxTx,          \* bound: how many requests the server sends (txSeq is a uint32)
    EncodeFails     \* whether MarshalTo may return an error

ASSUME RxSeqsAssumption == RxSeqs \subseteq 0 .. SeqMod - 1
ASSUME MaxRetransAssumption == MaxRetrans \in Nat
ASSUME TrToLenAssumption == TrToLen \in Nat \ {0}
ASSUME SeqModAssumption == SeqMod \in Nat \ {0}
ASSUME MaxTxAssumption == MaxTx \in Nat
ASSUME EncodeFailsAssumption == EncodeFails \in BOOLEAN

VARIABLES
    status,         \* of main: "running", "stopped" (deferred function done), "crashed"
    connOpen,       \* the UDP socket
    receiver,       \* the receiver goroutine: "reading" or "ended"
    txSeq,          \* next sequence number of a request of the server
    txTrans,        \* ids of the transmit transactions in the table
    txTimer,        \* ids of the transmit transactions whose timer field is not nil
    retransCount,   \* per transmit transaction
    rxTrans,        \* ids of the receive transactions in the table
    rxRsp,          \* those among them whose msgBuf holds a response
    armed,          \* running timers: <<TrType, id>>
    firing,         \* goroutines of expired timers about to send on trToCh
    trToCh,         \* the timeout channel
    net,            \* packets that may reach the server (any number of times, or never)
    wire            \* packets of the server on their way to the peers

\* History of the dispatcher calls and transmissions, for the properties.
VARIABLES
    answered,       \* how often rspDispacher got a response to the request
    timedOut,       \* how often txtoDispacher got the request
    sends           \* how often the request was written to the socket

tables == <<txSeq, txTrans, txTimer, retransCount, rxTrans, rxRsp>>
timers == <<armed, firing, trToCh>>
history == <<answered, timedOut, sends>>
vars == <<status, connOpen, receiver, tables, timers, net, wire, history>>

\* Transaction ids, "RemoteAddr-Sequence".
TxId == Peers \X (0 .. MaxTx - 1)
RxId == Peers \X RxSeqs

TxToken(id) == <<"TX", id>>
RxToken(id) == <<"RX", id>>
Token == {TxToken(id) : id \in TxId} \cup {RxToken(id) : id \in RxId}

\* Mutant: setReqSeq called with txSeq after its increment.
Request_SeqAfterIncrement(id) ==
    [kind |-> "req", addr |-> id[1], seq |-> (id[2] + 1) % SeqMod, of |-> id]

\* The header carries the sequence number modulo SeqMod; `of` is the
\* transaction the packet belongs to, which only the properties look at.
Request(id)  == [kind |-> "req", addr |-> id[1], seq |-> id[2] % SeqMod, of |-> id]
Response(id) == [kind |-> "rsp", addr |-> id[1], seq |-> id[2], of |-> id]
Answer(req)  == [req EXCEPT !.kind = "rsp"]

\* WriteTo fails on a closed socket; the callers log the error.
Write(m) == wire' = IF connOpen THEN wire \cup {m} ELSE wire

Range(s) == {s[i] : i \in 1 .. Len(s)}

-----------------------------------------------------------------------------
Init ==
    /\ status = "running"
    /\ connOpen = TRUE /\ receiver = "reading"
    /\ txSeq = 0
    /\ txTrans = {} /\ txTimer = {}
    /\ retransCount = [id \in TxId |-> 0]
    /\ rxTrans = {} /\ rxRsp = {}
    /\ armed = {} /\ firing = {} /\ trToCh = <<>>
    /\ net = {} /\ wire = {}
    /\ answered = [id \in TxId |-> 0]
    /\ timedOut = [id \in TxId |-> 0]
    /\ sends = [id \in TxId |-> 0]

-----------------------------------------------------------------------------
(* The environment: the peers and the network.                             *)

\* A peer sends, or sends again, a request of its own.
PeerRequest(p, s) ==
    /\ net' = net \cup {[kind |-> "req", addr |-> p, seq |-> s, of |-> <<p, s>>]}
    /\ UNCHANGED <<status, connOpen, receiver, tables, timers, wire, history>>

\* A peer answers a request of the server, echoing its sequence number.
PeerAnswer(m) ==
    /\ m.kind = "req"
    /\ net' = net \cup {Answer(m)}
    /\ UNCHANGED <<status, connOpen, receiver, tables, timers, wire, history>>

\* A packet of the server is lost, or was received for the last time.
Lose(m) ==
    /\ wire' = wire \ {m}
    /\ UNCHANGED <<status, connOpen, receiver, tables, timers, net, history>>

-----------------------------------------------------------------------------
(* The main goroutine.                                                     *)

\* sendReqTo and TxTransaction.send: the transaction enters the table before
\* the request is encoded; an encoding error leaves it there without a timer.
SendReqTo(p, encoded) ==
    LET id == <<p, txSeq>> IN
    /\ status = "running"
    /\ txSeq < MaxTx
    /\ txSeq' = txSeq + 1
    /\ txTrans' = txTrans \cup {id}
    /\ IF encoded
         THEN /\ txTimer' = txTimer \cup {id}
              /\ armed' = armed \cup {TxToken(id)}
              /\ Write(Request(id))
              /\ sends' = [sends EXCEPT ![id] = @ + 1]
         ELSE UNCHANGED <<txTimer, armed, wire, sends>>
    /\ UNCHANGED <<status, connOpen, receiver, retransCount, rxTrans, rxRsp, firing, trToCh, net,
                   answered, timedOut>>

\* main on a request without transaction: RxTransaction.recv asks for the
\* dispatch, and the handler answers (sendRspTo, RxTransaction.send) or
\* returns without a response.
RecvNewReq(m, responds) ==
    LET id == <<m.addr, m.seq>> IN
    /\ status = "running"
    /\ m.kind = "req"
    /\ id \notin rxTrans
    /\ rxTrans' = rxTrans \cup {id}
    /\ armed' = armed \cup {RxToken(id)}
    /\ IF responds
         THEN rxRsp' = rxRsp \cup {id} /\ Write(Response(id))
         ELSE UNCHANGED <<rxRsp, wire>>
    /\ UNCHANGED <<status, connOpen, receiver, txSeq, txTrans, txTimer, retransCount, firing, trToCh,
                   net, history>>

\* main on a request whose transaction exists: the saved response is sent
\* again, or the request is dropped when there is none.
RecvOldReq(m) ==
    LET id == <<m.addr, m.seq>> IN
    /\ status = "running"
    /\ m.kind = "req"
    /\ id \in rxTrans
    /\ IF id \in rxRsp THEN Write(Response(id)) ELSE UNCHANGED wire
    /\ UNCHANGED <<status, connOpen, receiver, tables, timers, net, history>>

\* Mutant: TxTransaction.recv does not stop the timer.
RecvRsp_TimerNotStopped(m) ==
    LET id == <<m.addr, m.seq>> IN
    /\ status = "running" /\ m.kind = "rsp" /\ id \in txTrans \cap txTimer
    /\ txTimer' = txTimer \ {id}
    /\ txTrans' = txTrans \ {id}
    /\ answered' = [answered EXCEPT ![id] = @ + 1]
    /\ UNCHANGED <<status, connOpen, receiver, txSeq, retransCount, rxTrans, rxRsp, timers, net, wire,
                   timedOut, sends>>

\* Mutant: TxTransaction.recv does not delete the transaction.
RecvRsp_NotDeleted(m) ==
    LET id == <<m.addr, m.seq>> IN
    /\ status = "running" /\ m.kind = "rsp" /\ id \in txTrans
    /\ armed' = armed \ {TxToken(id)}
    /\ txTimer' = txTimer \ {id}
    /\ status' = IF id \in txTimer THEN status ELSE "crashed"
    /\ answered' = [answered EXCEPT ![id] = @ + 1]
    /\ UNCHANGED <<connOpen, receiver, txSeq, txTrans, retransCount, rxTrans, rxRsp, firing, trToCh,
                   net, wire, timedOut, sends>>

\* main on a response, TxTransaction.recv and rspDispacher.  A transaction
\* whose timer is nil makes timer.Stop() panic, and main exits the process.
RecvRsp(m) ==
    LET id == <<m.addr, m.seq>> IN
    /\ status = "running"
    /\ m.kind = "rsp"
    /\ id \in txTrans
    /\ IF id \in txTimer
         THEN /\ armed' = armed \ {TxToken(id)}
              /\ txTimer' = txTimer \ {id}
              /\ txTrans' = txTrans \ {id}
              /\ answered' = [answered EXCEPT ![id] = @ + 1]
              /\ UNCHANGED status
         ELSE /\ status' = "crashed"
              /\ UNCHANGED <<armed, txTimer, txTrans, answered>>
    /\ UNCHANGED <<connOpen, receiver, txSeq, retransCount, rxTrans, rxRsp, firing, trToCh, net, wire,
                   timedOut, sends>>

\* main on a response without transaction: ignored.
RecvStrayRsp(m) ==
    /\ status = "running"
    /\ m.kind = "rsp"
    /\ <<m.addr, m.seq>> \notin txTrans
    /\ UNCHANGED vars

\* Mutant: <= for < in TxTransaction.handleTimeout.
Retransmit_OnceTooOften(id) ==
    /\ retransCount[id] <= MaxRetrans
    /\ retransCount' = [retransCount EXCEPT ![id] = @ + 1]
    /\ Write(Request(id))
    /\ sends' = [sends EXCEPT ![id] = @ + 1]
    /\ txTimer' = txTimer \cup {id}
    /\ armed' = armed \cup {TxToken(id)}
    /\ UNCHANGED <<txTrans, timedOut>>

\* Mutant: handleTimeout does not start the next timer.
Retransmit_NoTimer(id) ==
    /\ retransCount[id] < MaxRetrans
    /\ retransCount' = [retransCount EXCEPT ![id] = @ + 1]
    /\ Write(Request(id))
    /\ sends' = [sends EXCEPT ![id] = @ + 1]
    /\ UNCHANGED <<txTrans, txTimer, armed, timedOut>>

\* TxTransaction.handleTimeout, first branch: retransmit and start a new timer.
Retransmit(id) ==
    /\ retransCount[id] < MaxRetrans
    /\ retransCount' = [retransCount EXCEPT ![id] = @ + 1]
    /\ Write(Request(id))
    /\ sends' = [sends EXCEPT ![id] = @ + 1]
    /\ txTimer' = txTimer \cup {id}
    /\ armed' = armed \cup {TxToken(id)}
    /\ UNCHANGED <<txTrans, timedOut>>

\* Mutant: handleTimeout reports the timeout and leaves the transaction.
GiveUp_NotDeleted(id) ==
    /\ retransCount[id] >= MaxRetrans
    /\ timedOut' = [timedOut EXCEPT ![id] = @ + 1]
    /\ UNCHANGED <<txTrans, retransCount, wire, sends, txTimer, armed>>

\* TxTransaction.handleTimeout, second branch: delete, then txtoDispacher.
GiveUp(id) ==
    /\ retransCount[id] >= MaxRetrans
    /\ txTrans' = txTrans \ {id}
    /\ timedOut' = [timedOut EXCEPT ![id] = @ + 1]
    /\ UNCHANGED <<retransCount, wire, sends, txTimer, armed>>

\* main on a TX timeout from trToCh; a timeout of a transaction that is
\* already gone is only logged.
TxTimeout ==
    /\ status = "running"
    /\ trToCh # <<>>
    /\ Head(trToCh)[1] = "TX"
    /\ trToCh' = Tail(trToCh)
    /\ LET id == Head(trToCh)[2] IN
         IF id \in txTrans
           THEN Retransmit(id) \/ GiveUp(id)
           ELSE UNCHANGED <<txTrans, txTimer, retransCount, armed, wire, timedOut, sends>>
    /\ UNCHANGED <<status, connOpen, receiver, txSeq, rxTrans, rxRsp, firing, net, answered>>

\* Mutant: RxTransaction.handleTimeout does not delete the transaction.
RxTimeout_NotDeleted ==
    /\ status = "running"
    /\ trToCh # <<>>
    /\ Head(trToCh)[1] = "RX"
    /\ trToCh' = Tail(trToCh)
    /\ UNCHANGED <<status, connOpen, receiver, tables, armed, firing, net, wire, history>>

\* main on an RX timeout from trToCh, RxTransaction.handleTimeout.
RxTimeout ==
    /\ status = "running"
    /\ trToCh # <<>>
    /\ Head(trToCh)[1] = "RX"
    /\ trToCh' = Tail(trToCh)
    /\ LET id == Head(trToCh)[2] IN
         /\ rxTrans' = rxTrans \ {id}
         /\ rxRsp' = rxRsp \ {id}
    /\ UNCHANGED <<status, connOpen, receiver, txSeq, txTrans, txTimer, retransCount, armed, firing,
                   net, wire, history>>

-----------------------------------------------------------------------------
(* The timers (time.AfterFunc) and their goroutines.                       *)

Expire(t) ==
    /\ status # "crashed"
    /\ t \in armed
    /\ armed' = armed \ {t}
    /\ firing' = firing \cup {t}
    /\ UNCHANGED <<status, connOpen, receiver, tables, trToCh, net, wire, history>>

\* NotifyTransTimeout: blocks while the channel is full, and panics, ending
\* the process, once main has closed the channel.
NotifyTransTimeout(t) ==
    /\ t \in firing
    /\ \/ /\ status = "running"
          /\ Len(trToCh) < TrToLen
          /\ trToCh' = Append(trToCh, t)
          /\ firing' = firing \ {t}
          /\ UNCHANGED status
       \/ /\ status = "stopped"
          /\ status' = "crashed"
          /\ UNCHANGED <<trToCh, firing>>
    /\ UNCHANGED <<connOpen, receiver, tables, armed, net, wire, history>>

-----------------------------------------------------------------------------
(* The end of main.                                                        *)

\* PfcpServer.Stop
Stop ==
    /\ connOpen
    /\ connOpen' = FALSE
    /\ UNCHANGED <<status, receiver, tables, timers, net, wire, history>>

\* Mutant: the receive transactions are forgotten.
stopTrTimers_RxRunning ==
    /\ armed' = armed \ {TxToken(id) : id \in txTrans \cap txTimer}
    /\ txTimer' = txTimer \ txTrans

\* The timers of the transactions in the tables are stopped.
stopTrTimers ==
    /\ armed' = armed \ ({TxToken(id) : id \in txTrans \cap txTimer}
                           \cup {RxToken(id) : id \in rxTrans})
    /\ txTimer' = txTimer \ txTrans

\* main gets an empty packet and returns; its deferred function runs
\* stopTrTimers and closes the channels.  The packet is the one the receiver
\* sends before it ends, when a read failed, or an empty datagram, after
\* which the receiver reads on.  Either may happen with the socket open.
MainReturns ==
    /\ status = "running"
    /\ receiver' \in {"reading", "ended"}
    /\ stopTrTimers
    /\ status' = "stopped"
    /\ UNCHANGED <<connOpen, txSeq, txTrans, retransCount, rxTrans, rxRsp, firing, trToCh,
                   net, wire, history>>

\* The receiver reads a packet, or its read fails, after main has returned:
\* its send on the closed rcvCh panics and ends the process.
ReceiverSendsOnClosed ==
    /\ status = "stopped"
    /\ receiver = "reading"
    /\ status' = "crashed"
    /\ UNCHANGED <<connOpen, receiver, tables, timers, net, wire, history>>

Next ==
    \/ \E p \in Peers, s \in RxSeqs : PeerRequest(p, s)
    \/ \E m \in wire : PeerAnswer(m) \/ Lose(m)
    \/ \E p \in Peers, encoded \in {TRUE, ~EncodeFails} : SendReqTo(p, encoded)
    \/ \E m \in net : \/ \E responds \in BOOLEAN : RecvNewReq(m, responds)
                      \/ RecvOldReq(m)
                      \/ RecvRsp(m)
                      \/ RecvStrayRsp(m)
    \/ TxTimeout
    \/ RxTimeout
    \/ \E t \in Token : Expire(t) \/ NotifyTransTimeout(t)
    \/ Stop
    \/ MainReturns
    \/ ReceiverSendsOnClosed

Spec == Init /\ [][Next]_vars

\* Timers expire; the Go runtime runs their goroutines and main.  A goroutine
\* blocked on trToCh waits in the channel's FIFO queue of senders, hence the
\* strong fairness.  Nothing is assumed of the peers, the network or Stop.
Fairness ==
    /\ WF_vars(TxTimeout) /\ WF_vars(RxTimeout)
    /\ \A t \in Token : WF_vars(Expire(t)) /\ SF_vars(NotifyTransTimeout(t))

FairSpec == Spec /\ Fairness

-----------------------------------------------------------------------------
(* Properties.                                                             *)

Status == {"running", "stopped", "crashed"}

Packet == [kind : {"req", "rsp"}, addr : Peers, seq : Nat, of : TxId \cup RxId]

\* The variables keep their types: no table or channel ever holds an id that
\* was not formed by NewTxTransaction or NewRxTransaction, the timeout channel
\* never exceeds its capacity, and retransCount never exceeds maxRetrans.
TypeOK ==
    /\ status \in Status
    /\ connOpen \in BOOLEAN /\ receiver \in {"reading", "ended"}
    /\ txSeq \in 0 .. MaxTx
    /\ txTrans \subseteq TxId /\ txTimer \subseteq TxId
    /\ retransCount \in [TxId -> 0 .. MaxRetrans]
    /\ rxTrans \subseteq RxId /\ rxRsp \subseteq rxTrans
    /\ armed \subseteq Token /\ firing \subseteq Token
    /\ trToCh \in Seq(Token) /\ Len(trToCh) <= TrToLen
    /\ net \subseteq Packet /\ wire \subseteq Packet
    /\ answered \in [TxId -> Nat] /\ timedOut \in [TxId -> Nat] /\ sends \in [TxId -> Nat]

\* The transactions that wait for a timeout of theirs.
Waiting == {TxToken(id) : id \in txTrans \cap txTimer} \cup {RxToken(id) : id \in rxTrans}

\* startTimer is called once per transmission and each expiry is consumed
\* once: a transaction that waits for a timeout has exactly one timer running,
\* goroutine firing or entry queued in trToCh, whatever responses, duplicates
\* and late timeouts raced (else it would never leave its table, or be
\* retransmitted too fast), and no timer runs for a transaction that is gone.
OneTimeoutPerTransaction ==
    /\ armed \cap firing = {}
    /\ (armed \cup firing) \cap Range(trToCh) = {}
    /\ \A i, j \in 1 .. Len(trToCh) : trToCh[i] = trToCh[j] => i = j
    /\ armed \subseteq Waiting
    /\ status = "running" => Waiting \subseteq armed \cup firing \cup Range(trToCh)

\* Every request the server transmits has one outcome: it is in the table and
\* nobody was told, or it left the table and either rspDispacher or
\* txtoDispacher was called for it, once.  A response racing the last timeout
\* or a duplicate of itself never yields a second call.
OneOutcomePerRequest ==
    \A id \in TxId :
        answered[id] + timedOut[id] = IF sends[id] > 0 /\ id \notin txTrans THEN 1 ELSE 0

\* handleTimeout reports a request as timed out only after it was transmitted
\* MaxRetrans + 1 times, and transmits none more often than that.
GiveUpAfterAllTries ==
    \A id \in TxId : /\ sends[id] <= MaxRetrans + 1
                     /\ timedOut[id] > 0 => sends[id] = MaxRetrans + 1

\* stopTrTimers reaches every running timer: when main has returned and closed
\* trToCh, no timer is left that could still expire and send on it.
StoppedDisarmed == status = "stopped" => armed = {}

\* A running main never panics: whatever responses come, late, duplicated or
\* with the key of a request that could not be encoded, TxTransaction.recv
\* never meets a nil timer, as long as the sequence numbers fit the header.
\* (Once main has returned, a timer's goroutine or the receiver may end the
\* process by a send on a channel main closed.)
MainNeverPanics ==
    [][status = "running" /\ status' = "crashed" => txSeq > SeqMod]_vars

\* A response on its way to the server carries the id of the transaction it
\* answers, as long as txSeq has not outgrown the header's sequence field.
ResponsesRoutedBeforeWrap ==
    txSeq <= SeqMod => \A m \in net : m.kind = "rsp" => <<m.addr, m.seq>> = m.of

\* Once a request was transmitted its transaction leaves the table, answered or
\* given up, unless main returns first: the retransmissions end.
TxTransactionsEnd ==
    \A id \in TxId :
        id \in txTrans \cap txTimer ~> id \notin txTrans \/ status # "running"

\* Every receive transaction is deleted by its timeout: the table of handled
\* requests does not grow for ever, even when trToCh is full.
RxTransactionsEnd == \A id \in RxId : id \in rxTrans ~> id \notin rxTrans \/ status # "running"

=============================================================================
