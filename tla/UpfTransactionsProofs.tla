----------------------- MODULE UpfTransactionsProofs -----------------------
(***************************************************************************)
(* The safety properties of UpfTransactions for every set of peers, every  *)
(* number of requests, every MaxRetrans and every capacity of trToCh.      *)
(***************************************************************************)
EXTENDS UpfTransactions, TLAPS

NoDup(s) == \A i, j \in 1 .. Len(s) : s[i] = s[j] => i = j

\* Tokens of expired timers that main has not consumed.
Expired == firing \cup Range(trToCh)

\* Where the timeouts are.
TimersInv ==
    /\ OneTimeoutPerTransaction
    /\ \A id \in TxId : TxToken(id) \in Expired => id[2] < txSeq
    /\ \A id \in RxId : RxToken(id) \in Expired => id \in rxTrans

\* What the transmit table and the history say of each other.
TxInv ==
    \A id \in TxId :
        /\ id \in txTrans \/ id \in txTimer \/ sends[id] > 0 => id[2] < txSeq
        /\ id \in txTrans => answered[id] = 0 /\ timedOut[id] = 0
        /\ sends[id] > 0 => sends[id] = retransCount[id] + 1
        /\ sends[id] = 0 => /\ retransCount[id] = 0
                            /\ answered[id] = 0 /\ timedOut[id] = 0
                            /\ id \notin txTimer
                            /\ TxToken(id) \notin Expired
        /\ id \notin txTrans /\ sends[id] > 0 => answered[id] + timedOut[id] = 1
        /\ timedOut[id] > 0 => retransCount[id] = MaxRetrans
        /\ status = "running" /\ id \in txTrans /\ sends[id] > 0 => id \in txTimer

\* Packets on their way belong to requests that were transmitted.
PacketsInv ==
    /\ \A m \in wire : m.kind = "req" =>
            m.of \in TxId /\ m = Request(m.of) /\ sends[m.of] > 0
    /\ \A m \in net : m.kind = "req" => <<m.addr, m.seq>> \in RxId
    /\ \A m \in net : m.kind = "rsp" =>
            m.of \in TxId /\ m = Answer(Request(m.of)) /\ sends[m.of] > 0

IInv == TypeOK /\ TimersInv /\ TxInv /\ PacketsInv /\ StoppedDisarmed

-----------------------------------------------------------------------------
\* Append adds its element to the entries of the channel.
LEMMA RangeAppend ==
    ASSUME NEW S, NEW s \in Seq(S), NEW x \in S
    PROVE  /\ Append(s, x) \in Seq(S)
           /\ Range(Append(s, x)) = Range(s) \cup {x}
           /\ NoDup(s) /\ x \notin Range(s) => NoDup(Append(s, x))
BY DEF Range, NoDup

\* Tail removes the head from the entries of a channel without duplicates.
LEMMA RangeTail ==
    ASSUME NEW S, NEW s \in Seq(S), s # <<>>, NoDup(s)
    PROVE  /\ Head(s) \in S /\ Head(s) \in Range(s)
           /\ Tail(s) \in Seq(S) /\ Len(Tail(s)) <= Len(s)
           /\ Range(Tail(s)) = Range(s) \ {Head(s)}
           /\ NoDup(Tail(s))
<1>1. Len(s) >= 1 /\ Len(s) \in Nat
    OBVIOUS
<1>2. Len(Tail(s)) = Len(s) - 1 /\ \A i \in 1 .. Len(s) - 1 : Tail(s)[i] = s[i + 1]
    OBVIOUS
<1>3. Head(s) = s[1] /\ Head(s) \in S /\ Tail(s) \in Seq(S)
    OBVIOUS
<1>4. Range(Tail(s)) \subseteq Range(s) \ {Head(s)}
    BY <1>1, <1>2, <1>3 DEF Range, NoDup
<1>5. ASSUME NEW i \in 1 .. Len(s), s[i] # Head(s) PROVE s[i] \in Range(Tail(s))
    <2>1. i - 1 \in 1 .. Len(s) - 1
        BY <1>1, <1>3, <1>5
    <2>2. Tail(s)[i - 1] = s[i]
        BY <2>1, <1>2
    <2> QED BY <2>1, <2>2, <1>2 DEF Range
<1>6. NoDup(Tail(s))
    BY <1>1, <1>2 DEF NoDup
<1>7. Head(s) \in Range(s)
    BY <1>1, <1>3 DEF Range
<1>8. Range(s) \ {Head(s)} \subseteq Range(Tail(s))
    BY <1>5 DEF Range
<1> QED BY <1>1, <1>2, <1>3, <1>4, <1>6, <1>7, <1>8

\* Tokens determine the transaction they stand for.
LEMMA TokenFacts ==
    /\ \A a, b : TxToken(a) = TxToken(b) => a = b
    /\ \A a, b : RxToken(a) = RxToken(b) => a = b
    /\ \A a, b : TxToken(a) # RxToken(b)
    /\ \A a, b : TxToken(a)[1] = "TX" /\ TxToken(a)[2] = a /\ RxToken(b)[1] = "RX" /\ RxToken(b)[2] = b
BY DEF TxToken, RxToken

\* The packets of a request of the server are well formed.
LEMMA PacketFacts ==
    ASSUME NEW id \in TxId
    PROVE  /\ Request(id) \in Packet /\ Answer(Request(id)) \in Packet
           /\ Request(id).kind = "req" /\ Request(id).of = id
           /\ Answer(Request(id)).kind = "rsp" /\ Answer(Request(id)).of = id
           /\ Answer(Request(id)).addr = id[1]
           /\ Answer(Request(id)).seq = id[2] % SeqMod
BY SeqModAssumption, MaxTxAssumption DEF TxId, Request, Answer, Packet

\* So are the responses of the server.
LEMMA ResponseFacts ==
    ASSUME NEW id \in RxId PROVE Response(id) \in Packet /\ Response(id).kind = "rsp"
<1>1. id[1] \in Peers /\ id[2] \in RxSeqs
    BY DEF RxId
<1>2. RxSeqs \subseteq Nat
    BY RxSeqsAssumption, SeqModAssumption
<1> QED BY <1>1, <1>2 DEF Response, Packet

\* The initial states satisfy the inductive invariant.
LEMMA InitInv == Init => IInv
<1> SUFFICES ASSUME Init PROVE IInv
    OBVIOUS
<1> USE DEF Init
<1>1. TypeOK
    BY MaxRetransAssumption, MaxTxAssumption, TrToLenAssumption
    DEF TypeOK, Status
<1>2. TimersInv
    BY DEF TimersInv, OneTimeoutPerTransaction, Expired, Range, Waiting
<1>3. TxInv
    BY DEF TxInv, Expired, Range
<1>4. PacketsInv /\ StoppedDisarmed
    BY DEF PacketsInv, StoppedDisarmed
<1> QED BY <1>1, <1>2, <1>3, <1>4 DEF IInv

-----------------------------------------------------------------------------
\* The peers and the network only move packets.
LEMMA EnvironmentInv ==
    ASSUME IInv,
           \/ \E p \in Peers, q \in RxSeqs : PeerRequest(p, q)
           \/ \E m \in wire : PeerAnswer(m) \/ Lose(m)
    PROVE  IInv'
<1> USE DEF IInv, tables, timers, history
<1>1. UNCHANGED <<status, connOpen, receiver, tables, timers, history>>
    BY DEF PeerRequest, PeerAnswer, Lose
<1>2. (net \cup wire)' \subseteq Packet
    <2>1. ASSUME NEW p \in Peers, NEW q \in RxSeqs, PeerRequest(p, q) PROVE (net \cup wire)' \subseteq Packet
        <3>1. q \in Nat /\ <<p, q>> \in RxId
            BY RxSeqsAssumption, SeqModAssumption DEF RxId
        <3>2. [kind |-> "req", addr |-> p, seq |-> q, of |-> <<p, q>>] \in Packet
            BY <3>1 DEF Packet
        <3> QED BY <3>2, <2>1 DEF PeerRequest, TypeOK
    <2>2. ASSUME NEW m \in wire, PeerAnswer(m) PROVE (net \cup wire)' \subseteq Packet
        <3>1. m.of \in TxId /\ m = Request(m.of)
            BY <2>2 DEF PeerAnswer, PacketsInv
        <3> QED BY <2>2, <3>1, PacketFacts DEF PeerAnswer, TypeOK
    <2>3. ASSUME NEW m \in wire, Lose(m) PROVE (net \cup wire)' \subseteq Packet
        BY <2>3 DEF Lose, TypeOK
    <2> QED BY <2>1, <2>2, <2>3
<1>3. TypeOK'
    BY <1>1, <1>2 DEF TypeOK
<1>4. TimersInv'
    BY <1>1 DEF TimersInv, OneTimeoutPerTransaction, Expired, Waiting, Range
<1>5. TxInv'
    BY <1>1 DEF TxInv, Expired, Range
<1>6. StoppedDisarmed'
    BY <1>1 DEF StoppedDisarmed
<1>7. PacketsInv'
    <2>1. ASSUME NEW p \in Peers, NEW q \in RxSeqs, PeerRequest(p, q) PROVE PacketsInv'
        BY <1>1, <2>1 DEF PeerRequest, PacketsInv, RxId
    <2>2. ASSUME NEW m \in wire, PeerAnswer(m) PROVE PacketsInv'
        <3>1. m.of \in TxId /\ m = Request(m.of) /\ sends[m.of] > 0
            BY <2>2 DEF PeerAnswer, PacketsInv
        <3>2. Answer(m).of = m.of /\ Answer(m) = Answer(Request(m.of)) /\ Answer(m).kind = "rsp"
            BY <3>1, PacketFacts
        <3>3. net' = net \cup {Answer(m)} /\ wire' = wire /\ sends' = sends
            BY <2>2 DEF PeerAnswer
        <3> QED BY <3>1, <3>2, <3>3 DEF PacketsInv
    <2>3. ASSUME NEW m \in wire, Lose(m) PROVE PacketsInv'
        BY <1>1, <2>3 DEF Lose, PacketsInv
    <2> QED BY <2>1, <2>2, <2>3
<1> QED BY <1>3, <1>4, <1>5, <1>6, <1>7

\* A new request enters the table with a fresh id, so nothing is known of it.
LEMMA SendReqToInv ==
    ASSUME IInv, NEW p \in Peers, NEW encoded \in BOOLEAN, SendReqTo(p, encoded)
    PROVE  IInv'
<1>1. /\ <<p, txSeq>> \in TxId /\ <<p, txSeq>>[2] = txSeq
      /\ txSeq \in Nat /\ txSeq < MaxTx /\ MaxTx \in Nat
    BY MaxTxAssumption DEF SendReqTo, IInv, TypeOK, TxId
<1>2. PICK id \in TxId : id = <<p, txSeq>> /\ id[2] = txSeq
    BY <1>1
<1>3. /\ status = "running" /\ txSeq' = txSeq + 1 /\ txTrans' = txTrans \cup {id}
      /\ txTimer' = IF encoded THEN txTimer \cup {id} ELSE txTimer
      /\ armed' = IF encoded THEN armed \cup {TxToken(id)} ELSE armed
      /\ sends' = IF encoded THEN [sends EXCEPT ![id] = @ + 1] ELSE sends
      /\ wire' = IF encoded /\ connOpen THEN wire \cup {Request(id)} ELSE wire
      /\ UNCHANGED <<status, connOpen, receiver, retransCount, rxTrans, rxRsp, firing, trToCh, net,
                     answered, timedOut>>
    BY <1>2 DEF SendReqTo, Write
<1>4. TypeOK /\ TimersInv /\ TxInv /\ PacketsInv /\ StoppedDisarmed
    BY DEF IInv
<1>5. /\ id \notin txTrans /\ id \notin txTimer /\ sends[id] = 0 /\ retransCount[id] = 0
      /\ answered[id] = 0 /\ timedOut[id] = 0
      /\ TxToken(id) \notin Expired
    <2>1. ~ (id[2] < txSeq)
        BY <1>1, <1>2
    <2>2. sends[id] \in Nat
        BY <1>4 DEF TypeOK
    <2> QED BY <1>4, <2>1, <2>2 DEF TxInv
<1>6. TxToken(id) \notin armed
    BY <1>4, <1>5, TokenFacts DEF TimersInv, OneTimeoutPerTransaction, Waiting
<1>7. TypeOK'
    <2>1. Request(id) \in Packet /\ TxToken(id) \in Token
        BY PacketFacts DEF Token
    <2>2. txSeq' \in 0 .. MaxTx
        BY <1>1, <1>3
    <2>3. sends' \in [TxId -> Nat]
        BY <1>3, <1>4 DEF TypeOK
    <2> QED BY <1>3, <1>4, <2>1, <2>2, <2>3 DEF TypeOK
<1>8. TxInv'
    <2>1. ASSUME NEW x \in TxId, x # id PROVE sends'[x] = sends[x] /\ x[2] \in Nat
        BY <1>3, <1>4, <2>1 DEF TypeOK, TxId
    <2>2. Expired' = Expired
        BY <1>3 DEF Expired, Range
    <2>3. sends'[id] = IF encoded THEN 1 ELSE 0
        BY <1>3, <1>4, <1>5 DEF TypeOK
    <2>4. \A x \in TxId, n \in Nat : x[2] < n => x[2] < n + 1
        BY DEF TxId
    <2> SUFFICES ASSUME NEW x \in TxId PROVE TxInv!(x)'
        BY DEF TxInv
    <2>5. CASE x = id
        <3>1. id[2] < txSeq' /\ retransCount'[id] = 0 /\ answered'[id] = 0 /\ timedOut'[id] = 0
            BY <1>1, <1>2, <1>3, <1>5
        <3> QED BY <2>5, <1>3, <1>5, <2>2, <2>3, <3>1
    <2>6. CASE x # id
        BY <2>6, <1>1, <1>3, <1>4, <2>1, <2>2, <2>4 DEF TxInv
    <2> QED BY <2>5, <2>6
<1>9. TimersInv'
    <2>1. Waiting' = IF encoded THEN Waiting \cup {TxToken(id)} ELSE Waiting
        BY <1>3, <1>5 DEF Waiting
    <2>2. TxToken(id) \notin firing /\ TxToken(id) \notin Range(trToCh) /\ Range(trToCh)' = Range(trToCh)
        BY <1>3, <1>5 DEF Expired, Range
    <2>3. OneTimeoutPerTransaction'
        BY <1>3, <1>4, <2>1, <2>2 DEF TimersInv, OneTimeoutPerTransaction
    <2>4. \A x \in TxId : x[2] < txSeq => x[2] < txSeq'
        BY <1>1, <1>3 DEF TxId
    <2> QED BY <1>3, <1>4, <2>2, <2>3, <2>4 DEF TimersInv, Expired
<1>10. PacketsInv'
    <2>1. \A x \in TxId : sends[x] > 0 => sends'[x] > 0
        BY <1>3, <1>4, <1>5 DEF TypeOK
    <2>2. encoded => sends'[id] > 0
        BY <1>3, <1>4, <1>5 DEF TypeOK
    <2> QED BY <1>3, <1>4, <2>1, <2>2, PacketFacts DEF PacketsInv
<1>11. StoppedDisarmed'
    BY <1>3, <1>4 DEF StoppedDisarmed
<1> QED BY <1>7, <1>8, <1>9, <1>10, <1>11 DEF IInv

\* A request of a peer starts one timer, for a transaction that had none.
LEMMA RecvNewReqInv ==
    ASSUME IInv, NEW m \in net, NEW responds \in BOOLEAN, RecvNewReq(m, responds)
    PROVE  IInv'
<1>1. TypeOK /\ TimersInv /\ TxInv /\ PacketsInv /\ StoppedDisarmed
    BY DEF IInv
<1>2. PICK id \in RxId : id = <<m.addr, m.seq>>
    BY <1>1 DEF RecvNewReq, PacketsInv
<1>3. /\ status = "running" /\ id \notin rxTrans
      /\ rxTrans' = rxTrans \cup {id}
      /\ rxRsp' = IF responds THEN rxRsp \cup {id} ELSE rxRsp
      /\ armed' = armed \cup {RxToken(id)}
      /\ wire' = IF responds /\ connOpen THEN wire \cup {Response(id)} ELSE wire
      /\ UNCHANGED <<status, connOpen, receiver, txSeq, txTrans, txTimer, retransCount, firing, trToCh,
                     net, answered, timedOut, sends>>
    BY <1>2 DEF RecvNewReq, Write, history
<1>4. Response(id) \in Packet /\ Response(id).kind = "rsp"
    BY ResponseFacts
<1>5. TypeOK'
    BY <1>1, <1>3, <1>4 DEF TypeOK, Token
<1>6. RxToken(id) \notin Expired /\ RxToken(id) \notin armed
    BY <1>1, <1>3, TokenFacts DEF TimersInv, OneTimeoutPerTransaction, Waiting
<1>7. TimersInv'
    <2>1. Waiting' = Waiting \cup {RxToken(id)}
        BY <1>3 DEF Waiting
    <2>2. Range(trToCh)' = Range(trToCh) /\ RxToken(id) \notin firing /\ RxToken(id) \notin Range(trToCh)
        BY <1>3, <1>6 DEF Range, Expired
    <2>3. OneTimeoutPerTransaction'
        BY <1>1, <1>3, <2>1, <2>2 DEF TimersInv, OneTimeoutPerTransaction
    <2> QED BY <1>1, <1>3, <2>2, <2>3 DEF TimersInv, Expired
<1>8. TxInv'
    BY <1>1, <1>3 DEF TxInv, Expired, Range
<1>9. PacketsInv'
    BY <1>1, <1>3, <1>4 DEF PacketsInv
<1>10. StoppedDisarmed'
    BY <1>1, <1>3 DEF StoppedDisarmed
<1> QED BY <1>5, <1>7, <1>8, <1>9, <1>10 DEF IInv

\* A retransmitted request only repeats a response.
LEMMA RecvOldReqInv == ASSUME IInv, NEW m \in net, RecvOldReq(m) PROVE IInv'
<1>1. TypeOK /\ TimersInv /\ TxInv /\ PacketsInv /\ StoppedDisarmed
    BY DEF IInv
<1>2. PICK id \in RxId : id = <<m.addr, m.seq>>
    BY <1>1 DEF RecvOldReq, PacketsInv
<1>3. /\ wire' = wire \/ wire' = wire \cup {Response(id)}
      /\ UNCHANGED <<status, connOpen, receiver, tables, timers, net, history>>
    BY <1>2 DEF RecvOldReq, Write
<1>4. Response(id) \in Packet /\ Response(id).kind = "rsp"
    BY ResponseFacts
<1> USE DEF tables, timers, history
<1>5. TypeOK'
    BY <1>1, <1>3, <1>4 DEF TypeOK
<1>6. TimersInv'
    BY <1>1, <1>3 DEF TimersInv, OneTimeoutPerTransaction, Expired, Waiting, Range
<1>7. TxInv'
    BY <1>1, <1>3 DEF TxInv, Expired, Range
<1>8. PacketsInv'
    BY <1>1, <1>3, <1>4 DEF PacketsInv
<1>9. StoppedDisarmed'
    BY <1>1, <1>3 DEF StoppedDisarmed
<1> QED BY <1>5, <1>6, <1>7, <1>8, <1>9 DEF IInv

\* A transaction whose timer is nil was never transmitted, so before the
\* sequence numbers wrap nothing answers it.
LEMMA NilTimerUnanswered ==
    ASSUME IInv, NEW m \in net, RecvRsp(m), status' = "crashed"
    PROVE  txSeq > SeqMod
<1>1. TypeOK /\ TxInv /\ PacketsInv
    BY DEF IInv
<1>2. PICK id \in TxId : id = <<m.addr, m.seq>> /\ id \in txTrans /\ id \notin txTimer
    BY <1>1 DEF RecvRsp, TypeOK
<1>3. m.of \in TxId /\ m = Answer(Request(m.of)) /\ sends[m.of] > 0 /\ status = "running"
    BY <1>1 DEF RecvRsp, PacketsInv
<1>4. m.addr = m.of[1] /\ m.seq = m.of[2] % SeqMod
    BY <1>3, PacketFacts
<1>5. txSeq \in Nat /\ SeqMod \in Nat \ {0}
    BY <1>1, SeqModAssumption DEF TypeOK
<1>6. SUFFICES ASSUME txSeq <= SeqMod PROVE FALSE
    BY <1>5
<1>7. m.of[2] < txSeq /\ m.of[2] \in Nat /\ m.of = <<m.of[1], m.of[2]>>
    BY <1>1, <1>3 DEF TxInv, TxId
<1>8. m.of[2] % SeqMod = m.of[2]
    BY <1>5, <1>6, <1>7
<1>9. id = m.of
    BY <1>2, <1>4, <1>7, <1>8
<1> QED BY <1>1, <1>2, <1>3, <1>9 DEF TxInv

\* A response ends its transaction, once: the table holds only requests that
\* nobody was told about.
LEMMA RecvRspInv == ASSUME IInv, NEW m \in net, RecvRsp(m) PROVE IInv'
<1>1. TypeOK /\ TimersInv /\ TxInv /\ PacketsInv /\ StoppedDisarmed
    BY DEF IInv
<1>2. PICK id \in TxId : id = <<m.addr, m.seq>> /\ id \in txTrans
    BY <1>1 DEF RecvRsp, TypeOK
<1>3. CASE id \in txTimer
    <2>1. /\ status = "running" /\ id \in txTrans
          /\ armed' = armed \ {TxToken(id)}
          /\ txTimer' = txTimer \ {id}
          /\ txTrans' = txTrans \ {id}
          /\ answered' = [answered EXCEPT ![id] = @ + 1]
          /\ UNCHANGED <<status, connOpen, receiver, txSeq, retransCount, rxTrans, rxRsp, firing, trToCh,
                         net, wire, timedOut, sends>>
        BY <1>2, <1>3 DEF RecvRsp
    <2>2. TypeOK'
        BY <1>1, <2>1 DEF TypeOK
    <2>3. Range(trToCh)' = Range(trToCh) /\ Expired' = Expired
        BY <2>1 DEF Range, Expired
    <2>4. TimersInv'
        <3>1. Waiting' = Waiting \ {TxToken(id)}
            BY <2>1, TokenFacts DEF Waiting
        <3> QED BY <1>1, <2>1, <2>3, <3>1 DEF TimersInv, OneTimeoutPerTransaction
    <2>5. TxInv'
        <3> SUFFICES ASSUME NEW x \in TxId PROVE TxInv!(x)'
            BY DEF TxInv
        <3>1. CASE x = id
            <4>1. answered'[id] = 1 /\ timedOut[id] = 0 /\ sends[id] > 0 /\ sends[id] \in Nat
                BY <1>1, <1>2, <1>3, <2>1 DEF TxInv, TypeOK
            <4> QED BY <3>1, <4>1, <1>1, <1>2, <2>1, <2>3 DEF TxInv
        <3>2. CASE x # id
            <4>1. answered'[x] = answered[x]
                BY <3>2, <1>1, <2>1 DEF TypeOK
            <4> QED BY <3>2, <4>1, <1>1, <2>1, <2>3 DEF TxInv
        <3> QED BY <3>1, <3>2
    <2>6. PacketsInv'
        BY <1>1, <2>1 DEF PacketsInv
    <2>7. StoppedDisarmed'
        BY <1>1, <2>1 DEF StoppedDisarmed
    <2> QED BY <2>2, <2>4, <2>5, <2>6, <2>7 DEF IInv
<1>4. CASE id \notin txTimer
    <2>1. /\ status = "running" /\ status' = "crashed"
          /\ UNCHANGED <<connOpen, receiver, tables, timers, net, wire, history>>
        BY <1>2, <1>4 DEF RecvRsp, tables, timers, history
    <2> USE DEF tables, timers, history
    <2>3. TypeOK'
        BY <1>1, <2>1 DEF TypeOK, Status
    <2>4. TimersInv'
        BY <1>1, <2>1 DEF TimersInv, OneTimeoutPerTransaction, Expired, Waiting, Range
    <2>5. TxInv'
        BY <1>1, <2>1 DEF TxInv, Expired, Range
    <2>6. PacketsInv'
        BY <1>1, <2>1 DEF PacketsInv
    <2>7. StoppedDisarmed'
        BY <1>1, <2>1 DEF StoppedDisarmed
    <2> QED BY <2>3, <2>4, <2>5, <2>6, <2>7 DEF IInv
<1> QED BY <1>3, <1>4

\* A queued timeout of a live transaction is the only one it has: it is
\* consumed and replaced by a new timer, or ends the transaction.
LEMMA TxTimeoutInv == ASSUME IInv, TxTimeout PROVE IInv'
<1>1. TypeOK /\ TimersInv /\ TxInv /\ PacketsInv /\ StoppedDisarmed
    BY DEF IInv
<1>2. NoDup(trToCh) /\ trToCh \in Seq(Token) /\ trToCh # <<>> /\ Len(trToCh) <= TrToLen
    BY <1>1 DEF TimersInv, OneTimeoutPerTransaction, NoDup, TypeOK, TxTimeout
<1>3. /\ Head(trToCh) \in Token /\ Head(trToCh) \in Range(trToCh)
      /\ Tail(trToCh) \in Seq(Token) /\ Len(Tail(trToCh)) <= TrToLen
      /\ Range(Tail(trToCh)) = Range(trToCh) \ {Head(trToCh)}
      /\ NoDup(Tail(trToCh))
    BY <1>2, RangeTail, TrToLenAssumption
<1>4. PICK id \in TxId : Head(trToCh) = TxToken(id) /\ Head(trToCh)[2] = id
    BY <1>3, TokenFacts DEF TxTimeout, Token
<1>5. /\ status = "running" /\ trToCh' = Tail(trToCh)
      /\ UNCHANGED <<status, connOpen, receiver, txSeq, rxTrans, rxRsp, firing, net, answered>>
    BY DEF TxTimeout
<1>6. /\ Range(trToCh)' = Range(trToCh) \ {TxToken(id)}
      /\ Expired' = Expired \ {TxToken(id)}
      /\ TxToken(id) \in Expired
      /\ TxToken(id) \notin firing /\ TxToken(id) \notin armed
      /\ \A i, j \in 1 .. Len(trToCh') : trToCh'[i] = trToCh'[j] => i = j
    <2>1. Range(trToCh)' = Range(trToCh')
        BY DEF Range
    <2> QED BY <2>1, <1>1, <1>3, <1>4, <1>5 DEF Expired, NoDup, TimersInv, OneTimeoutPerTransaction
<1>7. CASE id \notin txTrans
    <2>1. UNCHANGED <<txTrans, txTimer, retransCount, armed, wire, timedOut, sends>>
        BY <1>4, <1>7 DEF TxTimeout
    <2>2. TypeOK'
        BY <1>1, <1>3, <1>5, <2>1 DEF TypeOK
    <2>3. TimersInv'
        <3>1. Waiting' = Waiting /\ TxToken(id) \notin Waiting
            BY <1>5, <1>7, <2>1, TokenFacts DEF Waiting
        <3> QED BY <1>1, <1>5, <1>6, <2>1, <3>1 DEF TimersInv, OneTimeoutPerTransaction
    <2>4. TxInv'
        BY <1>1, <1>5, <1>6, <2>1 DEF TxInv
    <2>5. PacketsInv' /\ StoppedDisarmed'
        BY <1>1, <1>5, <2>1 DEF PacketsInv, StoppedDisarmed
    <2> QED BY <2>2, <2>3, <2>4, <2>5 DEF IInv
<1>8. ASSUME id \in txTrans PROVE /\ id \in txTimer /\ sends[id] > 0
                                  /\ sends[id] = retransCount[id] + 1
                                  /\ answered[id] = 0 /\ timedOut[id] = 0
    BY <1>1, <1>5, <1>6, <1>8 DEF TxInv, TypeOK
<1>9. CASE id \in txTrans /\ Retransmit(id)
    <2>1. /\ retransCount[id] < MaxRetrans
          /\ retransCount' = [retransCount EXCEPT ![id] = @ + 1]
          /\ sends' = [sends EXCEPT ![id] = @ + 1]
          /\ txTimer' = txTimer \cup {id}
          /\ armed' = armed \cup {TxToken(id)}
          /\ UNCHANGED <<txTrans, timedOut>>
          /\ wire' = IF connOpen THEN wire \cup {Request(id)} ELSE wire
        BY <1>9 DEF Retransmit, Write
    <2>2. TypeOK'
        <3>1. Request(id) \in Packet /\ TxToken(id) \in Token
            BY PacketFacts DEF Token
        <3>2. retransCount' \in [TxId -> 0 .. MaxRetrans] /\ sends' \in [TxId -> Nat]
            BY <1>1, <2>1, MaxRetransAssumption DEF TypeOK
        <3> QED BY <1>1, <1>3, <1>5, <2>1, <3>1, <3>2 DEF TypeOK
    <2>3. TimersInv'
        <3>1. Waiting' = Waiting /\ TxToken(id) \in Waiting
            BY <1>5, <1>8, <1>9, <2>1 DEF Waiting
        <3> QED BY <1>1, <1>5, <1>6, <2>1, <3>1 DEF TimersInv, OneTimeoutPerTransaction
    <2>4. TxInv'
        <3> SUFFICES ASSUME NEW x \in TxId PROVE TxInv!(x)'
            BY DEF TxInv
        <3>1. CASE x = id
            <4>1. sends'[id] = retransCount'[id] + 1 /\ sends'[id] > 0
                BY <1>1, <1>8, <1>9, <2>1 DEF TypeOK
            <4> QED BY <3>1, <4>1, <1>1, <1>5, <1>8, <1>9, <2>1 DEF TxInv
        <3>2. CASE x # id
            <4>1. retransCount'[x] = retransCount[x] /\ sends'[x] = sends[x]
                BY <3>2, <1>1, <2>1 DEF TypeOK
            <4> QED BY <3>2, <4>1, <1>1, <1>5, <1>6, <2>1 DEF TxInv
        <3> QED BY <3>1, <3>2
    <2>5. PacketsInv'
        <3>1. \A x \in TxId : sends[x] > 0 => sends'[x] > 0
            BY <1>1, <2>1 DEF TypeOK
        <3> QED BY <1>1, <1>5, <1>8, <1>9, <2>1, <3>1, PacketFacts DEF PacketsInv
    <2>6. StoppedDisarmed'
        BY <1>1, <1>5 DEF StoppedDisarmed
    <2> QED BY <2>2, <2>3, <2>4, <2>5, <2>6 DEF IInv
<1>10. CASE id \in txTrans /\ GiveUp(id)
    <2>1. /\ retransCount[id] >= MaxRetrans
          /\ txTrans' = txTrans \ {id}
          /\ timedOut' = [timedOut EXCEPT ![id] = @ + 1]
          /\ UNCHANGED <<retransCount, wire, sends, txTimer, armed>>
        BY <1>10 DEF GiveUp
    <2>2. TypeOK'
        BY <1>1, <1>3, <1>5, <2>1 DEF TypeOK
    <2>3. TimersInv'
        <3>1. Waiting' = Waiting \ {TxToken(id)}
            BY <1>5, <2>1, TokenFacts DEF Waiting
        <3> QED BY <1>1, <1>5, <1>6, <2>1, <3>1 DEF TimersInv, OneTimeoutPerTransaction
    <2>4. TxInv'
        <3> SUFFICES ASSUME NEW x \in TxId PROVE TxInv!(x)'
            BY DEF TxInv
        <3>1. CASE x = id
            <4>1. timedOut'[id] = 1 /\ retransCount[id] = MaxRetrans
                BY <1>1, <1>8, <1>10, <2>1, MaxRetransAssumption DEF TypeOK
            <4> QED BY <3>1, <4>1, <1>1, <1>5, <1>6, <1>8, <1>10, <2>1 DEF TxInv
        <3>2. CASE x # id
            <4>1. timedOut'[x] = timedOut[x]
                BY <3>2, <1>1, <2>1 DEF TypeOK
            <4> QED BY <3>2, <4>1, <1>1, <1>5, <1>6, <2>1 DEF TxInv
        <3> QED BY <3>1, <3>2
    <2>5. PacketsInv' /\ StoppedDisarmed'
        BY <1>1, <1>5, <2>1 DEF PacketsInv, StoppedDisarmed
    <2> QED BY <2>2, <2>3, <2>4, <2>5 DEF IInv
<1> QED BY <1>4, <1>7, <1>9, <1>10 DEF TxTimeout

\* A queued timeout of a receive transaction ends it.
LEMMA RxTimeoutInv == ASSUME IInv, RxTimeout PROVE IInv'
<1>1. TypeOK /\ TimersInv /\ TxInv /\ PacketsInv /\ StoppedDisarmed
    BY DEF IInv
<1>2. NoDup(trToCh) /\ trToCh \in Seq(Token) /\ trToCh # <<>> /\ Len(trToCh) <= TrToLen
    BY <1>1 DEF TimersInv, OneTimeoutPerTransaction, NoDup, TypeOK, RxTimeout
<1>3. /\ Head(trToCh) \in Token /\ Head(trToCh) \in Range(trToCh)
      /\ Tail(trToCh) \in Seq(Token) /\ Len(Tail(trToCh)) <= TrToLen
      /\ Range(Tail(trToCh)) = Range(trToCh) \ {Head(trToCh)}
      /\ NoDup(Tail(trToCh))
    BY <1>2, RangeTail, TrToLenAssumption
<1>4. PICK id \in RxId : Head(trToCh) = RxToken(id) /\ Head(trToCh)[2] = id
    BY <1>3, TokenFacts DEF RxTimeout, Token
<1>5. /\ status = "running" /\ trToCh' = Tail(trToCh)
      /\ rxTrans' = rxTrans \ {id} /\ rxRsp' = rxRsp \ {id}
      /\ UNCHANGED <<status, connOpen, receiver, txSeq, txTrans, txTimer, retransCount, armed, firing,
                     net, wire, answered, timedOut, sends>>
    BY <1>4 DEF RxTimeout, history
<1>6. /\ Range(trToCh)' = Range(trToCh) \ {RxToken(id)}
      /\ Expired' = Expired \ {RxToken(id)}
      /\ RxToken(id) \notin firing /\ RxToken(id) \notin armed
      /\ \A i, j \in 1 .. Len(trToCh') : trToCh'[i] = trToCh'[j] => i = j
    <2>1. Range(trToCh)' = Range(trToCh')
        BY DEF Range
    <2> QED BY <2>1, <1>1, <1>3, <1>4, <1>5 DEF Expired, NoDup, TimersInv, OneTimeoutPerTransaction
<1>7. TypeOK'
    BY <1>1, <1>3, <1>5 DEF TypeOK
<1>8. TimersInv'
    <2>1. Waiting' = Waiting \ {RxToken(id)}
        BY <1>5, TokenFacts DEF Waiting
    <2>2. OneTimeoutPerTransaction'
        BY <1>1, <1>5, <1>6, <2>1 DEF TimersInv, OneTimeoutPerTransaction
    <2> QED BY <1>1, <1>5, <1>6, <2>2, TokenFacts DEF TimersInv
<1>9. TxInv'
    BY <1>1, <1>5, <1>6 DEF TxInv
<1>10. PacketsInv' /\ StoppedDisarmed'
    BY <1>1, <1>5 DEF PacketsInv, StoppedDisarmed
<1> QED BY <1>7, <1>8, <1>9, <1>10 DEF IInv

\* An expiring timer turns into a goroutine with the same token.
LEMMA ExpireInv == ASSUME IInv, NEW t \in Token, Expire(t) PROVE IInv'
<1>1. TypeOK /\ TimersInv /\ TxInv /\ PacketsInv /\ StoppedDisarmed
    BY DEF IInv
<1>2. /\ status # "crashed" /\ t \in armed
      /\ armed' = armed \ {t} /\ firing' = firing \cup {t}
      /\ UNCHANGED <<status, connOpen, receiver, txSeq, txTrans, txTimer, retransCount, rxTrans, rxRsp,
                     trToCh, net, wire, answered, timedOut, sends>>
    BY DEF Expire, tables, history
<1>3. Range(trToCh)' = Range(trToCh) /\ Expired' = Expired \cup {t} /\ Waiting' = Waiting
    BY <1>2 DEF Range, Expired, Waiting
<1>4. t \in Waiting
    BY <1>1, <1>2 DEF TimersInv, OneTimeoutPerTransaction
<1>5. TypeOK'
    BY <1>1, <1>2 DEF TypeOK
<1>6. TimersInv'
    <2>1. OneTimeoutPerTransaction'
        BY <1>1, <1>2, <1>3 DEF TimersInv, OneTimeoutPerTransaction
    <2>2. ASSUME NEW id \in TxId, t = TxToken(id) PROVE id[2] < txSeq
        BY <1>1, <1>4, <2>2, TokenFacts DEF Waiting, TxInv
    <2>3. ASSUME NEW id \in RxId, t = RxToken(id) PROVE id \in rxTrans
        BY <1>4, <2>3, TokenFacts DEF Waiting
    <2> QED BY <1>1, <1>2, <1>3, <2>1, <2>2, <2>3 DEF TimersInv
<1>7. TxInv'
    <2>1. ASSUME NEW id \in TxId, sends[id] = 0 PROVE t # TxToken(id)
        BY <1>1, <1>4, <2>1, TokenFacts DEF Waiting, TxInv
    <2> QED BY <1>1, <1>2, <1>3, <2>1 DEF TxInv
<1>8. PacketsInv' /\ StoppedDisarmed'
    BY <1>1, <1>2 DEF PacketsInv, StoppedDisarmed
<1> QED BY <1>5, <1>6, <1>7, <1>8 DEF IInv

\* A goroutine's send moves its token into the channel; on the closed channel
\* it ends the process.
LEMMA NotifyInv == ASSUME IInv, NEW t \in Token, NotifyTransTimeout(t) PROVE IInv'
<1>1. TypeOK /\ TimersInv /\ TxInv /\ PacketsInv /\ StoppedDisarmed
    BY DEF IInv
<1>2. /\ t \in firing
      /\ UNCHANGED <<connOpen, receiver, txSeq, txTrans, txTimer, retransCount, rxTrans, rxRsp,
                     armed, net, wire, answered, timedOut, sends>>
    BY DEF NotifyTransTimeout, tables, history
<1>3. Waiting' = Waiting
    BY <1>2 DEF Waiting
<1>4. CASE /\ status = "running" /\ Len(trToCh) < TrToLen /\ trToCh' = Append(trToCh, t)
           /\ firing' = firing \ {t} /\ UNCHANGED status
    <2>1. NoDup(trToCh) /\ t \notin Range(trToCh) /\ trToCh \in Seq(Token)
        BY <1>1, <1>2 DEF TimersInv, OneTimeoutPerTransaction, NoDup, TypeOK
    <2>2. /\ trToCh' \in Seq(Token) /\ Range(trToCh') = Range(trToCh) \cup {t} /\ NoDup(trToCh')
          /\ Len(trToCh') <= TrToLen
        BY <2>1, <1>4, RangeAppend, TrToLenAssumption
    <2>3. Range(trToCh)' = Range(trToCh) \cup {t} /\ Expired' = Expired
        BY <1>2, <1>4, <2>2 DEF Expired, Range
    <2>4. TypeOK'
        BY <1>1, <1>2, <1>4, <2>2 DEF TypeOK
    <2>5. TimersInv'
        BY <1>1, <1>2, <1>3, <1>4, <2>2, <2>3 DEF TimersInv, OneTimeoutPerTransaction, NoDup
    <2>6. TxInv'
        BY <1>1, <1>2, <1>4, <2>3 DEF TxInv
    <2>7. PacketsInv' /\ StoppedDisarmed'
        BY <1>1, <1>2, <1>4 DEF PacketsInv, StoppedDisarmed
    <2> QED BY <2>4, <2>5, <2>6, <2>7 DEF IInv
<1>5. CASE status = "stopped" /\ status' = "crashed" /\ UNCHANGED <<trToCh, firing>>
    <2>1. TypeOK'
        BY <1>1, <1>2, <1>5 DEF TypeOK, Status
    <2>2. TimersInv'
        BY <1>1, <1>2, <1>3, <1>5 DEF TimersInv, OneTimeoutPerTransaction, Expired, Range
    <2>3. TxInv'
        BY <1>1, <1>2, <1>5 DEF TxInv, Expired, Range
    <2>4. PacketsInv' /\ StoppedDisarmed'
        BY <1>1, <1>2, <1>5 DEF PacketsInv, StoppedDisarmed
    <2> QED BY <2>1, <2>2, <2>3, <2>4 DEF IInv
<1> QED BY <1>4, <1>5 DEF NotifyTransTimeout

\* Closing the socket leaves the tables alone.
LEMMA StopInv == ASSUME IInv, Stop PROVE IInv'
<1>1. TypeOK /\ TimersInv /\ TxInv /\ PacketsInv /\ StoppedDisarmed
    BY DEF IInv
<1>2. /\ connOpen' = FALSE
      /\ UNCHANGED <<status, receiver, txSeq, txTrans, txTimer, retransCount, rxTrans, rxRsp, armed,
                     firing, trToCh, net, wire, answered, timedOut, sends>>
    BY DEF Stop, tables, timers, history
<1>3. TypeOK'
    BY <1>1, <1>2 DEF TypeOK
<1>4. TimersInv'
    BY <1>1, <1>2 DEF TimersInv, OneTimeoutPerTransaction, Expired, Waiting, Range
<1>5. TxInv'
    BY <1>1, <1>2 DEF TxInv, Expired, Range
<1>6. PacketsInv' /\ StoppedDisarmed'
    BY <1>1, <1>2 DEF PacketsInv, StoppedDisarmed
<1> QED BY <1>3, <1>4, <1>5, <1>6 DEF IInv

\* stopTrTimers stops every timer, since each belongs to a transaction of the
\* tables.
LEMMA MainReturnsInv == ASSUME IInv, MainReturns PROVE IInv'
<1>1. TypeOK /\ TimersInv /\ TxInv /\ PacketsInv /\ StoppedDisarmed
    BY DEF IInv
<1>2. /\ status = "running" /\ status' = "stopped" /\ receiver' \in {"reading", "ended"}
      /\ armed' = armed \ Waiting
      /\ txTimer' = txTimer \ txTrans
      /\ UNCHANGED <<connOpen, txSeq, txTrans, retransCount, rxTrans, rxRsp, firing, trToCh,
                     net, wire, answered, timedOut, sends>>
    BY DEF MainReturns, stopTrTimers, Waiting, history
<1>3. armed' = {} /\ Range(trToCh)' = Range(trToCh) /\ Expired' = Expired
    BY <1>1, <1>2 DEF TimersInv, OneTimeoutPerTransaction, Expired, Range
<1>4. TypeOK'
    BY <1>1, <1>2 DEF TypeOK, Status
<1>5. TimersInv'
    BY <1>1, <1>2, <1>3 DEF TimersInv, OneTimeoutPerTransaction
<1>6. TxInv'
    BY <1>1, <1>2, <1>3 DEF TxInv
<1>7. PacketsInv' /\ StoppedDisarmed'
    BY <1>1, <1>2, <1>3 DEF PacketsInv, StoppedDisarmed
<1> QED BY <1>4, <1>5, <1>6, <1>7 DEF IInv

\* The receiver's send on the closed channel leaves the tables alone.
LEMMA ReceiverInv == ASSUME IInv, ReceiverSendsOnClosed PROVE IInv'
<1>1. TypeOK /\ TimersInv /\ TxInv /\ PacketsInv /\ StoppedDisarmed
    BY DEF IInv
<1>2. /\ status = "stopped" /\ status' = "crashed"
      /\ UNCHANGED <<connOpen, receiver, txSeq, txTrans, txTimer, retransCount, rxTrans, rxRsp,
                     armed, firing, trToCh, net, wire, answered, timedOut, sends>>
    BY DEF ReceiverSendsOnClosed, tables, timers, history
<1>3. TypeOK'
    BY <1>1, <1>2 DEF TypeOK, Status
<1>4. TimersInv'
    BY <1>1, <1>2 DEF TimersInv, OneTimeoutPerTransaction, Expired, Waiting, Range
<1>5. TxInv'
    BY <1>1, <1>2 DEF TxInv, Expired, Range
<1>6. PacketsInv' /\ StoppedDisarmed'
    BY <1>1, <1>2 DEF PacketsInv, StoppedDisarmed
<1> QED BY <1>3, <1>4, <1>5, <1>6 DEF IInv

-----------------------------------------------------------------------------
\* Every step preserves the inductive invariant.
LEMMA NextInv == IInv /\ [Next]_vars => IInv'
<1> SUFFICES ASSUME IInv, [Next]_vars PROVE IInv'
    OBVIOUS
<1>1. ASSUME UNCHANGED vars PROVE IInv'
    <2> USE <1>1 DEF vars, tables, timers, history, IInv
    <2>1. TypeOK'
        BY DEF TypeOK
    <2>2. TimersInv'
        BY DEF TimersInv, OneTimeoutPerTransaction, Expired, Waiting, Range
    <2>3. TxInv'
        BY DEF TxInv, Expired, Range
    <2>4. PacketsInv' /\ StoppedDisarmed'
        BY DEF PacketsInv, StoppedDisarmed
    <2> QED BY <2>1, <2>2, <2>3, <2>4
<1>2. ASSUME NEW m \in net, RecvStrayRsp(m) PROVE IInv'
    BY <1>1, <1>2 DEF RecvStrayRsp
<1>3. {TRUE, ~EncodeFails} \subseteq BOOLEAN
    BY EncodeFailsAssumption
<1> QED
    BY <1>1, <1>2, <1>3, EnvironmentInv, SendReqToInv, RecvNewReqInv, RecvOldReqInv, RecvRspInv,
       TxTimeoutInv, RxTimeoutInv, ExpireInv, NotifyInv, StopInv, MainReturnsInv, ReceiverInv
    DEF Next

\* The inductive invariant holds in every state of every behaviour.
LEMMA Invariance == Spec => []IInv
BY InitInv, NextInv, PTL DEF Spec

\* The tables, timers and packets of the server keep their types.
THEOREM TypeCorrect == Spec => []TypeOK
<1>1. IInv => TypeOK
    BY DEF IInv
<1> QED BY Invariance, <1>1, PTL

\* No transaction loses its timeout and none has two, whatever the peers send,
\* the network does and the timers race.
THEOREM TimeoutsUnique == Spec => []OneTimeoutPerTransaction
<1>1. IInv => OneTimeoutPerTransaction
    BY DEF IInv, TimersInv
<1> QED BY Invariance, <1>1, PTL

\* Every request of the server is answered or reported as timed out, exactly
\* once, and never both.
THEOREM OutcomesUnique == Spec => []OneOutcomePerRequest
<1>1. IInv => OneOutcomePerRequest
    <2> SUFFICES ASSUME IInv, NEW id \in TxId
                 PROVE  answered[id] + timedOut[id] =
                            IF sends[id] > 0 /\ id \notin txTrans THEN 1 ELSE 0
        BY DEF OneOutcomePerRequest
    <2>1. sends[id] \in Nat
        BY DEF IInv, TypeOK
    <2> QED BY <2>1 DEF IInv, TxInv
<1> QED BY Invariance, <1>1, PTL

\* A request is given up only after MaxRetrans + 1 transmissions.
THEOREM AllTriesMade == Spec => []GiveUpAfterAllTries
<1>1. IInv => GiveUpAfterAllTries
    <2> SUFFICES ASSUME IInv, NEW id \in TxId
                 PROVE  /\ sends[id] <= MaxRetrans + 1
                        /\ timedOut[id] > 0 => sends[id] = MaxRetrans + 1
        BY DEF GiveUpAfterAllTries
    <2>1. sends[id] \in Nat /\ retransCount[id] \in 0 .. MaxRetrans /\ timedOut[id] \in Nat
        BY DEF IInv, TypeOK
    <2> QED BY <2>1, MaxRetransAssumption DEF IInv, TxInv
<1> QED BY Invariance, <1>1, PTL

\* After shutdown no timer is running.
THEOREM ShutdownSafe == Spec => []StoppedDisarmed
<1>1. IInv => StoppedDisarmed
    BY DEF IInv, StoppedDisarmed
<1> QED BY Invariance, <1>1, PTL

\* As long as the sequence numbers fit the header, no packet, no timeout and
\* no failed encoding makes main panic.
THEOREM MainKeepsRunning == Spec => MainNeverPanics
<1>1. IInv /\ [Next]_vars => [status = "running" /\ status' = "crashed" => txSeq > SeqMod]_vars
    <2> SUFFICES ASSUME IInv, Next, status = "running", status' = "crashed" PROVE txSeq > SeqMod
        OBVIOUS
    <2>1. \E m \in net : RecvRsp(m)
        BY DEF Next, PeerRequest, PeerAnswer, Lose, SendReqTo, RecvNewReq, RecvOldReq, RecvStrayRsp,
            TxTimeout, RxTimeout, Expire, NotifyTransTimeout, Stop, MainReturns,
            ReceiverSendsOnClosed, vars
    <2> QED BY <2>1, NilTimerUnanswered
<1> QED BY Invariance, <1>1, PTL DEF Spec, MainNeverPanics

\* Until the sequence numbers wrap, responses carry the id of the request they
\* answer.
THEOREM ResponsesFindTheirRequest == Spec => []ResponsesRoutedBeforeWrap
<1>1. IInv => ResponsesRoutedBeforeWrap
    <2> SUFFICES ASSUME IInv, txSeq <= SeqMod, NEW m \in net, m.kind = "rsp"
                 PROVE  <<m.addr, m.seq>> = m.of
        BY DEF ResponsesRoutedBeforeWrap
    <2>1. m.of \in TxId /\ m = Answer(Request(m.of)) /\ sends[m.of] > 0
        BY DEF IInv, PacketsInv
    <2>2. m.addr = m.of[1] /\ m.seq = m.of[2] % SeqMod
        BY <2>1, PacketFacts
    <2>3. m.of[2] < txSeq /\ m.of[2] \in Nat /\ m.of = <<m.of[1], m.of[2]>>
        BY <2>1 DEF IInv, TxInv, TxId
    <2>4. txSeq \in Nat /\ SeqMod \in Nat \ {0}
        BY SeqModAssumption DEF IInv, TypeOK
    <2>5. m.of[2] % SeqMod = m.of[2]
        BY <2>3, <2>4
    <2> QED BY <2>2, <2>3, <2>5
<1> QED BY Invariance, <1>1, PTL
=============================================================================
