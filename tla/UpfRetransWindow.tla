-------------------------- MODULE UpfRetransWindow --------------------------
(***************************************************************************)
(* The receive window of the UPF's PFCP server, with time: an              *)
(* RxTransaction remembers a request for RetransTimeout * (MaxRetrans + 1) *)
(* (the sum in uint8), so that retransmissions of it are answered and not  *)
(* handled again                                                           *)
(* (NewRxTransaction, RxTransaction.recv and handleTimeout in              *)
(* NFs/upf/internal/pfcp/transaction.go, the request branch of main).      *)
(*                                                                         *)
(* The peers retransmit on a schedule of their own, and the network loses, *)
(* duplicates, reorders and delays packets by at most Delay.               *)
(***************************************************************************)
EXTENDS Naturals

CONSTANTS
    Reqs,            \* the requests of the peers, each an (address, sequence) pair
    RetransTimeout,  \* cfg.Pfcp.RetransTimeout
    MaxRetrans,      \* cfg.Pfcp.MaxRetrans
    PeerTimeout,     \* the peers' retransmission timeout
    PeerRetrans,     \* how often a peer retransmits
    Delay,           \* the longest time a packet is under way
    MaxTime          \* bound on the clock

ASSUME TimesAssumption ==
    /\ RetransTimeout \in Nat /\ MaxRetrans \in 0 .. 255   \* uint8
    /\ PeerTimeout \in Nat /\ PeerRetrans \in Nat
    /\ Delay \in Nat /\ MaxTime \in Nat

\* Mutant: the timeout of a receive transaction is one retransmission short.
RxTimeout_OneShort == RetransTimeout * MaxRetrans

\* The timeout of a receive transaction.  MaxRetrans is a uint8 and so is the
\* sum: a MaxRetrans of 255, which the configuration may say, gives 0.
RxTimeout == RetransTimeout * ((MaxRetrans + 1) % 256)

\* The peers' last copy arrives before the window of the first one closes.
\* With the peers configured like the server (1s, 3 retransmissions in
\* config/upfcfg.yaml) this says that a packet is under way for less than
\* one RetransTimeout; with a MaxRetrans of 255 no peer satisfies it.
ASSUME WindowAssumption ==
    PeerRetrans * PeerTimeout + Delay < RetransTimeout * ((MaxRetrans + 1) % 256)

VARIABLES
    now,       \* the clock
    begun,     \* requests a peer has sent
    start,     \* when it sent each first
    tries,     \* how often it was sent
    inFlight,  \* copies under way: request and time of sending
    rxTrans,   \* requests with a receive transaction
    rxStart,   \* when its timer was started
    handled    \* how often reqDispacher got the request

vars == <<now, begun, start, tries, inFlight, rxTrans, rxStart, handled>>

Copy(r) == [req |-> r, at |-> now]

Init ==
    /\ now = 0
    /\ begun = {} /\ start = [r \in Reqs |-> 0] /\ tries = [r \in Reqs |-> 0]
    /\ inFlight = {}
    /\ rxTrans = {} /\ rxStart = [r \in Reqs |-> 0]
    /\ handled = [r \in Reqs |-> 0]

\* A peer sends a request for the first time.
PeerSend(r) ==
    /\ r \notin begun
    /\ begun' = begun \cup {r}
    /\ start' = [start EXCEPT ![r] = now]
    /\ tries' = [tries EXCEPT ![r] = 1]
    /\ inFlight' = inFlight \cup {Copy(r)}
    /\ UNCHANGED <<now, rxTrans, rxStart, handled>>

\* A peer that saw no response sends the request again.
PeerResend(r) ==
    /\ r \in begun
    /\ tries[r] <= PeerRetrans
    /\ now = start[r] + tries[r] * PeerTimeout
    /\ tries' = [tries EXCEPT ![r] = @ + 1]
    /\ inFlight' = inFlight \cup {Copy(r)}
    /\ UNCHANGED <<now, begun, start, rxTrans, rxStart, handled>>

\* main receives a copy it has no transaction for: NewRxTransaction starts
\* the timer and the request is dispatched.  The copy may arrive again.
RecvNew(c) ==
    /\ c.req \notin rxTrans
    /\ rxTrans' = rxTrans \cup {c.req}
    /\ rxStart' = [rxStart EXCEPT ![c.req] = now]
    /\ handled' = [handled EXCEPT ![c.req] = @ + 1]
    /\ UNCHANGED <<now, begun, start, tries, inFlight>>

\* main receives a copy whose transaction exists, or the network drops it.
RecvKnownOrLose(c) ==
    /\ inFlight' = inFlight \ {c}
    /\ UNCHANGED <<now, begun, start, tries, rxTrans, rxStart, handled>>

\* The timer has expired and main takes the timeout from trToCh; how long the
\* timer's goroutine and the channel delay it is not bounded.
RxExpire(r) ==
    /\ r \in rxTrans
    /\ now >= rxStart[r] + RxTimeout
    /\ rxTrans' = rxTrans \ {r}
    /\ UNCHANGED <<now, begun, start, tries, inFlight, rxStart, handled>>

\* Time passes; a packet is not under way for longer than Delay.
Tick ==
    /\ now < MaxTime
    /\ now' = now + 1
    /\ inFlight' = {c \in inFlight : now' <= c.at + Delay}
    /\ UNCHANGED <<begun, start, tries, rxTrans, rxStart, handled>>

Next ==
    \/ \E r \in Reqs : PeerSend(r) \/ PeerResend(r) \/ RxExpire(r)
    \/ \E c \in inFlight : RecvNew(c) \/ RecvKnownOrLose(c)
    \/ Tick

Spec == Init /\ [][Next]_vars

-----------------------------------------------------------------------------
\* The tables and the clock keep their types.
TypeOK ==
    /\ now \in 0 .. MaxTime
    /\ begun \subseteq Reqs
    /\ start \in [Reqs -> Nat] /\ tries \in [Reqs -> Nat]
    /\ inFlight \subseteq [req : Reqs, at : Nat]
    /\ rxTrans \subseteq Reqs /\ rxStart \in [Reqs -> Nat]
    /\ handled \in [Reqs -> Nat]

\* No request is handled twice ("False - req already handled", comment of
\* RxTransaction.recv): the transaction outlives every copy of its request.
HandledAtMostOnce == \A r \in Reqs : handled[r] <= 1

\* The inductive invariant: copies are young and from the peer's schedule,
\* and a handled request without transaction is older than the window.
Inv ==
    /\ \A c \in inFlight :
        /\ c.req \in begun
        /\ start[c.req] <= c.at /\ c.at <= now
        /\ c.at <= start[c.req] + PeerRetrans * PeerTimeout
        /\ now <= c.at + Delay
    /\ \A r \in Reqs :
        /\ r \in begun => start[r] <= now
        /\ handled[r] <= 1
        /\ r \in rxTrans => handled[r] = 1
        /\ handled[r] = 1 => /\ r \in begun
                             /\ start[r] <= rxStart[r] /\ rxStart[r] <= now
                             /\ r \notin rxTrans => now >= rxStart[r] + RxTimeout
=============================================================================
