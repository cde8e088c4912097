----------------------- MODULE UpfRetransWindowProofs -----------------------
(***************************************************************************)
(* For every number of requests, and for all timeouts and retransmission   *)
(* counts that satisfy WindowAssumption, the UPF handles no request twice. *)
(* A MaxRetrans of 255 is not among them: its window is 0.                 *)
(***************************************************************************)
EXTENDS UpfRetransWindow, TLAPS

IInv == TypeOK /\ Inv

\* A retransmission number bounds the time it happens at.
LEMMA ProductMonotone ==
    ASSUME NEW k \in Nat, NEW n \in Nat, NEW t \in Nat, k <= n
    PROVE  k * t <= n * t /\ k * t \in Nat /\ n * t \in Nat
<1>1. PICK d \in Nat : n = k + d
    <2>1. n - k \in Nat /\ n = k + (n - k)
        OBVIOUS
    <2> QED BY <2>1
<1>2. n * t = k * t + d * t
    BY <1>1
<1>3. d * t \in Nat /\ k * t \in Nat /\ n * t \in Nat
    OBVIOUS
<1> QED BY <1>2, <1>3

\* The window and the peer's last retransmission as numbers, in the form the
\* steps below use them.
LEMMA WindowFacts ==
    /\ RxTimeout \in Nat
    /\ PeerRetrans * PeerTimeout \in Nat
    /\ PeerRetrans * PeerTimeout + Delay < RxTimeout
<1>1. (MaxRetrans + 1) % 256 \in Nat
    BY TimesAssumption
<1> QED BY <1>1, TimesAssumption, WindowAssumption DEF RxTimeout

\* The initial states satisfy the inductive invariant of the receive window.
LEMMA InitInv == Init => IInv
BY TimesAssumption DEF Init, IInv, TypeOK, Inv

\* Every step preserves the inductive invariant of the receive window.
LEMMA NextInv == IInv /\ [Next]_vars => IInv'
<1> SUFFICES ASSUME IInv, [Next]_vars PROVE IInv'
    OBVIOUS
<1> DEFINE Last == PeerRetrans * PeerTimeout
<1> USE DEF IInv
<1>0. Last \in Nat /\ RxTimeout \in Nat /\ Last + Delay < RxTimeout /\ Delay \in Nat /\ MaxTime \in Nat
    BY WindowFacts, TimesAssumption
<1>1. ASSUME NEW r \in Reqs, PeerSend(r) PROVE IInv'
    <2>1. TypeOK'
        BY <1>1 DEF PeerSend, TypeOK, Copy
    <2>2. Inv'
        BY <1>1, <1>0 DEF PeerSend, TypeOK, Inv, Copy
    <2> QED BY <2>1, <2>2
<1>2. ASSUME NEW r \in Reqs, PeerResend(r) PROVE IInv'
    <2>1. tries[r] * PeerTimeout <= Last /\ tries[r] * PeerTimeout \in Nat
        BY <1>2, ProductMonotone, TimesAssumption DEF PeerResend, TypeOK
    <2>2. TypeOK'
        BY <1>2 DEF PeerResend, TypeOK, Copy
    <2>3. start[r] <= now /\ now <= start[r] + Last
        BY <1>2, <2>1, <1>0 DEF PeerResend, TypeOK
    <2>4. Inv'
        BY <1>2, <2>3, <1>0 DEF PeerResend, TypeOK, Inv, Copy
    <2> QED BY <2>2, <2>4
<1>3. ASSUME NEW r \in Reqs, RxExpire(r) PROVE IInv'
    BY <1>3, <1>0 DEF RxExpire, TypeOK, Inv
<1>4. ASSUME NEW c \in inFlight, RecvNew(c) PROVE IInv'
    <2>1. c \in [req : Reqs, at : Nat] /\ c.req \in Reqs /\ c.at \in Nat
        BY DEF TypeOK
    <2>2. handled[c.req] = 0
        <3>1. SUFFICES ASSUME handled[c.req] = 1 PROVE FALSE
            BY <2>1 DEF TypeOK, Inv
        <3>2. now >= rxStart[c.req] + RxTimeout /\ start[c.req] <= rxStart[c.req]
            BY <1>4, <2>1, <3>1 DEF RecvNew, Inv
        <3>3. c.at <= start[c.req] + Last /\ now <= c.at + Delay
            BY DEF Inv
        <3> QED BY <3>2, <3>3, <2>1, <1>0 DEF TypeOK
    <2>3. TypeOK'
        BY <1>4, <2>1 DEF RecvNew, TypeOK
    <2>4. Inv'
        BY <1>4, <2>1, <2>2, <1>0 DEF RecvNew, TypeOK, Inv
    <2> QED BY <2>3, <2>4
<1>5. ASSUME NEW c \in inFlight, RecvKnownOrLose(c) PROVE IInv'
    BY <1>5 DEF RecvKnownOrLose, TypeOK, Inv
<1>6. CASE Tick
    <2>1. TypeOK'
        BY <1>6, <1>0 DEF Tick, TypeOK
    <2>2. Inv'
        BY <1>6, <1>0 DEF Tick, TypeOK, Inv
    <2> QED BY <2>1, <2>2
<1>7. CASE UNCHANGED vars
    BY <1>7 DEF vars, TypeOK, Inv
<1> QED BY <1>1, <1>2, <1>3, <1>4, <1>5, <1>6, <1>7 DEF Next

\* NewRxTransaction keeps a transaction long enough where the configuration
\* satisfies WindowAssumption: whatever is lost, duplicated, reordered or
\* delayed, reqDispacher gets every request of a peer at most once.
THEOREM AtMostOnce == Spec => []HandledAtMostOnce
<1>1. IInv => HandledAtMostOnce
    BY DEF IInv, Inv, HandledAtMostOnce
<1> QED BY InitInv, NextInv, <1>1, PTL DEF Spec
=============================================================================
