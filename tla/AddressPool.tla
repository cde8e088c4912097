----------------------------- MODULE AddressPool -----------------------------
(***************************************************************************)
(* What the UE address pools of the SMF promise to the PDU sessions: an    *)
(* address belongs to at most one session, an address of the static range  *)
(* only goes to a session that asked for it, and the addresses that are    *)
(* excluded (network and broadcast address) to none.  UeIPPool implements  *)
(* it.                                                                     *)
(***************************************************************************)
CONSTANTS
    Sessions,     \* PDU sessions
    Addresses,    \* addresses that can be assigned
    OnRequest,    \* those a session gets only when it asks for them
    None          \* no address

VARIABLES
    addr,         \* the address of each session, or None
    asked         \* the address it asked for, or None

Init ==
    /\ addr = [s \in Sessions |-> None]
    /\ asked = [s \in Sessions |-> None]

\* The session s gets the address a, which is r when it asked for r.
Assign(s, a, r) ==
    /\ addr[s] = None
    /\ \A t \in Sessions : addr[t] # a
    /\ r # None => a = r
    /\ r = None => a \notin OnRequest
    /\ addr' = [addr EXCEPT ![s] = a]
    /\ asked' = [asked EXCEPT ![s] = r]

Release(s) ==
    /\ addr[s] # None
    /\ addr' = [addr EXCEPT ![s] = None]
    /\ asked' = [asked EXCEPT ![s] = None]

Next ==
    \E s \in Sessions :
        \/ Release(s)
        \/ \E a \in Addresses, r \in Addresses \cup {None} : Assign(s, a, r)

Spec == Init /\ [][Next]_<<addr, asked>>

=============================================================================
