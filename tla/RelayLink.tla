----------------------------- MODULE RelayLink -----------------------------
(***************************************************************************)
(* What the relay promises, without rooms, queues or cancellation.  An end *)
(* is one socket.  It is linked to at most one other end in its life, both *)
(* ends open; packets travel inside the link only, in order and once; and  *)
(* nothing enters a link after either end has closed.                      *)
(***************************************************************************)
EXTENDS Naturals

CONSTANT Ends
VARIABLES status, partner, sent, got

NoEnd == 0

Init ==
    /\ status = [e \in Ends |-> "new"]
    /\ partner = [e \in Ends |-> NoEnd]
    /\ sent = [e \in Ends |-> 0]
    /\ got = [e \in Ends |-> 0]

Open(e) ==
    /\ status[e] = "new"
    /\ status' = [status EXCEPT ![e] = "open"]
    /\ UNCHANGED <<partner, sent, got>>

Join(e, f) ==
    /\ e # f
    /\ status[e] = "open" /\ status[f] = "open"
    /\ partner[e] = NoEnd /\ partner[f] = NoEnd
    /\ partner' = [partner EXCEPT ![e] = f, ![f] = e]
    /\ UNCHANGED <<status, sent, got>>

Send(e) ==
    /\ partner[e] # NoEnd
    /\ status[e] = "open" /\ status[partner[e]] = "open"
    /\ sent' = [sent EXCEPT ![e] = @ + 1]
    /\ UNCHANGED <<status, partner, got>>

Receive(e) ==
    /\ partner[e] # NoEnd
    /\ status[e] = "open"
    /\ got[e] < sent[partner[e]]
    /\ got' = [got EXCEPT ![e] = @ + 1]
    /\ UNCHANGED <<status, partner, sent>>

Close(e) ==
    /\ status[e] = "open"
    /\ status' = [status EXCEPT ![e] = "closed"]
    /\ UNCHANGED <<partner, sent, got>>

Next == \E e \in Ends :
    \/ Open(e) \/ Send(e) \/ Receive(e) \/ Close(e)
    \/ \E f \in Ends : Join(e, f)

Spec == Init /\ [][Next]_<<status, partner, sent, got>>
=============================================================================
