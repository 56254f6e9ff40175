----------------------------- MODULE StreamFifo -----------------------------
(***************************************************************************)
(* What an ICSP stream promises the application (c/include/ICSP/icsp.h and  *)
(* docs/icsp-spec.md section 1): on each stream the receiver's callback     *)
(* gets the messages given to icsp_data_send, whole, in order and once.     *)
(* A stream may stop, but never skip, repeat or alter a message.            *)
(***************************************************************************)
EXTENDS Naturals, Sequences

CONSTANT Stream

VARIABLES
    sent,       \* [Stream -> the messages given to icsp_data_send]
    delivered   \* [Stream -> the messages given to the on_data callback]

Init ==
    /\ sent = [s \in Stream |-> <<>>]
    /\ delivered = [s \in Stream |-> <<>>]

Send(s) ==
    /\ Len(sent'[s]) = Len(sent[s]) + 1
    /\ sent' = [sent EXCEPT ![s] = Append(@, sent'[s][Len(sent[s]) + 1])]
    /\ UNCHANGED delivered

Deliver(s) ==
    /\ Len(delivered[s]) < Len(sent[s])
    /\ delivered' = [delivered EXCEPT ![s] = Append(@, sent[s][Len(@) + 1])]
    /\ UNCHANGED sent

Next == \E s \in Stream : Send(s) \/ Deliver(s)

Spec == Init /\ [][Next]_<<sent, delivered>>
=============================================================================
