------------------------------ MODULE LossyFifo ------------------------------
(***************************************************************************)
(* What a Session promises about one direction of its traffic: messages,   *)
(* numbered in the order they are sent, are received in that order and at  *)
(* most once; any of them may be lost.                                     *)
(***************************************************************************)
EXTENDS Naturals

CONSTANT Channels

VARIABLES sent,   \* the number of the last message sent on each channel
          got     \* the number of the last message received from it

Init ==
  /\ sent = [c \in Channels |-> 0]
  /\ got = [c \in Channels |-> 0]

Send(c) ==
  /\ sent' = [sent EXCEPT ![c] = @ + 1]
  /\ UNCHANGED got

\* The messages between the last one received and this one are lost.
Receive(c) ==
  /\ \E n \in got[c] + 1 .. sent[c] : got' = [got EXCEPT ![c] = n]
  /\ UNCHANGED sent

Spec == Init /\ [][\E c \in Channels : Send(c) \/ Receive(c)]_<<sent, got>>
=============================================================================
