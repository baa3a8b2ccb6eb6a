---------------------------- MODULE OutboundStream ----------------------------
(***************************************************************************)
(* What Session::Send promises while the socket is healthy: the buffers    *)
(* reach the TCP stream in the order in which they were queued, none twice *)
(* and none skipped.  Buffers are numbered in the order of the queueing.   *)
(***************************************************************************)
EXTENDS Naturals

VARIABLES
  pushed,   (* how many buffers were queued                                *)
  wire      (* the buffers of the stream, in order                         *)

vars == <<pushed, wire>>

Init == pushed = 0 /\ wire = <<>>

Push == pushed' = pushed + 1 /\ UNCHANGED wire

(* One WSASend carries a batch.                                            *)
Transmit ==
  /\ \E n \in 0 .. pushed : wire' = [i \in 1 .. n |-> i]
  /\ DOMAIN wire \subseteq DOMAIN wire'
  /\ UNCHANGED pushed

Next == Push \/ Transmit

Spec == Init /\ [][Next]_vars
=============================================================================
