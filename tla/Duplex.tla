-------------------------------- MODULE Duplex --------------------------------
(***************************************************************************)
(* What a relayed TCP connection promises the two programs that talk over  *)
(* it: each direction is a stream of bytes that arrive once and in order,  *)
(* and whose end is seen after the last byte.  The promise that the end    *)
(* means that everything has arrived is given up, for both directions at   *)
(* once, when the connection is cut.                                       *)
(***************************************************************************)
EXTENDS Naturals, Sequences

CONSTANT Dirs   \* the directions

VARIABLES
  sent,  \* how many bytes have been sent, by direction; byte i is number i
  fin,   \* has the sender finished?
  got,   \* the bytes received
  eof,   \* has the receiver seen the end?
  cut    \* has the connection been cut?

vars == <<sent, fin, got, eof, cut>>

Init ==
  /\ sent = [d \in Dirs |-> 0] /\ fin = [d \in Dirs |-> FALSE]
  /\ got = [d \in Dirs |-> <<>>] /\ eof = [d \in Dirs |-> FALSE]
  /\ cut = FALSE

Send(d) ==
  /\ ~fin[d]
  /\ sent' = [sent EXCEPT ![d] = @ + 1]
  /\ UNCHANGED <<fin, got, eof, cut>>

Finish(d) ==
  /\ fin' = [fin EXCEPT ![d] = TRUE]
  /\ UNCHANGED <<sent, got, eof, cut>>

Deliver(d) ==
  /\ ~eof[d] /\ Len(got[d]) < sent[d]
  /\ got' = [got EXCEPT ![d] = Append(@, Len(@) + 1)]
  /\ UNCHANGED <<sent, fin, eof, cut>>

End(d) ==
  /\ ~eof[d]
  /\ cut \/ (fin[d] /\ Len(got[d]) = sent[d])
  /\ eof' = [eof EXCEPT ![d] = TRUE]
  /\ UNCHANGED <<sent, fin, got, cut>>

\* A program that leaves may finish a direction with the same step.
Cut ==
  /\ ~cut /\ cut' = TRUE
  /\ \E S \in SUBSET Dirs : fin' = [d \in Dirs |-> fin[d] \/ d \in S]
  /\ UNCHANGED <<sent, got, eof>>

Next == Cut \/ \E d \in Dirs : Send(d) \/ Finish(d) \/ Deliver(d) \/ End(d)

Spec == Init /\ [][Next]_vars
=============================================================================
