----------------------------- MODULE DurableLog -----------------------------
(***************************************************************************)
(* What the traffic database promises for each kind of row: the rows of a  *)
(* run of Mallory reach the file in the order in which they were queued,   *)
(* each once and none that was not queued, several at a time.  A run may   *)
(* end at any point; the rows that are not in its file by then are lost,   *)
(* and the next run starts a file of its own.                              *)
(***************************************************************************)
EXTENDS Naturals, Sequences, SequencesExt

CONSTANT Kinds   \* the kinds of rows

VARIABLES
    queued,   \* the rows of each kind queued in this run
    durable   \* those that are in the file

vars == <<queued, durable>>

Init ==
    /\ queued  = [k \in Kinds |-> <<>>]
    /\ durable = [k \in Kinds |-> <<>>]

\* One more row, whatever it is.
Enqueue(k) ==
    /\ Len(queued'[k]) = Len(queued[k]) + 1
    /\ queued' = [queued EXCEPT ![k] = Append(@, Last(queued'[k]))]
    /\ UNCHANGED durable

\* Some more rows of every kind become durable together.
Flush ==
    /\ \A k \in Kinds : /\ IsPrefix(durable[k], durable'[k])
                       /\ IsPrefix(durable'[k], queued[k])
    /\ DOMAIN durable' = Kinds
    /\ UNCHANGED queued

EndRun ==
    /\ queued'  = [k \in Kinds |-> <<>>]
    /\ durable' = [k \in Kinds |-> <<>>]

Next ==
    \/ \E k \in Kinds : Enqueue(k)
    \/ Flush
    \/ EndRun

Spec == Init /\ [][Next]_vars

=============================================================================
