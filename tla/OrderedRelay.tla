---------------------------- MODULE OrderedRelay ----------------------------
(***************************************************************************)
(* What a data pump promises, whatever happens between its recv and its    *)
(* sendall: each stream (one direction of one connection) is a pipe that   *)
(* holds at most one chunk.  A chunk goes out once, in the order received, *)
(* on the stream it came from; its text may have been changed, but never   *)
(* for the text of another chunk.  A stream may stop at any point.         *)
(***************************************************************************)
EXTENDS Naturals, Sequences

CONSTANT Streams   \* the directions of the connections

VARIABLES taken,   \* number of chunks received on each stream
          given    \* for each stream, which chunk each piece sent came from

vars == <<taken, given>>

Init ==
    /\ taken = [s \in Streams |-> 0]
    /\ given = [s \in Streams |-> <<>>]

Take(s) ==
    /\ Len(given[s]) = taken[s]
    /\ taken' = [taken EXCEPT ![s] = @ + 1]
    /\ UNCHANGED given

Give(s) ==
    /\ Len(given[s]) < taken[s]
    /\ given' = [given EXCEPT ![s] = Append(@, <<s, taken[s]>>)]
    /\ UNCHANGED taken

Next == \E s \in Streams : Take(s) \/ Give(s)

Spec == Init /\ [][Next]_vars

=============================================================================
