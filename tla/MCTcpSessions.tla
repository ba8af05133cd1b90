--------------------------- MODULE MCTcpSessions ---------------------------
(***************************************************************************)
(* Small instances of TcpSessions: each client wants a server of its own.  *)
(***************************************************************************)
EXTENDS TcpSessions

MCDests    == {"a", "b", "c"}
MCIntended == [c \in Conns |-> CASE c = 1 -> "a" [] c = 2 -> "b" [] OTHER -> "c"]

\* Liveness does not depend on where a connection goes: one server for all.
MCSame == [c \in Conns |-> "a"]

\* Only the first client sends, two chunks, and the second makes the accept loop
\* go round; or nobody sends anything.
MCTwoUp == [p \in Pumps |-> IF p = <<1, "c2s">> THEN 2 ELSE 0]
MCNone  == [p \in Pumps |-> 0]

=============================================================================
