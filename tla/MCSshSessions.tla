--------------------------- MODULE MCSshSessions ---------------------------
(***************************************************************************)
(* Small instance of SshSessions: a connection of another protocol, then   *)
(* two SSH sessions, the first of which relays data.                       *)
(***************************************************************************)
EXTENDS SshSessions

MCChunks == [s \in Streams |-> CASE s = <<2, "c2s">> -> 2
                                 [] s = <<2, "s2c">> -> 1 [] OTHER -> 0]

=============================================================================
