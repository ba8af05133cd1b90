-------------------------- MODULE MCProtocolConfig --------------------------
(***************************************************************************)
(* Small instances of ProtocolConfig: files in which two protocols claim   *)
(* one port, a name or a port is wrong, or there is nothing at all.        *)
(***************************************************************************)
EXTENDS ProtocolConfig

MCLine(proto, p) == [proto |-> proto, port |-> p]

MCFiles ==
    {<<>>,
     <<MCLine("http", 80), MCLine("ssl", 443)>>,
     <<MCLine("ssl", 80), MCLine("http", 80)>>,
     <<MCLine("nothing", 80), MCLine("http", 80), MCLine("ssl", 443)>>,
     <<MCLine("ssl", 443), MCLine("http", 0)>>}

\* --proto is not given.
MCNone == <<>>

=============================================================================
