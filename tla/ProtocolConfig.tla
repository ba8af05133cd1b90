--------------------------- MODULE ProtocolConfig ---------------------------
(***************************************************************************)
(* Which protocol handles a connection: protos.ini, the list that          *)
(* ConfigProtocols makes of it, the list Mallory.configured_protos that    *)
(* configure_protocols makes of that, and the accept loop, which looks for *)
(* the port of a connection in it three times: for the class, and for what *)
(* to do with either socket (SSL wraps both).  The GUI may save and reload *)
(* the file at any time; its calls run in the RPC thread, one by one.      *)
(*                                                                         *)
(* configure_protocols binds a new list and fills it bit by bit, while     *)
(* whoever went through the old one goes on with the old one.  So a list   *)
(* is an object: configured and udp are references to one of lists.        *)
(***************************************************************************)
EXTENDS Naturals, Sequences

CONSTANTS
    Protos,     \* the classes that can be named in the file
    Plain,      \* TcpProtocol, for ports nobody claims
    Wrappers,   \* the classes that configure their sockets, as SSLProtocol does
    Unknown,    \* a name that is no class
    Ports,
    NoPort,     \* text that is no number, or no port yet
    Files,      \* the contents protos.ini may have
    CmdLine,    \* the protocols given with --proto: one or none
    MaxLoads    \* bound: successful reloads

Line  == [proto : Protos, port : Ports]
Lists == 0 .. MaxLoads + 1

ASSUME NamesAssumption ==
    /\ Plain \notin Protos /\ Unknown \notin Protos /\ NoPort \notin Ports
    /\ Wrappers \subseteq Protos
ASSUME FilesAssumption ==
    Files \subseteq Seq([proto : Protos \cup {Unknown}, port : Ports \cup {NoPort}])
ASSUME CmdLineAssumption == CmdLine \in Seq(Line) /\ Len(CmdLine) <= 1
ASSUME LoadsAssumption == MaxLoads \in Nat

VARIABLES
    file,       \* protos.ini
    protocols,  \* ConfigProtocols.protocols
    lists,      \* the list objects that were bound to configured_protos
    configured, \* Mallory.configured_protos
    udp,        \* UdpProtocol.configured_protos
    meant,      \* history: what each list is, or was, to hold
    loader,     \* where the RPC thread is in load_config
    mainpc,     \* where the main thread is
    port,       \* the port of the connection it handles
    iter,       \* the list its loop goes over, and how far it got
    chosen,     \* the class for this connection so far
    wrapped,    \* the sockets of this connection that were wrapped
    began,      \* history: the list in force when it was accepted
    refused     \* history: the client did not take the wrapped socket

confVars == <<file, protocols, lists, configured, meant, loader>>
connVars == <<port, chosen, wrapped, began, refused>>
mainVars == <<mainpc, iter, connVars>>
vars == <<confVars, udp, mainVars>>

Raises(f) == \E i \in 1 .. Len(f) : f[i].port = NoPort

\* A line is dropped if its name is unknown or an earlier line got its port.
Kept(f) ==
    LET kept[i \in 0 .. Len(f)] ==
            IF i = 0 THEN <<>>
            ELSE IF \/ f[i].proto = Unknown
                    \/ \E k \in 1 .. Len(kept[i - 1]) : kept[i - 1][k].port = f[i].port
                 THEN kept[i - 1]
                 ELSE Append(kept[i - 1], f[i])
    IN kept

Parse(f) == Kept(f)[Len(f)]

\* A file that does not parse at startup ends the program there and then.
Init ==
    /\ file \in {f \in Files : ~Raises(f)}
    /\ protocols = Parse(file)
    /\ lists = [l \in Lists |-> <<>>]
    /\ configured = 0
    /\ udp = 0
    /\ meant = [l \in Lists |-> <<>>]
    /\ loader = "off"
    /\ mainpc = "options"
    /\ port = NoPort
    /\ iter = <<0, 0>>
    /\ chosen = Plain
    /\ wrapped = {}
    /\ began = 0
    /\ refused = FALSE

(***************************************************************************)
(* The main thread.                                                        *)
(***************************************************************************)

\* __main__ adds the protocol of --proto before it calls main.
AddCommandLine ==
    /\ mainpc = "options"
    /\ mainpc' = "main"
    /\ lists' = [lists EXCEPT ![0] = @ \o CmdLine]
    /\ UNCHANGED <<file, protocols, configured, udp, meant, loader, iter, connVars>>

\* main configures the protocols and starts the RPC server.
ConfigureProtocols ==
    /\ mainpc = "main"
    /\ mainpc' = "udp"
    /\ lists' = [lists EXCEPT ![1] = protocols]
    /\ meant' = [meant EXCEPT ![1] = protocols]
    /\ configured' = 1
    /\ loader' = "idle"
    /\ UNCHANGED <<file, protocols, udp, iter, connVars>>

StartUdp ==
    /\ mainpc = "udp"
    /\ mainpc' = "accept"
    /\ udp' = configured
    /\ UNCHANGED <<confVars, iter, connVars>>

\* A for loop over configured_protos holds on to the list it began with.
Loop(l)  == mainpc' = l /\ iter' = <<configured, 1>>
list     == lists[iter[1]]
InLoop   == iter[2] <= Len(list)
line     == list[iter[2]]
NextLine == iter' = <<iter[1], iter[2] + 1>>

Accept(p) ==
    /\ mainpc = "accept"
    /\ Loop("choose")
    /\ port' = p
    /\ chosen' = Plain
    /\ wrapped' = {}
    /\ began' = configured
    /\ refused' = FALSE
    /\ UNCHANGED <<confVars, udp>>

\* Faulty variant: the loop looks at the list that is in force by now.
ChooseNow ==
    /\ mainpc = "choose"
    /\ LET l == lists[configured] IN
         IF iter[2] <= Len(l)
         THEN /\ chosen' = IF l[iter[2]].port = port THEN l[iter[2]].proto ELSE chosen
              /\ NextLine
              /\ UNCHANGED mainpc
         ELSE mainpc' = "chosen" /\ UNCHANGED <<chosen, iter>>
    /\ UNCHANGED <<confVars, udp, port, wrapped, began, refused>>

\* The last match wins.
Choose ==
    /\ mainpc = "choose"
    /\ IF InLoop
       THEN /\ chosen' = IF line.port = port THEN line.proto ELSE chosen
            /\ NextLine
            /\ UNCHANGED mainpc
       ELSE mainpc' = "chosen" /\ UNCHANGED <<chosen, iter>>
    /\ UNCHANGED <<confVars, udp, port, wrapped, began, refused>>

CreateServerSocket ==
    /\ mainpc = "chosen"
    /\ Loop("server")
    /\ UNCHANGED <<confVars, udp, connVars>>

\* configure_socket calls the instance for every line with its port and a class
\* that configures its sockets.  An instance whose own class does not has no
\* such method.
Called == line.port = port /\ line.proto \in Wrappers
Able   == chosen \in Wrappers

ConfigureServer ==
    /\ mainpc = "server"
    /\ IF InLoop
       THEN /\ wrapped' = IF Called /\ Able THEN wrapped \cup {"server"} ELSE wrapped
            /\ mainpc' = IF Called /\ ~Able THEN "failed" ELSE mainpc
            /\ NextLine
       ELSE mainpc' = "connect" /\ UNCHANGED <<wrapped, iter>>
    /\ UNCHANGED <<confVars, udp, port, chosen, began, refused>>

Connect ==
    /\ mainpc = "connect"
    /\ \/ Loop("client")
       \/ mainpc' = "failed" /\ UNCHANGED iter
    /\ UNCHANGED <<confVars, udp, connVars>>

\* Faulty variant: only the first line is looked at.
ConfigureClientFirst ==
    /\ mainpc = "client"
    /\ wrapped' = IF InLoop /\ Called /\ Able THEN wrapped \cup {"client"} ELSE wrapped
    /\ mainpc' = IF InLoop /\ Called /\ ~Able THEN "failed" ELSE "served"
    /\ UNCHANGED <<confVars, udp, iter, port, chosen, began, refused>>

\* The fake certificate is made from the server's, so the server's socket must be
\* wrapped; making it may raise nevertheless.  That the client turns down the
\* handshake is only logged.
ConfigureClient ==
    /\ mainpc = "client"
    /\ \/ ~InLoop /\ mainpc' = "served" /\ UNCHANGED <<wrapped, refused, iter>>
       \/ /\ InLoop /\ ~Called /\ NextLine
          /\ UNCHANGED <<mainpc, wrapped, refused>>
       \/ /\ InLoop /\ Called /\ NextLine
          /\ mainpc' = "failed" /\ UNCHANGED <<wrapped, refused>>
       \/ /\ InLoop /\ Called /\ NextLine
          /\ Able /\ "server" \in wrapped
          /\ \/ wrapped' = wrapped \cup {"client"} /\ UNCHANGED refused
             \/ refused' = TRUE /\ UNCHANGED wrapped
          /\ UNCHANGED mainpc
    /\ UNCHANGED <<confVars, udp, port, chosen, began>>

\* On to the next connection, whether this one is served or was given up.
NextConnection ==
    /\ mainpc \in {"served", "failed"}
    /\ mainpc' = "accept"
    /\ iter' = <<0, 0>>
    /\ port' = NoPort
    /\ UNCHANGED <<confVars, udp, chosen, wrapped, began, refused>>

(***************************************************************************)
(* The RPC thread, for the GUI.                                            *)
(***************************************************************************)

SaveConfigRaw(f) ==
    /\ loader = "idle"
    /\ file' = f
    /\ UNCHANGED <<protocols, lists, configured, meant, loader, udp, mainVars>>

\* load_config raises on a port that is no number, and changes nothing.
LoadConfig ==
    /\ loader = "idle"
    /\ ~Raises(file)
    /\ configured <= MaxLoads
    /\ protocols' = Parse(file)
    /\ loader' = "reset"
    /\ UNCHANGED <<file, lists, configured, meant, udp, mainVars>>

\* Faulty variant: the list in force is emptied instead.
ResetInPlace ==
    /\ loader = "reset"
    /\ loader' = "append"
    /\ lists' = [lists EXCEPT ![configured] = <<>>]
    /\ meant' = [meant EXCEPT ![configured] = protocols]
    /\ UNCHANGED <<file, protocols, configured, udp, mainVars>>

Reset ==
    /\ loader = "reset"
    /\ loader' = "append"
    /\ configured' = configured + 1
    /\ meant' = [meant EXCEPT ![configured'] = protocols]
    /\ UNCHANGED <<file, protocols, lists, udp, mainVars>>

AppendNext ==
    /\ loader = "append"
    /\ LET n == Len(lists[configured]) IN
         IF n < Len(protocols)
         THEN /\ lists' = [lists EXCEPT ![configured] = Append(@, protocols[n + 1])]
              /\ UNCHANGED loader
         ELSE loader' = "idle" /\ UNCHANGED lists
    /\ UNCHANGED <<file, protocols, configured, meant, udp, mainVars>>

-----------------------------------------------------------------------------

Main ==
    \/ AddCommandLine \/ ConfigureProtocols \/ StartUdp
    \/ \E p \in Ports : Accept(p)
    \/ Choose
    \/ CreateServerSocket \/ ConfigureServer
    \/ Connect \/ ConfigureClient
    \/ NextConnection

Rpc == (\E f \in Files : SaveConfigRaw(f)) \/ LoadConfig \/ Reset \/ AppendNext

Next == Main \/ Rpc

Spec == Init /\ [][Next]_vars

(***************************************************************************)
(* Properties.                                                             *)
(***************************************************************************)

\* What the file says of a port, given the list made of it.
Claims(l, p) == {l[i].proto : i \in {j \in 1 .. Len(l) : l[j].port = p}}

\* A connection is handled by what the list says of its port that was in force
\* when it was accepted, reloads notwithstanding.  The one exception: while that
\* list is being filled, the connection may be taken for plain TCP.
ChosenFits ==
    mainpc = "chosen" =>
        \/ Claims(meant[iter[1]], port) = {chosen}
        \/ chosen = Plain /\ Claims(meant[iter[1]], port) = {}
        \/ chosen = Plain /\ iter[2] <= Len(meant[iter[1]])

\* A connection that is served with no reload since it was accepted has both its
\* sockets wrapped if its class wants that, and neither if it does not.  (After a
\* reload between the two calls of configure_socket -- connect is in between, and
\* may take long -- the server's alone may be.)
WrapsFit ==
    mainpc = "served" /\ configured = began /\ ~refused =>
        wrapped = IF chosen \in Wrappers THEN {"server", "client"} ELSE {}

\* base.py:167 "Nothing else modified configured_protos yet": once the list the
\* UdpProtocol was given is complete, it stays as it is, so the loop over it in
\* proto_lookup is safe -- and no reload ever reaches UDP.
UdpListFixed ==
    [][udp # 0 /\ lists[udp] = meant[udp] => lists'[udp] = lists[udp]]_vars

=============================================================================
