-------------------------- MODULE InterfaceConfig --------------------------
(***************************************************************************)
(* The interfaces tab of the GUI: ConfigInterfaces holds which interfaces  *)
(* are intercepted and which one leads out, and save() turns that into a   *)
(* list of shell commands that it runs one after the other, ignoring what  *)
(* they return.  Nothing of the configuration is kept on disk, and the GUI *)
(* never reads the state of iptables back.                                 *)
(*                                                                         *)
(* Of a table only what Mallory's own commands put there is told apart;    *)
(* "foreign" stands for whatever else was in it, and for a policy that is  *)
(* not ACCEPT.  Deleting user-defined chains (-X) is left out: nothing     *)
(* refers to them after a flush.  The order in which save goes through the *)
(* list of intercepted interfaces is left open.                            *)
(***************************************************************************)
EXTENDS Naturals

CONSTANTS
    Nics,       \* names of interfaces, without "lo", which is banned
    Changed     \* the tables and policies that others may have changed

Protos == {"tcp", "udp"}

\* What is cleared, in order: three tables, then the policies of three chains.
Clears == {"filter", "nat", "mangle", "INPUT", "FORWARD", "OUTPUT"}
AfterClear ==
    [filter |-> "nat", nat |-> "mangle", mangle |-> "INPUT",
     INPUT |-> "FORWARD", FORWARD |-> "OUTPUT", OUTPUT |-> "masquerade"]

ASSUME ChangedAssumption == Changed \subseteq Clears

VARIABLES
    interfaces,   \* rows of the table
    mitm,         \* mitm_interfaces
    outbound,     \* outbound_interfaces
    pc,           \* "idle", or the command that save runs next
    todo,         \* the redirections that save has yet to install
    forwarding,   \* /proc/sys/net/ipv4/ip_forward
    foreign,      \* tables and policies that others have changed
    masq,         \* interfaces with a MASQUERADE rule
    redirect,     \* interfaces and protocols with a REDIRECT rule
    sound,        \* history: no command failed since nat was last flushed
    saved         \* history: the roles that the last save installed without a
                  \* failure; {} if there is none

tab    == <<interfaces, mitm, outbound>>
kernel == <<forwarding, foreign, masq, redirect>>
vars   == <<tab, pc, todo, kernel, sound, saved>>

Roles == [mitm |-> mitm, outbound |-> outbound]

Init ==
    /\ interfaces \in SUBSET Nics
    /\ mitm = {} /\ outbound = {}
    /\ pc = "idle"
    /\ todo = {}
    /\ forwarding \in BOOLEAN
    /\ foreign \in SUBSET Changed
    /\ masq = {} /\ redirect = {}
    /\ sound = TRUE
    /\ saved = {}

(***************************************************************************)
(* The table.                                                              *)
(***************************************************************************)

\* refresh_interfaces: the rows are read again, and interfaces may have come or
\* gone; the roles stay.
Refresh ==
    /\ pc = "idle"
    /\ interfaces' \in SUBSET Nics
    /\ UNCHANGED <<mitm, outbound, pc, todo, kernel, sound, saved>>

\* set_mitm, with the opposite of what the box shows.
ToggleMitm(i) ==
    /\ pc = "idle"
    /\ i \in interfaces
    /\ outbound' = outbound \ {i}
    /\ mitm' = IF i \in mitm THEN mitm \ {i} ELSE mitm \cup {i}
    /\ UNCHANGED <<interfaces, pc, todo, kernel, sound, saved>>

\* Faulty variant: an interface chosen to lead out stays intercepted.
ToggleOutboundOnly(i) ==
    /\ pc = "idle"
    /\ i \in interfaces
    /\ outbound' = IF i \in outbound THEN outbound \ {i} ELSE {i}
    /\ UNCHANGED <<interfaces, mitm, pc, todo, kernel, sound, saved>>

\* set_outbound, likewise.
ToggleOutbound(i) ==
    /\ pc = "idle"
    /\ i \in interfaces
    /\ IF i \in outbound
       THEN /\ outbound' = outbound \ {i}
            /\ UNCHANGED mitm
       ELSE /\ outbound' = {i}
            /\ mitm' = mitm \ {i}
    /\ UNCHANGED <<interfaces, pc, todo, kernel, sound, saved>>

(***************************************************************************)
(* save.                                                                   *)
(***************************************************************************)

\* Faulty variant: the missing interface is passed over.
SaveAnyway ==
    /\ pc = "idle"
    /\ pc' = "forward"
    /\ todo' = mitm \X Protos
    /\ saved' = {Roles}
    /\ UNCHANGED <<tab, kernel, sound>>

\* The list of commands is complete before the first one runs: without an
\* interface that leads out an IndexError ends save here.
Save ==
    /\ pc = "idle"
    /\ outbound # {}
    /\ pc' = "forward"
    /\ todo' = mitm \X Protos
    /\ saved' = {Roles}
    /\ UNCHANGED <<tab, kernel, sound>>

\* A command does what it says.
Forward ==
    /\ pc = "forward"
    /\ forwarding' = TRUE
    /\ pc' = "filter"
    /\ UNCHANGED <<tab, todo, foreign, masq, redirect, sound, saved>>

\* Faulty variant: only the filter table is flushed.
ClearKeepsNat(t) ==
    /\ pc = t
    /\ foreign' = foreign \ {t}
    /\ pc' = AfterClear[t]
    /\ UNCHANGED <<tab, todo, forwarding, masq, redirect, sound, saved>>

Clear(t) ==
    /\ pc = t
    /\ foreign' = foreign \ {t}
    /\ IF t = "nat"
       THEN masq' = {} /\ redirect' = {} /\ sound' = TRUE
       ELSE UNCHANGED <<masq, redirect, sound>>
    /\ pc' = AfterClear[t]
    /\ UNCHANGED <<tab, todo, forwarding, saved>>

Masquerade ==
    /\ pc = "masquerade"
    /\ masq' = masq \cup outbound
    /\ pc' = IF todo = {} THEN "idle" ELSE "redirect"
    /\ UNCHANGED <<tab, todo, forwarding, foreign, redirect, sound, saved>>

\* The next redirection: of an interface first tcp, then udp.
NextRedirect(i, p) ==
    /\ pc = "redirect"
    /\ <<i, p>> \in todo
    /\ p = "tcp" => \A j \in mitm : <<j, "udp">> \in todo => <<j, "tcp">> \in todo
    /\ p = "udp" => <<i, "tcp">> \notin todo
    /\ todo' = todo \ {<<i, p>>}
    /\ pc' = IF todo = {<<i, p>>} THEN "idle" ELSE "redirect"

Redirect(i, p) ==
    /\ NextRedirect(i, p)
    /\ redirect' = redirect \cup {<<i, p>>}
    /\ UNCHANGED <<tab, forwarding, foreign, masq, sound, saved>>

\* A command fails, which nobody notices.
ForwardFails ==
    /\ pc = "forward"
    /\ pc' = "filter"
    /\ saved' = {}
    /\ UNCHANGED <<tab, todo, kernel, sound>>

ClearFails(t) ==
    /\ pc = t
    /\ pc' = AfterClear[t]
    /\ saved' = {}
    /\ sound' = (sound /\ t # "nat")
    /\ UNCHANGED <<tab, todo, kernel>>

MasqueradeFails ==
    /\ pc = "masquerade"
    /\ pc' = IF todo = {} THEN "idle" ELSE "redirect"
    /\ saved' = {}
    /\ sound' = FALSE
    /\ UNCHANGED <<tab, todo, kernel>>

RedirectFails(i, p) ==
    /\ NextRedirect(i, p)
    /\ saved' = {}
    /\ UNCHANGED <<tab, kernel, sound>>

\* The GUI ends, in the middle of save or not, and is started again.
RestartGui ==
    /\ interfaces' \in SUBSET Nics
    /\ mitm' = {} /\ outbound' = {}
    /\ pc' = "idle"
    /\ todo' = {}
    /\ saved' = IF pc = "idle" THEN saved ELSE {}
    /\ UNCHANGED <<kernel, sound>>

-----------------------------------------------------------------------------

Operator == Refresh \/ (\E i \in Nics : ToggleMitm(i) \/ ToggleOutbound(i)) \/ Save

Command ==
    \/ Forward \/ Masquerade
    \/ \E t \in Clears : Clear(t)
    \/ \E i \in Nics, p \in Protos : Redirect(i, p)

Fails ==
    \/ ForwardFails \/ MasqueradeFails
    \/ \E t \in Clears : ClearFails(t)
    \/ \E i \in Nics, p \in Protos : RedirectFails(i, p)

Next == Operator \/ Command \/ Fails \/ RestartGui

Spec == Init /\ [][Next]_vars

(***************************************************************************)
(* Properties.                                                             *)
(***************************************************************************)

\* Every variable has its type.
TypeOK ==
    /\ interfaces \in SUBSET Nics
    /\ mitm \in SUBSET Nics
    /\ outbound \in SUBSET Nics
    /\ pc \in Clears \cup {"idle", "forward", "masquerade", "redirect"}
    /\ todo \in SUBSET (Nics \X Protos)
    /\ forwarding \in BOOLEAN
    /\ foreign \in SUBSET Clears
    /\ masq \in SUBSET Nics
    /\ redirect \in SUBSET (Nics \X Protos)
    /\ sound \in BOOLEAN
    /\ saved \in SUBSET [mitm : SUBSET Nics, outbound : SUBSET Nics]

\* config_if.py:37 "MiTM interfaces can't be outbound. You get one outbound
\* interface at a time.", also for an interface that has disappeared from the
\* table with its role and comes back.
RolesExclude ==
    /\ mitm \cap outbound = {}
    /\ \A i, j \in outbound : i = j

\* config_if.py:125-159: a victim's traffic is not redirected to Mallory unless
\* there is an interface through which it is masqueraded, and never on that
\* interface itself, in the middle of a save, after the GUI died there and when
\* the operator has changed his mind since.  Only a failed command of the nat
\* table breaks it, until the table is flushed the next time.
RedirectedHaveWayOut ==
    sound => \A r \in redirect : masq # {} /\ r[1] \notin masq

\* config_if.py:125-162: a save of which no command failed leaves exactly the
\* roles it was called with in the kernel, whatever was there before: another
\* configuration, the rest of a failed or interrupted save, or somebody else's.
SavedIsInstalled ==
    pc = "idle" => \A s \in saved :
        /\ forwarding
        /\ foreign = {}
        /\ masq = s.outbound
        /\ redirect = s.mitm \X Protos

=============================================================================
