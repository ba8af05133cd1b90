----------------------- MODULE InterfaceConfig_proofs -----------------------
(***************************************************************************)
(* Theorems about InterfaceConfig, for every set of interfaces and         *)
(* whatever others did to the tables before.                               *)
(***************************************************************************)
EXTENDS InterfaceConfig, TLAPS

\* The commands that save runs between flushing nat and filling it.
Flushed == {"mangle", "INPUT", "FORWARD", "OUTPUT", "masquerade"}

\* The commands up to the one that clears a table or a policy.
Upto ==
    [filter  |-> {"forward", "filter"},
     nat     |-> {"forward", "filter", "nat"},
     mangle  |-> {"forward", "filter", "nat", "mangle"},
     INPUT   |-> {"forward", "filter", "nat", "mangle", "INPUT"},
     FORWARD |-> {"forward", "filter", "nat", "mangle", "INPUT", "FORWARD"},
     OUTPUT  |-> {"forward", "filter", "nat", "mangle", "INPUT", "FORWARD", "OUTPUT"}]

\* While save runs there is an interface that leads out, and what is left to
\* redirect are interfaces it intercepts: all of them before the first.
Saving ==
    pc # "idle" =>
        /\ outbound # {}
        /\ todo \subseteq mitm \X Protos
        /\ pc # "redirect" => todo = mitm \X Protos

\* What the kernel holds of Mallory's rules in the middle of a save in which
\* nothing has failed since nat was flushed.
SoundSoFar ==
    sound =>
        /\ pc \in Flushed => masq = {} /\ redirect = {}
        /\ pc = "redirect" => masq = outbound

\* What the save that will be recorded has done so far.
SavedSoFar ==
    \A s \in saved :
        /\ pc # "idle" => s = Roles
        /\ pc # "forward" => forwarding = TRUE
        /\ \A t \in foreign : pc \in Upto[t]
        /\ pc \in Flushed => masq = {} /\ redirect = {}
        /\ pc = "redirect" => masq = outbound /\ redirect \cup todo = mitm \X Protos
        /\ pc = "idle" => masq = s.outbound /\ redirect = s.mitm \X Protos

\* The inductive invariant.
Inv ==
    /\ TypeOK
    /\ RolesExclude
    /\ Saving
    /\ SoundSoFar
    /\ SavedSoFar
    /\ RedirectedHaveWayOut

-----------------------------------------------------------------------------

\* After a table or a policy comes another, or the masquerading; the commands after
\* the flush of nat are reached only through it.
LEMMA ClearOrder ==
    ASSUME NEW t \in Clears
    PROVE  /\ AfterClear[t] \in Clears \cup {"masquerade"}
           /\ AfterClear[t] \in Flushed => t = "nat" \/ t \in Flushed
BY DEF Clears, AfterClear, Flushed

\* Every step keeps the types.
LEMMA TypeOKStep ==
    ASSUME TypeOK, [Next]_vars
    PROVE  TypeOK'
<1>1. ASSUME NEW i \in Nics, ToggleMitm(i)
      PROVE  TypeOK'
      BY <1>1 DEF ToggleMitm, TypeOK, kernel
<1>2. ASSUME NEW i \in Nics, ToggleOutbound(i)
      PROVE  TypeOK'
      BY <1>2 DEF ToggleOutbound, TypeOK, kernel
<1>3. ASSUME Refresh
      PROVE  TypeOK'
      BY <1>3 DEF Refresh, TypeOK, kernel
<1>4. ASSUME Save
      PROVE  TypeOK'
      BY <1>4 DEF Save, TypeOK, tab, kernel, Roles
<1>5. ASSUME Forward
      PROVE  TypeOK'
      BY <1>5 DEF Forward, TypeOK, tab, Clears
<1>6. ASSUME NEW t \in Clears, Clear(t)
      PROVE  TypeOK'
      BY <1>6, ClearOrder DEF Clear, TypeOK, tab
<1>7. ASSUME Masquerade
      PROVE  TypeOK'
      BY <1>7 DEF Masquerade, TypeOK, tab
<1>8. ASSUME NEW i \in Nics, NEW p \in Protos, Redirect(i, p)
      PROVE  TypeOK'
      BY <1>8 DEF Redirect, NextRedirect, TypeOK, tab
<1>9. ASSUME ForwardFails
      PROVE  TypeOK'
      BY <1>9 DEF ForwardFails, TypeOK, tab, kernel, Clears
<1>10. ASSUME NEW t \in Clears, ClearFails(t)
      PROVE  TypeOK'
      BY <1>10, ClearOrder DEF ClearFails, TypeOK, tab, kernel
<1>11. ASSUME MasqueradeFails
      PROVE  TypeOK'
      BY <1>11 DEF MasqueradeFails, TypeOK, tab, kernel
<1>12. ASSUME NEW i \in Nics, NEW p \in Protos, RedirectFails(i, p)
      PROVE  TypeOK'
      BY <1>12 DEF RedirectFails, NextRedirect, TypeOK, tab, kernel
<1>13. ASSUME RestartGui
      PROVE  TypeOK'
      BY <1>13 DEF RestartGui, TypeOK, kernel
<1>14. ASSUME UNCHANGED vars
      PROVE  TypeOK'
      BY <1>14 DEF vars, TypeOK, tab, kernel
<1>15. QED
      BY <1>1, <1>2, <1>3, <1>4, <1>5, <1>6, <1>7, <1>8, <1>9, <1>10, <1>11, <1>12,
         <1>13, <1>14 DEF Next, Operator, Command, Fails

\* Every step keeps the roles apart; only the operator changes them.
LEMMA RolesExcludeStep ==
    ASSUME TypeOK, RolesExclude, [Next]_vars
    PROVE  RolesExclude'
<1>1. ASSUME NEW i \in Nics, ToggleMitm(i)
      PROVE  RolesExclude'
      BY <1>1 DEF ToggleMitm, RolesExclude
<1>2. ASSUME NEW i \in Nics, ToggleOutbound(i)
      PROVE  RolesExclude'
      BY <1>2 DEF ToggleOutbound, TypeOK, RolesExclude, tab, kernel
<1>3. ASSUME Refresh
      PROVE  RolesExclude'
      BY <1>3 DEF Refresh, RolesExclude
<1>4. ASSUME Save
      PROVE  RolesExclude'
      BY <1>4 DEF Save, RolesExclude, tab
<1>5. ASSUME Forward
      PROVE  RolesExclude'
      BY <1>5 DEF Forward, RolesExclude, tab
<1>6. ASSUME NEW t \in Clears, Clear(t)
      PROVE  RolesExclude'
      BY <1>6 DEF Clear, RolesExclude, tab
<1>7. ASSUME Masquerade
      PROVE  RolesExclude'
      BY <1>7 DEF Masquerade, RolesExclude, tab
<1>8. ASSUME NEW i \in Nics, NEW p \in Protos, Redirect(i, p)
      PROVE  RolesExclude'
      BY <1>8 DEF Redirect, RolesExclude, tab
<1>9. ASSUME ForwardFails
      PROVE  RolesExclude'
      BY <1>9 DEF ForwardFails, RolesExclude, tab
<1>10. ASSUME NEW t \in Clears, ClearFails(t)
      PROVE  RolesExclude'
      BY <1>10 DEF ClearFails, RolesExclude, tab
<1>11. ASSUME MasqueradeFails
      PROVE  RolesExclude'
      BY <1>11 DEF MasqueradeFails, RolesExclude, tab
<1>12. ASSUME NEW i \in Nics, NEW p \in Protos, RedirectFails(i, p)
      PROVE  RolesExclude'
      BY <1>12 DEF RedirectFails, RolesExclude, tab
<1>13. ASSUME RestartGui
      PROVE  RolesExclude'
      BY <1>13 DEF RestartGui, RolesExclude
<1>14. ASSUME UNCHANGED vars
      PROVE  RolesExclude'
      BY <1>14 DEF vars, RolesExclude, tab
<1>15. QED
      BY <1>1, <1>2, <1>3, <1>4, <1>5, <1>6, <1>7, <1>8, <1>9, <1>10, <1>11, <1>12,
         <1>13, <1>14 DEF Next, Operator, Command, Fails

\* Nothing changes the roles while save runs.
LEMMA SavingStep ==
    ASSUME TypeOK, RolesExclude, Saving, [Next]_vars
    PROVE  Saving'
<1>1. ASSUME NEW i \in Nics, ToggleMitm(i)
      PROVE  Saving'
      BY <1>1 DEF ToggleMitm, Saving
<1>2. ASSUME NEW i \in Nics, ToggleOutbound(i)
      PROVE  Saving'
      BY <1>2 DEF ToggleOutbound, Saving
<1>3. ASSUME Refresh
      PROVE  Saving'
      BY <1>3 DEF Refresh, Saving
<1>4. ASSUME Save
      PROVE  Saving'
      BY <1>4 DEF Save, Saving, tab
<1>5. ASSUME Forward
      PROVE  Saving'
      BY <1>5 DEF Forward, Saving, tab
<1>6. ASSUME NEW t \in Clears, Clear(t)
      PROVE  Saving'
      BY <1>6 DEF Clear, Saving, tab, Clears
<1>7. ASSUME Masquerade
      PROVE  Saving'
      BY <1>7 DEF Masquerade, Saving, tab
<1>8. ASSUME NEW i \in Nics, NEW p \in Protos, Redirect(i, p)
      PROVE  Saving'
      BY <1>8 DEF Redirect, NextRedirect, Saving, tab
<1>9. ASSUME ForwardFails
      PROVE  Saving'
      BY <1>9 DEF ForwardFails, Saving, tab
<1>10. ASSUME NEW t \in Clears, ClearFails(t)
      PROVE  Saving'
      BY <1>10 DEF ClearFails, Saving, tab, Clears
<1>11. ASSUME MasqueradeFails
      PROVE  Saving'
      BY <1>11 DEF MasqueradeFails, Saving, tab
<1>12. ASSUME NEW i \in Nics, NEW p \in Protos, RedirectFails(i, p)
      PROVE  Saving'
      BY <1>12 DEF RedirectFails, NextRedirect, Saving, tab
<1>13. ASSUME RestartGui
      PROVE  Saving'
      BY <1>13 DEF RestartGui, Saving
<1>14. ASSUME UNCHANGED vars
      PROVE  Saving'
      BY <1>14 DEF vars, Saving, tab
<1>15. QED
      BY <1>1, <1>2, <1>3, <1>4, <1>5, <1>6, <1>7, <1>8, <1>9, <1>10, <1>11, <1>12,
         <1>13, <1>14 DEF Next, Operator, Command, Fails

\* Every step keeps what save knows of the kernel after a sound flush.
LEMMA SoundSoFarStep ==
    ASSUME TypeOK, Saving, SoundSoFar, [Next]_vars
    PROVE  SoundSoFar'
<1>1. ASSUME NEW i \in Nics, ToggleMitm(i)
      PROVE  SoundSoFar'
      BY <1>1 DEF ToggleMitm, SoundSoFar, kernel
<1>2. ASSUME NEW i \in Nics, ToggleOutbound(i)
      PROVE  SoundSoFar'
      BY <1>2 DEF ToggleOutbound, SoundSoFar, kernel
<1>3. ASSUME Refresh
      PROVE  SoundSoFar'
      BY <1>3 DEF Refresh, SoundSoFar, kernel
<1>4. ASSUME Save
      PROVE  SoundSoFar'
      BY <1>4 DEF Save, SoundSoFar, Flushed
<1>5. ASSUME Forward
      PROVE  SoundSoFar'
      BY <1>5 DEF Forward, SoundSoFar, Flushed
<1>6. ASSUME NEW t \in Clears, Clear(t)
      PROVE  SoundSoFar'
      BY <1>6, ClearOrder DEF Clear, SoundSoFar, Clears
<1>7. ASSUME Masquerade
      PROVE  SoundSoFar'
      BY <1>7 DEF Masquerade, SoundSoFar, tab, Flushed
<1>8. ASSUME NEW i \in Nics, NEW p \in Protos, Redirect(i, p)
      PROVE  SoundSoFar'
      BY <1>8 DEF Redirect, NextRedirect, SoundSoFar, tab, Flushed
<1>9. ASSUME ForwardFails
      PROVE  SoundSoFar'
      BY <1>9 DEF ForwardFails, SoundSoFar, Flushed
<1>10. ASSUME NEW t \in Clears, ClearFails(t)
      PROVE  SoundSoFar'
      BY <1>10, ClearOrder DEF ClearFails, SoundSoFar, kernel, Clears
<1>11. ASSUME MasqueradeFails
      PROVE  SoundSoFar'
      BY <1>11 DEF MasqueradeFails, SoundSoFar
<1>12. ASSUME NEW i \in Nics, NEW p \in Protos, RedirectFails(i, p)
      PROVE  SoundSoFar'
      BY <1>12 DEF RedirectFails, NextRedirect, SoundSoFar, tab, kernel, Flushed
<1>13. ASSUME RestartGui
      PROVE  SoundSoFar'
      BY <1>13 DEF RestartGui, Saving, SoundSoFar, Flushed, Clears
<1>14. ASSUME UNCHANGED vars
      PROVE  SoundSoFar'
      BY <1>14 DEF vars, TypeOK, SoundSoFar, tab, kernel
<1>15. QED
      BY <1>1, <1>2, <1>3, <1>4, <1>5, <1>6, <1>7, <1>8, <1>9, <1>10, <1>11, <1>12,
         <1>13, <1>14 DEF Next, Operator, Command, Fails

\* Every step keeps what a save has done that has not failed.
LEMMA SavedSoFarStep ==
    ASSUME TypeOK, Saving, SavedSoFar, [Next]_vars
    PROVE  SavedSoFar'
<1>1. ASSUME NEW i \in Nics, ToggleMitm(i)
      PROVE  SavedSoFar'
      BY <1>1 DEF ToggleMitm, SavedSoFar, kernel
<1>2. ASSUME NEW i \in Nics, ToggleOutbound(i)
      PROVE  SavedSoFar'
      BY <1>2 DEF ToggleOutbound, SavedSoFar, kernel
<1>3. ASSUME Refresh
      PROVE  SavedSoFar'
      BY <1>3 DEF Refresh, SavedSoFar, kernel
<1>4. ASSUME Save
      PROVE  SavedSoFar'
      BY <1>4 DEF Save, TypeOK, SavedSoFar, tab, kernel, Flushed, Upto, Clears,
         Roles
<1>5. ASSUME Forward
      PROVE  SavedSoFar'
      BY <1>5 DEF Forward, TypeOK, SavedSoFar, tab, Flushed, Upto, Clears, Roles
<1>6. ASSUME NEW t \in Clears, Clear(t)
      PROVE  SavedSoFar'
      BY <1>6 DEF Clear, TypeOK, SavedSoFar, tab, Flushed, Upto, AfterClear, Clears,
         Roles
<1>7. ASSUME Masquerade
      PROVE  SavedSoFar'
      BY <1>7 DEF Masquerade, TypeOK, Saving, SavedSoFar, tab, Flushed, Upto,
         Clears, Roles
<1>8. ASSUME NEW i \in Nics, NEW p \in Protos, Redirect(i, p)
      PROVE  SavedSoFar'
      BY <1>8 DEF Redirect, NextRedirect, TypeOK, SavedSoFar, tab, Flushed, Upto,
         Clears, Roles
<1>9. ASSUME ForwardFails
      PROVE  SavedSoFar'
      BY <1>9 DEF ForwardFails, SavedSoFar
<1>10. ASSUME NEW t \in Clears, ClearFails(t)
      PROVE  SavedSoFar'
      BY <1>10 DEF ClearFails, SavedSoFar
<1>11. ASSUME MasqueradeFails
      PROVE  SavedSoFar'
      BY <1>11 DEF MasqueradeFails, SavedSoFar
<1>12. ASSUME NEW i \in Nics, NEW p \in Protos, RedirectFails(i, p)
      PROVE  SavedSoFar'
      BY <1>12 DEF RedirectFails, SavedSoFar
<1>13. ASSUME RestartGui
      PROVE  SavedSoFar'
      BY <1>13 DEF RestartGui, SavedSoFar, kernel, AfterClear
<1>14. ASSUME UNCHANGED vars
      PROVE  SavedSoFar'
      BY <1>14 DEF vars, SavedSoFar, tab, kernel, AfterClear, Roles
<1>15. QED
      BY <1>1, <1>2, <1>3, <1>4, <1>5, <1>6, <1>7, <1>8, <1>9, <1>10, <1>11, <1>12,
         <1>13, <1>14 DEF Next, Operator, Command, Fails

\* A redirection is only added where there is a way out.
LEMMA RedirectedHaveWayOutStep ==
    ASSUME TypeOK, RolesExclude, Saving, SoundSoFar, RedirectedHaveWayOut, [Next]_vars
    PROVE  RedirectedHaveWayOut'
<1>1. ASSUME NEW i \in Nics, ToggleMitm(i)
      PROVE  RedirectedHaveWayOut'
      BY <1>1 DEF ToggleMitm, RedirectedHaveWayOut, kernel, Flushed, Clears
<1>2. ASSUME NEW i \in Nics, ToggleOutbound(i)
      PROVE  RedirectedHaveWayOut'
      BY <1>2 DEF ToggleOutbound, RolesExclude, RedirectedHaveWayOut, kernel,
         Flushed
<1>3. ASSUME Refresh
      PROVE  RedirectedHaveWayOut'
      BY <1>3 DEF Refresh, Saving, SoundSoFar, RedirectedHaveWayOut, kernel
<1>4. ASSUME Save
      PROVE  RedirectedHaveWayOut'
      BY <1>4 DEF Save, TypeOK, Saving, SoundSoFar, RedirectedHaveWayOut, tab,
         kernel, Clears
<1>5. ASSUME Forward
      PROVE  RedirectedHaveWayOut'
      BY <1>5 DEF Forward, TypeOK, RolesExclude, RedirectedHaveWayOut, tab, kernel,
         Flushed
<1>6. ASSUME NEW t \in Clears, Clear(t)
      PROVE  RedirectedHaveWayOut'
      BY <1>6 DEF Clear, TypeOK, RedirectedHaveWayOut, Flushed, Clears
<1>7. ASSUME Masquerade
      PROVE  RedirectedHaveWayOut'
      BY <1>7 DEF Masquerade, Saving, SoundSoFar, RedirectedHaveWayOut, Flushed
<1>8. ASSUME NEW i \in Nics, NEW p \in Protos, Redirect(i, p)
      PROVE  RedirectedHaveWayOut'
      BY <1>8 DEF Redirect, NextRedirect, TypeOK, RolesExclude, Saving, SoundSoFar,
         RedirectedHaveWayOut, tab
<1>9. ASSUME ForwardFails
      PROVE  RedirectedHaveWayOut'
      BY <1>9 DEF ForwardFails, RedirectedHaveWayOut, kernel
<1>10. ASSUME NEW t \in Clears, ClearFails(t)
      PROVE  RedirectedHaveWayOut'
      BY <1>10 DEF ClearFails, RedirectedHaveWayOut, kernel
<1>11. ASSUME MasqueradeFails
      PROVE  RedirectedHaveWayOut'
      BY <1>11 DEF MasqueradeFails, RedirectedHaveWayOut
<1>12. ASSUME NEW i \in Nics, NEW p \in Protos, RedirectFails(i, p)
      PROVE  RedirectedHaveWayOut'
      BY <1>12 DEF RedirectFails, RedirectedHaveWayOut, kernel
<1>13. ASSUME RestartGui
      PROVE  RedirectedHaveWayOut'
      BY <1>13 DEF RestartGui, RedirectedHaveWayOut, kernel
<1>14. ASSUME UNCHANGED vars
      PROVE  RedirectedHaveWayOut'
      BY <1>14 DEF vars, RedirectedHaveWayOut, kernel
<1>15. QED
      BY <1>1, <1>2, <1>3, <1>4, <1>5, <1>6, <1>7, <1>8, <1>9, <1>10, <1>11, <1>12,
         <1>13, <1>14 DEF Next, Operator, Command, Fails

\* The invariant holds at the start: no role is given and nothing is saved.
LEMMA InvInit ==
    ASSUME Init
    PROVE  Inv
BY ChangedAssumption DEF Init, Inv, TypeOK, RolesExclude, Saving, SoundSoFar,
   SavedSoFar, RedirectedHaveWayOut

\* Every step keeps it.
LEMMA InvStep ==
    ASSUME Inv, [Next]_vars
    PROVE  Inv'
BY TypeOKStep, RolesExcludeStep, SavingStep, SoundSoFarStep, SavedSoFarStep,
   RedirectedHaveWayOutStep DEF Inv

\* The invariant, of which the theorems below are consequences.
THEOREM Invariance == Spec => []Inv
BY InvInit, InvStep, PTL DEF Spec

\* Every reachable state of the interface tab and the kernel's tables has its type.
THEOREM TypeCorrect == Spec => []TypeOK
BY Invariance, PTL DEF Inv

\* config_if.py:77-116: whatever the operator clicks, and whichever interfaces come
\* and go meanwhile, no interface has both roles and at most one leads out.
THEOREM RolesApart == Spec => []RolesExclude
BY Invariance, PTL DEF Inv

\* config_if.py:125-159: unless a command of the nat table failed, no traffic is
\* redirected that has no way out, at any point of any save.
THEOREM WayOut == Spec => []RedirectedHaveWayOut
BY Invariance, PTL DEF Inv

\* config_if.py:125-162: a save without a failed command installs what it was asked
\* to, from any state of the kernel.
THEOREM Installed == Spec => []SavedIsInstalled
<1>1. Inv => SavedIsInstalled
      BY DEF Inv, TypeOK, SavedSoFar, SavedIsInstalled, Upto, Clears
<1>2. QED
      BY <1>1, Invariance, PTL

=============================================================================
