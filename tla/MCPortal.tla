------------------------------ MODULE MCPortal ------------------------------
(* Pages do not share a script or a variable, and what they share through  *)
(* the server another administrator can change as well.  So a behaviour    *)
(* looks at one of them, while the others stay as they are loaded.         *)
EXTENDS PortalTab, ClientsPage, UsersPage, SecurityPage

CONSTANTS a1, c1, c2, u1

\* a1 and u1 belong to c1, the others to c2.
MCClientOf == [a \in Accounts |-> IF a = a1 THEN c1 ELSE c2]
MCOwnerOf == [u \in Users |-> IF u = u1 THEN c1 ELSE c2]

VARIABLE watched
vars == <<watched, tabVars, clientsVars, usersVars, securityVars>>

Init == /\ watched \in {"tab", "clients", "users", "security"}
        /\ TabInit /\ ClientsInit /\ UsersInit /\ SecurityInit
        /\ watched = "tab" \/ Admin

WatchTab == /\ watched = "tab" /\ TabNext
            /\ UNCHANGED <<clientsVars, usersVars, securityVars>>
WatchClients == /\ watched = "clients" /\ ClientsNext
                /\ UNCHANGED <<tabVars, usersVars, securityVars>>
WatchUsers == /\ watched = "users" /\ UsersNext
              /\ UNCHANGED <<tabVars, clientsVars, securityVars>>
WatchSecurity == /\ watched = "security" /\ SecurityNext
                 /\ UNCHANGED <<tabVars, clientsVars, usersVars>>

Next == /\ WatchTab \/ WatchClients \/ WatchUsers \/ WatchSecurity
        /\ UNCHANGED watched

PortalSpec == Init /\ [][Next]_vars

\* The type invariants of the pages, which differ in which page they are about.
TypeOK == TabTypeOK /\ ClientsTypeOK /\ UsersTypeOK /\ SecurityTypeOK
=============================================================================
