------------------------------ MODULE MCAccess ------------------------------
(***************************************************************************)
(* An instance of Access: the role lists a request asks for.               *)
(***************************************************************************)
EXTENDS Access

\* One role each, and a name that is not in the roles table.
MCRoleLists == {{r} : r \in Roles \cup {"ghost"}}
=============================================================================
