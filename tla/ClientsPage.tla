---------------------------- MODULE ClientsPage ----------------------------
(***************************************************************************)
(* clients.html of the idp-admin console (clients.js, and the Cancel       *)
(* button admin-common.js puts into its form): one form both creates and   *)
(* edits clients; a variable of the script decides which.  Requests take   *)
(* effect in the order they are sent, their answers arrive in any order.   *)
(* The values of a client are abstracted to whose values they are.         *)
(***************************************************************************)
EXTENDS FiniteSets, Naturals

CONSTANTS ClientIds, NoClient, Deleted, MaxCalls

VARIABLES
  stored,           \* the server: whose values a client has; ids are used once
  rows,             \* the clients the table shows
  form,             \* whose values the form was filled with; is it shown
  editingClientId,  \* the variable of clients.js
  calls             \* answers that have not arrived

clientsVars == <<stored, rows, form, editingClientId, calls>>

Blank == NoClient
Call == [op : {"list"}, rows : SUBSET ClientIds]
  \cup [op : {"save", "delete"}, ok : BOOLEAN]

ClientsTypeOK ==
  /\ stored \in [ClientIds -> ClientIds \cup {NoClient, Deleted}]
  /\ rows \subseteq ClientIds
  /\ form \in [of : ClientIds \cup {Blank}, shown : BOOLEAN]
  /\ editingClientId \in ClientIds \cup {NoClient}
  /\ calls \subseteq Call

Listed == {c \in ClientIds : stored[c] \in ClientIds}
Sends(answers) ==
  /\ Cardinality(calls) < MaxCalls
  /\ calls' = calls \cup answers
\* loadClients sends its request at once.
List == [op |-> "list", rows |-> Listed]
Filled(c, shown) == [of |-> c, shown |-> shown]

ClientsInit ==
  /\ stored = [c \in ClientIds |-> NoClient]
  /\ rows = {} /\ calls = {}
  /\ form = Filled(Blank, FALSE) /\ editingClientId = NoClient

LoadClients ==
  /\ Sends({List})
  /\ UNCHANGED <<stored, rows, form, editingClientId>>

\* The table is replaced by each list that arrives, also by an older one.
ClientsLoaded(q) ==
  /\ q \in calls /\ q.op = "list"
  /\ rows' = q.rows
  /\ calls' = calls \ {q}
  /\ UNCHANGED <<stored, form, editingClientId>>

EditClient(c) ==
  /\ c \in rows
  /\ editingClientId' = c
  /\ form' = Filled(c, TRUE)
  /\ UNCHANGED <<stored, rows, calls>>

\* The form's reset event ends the editing, whoever resets it.
Reset(shown) == form' = Filled(Blank, shown) /\ editingClientId' = NoClient

\* Faulty showClientForm: the fields keep their values.
ShowClientFormFilled ==
  /\ form' = [form EXCEPT !.shown = ~@] /\ editingClientId' = NoClient
  /\ UNCHANGED <<stored, rows, calls>>

ShowClientForm ==
  /\ Reset(~form.shown)
  /\ UNCHANGED <<stored, rows, calls>>

CancelClientForm ==
  /\ form.shown /\ Reset(FALSE)
  /\ UNCHANGED <<stored, rows, calls>>

\* POST: a client with a new id gets the values; blank ones are typed in.
CreateClient(c) ==
  /\ form.shown /\ editingClientId = NoClient /\ stored[c] = NoClient
  /\ stored' = [stored EXCEPT ![c] = IF form.of = Blank THEN c ELSE form.of]
  /\ Sends({[op |-> "save", ok |-> TRUE]})
  /\ UNCHANGED <<rows, form, editingClientId>>

\* PUT: another page may have deleted the client.
UpdateClient ==
  /\ form.shown /\ editingClientId # NoClient
  /\ stored' = IF editingClientId \in Listed
                 THEN [stored EXCEPT ![editingClientId] = form.of] ELSE stored
  /\ Sends({[op |-> "save", ok |-> editingClientId \in Listed]})
  /\ UNCHANGED <<rows, form, editingClientId>>

DeleteClient(c) ==
  /\ c \in rows
  /\ stored' = [stored EXCEPT ![c] = Deleted]
  /\ Sends({[op |-> "delete", ok |-> c \in Listed]})
  /\ UNCHANGED <<rows, form, editingClientId>>

\* A success closes the form, whatever it shows by now.
ClientSaved(q) ==
  /\ q \in calls /\ q.op = "save" /\ q.ok
  /\ Reset(FALSE)
  /\ calls' = (calls \ {q}) \cup {List}
  /\ UNCHANGED <<stored, rows>>

ClientDeleted(q) ==
  /\ q \in calls /\ q.op = "delete" /\ q.ok
  /\ calls' = (calls \ {q}) \cup {List}
  /\ UNCHANGED <<stored, rows, form, editingClientId>>

\* Refused, or the answer is lost: a message, or nothing.
CallFailed(q) ==
  /\ q \in calls
  /\ calls' = calls \ {q}
  /\ UNCHANGED <<stored, rows, form, editingClientId>>

\* Another administrator deletes a client.
DeletedElsewhere(c) ==
  /\ c \in Listed
  /\ stored' = [stored EXCEPT ![c] = Deleted]
  /\ UNCHANGED <<rows, form, editingClientId, calls>>

ClientsNext ==
  \/ LoadClients \/ ShowClientForm \/ CancelClientForm \/ UpdateClient
  \/ \E c \in ClientIds : \/ EditClient(c) \/ CreateClient(c)
                          \/ DeleteClient(c) \/ DeletedElsewhere(c)
  \/ \E q \in calls : \/ ClientsLoaded(q) \/ ClientSaved(q)
                      \/ ClientDeleted(q) \/ CallFailed(q)

ClientsSpec == ClientsInit /\ [][ClientsNext]_clientsVars
-----------------------------------------------------------------------------
(* No client gets the values that the form had of another one, although    *)
(* answers, stale rows and other buttons refill, clear and close the form  *)
(* between two submits.                                                    *)
OwnValues == \A c \in ClientIds : stored[c] \in {c, NoClient, Deleted}
=============================================================================
