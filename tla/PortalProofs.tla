---------------------------- MODULE PortalProofs ----------------------------
(***************************************************************************)
(* Theorems about the scripts of the portals.  Each page's property is     *)
(* proved of the page, and follows for the portal, whose steps are steps   *)
(* of one page.                                                            *)
(***************************************************************************)
EXTENDS MCPortal, TLAPS

(***************************************************************************)
(* Signing in.  A login that a callback page has ended is not the tab's    *)
(* login, nor will it be: its values are not drawn again.  So the page of  *)
(* such a login does nothing.                                              *)
(***************************************************************************)
AnyLogin == Login(Clients \cup {None})

Shape == /\ "at" \in DOMAIN page /\ "login" \in DOMAIN tab
         /\ page.at = "callback" => {"login", "job"} \subseteq DOMAIN page
         /\ page.at = "login" => page.config \in Clients \cup {None}

TabInv ==
  /\ Shape
  /\ logins \in [Logins -> AnyLogin \cup {None}] /\ finished \subseteq Logins
  /\ \A l \in finished : logins[l] # None /\ tab.login # l
  /\ page.at = "callback" =>
       /\ page.login \in Logins /\ logins[page.login] # None
       /\ page.login \in finished => page.job = "none"

(***************************************************************************)
(* The form of the clients page shows the client that is being edited, and *)
(* is blank when none is.                                                  *)
(***************************************************************************)
FormInv == /\ DOMAIN stored = ClientIds
           /\ form.of = editingClientId
           /\ OwnValues

(***************************************************************************)
(* The security page.                                                      *)
(***************************************************************************)
Enrolling(q) == q.do = "enroll" /\ q.secret # Nothing
Verifying(q) == q.do = "verify" /\ q.codes # Nothing
Regenerating(q) == q.do = "regenerate" /\ q.codes # Nothing

\* A request in flight has its button to itself; the status is asked once.
ButtonsInv ==
  \A q \in arriving :
    /\ ButtonOf(q) \subseteq disabled
    /\ \A p \in arriving : p # q =>
         /\ ButtonOf(p) \cap ButtonOf(q) = {}
         /\ ~(p.do = "status" /\ q.do = "status")

\* An answer with codes has the codes that are stored; the other buttons
\* that would replace them are out of reach until it arrives.
CodesInv ==
  /\ \A q \in arriving : Enrolling(q) =>
       ~mfa.enabled /\ mfa.secret = q.secret /\ qrCode # q.secret
  /\ \A q \in arriving : Verifying(q) =>
       /\ mfa.enabled /\ mfa.codes = q.codes
       /\ "manage" \notin panels /\ confirmAction = Nothing
  /\ \A q \in arriving : Regenerating(q) =>
       /\ mfa.enabled /\ mfa.codes = q.codes
       /\ \A p \in arriving : ~Verifying(p)

\* The panels are those of one state of the second factor.
PanelsInv ==
  /\ "manage" \in panels =>
       /\ panels \cap {"setup", "verification"} = {}
       /\ \A q \in arriving : ~Enrolling(q)
  /\ \A q \in arriving : q.do = "status" /\ q.ok =>
       /\ mfa.enabled /\ panels = {"setup"} /\ confirmAction = Nothing
       /\ \A p \in arriving : ~Changed(p)

SecurityInv == ButtonsInv /\ CodesInv /\ PanelsInv /\ CodesShownAreStored
-----------------------------------------------------------------------------
(* Signing in.                                                             *)

LEMMA TabInitHolds == TabInit => TabInv
BY NoneAssumption DEF TabInit, TabInv, Shape, Away

OnConsole(p) == "at" \in DOMAIN p /\ p.at = "console"

\* What handlers of the console do to the page leaves it a console page.
LEMMA FetchesOnConsole ==
  ASSUME NEW do, NEW p, OnConsole(p)
  PROVE  OnConsole(Fetches(do, p))
BY DEF Fetches, OnConsole

LEMMA PagesOnConsole ==
  ASSUME OnConsole(page)
  PROVE  /\ OnConsole([page EXCEPT !.shell = TRUE])
         /\ OnConsole([page EXCEPT !.ready = TRUE])
         /\ OnConsole(ToLogin) /\ OnConsole(ToEnd)
BY DEF ToLogin, ToEnd, OnConsole

LEMMA InitializeOnConsole ==
  ASSUME NEW j, NEW p, OnConsole(p)
  PROVE  OnConsole(WithInitialize(j, p))
BY FetchesOnConsole DEF WithInitialize

\* A handler ends on a console page, with the login that was stored.
Kept(s) == "login" \in DOMAIN s /\ s.login = tab.login
HandlerStep == /\ OnConsole(page) /\ OnConsole(page')
               /\ UNCHANGED <<logins, finished>>
               /\ Kept(tab')

LEMMA StoragesKept ==
  ASSUME Shape
  PROVE  /\ Kept(tab) /\ Kept(Cleared)
         /\ \A u : Kept([tab EXCEPT !.user = u])
BY DEF Shape, Kept, Cleared

LEMMA EndsIsHandlerStep ==
  ASSUME NEW j, NEW p, NEW s, Ends(j, p, s),
         OnConsole(page), OnConsole(p), Kept(s)
  PROVE  HandlerStep
BY DEF Ends, HandlerStep, OnConsole, Kept

LEMMA HandlerSteps ==
  ASSUME Shape, NEW j \in Job,
         \/ AdminLoadSignedOut(j) \/ AdminLoad(j) \/ ClientLoad(j)
         \/ Verified(j) \/ MeLoaded(j) \/ MeFailed(j) \/ DashboardLoaded(j)
         \/ AdminHeader(j) \/ ClientHeader(j) \/ Unanswered(j)
  PROVE  HandlerStep
<1>1. OnConsole(page)
  BY DEF Shape, OnConsole, AdminLoadSignedOut, AdminLoad, ClientLoad,
         Verified, MeLoaded, MeFailed, DashboardLoaded, AdminHeader,
         ClientHeader, Unanswered, Loading, Working
<1>2. \A p, do : OnConsole(p) => OnConsole(Fetches(do, p))
  BY FetchesOnConsole
<1>3. \A p : OnConsole(p) => OnConsole(WithInitialize(j, p))
  BY InitializeOnConsole
<1>4. \A p, s : Ends(j, p, s) /\ OnConsole(p) /\ Kept(s) => HandlerStep
  BY <1>1, EndsIsHandlerStep
<1> USE <1>1, <1>2, <1>3, <1>4, PagesOnConsole, StoragesKept
<1>5. CASE AdminLoadSignedOut(j)
  BY <1>5 DEF AdminLoadSignedOut
<1>6. CASE AdminLoad(j)
  BY <1>6 DEF AdminLoad
<1>7. CASE ClientLoad(j)
  BY <1>7 DEF ClientLoad
<1>8. CASE Verified(j)
  BY <1>8 DEF Verified
<1>9. CASE MeLoaded(j)
  BY <1>9 DEF MeLoaded
<1>10. CASE MeFailed(j)
  BY <1>10 DEF MeFailed
<1>11. CASE DashboardLoaded(j)
  BY <1>11 DEF DashboardLoaded
<1>12. CASE AdminHeader(j)
  BY <1>12 DEF AdminHeader
<1>13. CASE ClientHeader(j)
  BY <1>13 DEF ClientHeader
<1>14. CASE Unanswered(j)
  BY <1>14 DEF Unanswered
<1> QED
  BY <1>5, <1>6, <1>7, <1>8, <1>9, <1>10, <1>11, <1>12, <1>13, <1>14

\* A step that leaves no callback page of an ended login at work, ends no
\* login, and begins none that has ended, keeps the invariant.
LEMMA ConsoleKeeps ==
  ASSUME TabInv, InConsole
  PROVE  /\ TabInv'
         /\ page.at = "callback" => tab' = tab
<1> USE DEF TabInv
<1>1. CASE \E load \in {"load", "loadDashboard"} : OpenConsole(load)
  BY <1>1 DEF OpenConsole, Console, Shape
<1>2. CASE Leave
  BY <1>2 DEF Leave, AtLogin, Away, Shape
<1>3. CASE Refresh
  <2>1. OnConsole(page')
    BY <1>3, FetchesOnConsole DEF Refresh, OnConsole, Shape
  <2> QED
    BY <1>3, <2>1 DEF Refresh, OnConsole, Shape
<1>4. CASE ClickLogout
  BY <1>4 DEF ClickLogout, ToLogin, ToEnd, Cleared, Shape
<1>5. CASE ClickDashboardLogout
  BY <1>5 DEF ClickDashboardLogout, ToEnd, Shape
<1>6. CASE HandlerStep
  BY <1>6 DEF HandlerStep, OnConsole, Kept, Shape
<1> QED
  BY <1>1, <1>2, <1>3, <1>4, <1>5, <1>6, HandlerSteps DEF InConsole

\* A login that was asked for stays one.
AskedFor(l) == logins[l] # None

LEMMA LoginChanged ==
  ASSUME TabInv, NEW l \in Logins, NEW x \in AnyLogin,
         logins' = [logins EXCEPT ![l] = x]
  PROVE  /\ logins' \in [Logins -> AnyLogin \cup {None}]
         /\ AskedFor(l)'
         /\ \A k \in Logins : AskedFor(k) => AskedFor(k)'
<1>1. x # None
  BY NoneAssumption DEF AnyLogin
<1>2. logins \in [Logins -> AnyLogin \cup {None}]
  BY DEF TabInv
<1> QED
  BY <1>1, <1>2 DEF AskedFor

LEMMA AskedIsLogin ==
  ASSUME TabInv, NEW l \in Logins, NEW c \in Clients \cup {None}, Asked(l, c)
  PROVE  /\ logins' \in [Logins -> AnyLogin \cup {None}]
         /\ AskedFor(l)'
         /\ \A k \in Logins : AskedFor(k) => AskedFor(k)'
<1> DEFINE x == [client |-> c, account |-> None, code |-> "none", live |-> FALSE]
<1>1. x \in AnyLogin
  BY DEF AnyLogin, Login
<1>2. logins' = [logins EXCEPT ![l] = x]
  BY DEF Asked
<1> HIDE DEF x
<1> QED
  BY <1>1, <1>2, LoginChanged

LEMMA RedeemedIsLogin ==
  ASSUME TabInv, NEW l \in Logins, AskedFor(l), logins' = Redeemed(l)
  PROVE  /\ logins' \in [Logins -> AnyLogin \cup {None}]
         /\ \A k \in Logins : AskedFor(k) => AskedFor(k)'
<1> DEFINE x == [logins[l] EXCEPT !.code = "used", !.live = TRUE]
<1>1. logins[l] \in AnyLogin
  BY DEF TabInv, AskedFor
<1>2. x \in AnyLogin
  BY <1>1 DEF AnyLogin, Login
<1>3. logins' = [logins EXCEPT ![l] = x]
  BY DEF Redeemed
<1> HIDE DEF x
<1> QED
  BY <1>2, <1>3, LoginChanged

LEMMA ProviderKeeps ==
  ASSUME TabInv, Provider
  PROVE  TabInv' /\ tab' = tab
<1>1. ASSUME NEW l \in Logins, NEW a \in Accounts, SignInAs(l, a)
      PROVE  TabInv' /\ tab' = tab
  <2> DEFINE x == [logins[l] EXCEPT !.account = a, !.code = "issued"]
  <2>1. logins[l] \in AnyLogin
    BY <1>1 DEF SignInAs, NewLogin, TabInv
  <2>2. x \in AnyLogin
    BY <2>1 DEF AnyLogin, Login
  <2>3. logins' = [logins EXCEPT ![l] = x] /\ UNCHANGED <<tab, page, finished>>
    BY <1>1 DEF SignInAs
  <2> HIDE DEF x
  <2> QED
    BY <2>2, <2>3, LoginChanged DEF TabInv, Shape, AskedFor
<1>2. ASSUME NEW l \in Logins, EndToken(l)
      PROVE  TabInv' /\ tab' = tab
  <2> DEFINE x == [logins[l] EXCEPT !.live = FALSE]
  <2>1. logins[l] \in AnyLogin
    BY <1>2 DEF EndToken, NewLogin, TabInv
  <2>2. x \in AnyLogin
    BY <2>1 DEF AnyLogin, Login
  <2>3. logins' = [logins EXCEPT ![l] = x] /\ UNCHANGED <<tab, page, finished>>
    BY <1>2 DEF EndToken
  <2> HIDE DEF x
  <2> QED
    BY <2>2, <2>3, LoginChanged DEF TabInv, Shape, AskedFor
<1>3. CASE \E a \in Accounts : ChangeRole(a)
  BY <1>3 DEF ChangeRole, TabInv, Shape
<1> QED
  BY <1>1, <1>2, <1>3 DEF Provider

LEMMA SigningInKeeps ==
  ASSUME TabInv, SigningIn
  PROVE  /\ TabInv'
         /\ page.at = "callback" /\ page.login \in finished => tab' = tab
<1> USE DEF Shape
<1>1. CASE \E c \in Clients : OpenLogin(c)
  BY <1>1 DEF OpenLogin, AtLogin, TabInv
<1>2. CASE LoginConfig
  BY <1>2, PortalAssumption DEF LoginConfig, AtLogin, TabInv
<1>3. ASSUME NEW l \in Logins, AdminLogin(l) \/ ClientLogin(l)
      PROVE  TabInv' /\ page.at # "callback"
  <2>1. Asked(l, page.config) /\ page.config \in Clients \cup {None}
    BY <1>3 DEF AdminLogin, ClientLogin, TabInv
  <2>2. l \notin finished
    BY <1>3 DEF AdminLogin, ClientLogin, TabInv, NewLogin
  <2>3. page' = Away /\ page.at = "login" /\ UNCHANGED finished
    BY <1>3 DEF AdminLogin, ClientLogin
  <2>4. "login" \in DOMAIN tab' /\ tab'.login = l
    BY <1>3 DEF AdminLogin, ClientLogin, TabInv
  <2> QED
    BY <2>1, <2>2, <2>3, <2>4, AskedIsLogin DEF TabInv, AskedFor, Away
<1>4. ASSUME NEW l \in Logins, OpenCallback(l)
      PROVE  TabInv' /\ tab' = tab
  BY <1>4 DEF OpenCallback, NewLogin, AdminAccepts, ClientAccepts, TabInv
<1>5. ASSUME NEW l \in Logins, Exchange(l)
      PROVE  TabInv' /\ tab' = tab
  BY <1>5, RedeemedIsLogin DEF AskedFor, Exchange, Running, Enter, TabInv
<1>6. ASSUME NEW l \in Logins, LoseAnswer(l)
      PROVE  TabInv' /\ tab' = tab
  BY <1>6, RedeemedIsLogin DEF AskedFor, LoseAnswer, Running, TabInv
<1>7. ASSUME NEW l \in Logins, Complete(l)
      PROVE  TabInv' /\ page.login \notin finished
  BY <1>7, NoneAssumption
  DEF Complete, Running, Enter, Console, AdminSignedIn, ClientSignedIn, TabInv
<1>8. ASSUME NEW l \in Logins, GiveUp(l)
      PROVE  TabInv' /\ page.login \notin finished
  BY <1>8, NoneAssumption
  DEF GiveUp, Running, Enter, AdminGivenUp, ClientGivenUp, TabInv
<1> QED
  BY <1>1, <1>2, <1>3, <1>4, <1>5, <1>6, <1>7, <1>8
  DEF SigningIn, OpenLogin, LoginConfig

LEMMA TabStep ==
  ASSUME TabInv, [TabNext]_tabVars
  PROVE  /\ TabInv'
         /\ page.at = "callback" /\ page.login \in finished => tab' = tab
<1>1. CASE UNCHANGED tabVars
  BY <1>1 DEF tabVars, TabInv, Shape
<1> QED
  BY <1>1, ProviderKeeps, SigningInKeeps, ConsoleKeeps DEF TabNext

-----------------------------------------------------------------------------
(* The clients page.                                                       *)

LEMMA FormInitHolds == ClientsInit => FormInv
BY DEF ClientsInit, FormInv, Filled, Blank, OwnValues

LEMMA FormStep == FormInv /\ [ClientsNext]_clientsVars => FormInv'
<1> SUFFICES ASSUME FormInv, [ClientsNext]_clientsVars
             PROVE  FormInv'
  OBVIOUS
<1> USE DEF FormInv, OwnValues, Filled, Blank
<1>1. CASE LoadClients
  BY <1>1 DEF LoadClients
<1>2. CASE ShowClientForm
  BY <1>2 DEF ShowClientForm, Reset
<1>3. CASE CancelClientForm
  BY <1>3 DEF CancelClientForm, Reset
<1>4. CASE UpdateClient
  BY <1>4 DEF UpdateClient, Listed
<1>5. ASSUME NEW c \in ClientIds, EditClient(c)
      PROVE  FormInv'
  BY <1>5 DEF EditClient
<1>6. ASSUME NEW c \in ClientIds, CreateClient(c)
      PROVE  FormInv'
  BY <1>6 DEF CreateClient
<1>7. ASSUME NEW c \in ClientIds, DeleteClient(c)
      PROVE  FormInv'
  BY <1>7 DEF DeleteClient
<1>8. ASSUME NEW c \in ClientIds, DeletedElsewhere(c)
      PROVE  FormInv'
  BY <1>8 DEF DeletedElsewhere
<1>9. ASSUME NEW q \in calls,
             \/ ClientsLoaded(q) \/ ClientSaved(q)
             \/ ClientDeleted(q) \/ CallFailed(q)
      PROVE  FormInv'
  BY <1>9 DEF ClientsLoaded, ClientSaved, ClientDeleted, CallFailed, Reset
<1>10. CASE UNCHANGED clientsVars
  BY <1>10 DEF clientsVars
<1> QED
  BY <1>1, <1>2, <1>3, <1>4, <1>5, <1>6, <1>7, <1>8, <1>9, <1>10
  DEF ClientsNext

-----------------------------------------------------------------------------
(* The users page.                                                         *)

LEMMA ChangesInitHolds == UsersInit => ChangesLandInScope
BY DEF UsersInit, ChangesLandInScope

LEMMA ChangesStep ==
  ChangesLandInScope /\ [UsersNext]_usersVars => ChangesLandInScope'
<1> SUFFICES ASSUME ChangesLandInScope, [UsersNext]_usersVars
             PROVE  ChangesLandInScope'
  OBVIOUS
<1> USE DEF ChangesLandInScope
\* A change is found with the client that the page shows.
<1>1. ASSUME NEW op, NEW u, Changes(op, u)
      PROVE  ChangesLandInScope'
  BY <1>1 DEF Changes, FoundUser, ScopeOf
<1>2. ASSUME NEW u \in Users, CreateUser(u)
      PROVE  ChangesLandInScope'
  BY <1>2 DEF CreateUser, ScopeOf
<1>3. CASE SubmitUserEditor
  BY <1>1, <1>3 DEF SubmitUserEditor
<1>4. ASSUME NEW u \in Users, ApplyRoles(u)
      PROVE  ChangesLandInScope'
  BY <1>1, <1>4 DEF ApplyRoles
<1>5. CASE UNCHANGED changes
  BY <1>5
<1> QED
  BY <1>2, <1>3, <1>4, <1>5
  DEF UsersNext, usersVars, RefreshUsers, CloseUserEditor, ChangeScope,
      OpenUserEditor, UserAppears, ScopeArrived, NoScope, UsersLoaded,
      UserSaved, RolesApplied, UserCreated, AnswerFailed

-----------------------------------------------------------------------------
(* The security page.                                                      *)

LEMMA SecurityInitHolds == SecurityInit => SecurityInv
BY DEF SecurityInit, SecurityInv, ButtonsInv, CodesInv, PanelsInv,
       CodesShownAreStored, Enrolling, Verifying, Regenerating, Changed,
       ButtonOf

\* An answer that has arrived frees its button and no other.
LEMMA Answering ==
  ASSUME ButtonsInv, NEW q \in arriving, arriving' = arriving \ {q},
         disabled' = disabled \ ButtonOf(q)
  PROVE  ButtonsInv'
BY DEF ButtonsInv

\* A request that is sent takes its button.
LEMMA Requesting ==
  ASSUME ButtonsInv, NEW button, NEW q, Sending(button, q),
         ButtonOf(q) = {button}, q.do # "status"
  PROVE  /\ ButtonsInv'
         /\ \A p \in arriving : button \notin ButtonOf(p)
BY DEF ButtonsInv, Sending

LEMMA SecurityStep == SecurityInv /\ [SecurityNext]_securityVars => SecurityInv'
<1> SUFFICES ASSUME SecurityInv, [SecurityNext]_securityVars
             PROVE  SecurityInv'
  OBVIOUS
<1> USE DEF SecurityInv
<1>1. CASE LoadSecurity
  BY <1>1 DEF LoadSecurity, ButtonsInv, CodesInv, PanelsInv,
     CodesShownAreStored, Enrolling, Verifying, Regenerating, Changed, ButtonOf
<1>2. CASE CloseConfirmModal
  BY <1>2 DEF CloseConfirmModal, shownVars, ButtonsInv, CodesInv, PanelsInv,
     CodesShownAreStored, Enrolling, Verifying, Regenerating, Changed, ButtonOf
<1>3. ASSUME NEW action \in {"disable", "regenerate"}, OpenConfirmModal(action)
      PROVE  SecurityInv'
  BY <1>3 DEF OpenConfirmModal, shownVars, ButtonsInv, CodesInv, PanelsInv,
     CodesShownAreStored, Enrolling, Verifying, Regenerating, Changed, ButtonOf
<1>4. ASSUME NEW s \in Secrets, StartEnrollment(s)
      PROVE  SecurityInv'
  <2> DEFINE q == [do |-> "enroll", secret |-> IF mfa.enabled THEN Nothing ELSE s]
  <2>1. Sending("start", q) /\ q.do = "enroll"
    BY <1>4 DEF StartEnrollment
  <2>2. q.do # "status" /\ ButtonOf(q) = {"start"}
    BY DEF ButtonOf
  <2>3. ButtonsInv' /\ \A p \in arriving : "start" \notin ButtonOf(p)
    <3> HIDE DEF q
    <3> QED BY <2>1, <2>2, Requesting
  <2>4. \A p \in arriving : p.do # "enroll"
    BY <2>3 DEF ButtonOf
  <2>5. CodesInv'
    BY <1>4, <2>4 DEF StartEnrollment, Sending, shownVars, CodesInv, PanelsInv,
       Enrolling, Verifying, Regenerating, FreshSecret
  <2>6. PanelsInv'
    BY <1>4, <2>4 DEF StartEnrollment, Sending, shownVars, CodesInv, PanelsInv,
       Enrolling, Changed
  <2>7. CodesShownAreStored'
    BY <1>4, <2>4 DEF StartEnrollment, Sending, shownVars, CodesShownAreStored,
       Changed
  <2> QED
    BY <2>3, <2>5, <2>6, <2>7
<1>5. ASSUME NEW right \in BOOLEAN, NEW c \in CodeSets, VerifyEnrollment(right, c)
      PROVE  SecurityInv'
  <2> DEFINE ok == right /\ ~mfa.enabled /\ qrCode # Nothing /\ qrCode = mfa.secret
             q == [do |-> "verify", codes |-> IF ok THEN c ELSE Nothing]
  <2>1. Sending("verify", q)
    BY <1>5 DEF VerifyEnrollment
  <2>2. q.do # "status" /\ ButtonOf(q) = {"verify"}
    BY DEF ButtonOf
  <2>3. ButtonsInv' /\ \A p \in arriving : "verify" \notin ButtonOf(p)
    <3> HIDE DEF q
    <3> QED BY <2>1, <2>2, Requesting
  <2>4. \A p \in arriving : p.do # "verify"
    BY <2>3 DEF ButtonOf
  <2>5. CodesInv'
    BY <1>5, <2>4, NothingAssumption
    DEF VerifyEnrollment, Uncovered, Sending, shownVars, CodesInv, PanelsInv,
        Enrolling, Verifying, Regenerating
  <2>6. PanelsInv'
    <3>1. \A p \in arriving : ~(p.do = "status" /\ p.ok)
      BY <1>5 DEF VerifyEnrollment, PanelsInv
    <3>2. /\ "manage" \notin panels /\ UNCHANGED panels
          /\ arriving' = arriving \cup {q}
      BY <1>5 DEF VerifyEnrollment, PanelsInv, Sending, shownVars
    <3> QED
      BY <3>1, <3>2 DEF PanelsInv
  <2>7. CodesShownAreStored'
    <3>1. CASE ok
      <4>1. q \in arriving' /\ q.do = "verify" /\ q.codes # Nothing
        BY <1>5, <3>1, NothingAssumption DEF VerifyEnrollment, Sending
      <4> QED
        BY <4>1 DEF CodesShownAreStored, Changed
    <3>2. CASE ~ok
      BY <1>5, <3>2
      DEF VerifyEnrollment, Sending, shownVars, CodesShownAreStored, Changed
    <3> QED
      BY <3>1, <3>2
  <2> QED
    BY <2>3, <2>5, <2>6, <2>7
<1>6. ASSUME NEW right \in BOOLEAN, DisableMfa(right)
      PROVE  SecurityInv'
  <2> DEFINE q == [do |-> "disable", ok |-> right /\ mfa.enabled]
  <2>1. Sending("confirm", q)
    BY <1>6 DEF DisableMfa
  <2>2. q.do # "status" /\ ButtonOf(q) = {"confirm"}
    BY DEF ButtonOf
  <2>3. ButtonsInv' /\ \A p \in arriving : "confirm" \notin ButtonOf(p)
    <3> HIDE DEF q
    <3> QED BY <2>1, <2>2, Requesting
  <2>4. \A p \in arriving : p.do \notin {"disable", "regenerate"}
    BY <2>3 DEF ButtonOf
  <2>5. CodesInv'
    BY <1>6, <2>4, NothingAssumption
    DEF DisableMfa, Sending, shownVars, CodesInv, PanelsInv,
        Enrolling, Verifying, Regenerating
  <2>6. PanelsInv'
    BY <1>6, <2>4, NothingAssumption
    DEF DisableMfa, Sending, shownVars, CodesInv, PanelsInv,
        Enrolling, Changed
  <2>7. CodesShownAreStored'
    <3>1. CASE right /\ mfa.enabled
      <4>1. q \in arriving' /\ q.do = "disable" /\ q.ok
        BY <1>6, <3>1 DEF DisableMfa, Sending
      <4> QED
        BY <4>1 DEF CodesShownAreStored, Changed
    <3>2. CASE ~(right /\ mfa.enabled)
      BY <1>6, <3>2
      DEF DisableMfa, Sending, shownVars, CodesShownAreStored, Changed
    <3> QED
      BY <3>1, <3>2
  <2> QED
    BY <2>3, <2>5, <2>6, <2>7
<1>7. ASSUME NEW right \in BOOLEAN, NEW c \in CodeSets,
             RegenerateRecoveryCodes(right, c)
      PROVE  SecurityInv'
  <2> DEFINE q == [do |-> "regenerate",
                   codes |-> IF right /\ mfa.enabled THEN c ELSE Nothing]
  <2>1. Sending("confirm", q)
    BY <1>7 DEF RegenerateRecoveryCodes
  <2>2. q.do # "status" /\ ButtonOf(q) = {"confirm"}
    BY DEF ButtonOf
  <2>3. ButtonsInv' /\ \A p \in arriving : "confirm" \notin ButtonOf(p)
    <3> HIDE DEF q
    <3> QED BY <2>1, <2>2, Requesting
  <2>4. \A p \in arriving : p.do \notin {"disable", "regenerate"}
    BY <2>3 DEF ButtonOf
  <2>5. CodesInv'
    BY <1>7, <2>4, NothingAssumption
    DEF RegenerateRecoveryCodes, Sending, shownVars, CodesInv, PanelsInv,
        Enrolling, Verifying, Regenerating
  <2>6. PanelsInv'
    BY <1>7, <2>4, NothingAssumption
    DEF RegenerateRecoveryCodes, Sending, shownVars, CodesInv, PanelsInv,
        Enrolling, Changed
  <2>7. CodesShownAreStored'
    <3>1. CASE right /\ mfa.enabled
      <4>1. q \in arriving' /\ q.do = "regenerate" /\ q.codes # Nothing
        BY <1>7, <3>1, NothingAssumption DEF RegenerateRecoveryCodes, Sending
      <4> QED
        BY <4>1 DEF CodesShownAreStored, Changed
    <3>2. CASE ~(right /\ mfa.enabled)
      BY <1>7, <3>2
      DEF RegenerateRecoveryCodes, Sending, shownVars, CodesShownAreStored,
          Changed
    <3> QED
      BY <3>1, <3>2
  <2> QED
    BY <2>3, <2>5, <2>6, <2>7
<1>8. ASSUME NEW q \in arriving, StatusLoaded(q)
      PROVE  SecurityInv'
  <2>1. /\ arriving' = arriving \ {q} /\ q.do = "status"
        /\ UNCHANGED <<mfa, qrCode, recoveryCodes, confirmAction, disabled, missed>>
    BY <1>8 DEF StatusLoaded
  <2>2. ~Changed(q) /\ ButtonsInv'
    BY <2>1 DEF Changed, ButtonsInv
  <2>3. CASE q.ok
    <3>1. panels' = (panels \ {"setup", "verification"}) \cup {"manage"}
      BY <1>8, <2>3 DEF StatusLoaded, WithStatus
    <3>2. mfa.enabled /\ panels = {"setup"} /\ \A p \in arriving : ~Changed(p)
      BY <2>1, <2>3 DEF PanelsInv
    <3>3. \A p \in arriving : ~Enrolling(p) /\ ~Verifying(p) /\ ~Regenerating(p)
      BY <3>2 DEF CodesInv, Changed, Verifying, Regenerating
    <3>4. CodesInv' /\ CodesShownAreStored'
      BY <2>1, <3>1, <3>2, <3>3
      DEF CodesInv, CodesShownAreStored, Enrolling, Verifying, Regenerating
    <3>5. \A p \in arriving' : ~(p.do = "status" /\ p.ok)
      BY <2>1 DEF ButtonsInv
    <3> QED
      BY <2>1, <2>2, <3>1, <3>3, <3>4, <3>5 DEF PanelsInv, Enrolling
  <2>4. CASE ~q.ok
    <3>1. panels' = (panels \ {"manage"}) \cup {"setup"}
      BY <1>8, <2>4 DEF StatusLoaded, WithStatus
    <3>2. CodesInv' /\ CodesShownAreStored'
      BY <2>1, <2>2, <3>1
      DEF CodesInv, CodesShownAreStored, Enrolling, Verifying, Regenerating,
          Changed
    <3>3. PanelsInv'
      BY <2>1, <3>1 DEF PanelsInv, Enrolling, Changed
    <3> QED
      BY <2>2, <3>2, <3>3
  <2> QED
    BY <2>3, <2>4
<1>9. ASSUME NEW q \in arriving,
             \/ EnrollmentStarted(q) \/ EnrollmentVerified(q) \/ MfaDisabled(q)
             \/ RecoveryCodesRegenerated(q) \/ RequestFailed(q)
      PROVE  SecurityInv'
  <2>1. disabled' = disabled \ ButtonOf(q) /\ arriving' = arriving \ {q}
    BY <1>9 DEF EnrollmentStarted, EnrollmentVerified, MfaDisabled,
       RecoveryCodesRegenerated, RequestFailed, ButtonOf
  <2>2. ButtonsInv'
    BY <2>1, Answering
  <2>3. \A p \in arriving \ {q} :
          /\ q.do \in {"enroll", "verify"} => p.do # q.do
          /\ q.do \in {"disable", "regenerate"} =>
               p.do \notin {"disable", "regenerate"}
    <3> TAKE p \in arriving \ {q}
    <3>1. ButtonOf(p) \cap ButtonOf(q) = {}
      BY DEF ButtonsInv
    <3> QED
      BY <3>1 DEF ButtonOf
  <2> USE DEF CodesInv, PanelsInv, CodesShownAreStored, Enrolling, Verifying,
              Regenerating, Changed
  <2>4. CASE EnrollmentStarted(q)
    BY <2>2, <2>3, <2>4 DEF EnrollmentStarted
  <2>5. CASE EnrollmentVerified(q)
    BY <2>2, <2>3, <2>5 DEF EnrollmentVerified, WithStatus
  <2>6. CASE MfaDisabled(q)
    BY <2>2, <2>3, <2>6 DEF MfaDisabled, WithStatus
  <2>7. CASE RecoveryCodesRegenerated(q)
    BY <2>2, <2>3, <2>7 DEF RecoveryCodesRegenerated, WithStatus
  <2>8. CASE RequestFailed(q)
    BY <2>2, <2>3, <2>8 DEF RequestFailed, shownVars
  <2> QED
    BY <1>9, <2>4, <2>5, <2>6, <2>7, <2>8
<1>10. CASE UNCHANGED securityVars
  BY <1>10 DEF securityVars, ButtonsInv, CodesInv, PanelsInv,
     CodesShownAreStored, Enrolling, Verifying, Regenerating, Changed, ButtonOf
<1> QED
  BY <1>1, <1>2, <1>3, <1>4, <1>5, <1>6, <1>7, <1>8, <1>9, <1>10
  DEF SecurityNext

-----------------------------------------------------------------------------
(* The types of the tab.  That what pages store are logins and answers of  *)
(* /me rests on which logins they can have: a token is of a login that was *)
(* asked for, one that is redeemed or live has an account, and the login   *)
(* page of idp-client-admin, which needs its client, is not reached by the *)
(* redirects of admin-common.js.                                           *)
LoginPage == [at : {"login"}, config : Clients \cup {None}]
CallbackPage == [at : {"callback"}, login : Logins,
                 job : {"none", "exchange", "profile"}]
ConsolePage == [at : {"console"}, jobs : SUBSET Job, shell : BOOLEAN,
                ready : BOOLEAN, goto : {"stay", "login", "end"}]

ConsoleOK(p) ==
  /\ p \in ConsolePage
  /\ \A j \in p.jobs : j.token # None => AskedFor(j.token)
  /\ ~Admin => p.goto # "login" /\ \A j \in p.jobs : j.do # "verify"

StorageOK(s) ==
  /\ s \in Tab
  /\ s.login # None => AskedFor(s.login)
  /\ s.tokens # None => AskedFor(s.tokens)

PageOK ==
  /\ page \in Page
  /\ page.at = "login" /\ ~Admin => page.config \in Clients
  /\ page.at = "callback" => AskedFor(page.login)
  /\ page.at = "console" => ConsoleOK(page)

\* A login whose code is issued, or whose token lives, is of an account.
SignedIn(x) == x.code # "none" \/ x.live => x.account \in Accounts

LoginsOK ==
  /\ logins \in [Logins -> Login(Clients) \cup {None}]
  /\ \A l \in Logins : AskedFor(l) => SignedIn(logins[l])

TabTypes ==
  /\ portal \in {"idp-admin", "idp-client-admin"}
  /\ holders \subseteq Accounts /\ finished \subseteq Logins
  /\ StorageOK(tab) /\ PageOK /\ LoginsOK

LEMMA TabTypesAreTypes == TabTypes => TabTypeOK
<1> SUFFICES ASSUME TabTypes
             PROVE  TabTypeOK
  OBVIOUS
<1>1. \A l \in {tab.login, tab.tokens} \ {None} : logins[l] # None
  BY DEF TabTypes, StorageOK, AskedFor
<1> QED
  BY <1>1 DEF TabTypes, StorageOK, PageOK, LoginsOK, TabTypeOK

LEMMA TabTypesInit == TabInit => TabTypes
BY DEF TabInit, TabTypes, StorageOK, PageOK, LoginsOK, AskedFor, Away, Tab,
       Page

\* Which kind of page it is tells its fields.
LEMMA PageKinds ==
  ASSUME PageOK
  PROVE  /\ page.at = "login" => page \in LoginPage
         /\ page.at = "callback" => page \in CallbackPage
         /\ page.at = "console" => page \in ConsolePage
BY DEF PageOK, Page, LoginPage, CallbackPage, ConsolePage

LEMMA KindsArePages ==
  /\ LoginPage \subseteq Page /\ CallbackPage \subseteq Page
  /\ ConsolePage \subseteq Page /\ Away \in Page
BY DEF Page, LoginPage, CallbackPage, ConsolePage, Away

\* What a console page goes on with.
LEMMA FetchesOK ==
  ASSUME StorageOK(tab), NEW p, ConsoleOK(p),
         NEW do \in {"verify", "me", "dashboard", "header"},
         Admin \/ do # "verify"
  PROVE  ConsoleOK(Fetches(do, p))
<1>1. p \in ConsolePage
  BY DEF ConsoleOK
<1>2. CASE tab.tokens = None
  <2>1. [p EXCEPT !.goto = "end"] \in ConsolePage
    BY <1>1 DEF ConsolePage
  <2>2. /\ [p EXCEPT !.goto = "end"].jobs = p.jobs
        /\ [p EXCEPT !.goto = "end"].goto = "end"
    BY <1>1 DEF ConsolePage
  <2> QED
    BY <1>2, <2>1, <2>2 DEF Fetches, ConsoleOK
<1>3. CASE tab.tokens # None
  <2> DEFINE j == Request(do)
             q == [p EXCEPT !.jobs = @ \cup {j}]
  <2>1. j \in Job /\ j.token = tab.tokens /\ j.do = do
    BY DEF Request, Job, StorageOK, Tab
  <2>2. q \in ConsolePage /\ q.jobs = p.jobs \cup {j} /\ q.goto = p.goto
    <3> HIDE DEF j
    <3> QED BY <1>1, <2>1 DEF ConsolePage
  <2>3. AskedFor(j.token)
    BY <1>3, <2>1 DEF StorageOK
  <2>4. Fetches(do, p) = q
    BY <1>3 DEF Fetches
  <2> HIDE DEF j, q
  <2> QED
    BY <2>1, <2>2, <2>3, <2>4 DEF ConsoleOK
<1> QED
  BY <1>2, <1>3

LEMMA InitializeOK ==
  ASSUME StorageOK(tab), NEW j, NEW p, ConsoleOK(p)
  PROVE  ConsoleOK(WithInitialize(j, p))
BY FetchesOK DEF WithInitialize

LEMMA ChangedConsoleOK ==
  ASSUME ConsoleOK(page)
  PROVE  /\ ConsoleOK([page EXCEPT !.shell = TRUE])
         /\ ConsoleOK([page EXCEPT !.ready = TRUE])
         /\ ConsoleOK(ToEnd)
         /\ Admin => ConsoleOK(ToLogin)
<1>1. page \in ConsolePage
  BY DEF ConsoleOK
<1>2. \A b \in {"login", "end"} :
        /\ [page EXCEPT !.goto = b] \in ConsolePage
        /\ [page EXCEPT !.goto = b].jobs = page.jobs
        /\ [page EXCEPT !.goto = b].goto = b
  BY <1>1 DEF ConsolePage
<1>3. /\ [page EXCEPT !.shell = TRUE] \in ConsolePage
      /\ [page EXCEPT !.shell = TRUE].jobs = page.jobs
      /\ [page EXCEPT !.shell = TRUE].goto = page.goto
      /\ [page EXCEPT !.ready = TRUE] \in ConsolePage
      /\ [page EXCEPT !.ready = TRUE].jobs = page.jobs
      /\ [page EXCEPT !.ready = TRUE].goto = page.goto
  BY <1>1 DEF ConsolePage
<1> QED
  BY <1>2, <1>3 DEF ConsoleOK, ToEnd, ToLogin

LEMMA ChangedStorageOK ==
  ASSUME StorageOK(tab)
  PROVE  /\ StorageOK(Cleared)
         /\ StorageOK(AdminGivenUp) /\ StorageOK(ClientGivenUp)
         /\ \A u \in User : StorageOK([tab EXCEPT !.user = u])
         /\ \A l \in Logins : AskedFor(l) => /\ StorageOK(AdminSignedIn(l))
                                             /\ StorageOK(ClientSignedIn(l))
BY DEF StorageOK, Tab, Cleared, AdminGivenUp, ClientGivenUp, AdminSignedIn,
       ClientSignedIn

\* The provider's record of a login is written, the tab left alone.
LEMMA LoginWritten ==
  ASSUME TabTypes, NEW l \in Logins, NEW x \in Login(Clients), SignedIn(x),
         logins' = [logins EXCEPT ![l] = x], UNCHANGED portal
  PROVE  /\ LoginsOK'
         /\ AskedFor(l)'
         /\ \A k : AskedFor(k) /\ k \in Logins => AskedFor(k)'
         /\ UNCHANGED tab => StorageOK(tab)'
         /\ UNCHANGED page => PageOK'
<1>1. x # None
  <2>1. x \in AnyLogin
    BY DEF AnyLogin, Login
  <2> QED
    BY <2>1, NoneAssumption DEF AnyLogin
<1>2. logins \in [Logins -> Login(Clients) \cup {None}]
  BY DEF TabTypes, LoginsOK
<1>3. \A k \in Logins : logins'[k] = IF k = l THEN x ELSE logins[k]
  BY <1>2
<1>4. LoginsOK'
  BY <1>1, <1>2, <1>3 DEF TabTypes, LoginsOK, AskedFor, SignedIn
<1>5. /\ AskedFor(l)'
      /\ \A k \in Logins : AskedFor(k) => AskedFor(k)'
  BY <1>1, <1>3 DEF AskedFor
<1>6. UNCHANGED tab => StorageOK(tab)'
  <2>1. tab \in Tab /\ StorageOK(tab)
    BY DEF TabTypes, StorageOK
  <2>2. tab.login \in Logins \cup {None} /\ tab.tokens \in Logins \cup {None}
    BY <2>1 DEF Tab
  <2> QED
    BY <1>5, <2>1, <2>2 DEF StorageOK, AskedFor
<1>7. ASSUME UNCHANGED page
      PROVE  PageOK'
  <2>1. PageOK
    BY DEF TabTypes
  <2>2. CASE page.at = "callback"
    <3>1. page.login \in Logins
      BY <2>1, <2>2, PageKinds DEF CallbackPage
    <3> QED
      BY <1>5, <1>7, <2>1, <2>2, <3>1 DEF PageOK, AskedFor
  <2>3. CASE page.at = "console"
    <3>1. \A j \in page.jobs : j.token \in Logins \cup {None}
      BY <2>1, <2>3, PageKinds DEF ConsolePage, Job
    <3> QED
      BY <1>5, <1>7, <2>1, <2>3, <3>1
      DEF PageOK, ConsoleOK, AskedFor, Admin
  <2>4. CASE page.at \notin {"callback", "console"}
    BY <1>7, <2>1, <2>4 DEF PageOK, Admin
  <2> QED
    BY <2>2, <2>3, <2>4
<1> QED
  BY <1>4, <1>5, <1>6, <1>7

LEMMA ProviderTypes ==
  ASSUME TabTypes, Provider
  PROVE  TabTypes'
<1>1. ASSUME NEW l \in Logins, NEW a \in Accounts, SignInAs(l, a)
      PROVE  TabTypes'
  <2> DEFINE x == [logins[l] EXCEPT !.account = a, !.code = "issued"]
  <2>1. logins[l] \in Login(Clients)
    BY <1>1 DEF SignInAs, NewLogin, TabTypes, LoginsOK
  <2>2. x \in Login(Clients) /\ SignedIn(x)
    BY <2>1 DEF Login, SignedIn
  <2>3. /\ logins' = [logins EXCEPT ![l] = x]
        /\ UNCHANGED <<portal, tab, page, holders, finished>>
    BY <1>1 DEF SignInAs
  <2> HIDE DEF x
  <2> QED
    BY <2>2, <2>3, LoginWritten DEF TabTypes
<1>2. ASSUME NEW l \in Logins, EndToken(l)
      PROVE  TabTypes'
  <2> DEFINE x == [logins[l] EXCEPT !.live = FALSE]
  <2>1. logins[l] \in Login(Clients) /\ SignedIn(logins[l])
    BY <1>2 DEF EndToken, NewLogin, TabTypes, LoginsOK, AskedFor
  <2>2. x \in Login(Clients) /\ SignedIn(x)
    BY <2>1 DEF Login, SignedIn
  <2>3. /\ logins' = [logins EXCEPT ![l] = x]
        /\ UNCHANGED <<portal, tab, page, holders, finished>>
    BY <1>2 DEF EndToken
  <2> HIDE DEF x
  <2> QED
    BY <2>2, <2>3, LoginWritten DEF TabTypes
<1>3. ASSUME NEW a \in Accounts, ChangeRole(a)
      PROVE  TabTypes'
  BY <1>3 DEF ChangeRole, TabTypes, StorageOK, PageOK, ConsoleOK, LoginsOK,
     AskedFor, Admin
<1> QED
  BY <1>1, <1>2, <1>3 DEF Provider

\* A login that is begun: its page stores it and leaves for the provider.
LEMMA BegunTypes ==
  ASSUME TabTypes, NEW l \in Logins, NEW c \in Clients, Asked(l, c),
         NEW s \in Tab, tab' = s, s.login = l, s.tokens = tab.tokens,
         page' = Away, UNCHANGED <<portal, holders, finished>>
  PROVE  TabTypes'
<1> DEFINE x == [client |-> c, account |-> None, code |-> "none", live |-> FALSE]
<1>1. x \in Login(Clients) /\ SignedIn(x)
  BY DEF Login, SignedIn
<1>2. logins' = [logins EXCEPT ![l] = x]
  BY DEF Asked
<1> HIDE DEF x
<1>3. /\ LoginsOK' /\ AskedFor(l)'
      /\ \A k : AskedFor(k) /\ k \in Logins => AskedFor(k)'
  BY <1>1, <1>2, LoginWritten
<1>4. s.tokens # None => s.tokens \in Logins /\ AskedFor(s.tokens)
  BY DEF TabTypes, StorageOK, Tab
<1>5. StorageOK(tab)'
  BY <1>3, <1>4 DEF StorageOK, AskedFor
<1>6. PageOK'
  BY KindsArePages DEF PageOK, Away
<1> QED
  BY <1>3, <1>5, <1>6 DEF TabTypes

\* A code that is redeemed.
LEMMA RedeemedTypes ==
  ASSUME TabTypes, NEW l \in Logins, AskedFor(l), Redeems(l),
         logins' = Redeemed(l), UNCHANGED portal
  PROVE  /\ LoginsOK'
         /\ AskedFor(l)'
         /\ UNCHANGED tab => StorageOK(tab)'
         /\ UNCHANGED page => PageOK'
<1> DEFINE x == [logins[l] EXCEPT !.code = "used", !.live = TRUE]
<1>1. logins[l] \in Login(Clients) /\ SignedIn(logins[l])
  BY DEF TabTypes, LoginsOK, AskedFor
<1>2. x \in Login(Clients) /\ SignedIn(x)
  BY <1>1 DEF Redeems, Login, SignedIn
<1>3. logins' = [logins EXCEPT ![l] = x]
  BY DEF Redeemed
<1> HIDE DEF x
<1> QED
  BY <1>2, <1>3, LoginWritten

LEMMA ConsoleLoadOK ==
  ASSUME NEW load \in {"load", "loadDashboard"}
  PROVE  /\ ConsoleOK(Console(load)) /\ Console(load).at = "console"
         /\ Console(load) \in Page
<1>1. [do |-> load, token |-> None] \in Job
  BY DEF Job
<1>2. Console(load) \in ConsolePage
  BY <1>1 DEF Console, ConsolePage
<1> QED
  BY <1>2, KindsArePages DEF ConsoleOK, Console

LEMMA SigningInTypes ==
  ASSUME TabTypes, SigningIn
  PROVE  TabTypes'
<1>1. /\ portal \in {"idp-admin", "idp-client-admin"}
      /\ holders \subseteq Accounts /\ finished \subseteq Logins
      /\ StorageOK(tab) /\ PageOK /\ LoginsOK /\ tab \in Tab
  BY DEF TabTypes, StorageOK
\* A new page, the logins left alone.
<1>2. ASSUME UNCHANGED <<portal, logins, holders>>, finished' \subseteq Logins,
             NEW p \in Page, page' = p, NEW s, tab' = s, StorageOK(s),
             p.at = "login" /\ ~Admin => p.config \in Clients,
             p.at = "callback" => AskedFor(p.login),
             p.at = "console" => ConsoleOK(p)
      PROVE  TabTypes'
  BY <1>1, <1>2 DEF TabTypes, StorageOK, PageOK, ConsoleOK, LoginsOK,
     AskedFor, Admin
<1>3. ASSUME NEW c \in Clients, OpenLogin(c)
      PROVE  TabTypes'
  <2> DEFINE p == AtLogin(IF Admin THEN None ELSE c)
  <2>1. p \in LoginPage /\ p.at = "login" /\ (~Admin => p.config \in Clients)
    BY DEF AtLogin, LoginPage
  <2>2. /\ UNCHANGED <<portal, logins, holders, finished, tab>>
        /\ page' = p
    BY <1>3 DEF OpenLogin
  <2> HIDE DEF p
  <2> QED
    BY <1>1, <1>2, <2>1, <2>2, KindsArePages
<1>4. CASE LoginConfig
  <2> DEFINE p == AtLogin(AdminClient)
             s == [tab EXCEPT !.client = AdminClient]
  <2>1. p \in LoginPage /\ p.at = "login" /\ Admin
    BY <1>4, PortalAssumption DEF LoginConfig, AtLogin, LoginPage
  <2>2. StorageOK(s)
    BY <1>1, PortalAssumption DEF StorageOK, Tab
  <2>3. /\ UNCHANGED <<portal, logins, holders, finished>>
        /\ page' = p /\ tab' = s
    BY <1>4 DEF LoginConfig
  <2> HIDE DEF p, s
  <2> QED
    BY <1>1, <1>2, <2>1, <2>2, <2>3, KindsArePages
<1>5. ASSUME NEW l \in Logins, AdminLogin(l) \/ ClientLogin(l)
      PROVE  TabTypes'
  <2> DEFINE s == IF Admin THEN [tab EXCEPT !.login = l]
                  ELSE [tab EXCEPT !.login = l, !.client = page.config]
  <2>1. page.config \in Clients
    BY <1>1, <1>5, PageKinds DEF AdminLogin, ClientLogin, PageOK, LoginPage
  <2>2. s \in Tab /\ s.login = l /\ s.tokens = tab.tokens
    BY <1>1, <2>1 DEF Tab
  <2>3. /\ Asked(l, page.config) /\ page' = Away
        /\ UNCHANGED <<portal, holders, finished>>
        /\ tab' = s
    BY <1>5 DEF AdminLogin, ClientLogin
  <2> HIDE DEF s
  <2> QED
    BY <2>1, <2>2, <2>3, BegunTypes
<1>6. ASSUME NEW l \in Logins, OpenCallback(l)
      PROVE  TabTypes'
  <2> DEFINE p == [at |-> "callback", login |-> l,
                   job |-> IF (IF Admin THEN AdminAccepts(l)
                                        ELSE ClientAccepts(l))
                             THEN "exchange" ELSE "none"]
  <2>1. p \in CallbackPage /\ p.at = "callback" /\ p.login = l
    BY DEF CallbackPage
  <2>2. /\ UNCHANGED <<portal, logins, holders, finished, tab>>
        /\ page' = p /\ AskedFor(l)
    BY <1>6 DEF OpenCallback, NewLogin, AskedFor
  <2> HIDE DEF p
  <2> QED
    BY <1>1, <1>2, <2>1, <2>2, KindsArePages
\* On a callback page.
<1>7. ASSUME page.at = "callback", NEW job \in {"none", "profile"}
      PROVE  /\ page \in CallbackPage /\ AskedFor(page.login)
             /\ [page EXCEPT !.job = job] \in CallbackPage
             /\ [page EXCEPT !.job = job].login = page.login
             /\ [page EXCEPT !.job = job].at = "callback"
  <2>1. page \in CallbackPage
    BY <1>1, <1>7, PageKinds
  <2> QED
    BY <1>1, <1>7, <2>1 DEF PageOK, CallbackPage
<1>8. ASSUME NEW l \in Logins, Exchange(l)
      PROVE  TabTypes'
  <2> DEFINE p == [page EXCEPT !.job = "profile"]
  <2>1. /\ page.at = "callback" /\ page.login = l /\ Redeems(l)
        /\ logins' = Redeemed(l) /\ page' = p
        /\ UNCHANGED <<portal, holders, tab, finished>>
    BY <1>8 DEF Exchange, Running, Enter
  <2>2. p \in CallbackPage /\ p.login = l /\ p.at = "callback" /\ AskedFor(l)
    BY <1>7, <2>1
  <2>3. LoginsOK' /\ AskedFor(l)' /\ StorageOK(tab)'
    BY <2>1, <2>2, RedeemedTypes
  <2> HIDE DEF p
  <2>4. PageOK'
    BY <2>1, <2>2, <2>3, KindsArePages DEF PageOK, AskedFor
  <2> QED
    BY <1>1, <2>1, <2>3, <2>4 DEF TabTypes
<1>9. ASSUME NEW l \in Logins, LoseAnswer(l)
      PROVE  TabTypes'
  <2>1. AskedFor(l)
    BY <1>7, <1>9 DEF LoseAnswer, Running
  <2> QED
    BY <1>1, <1>9, <2>1, RedeemedTypes DEF LoseAnswer, TabTypes
<1>10. ASSUME NEW l \in Logins, Complete(l)
       PROVE  TabTypes'
  <2> DEFINE p == Console("loadDashboard")
             s == IF Admin THEN AdminSignedIn(l) ELSE ClientSignedIn(l)
  <2>1. /\ page.at = "callback" /\ page.login = l
        /\ UNCHANGED <<portal, logins, holders>> /\ page' = p /\ tab' = s
        /\ finished' = finished \cup {l}
    BY <1>10 DEF Complete, Running, Enter
  <2>2. StorageOK(s)
    BY <1>1, <1>7, <2>1, ChangedStorageOK
  <2>3. ConsoleOK(p) /\ p.at = "console" /\ p \in Page
    BY ConsoleLoadOK
  <2> HIDE DEF p, s
  <2> QED
    BY <1>1, <1>2, <2>1, <2>2, <2>3
<1>11. ASSUME NEW l \in Logins, GiveUp(l)
       PROVE  TabTypes'
  <2> DEFINE p == [page EXCEPT !.job = "none"]
             s == IF Admin THEN AdminGivenUp ELSE ClientGivenUp
  <2>1. /\ page.at = "callback" /\ page.login = l
        /\ UNCHANGED <<portal, logins, holders>> /\ page' = p /\ tab' = s
        /\ finished' = finished \cup {l}
    BY <1>11 DEF GiveUp, Running, Enter
  <2>2. p \in CallbackPage /\ p.login = l /\ p.at = "callback" /\ AskedFor(l)
    BY <1>7, <2>1
  <2>3. StorageOK(s)
    BY <1>1, ChangedStorageOK
  <2> HIDE DEF p, s
  <2> QED
    BY <1>1, <1>2, <2>1, <2>2, <2>3, KindsArePages
<1> QED
  BY <1>3, <1>4, <1>5, <1>6, <1>8, <1>9, <1>10, <1>11 DEF SigningIn

\* A handler that ends with a good page and storage.
LEMMA EndsTypes ==
  ASSUME TabTypes, NEW j, NEW p, NEW s, Ends(j, p, s),
         ConsoleOK(p), StorageOK(s)
  PROVE  TabTypes'
<1> DEFINE q == [p EXCEPT !.jobs = @ \ {j}]
<1>1. q \in ConsolePage /\ q.jobs = p.jobs \ {j} /\ q.goto = p.goto
  BY DEF ConsoleOK, ConsolePage
<1>2. page' = q /\ tab' = s /\ UNCHANGED <<portal, logins, holders, finished>>
  BY DEF Ends
<1> HIDE DEF q
<1>3. ConsoleOK(q)
  BY <1>1 DEF ConsoleOK
<1>4. q.at = "console" /\ q \in Page
  BY <1>1, KindsArePages DEF ConsolePage
<1>5. ConsoleOK(page)' /\ StorageOK(tab)'
  BY <1>2, <1>3 DEF ConsoleOK, StorageOK, AskedFor, Admin
<1>6. PageOK'
  BY <1>2, <1>4, <1>5 DEF PageOK
<1> QED
  BY <1>2, <1>5, <1>6 DEF TabTypes, LoginsOK, AskedFor

LEMMA HandlersTypes ==
  ASSUME TabTypes, NEW j \in Job,
         \/ AdminLoadSignedOut(j) \/ AdminLoad(j) \/ ClientLoad(j)
         \/ Verified(j) \/ MeLoaded(j) \/ MeFailed(j) \/ DashboardLoaded(j)
         \/ AdminHeader(j) \/ ClientHeader(j) \/ Unanswered(j)
  PROVE  TabTypes'
<1>1. page.at = "console" /\ j \in page.jobs
  BY DEF AdminLoadSignedOut, AdminLoad, ClientLoad, Verified, MeLoaded,
         MeFailed, DashboardLoaded, AdminHeader, ClientHeader, Unanswered,
         Loading, Working
<1>2. ConsoleOK(page) /\ StorageOK(tab)
  BY <1>1 DEF TabTypes, PageOK
<1>3. \A p, do : /\ ConsoleOK(p) /\ do \in {"verify", "me", "dashboard", "header"}
                 /\ Admin \/ do # "verify"
                 => ConsoleOK(Fetches(do, p))
  BY <1>2, FetchesOK
<1>4. \A p : ConsoleOK(p) => ConsoleOK(WithInitialize(j, p))
  BY <1>2, InitializeOK
<1>5. \A p, s : Ends(j, p, s) /\ ConsoleOK(p) /\ StorageOK(s) => TabTypes'
  BY EndsTypes
<1>6. Accepted(j) => MeOf(j.token) \in User
  <2> SUFFICES ASSUME Accepted(j)
               PROVE  MeOf(j.token) \in User
    OBVIOUS
  <2>1. j.token \in Logins /\ AskedFor(j.token) /\ logins[j.token].live
    BY <1>1, <1>2 DEF Accepted, ConsoleOK, Job
  <2>2. logins[j.token].account \in Accounts
    BY <2>1 DEF TabTypes, LoginsOK, SignedIn
  <2> QED
    BY <2>2 DEF MeOf, HasRole, User
<1>7. j.do = "verify" => Admin
  BY <1>1, <1>2 DEF ConsoleOK
<1>8. /\ ConsoleOK([page EXCEPT !.shell = TRUE])
      /\ ConsoleOK([page EXCEPT !.ready = TRUE])
      /\ ConsoleOK(ToEnd)
      /\ Admin => ConsoleOK(ToLogin)
  BY <1>2, ChangedConsoleOK
<1>9. /\ StorageOK(Cleared)
      /\ \A u \in User : StorageOK([tab EXCEPT !.user = u])
  BY <1>2, ChangedStorageOK
<1>10. CASE AdminLoadSignedOut(j)
  BY <1>2, <1>5, <1>8, <1>10 DEF AdminLoadSignedOut
<1>11. CASE AdminLoad(j)
  <2>1. CASE tab.user = None
    BY <1>2, <1>3, <1>4, <1>5, <1>11, <2>1 DEF AdminLoad
  <2>2. CASE tab.user # None /\ tab.user.holder
    BY <1>2, <1>3, <1>4, <1>5, <1>8, <1>11, <2>2 DEF AdminLoad
  <2>3. CASE ~(tab.user = None) /\ ~(tab.user # None /\ tab.user.holder)
    BY <1>5, <1>8, <1>9, <1>11, <2>3 DEF AdminLoad
  <2> QED
    BY <2>1, <2>2, <2>3
<1>12. CASE ClientLoad(j)
  BY <1>2, <1>3, <1>5, <1>8, <1>12 DEF ClientLoad
<1>13. CASE Verified(j)
  BY <1>3, <1>5, <1>6, <1>7, <1>8, <1>9, <1>13 DEF Verified, Working
<1>14. CASE MeLoaded(j)
  BY <1>2, <1>3, <1>5, <1>6, <1>8, <1>9, <1>14 DEF MeLoaded
<1>15. CASE MeFailed(j)
  BY <1>2, <1>3, <1>5, <1>8, <1>15 DEF MeFailed
<1>16. CASE DashboardLoaded(j)
  BY <1>2, <1>5, <1>8, <1>16 DEF DashboardLoaded
<1>17. CASE AdminHeader(j)
  BY <1>2, <1>5, <1>8, <1>9, <1>17 DEF AdminHeader
<1>18. CASE ClientHeader(j)
  BY <1>2, <1>3, <1>5, <1>8, <1>18 DEF ClientHeader
<1>19. CASE Unanswered(j)
  BY <1>2, <1>5, <1>19 DEF Unanswered
<1> QED
  BY <1>10, <1>11, <1>12, <1>13, <1>14, <1>15, <1>16, <1>17, <1>18, <1>19

LEMMA ConsoleTypes ==
  ASSUME TabTypes, InConsole
  PROVE  TabTypes'
<1>1. StorageOK(tab) /\ PageOK
  BY DEF TabTypes
\* The page or the storage is replaced, the rest left alone.
<1>2. ASSUME UNCHANGED <<portal, logins, holders, finished>>,
             NEW p \in Page, page' = p, NEW s, tab' = s, StorageOK(s),
             p.at = "login" /\ ~Admin => p.config \in Clients,
             p.at # "callback",
             p.at = "console" => ConsoleOK(p)
      PROVE  TabTypes'
  BY <1>2 DEF TabTypes, StorageOK, PageOK, ConsoleOK, LoginsOK, AskedFor, Admin
<1>3. ASSUME NEW p, ConsoleOK(p)
      PROVE  p \in Page /\ p.at = "console"
  BY <1>3, KindsArePages DEF ConsoleOK, ConsolePage
<1>4. ASSUME NEW load \in {"load", "loadDashboard"}, OpenConsole(load)
      PROVE  TabTypes'
  BY <1>1, <1>2, <1>4, ConsoleLoadOK DEF OpenConsole
<1>5. CASE Leave
  <2>1. page.goto = "login" => Admin
    BY <1>1, <1>5 DEF Leave, PageOK, ConsoleOK
  <2>2. AtLogin(None) \in Page /\ AtLogin(None).at = "login"
    BY KindsArePages DEF AtLogin, LoginPage
  <2>3. Away \in Page /\ Away.at = "away"
    BY KindsArePages DEF Away
  <2> QED
    BY <1>1, <1>2, <1>5, <2>1, <2>2, <2>3 DEF Leave
<1>6. CASE Refresh
  <2>1. ConsoleOK(Fetches("dashboard", page))
    BY <1>1, <1>6, FetchesOK DEF Refresh, PageOK
  <2> QED
    BY <1>1, <1>2, <1>3, <1>6, <2>1 DEF Refresh
<1>7. CASE ClickLogout
  <2>1. ConsoleOK(ToEnd) /\ (Admin => ConsoleOK(ToLogin))
    BY <1>1, <1>7, ChangedConsoleOK DEF ClickLogout, PageOK
  <2>2. StorageOK(Cleared)
    BY <1>1, ChangedStorageOK
  <2> QED
    BY <1>1, <1>2, <1>3, <1>7, <2>1, <2>2 DEF ClickLogout
<1>8. CASE ClickDashboardLogout
  <2>1. ConsoleOK(ToEnd)
    BY <1>1, <1>8, ChangedConsoleOK DEF ClickDashboardLogout, PageOK
  <2> QED
    BY <1>1, <1>2, <1>3, <1>8, <2>1 DEF ClickDashboardLogout
<1> QED
  BY <1>4, <1>5, <1>6, <1>7, <1>8, HandlersTypes DEF InConsole

LEMMA TabTypesStep == TabTypes /\ [TabNext]_tabVars => TabTypes'
<1>1. TabTypes /\ UNCHANGED tabVars => TabTypes'
  BY DEF tabVars, TabTypes, StorageOK, PageOK, ConsoleOK, LoginsOK, AskedFor,
         Admin
<1> QED
  BY <1>1, ProviderTypes, SigningInTypes, ConsoleTypes DEF TabNext

-----------------------------------------------------------------------------
(* The types of the other pages.                                           *)

LEMMA ClientsTypesInit == ClientsInit => ClientsTypeOK
BY DEF ClientsInit, ClientsTypeOK, Filled, Blank

LEMMA ClientsTypesStep ==
  ClientsTypeOK /\ [ClientsNext]_clientsVars => ClientsTypeOK'
<1> SUFFICES ASSUME ClientsTypeOK, [ClientsNext]_clientsVars
             PROVE  ClientsTypeOK'
  OBVIOUS
<1> USE DEF ClientsTypeOK
<1>1. List \in Call /\ \A ok \in BOOLEAN : /\ [op |-> "save", ok |-> ok] \in Call
                                            /\ [op |-> "delete", ok |-> ok] \in Call
  BY DEF List, Listed, Call
<1>2. ASSUME NEW shown \in BOOLEAN, Reset(shown)
      PROVE  /\ form' \in [of : ClientIds \cup {Blank}, shown : BOOLEAN]
             /\ editingClientId' \in ClientIds \cup {NoClient}
  BY <1>2 DEF Reset, Filled, Blank
<1>3. CASE LoadClients
  BY <1>1, <1>3 DEF LoadClients, Sends
<1>4. CASE ShowClientForm
  BY <1>2, <1>4 DEF ShowClientForm
<1>5. CASE CancelClientForm
  BY <1>2, <1>5 DEF CancelClientForm
<1>6. CASE UpdateClient
  <2> DEFINE ok == editingClientId \in Listed
  <2>1. ok \in BOOLEAN
    OBVIOUS
  <2>2. calls' = calls \cup {[op |-> "save", ok |-> ok]}
    BY <1>6 DEF UpdateClient, Sends
  <2>3. [op |-> "save", ok |-> ok] \in Call
    <3> HIDE DEF ok
    <3> QED BY <1>1, <2>1
  <2> QED
    BY <1>6, <2>2, <2>3 DEF UpdateClient, Blank
<1>7. ASSUME NEW c \in ClientIds, EditClient(c)
      PROVE  ClientsTypeOK'
  BY <1>7 DEF EditClient, Filled
<1>8. ASSUME NEW c \in ClientIds, CreateClient(c)
      PROVE  ClientsTypeOK'
  BY <1>1, <1>8 DEF CreateClient, Sends, Blank
<1>9. ASSUME NEW c \in ClientIds, DeleteClient(c)
      PROVE  ClientsTypeOK'
  <2> DEFINE ok == c \in Listed
  <2>1. ok \in BOOLEAN
    OBVIOUS
  <2>2. calls' = calls \cup {[op |-> "delete", ok |-> ok]}
    BY <1>9 DEF DeleteClient, Sends
  <2>3. [op |-> "delete", ok |-> ok] \in Call
    <3> HIDE DEF ok
    <3> QED BY <1>1, <2>1
  <2> QED
    BY <1>9, <2>2, <2>3 DEF DeleteClient
<1>10. ASSUME NEW c \in ClientIds, DeletedElsewhere(c)
       PROVE  ClientsTypeOK'
  BY <1>10 DEF DeletedElsewhere
<1>11. ASSUME NEW q \in calls,
              \/ ClientsLoaded(q) \/ ClientSaved(q)
              \/ ClientDeleted(q) \/ CallFailed(q)
       PROVE  ClientsTypeOK'
  <2>1. CASE ClientsLoaded(q)
    <3>1. q.rows \subseteq ClientIds
      BY <2>1 DEF ClientsLoaded, Call
    <3> QED
      BY <2>1, <3>1 DEF ClientsLoaded
  <2>2. CASE ClientSaved(q)
    BY <1>1, <1>2, <2>2 DEF ClientSaved
  <2>3. CASE ClientDeleted(q) \/ CallFailed(q)
    BY <1>1, <2>3 DEF ClientDeleted, CallFailed
  <2> QED
    BY <1>11, <2>1, <2>2, <2>3
<1>12. CASE UNCHANGED clientsVars
  BY <1>12 DEF clientsVars
<1> QED
  BY <1>3, <1>4, <1>5, <1>6, <1>7, <1>8, <1>9, <1>10, <1>11, <1>12
  DEF ClientsNext

LEMMA UsersTypesInit == UsersInit => UsersTypeOK
BY DEF UsersInit, UsersTypeOK, Answered, Answers

LEMMA UsersTypesStep == UsersTypeOK /\ [UsersNext]_usersVars => UsersTypeOK'
<1> SUFFICES ASSUME UsersTypeOK, [UsersNext]_usersVars
             PROVE  UsersTypeOK'
  OBVIOUS
<1> USE DEF UsersTypeOK
<1>1. \A selected : UserList(selected) \in Answers
  BY DEF UserList, Answers
<1>2. \A op \in {"clients", "edit", "roles", "create"}, u \in Users \cup {Nobody},
         ok \in BOOLEAN : Answered(op, u, ok) \in Answers
  BY DEF Answered, Answers
<1>3. TargetClient(selectedClientId) \in ManagedClients
  BY UsersPageAssumption DEF TargetClient
<1>4. ASSUME NEW q, ThenLoads(q)
      PROVE  answers' \subseteq Answers
  BY <1>1, <1>4 DEF ThenLoads
<1>5. CASE RefreshUsers \/ CloseUserEditor
  BY <1>1, <1>5 DEF RefreshUsers, CloseUserEditor, Asks, unchangedPage
<1>6. ASSUME NEW op \in {"edit", "roles"}, NEW u \in Users, Changes(op, u)
      PROVE  /\ answers' \subseteq Answers
             /\ changes' \subseteq Users \X ManagedClients
             /\ UNCHANGED <<exists, selectedClientId, userRows, editor>>
  <2> DEFINE ok == FoundUser(u, TargetClient(ScopeOf(selectedClientId)))
  <2>1. ok \in BOOLEAN
    BY DEF FoundUser
  <2>2. /\ answers' = answers \cup {Answered(op, u, ok)}
        /\ changes' \in {changes, changes \cup
                              {<<u, TargetClient(selectedClientId)>>}}
        /\ UNCHANGED <<exists, selectedClientId, userRows, editor>>
    BY <1>6 DEF Changes, Asks, unchangedPage
  <2>3. Answered(op, u, ok) \in Answers
    <3> HIDE DEF ok
    <3> QED BY <1>2, <2>1
  <2> QED
    BY <1>3, <2>2, <2>3
<1>7. CASE SubmitUserEditor
  BY <1>6, <1>7 DEF SubmitUserEditor
<1>8. ASSUME NEW u \in Users, ApplyRoles(u)
      PROVE  UsersTypeOK'
  BY <1>6, <1>8 DEF ApplyRoles
<1>9. ASSUME NEW u \in Users, CreateUser(u)
      PROVE  UsersTypeOK'
  <2>1. Answered("create", Nobody, TRUE) \in Answers
    BY <1>2
  <2>2. <<u, TargetClient(selectedClientId)>> \in Users \X ManagedClients
    BY <1>3
  <2> QED
    BY <1>9, <2>1, <2>2 DEF CreateUser, Asks, unchangedPage
<1>10. ASSUME NEW u \in Users, OpenUserEditor(u) \/ UserAppears(u)
       PROVE  UsersTypeOK'
  BY <1>10 DEF OpenUserEditor, UserAppears, unchangedPage
<1>11. ASSUME NEW c \in ManagedClients, ChangeScope(c)
       PROVE  UsersTypeOK'
  BY <1>1, <1>11 DEF ChangeScope, Asks
<1>12. ASSUME NEW q \in answers, NEW c \in ManagedClients, ScopeArrived(q, c)
       PROVE  UsersTypeOK'
  BY <1>1, <1>12 DEF ScopeArrived
<1>13. ASSUME NEW q \in answers,
              \/ NoScope(q) \/ UserSaved(q)
              \/ RolesApplied(q) \/ UserCreated(q) \/ AnswerFailed(q)
       PROVE  UsersTypeOK'
  BY <1>4, <1>13 DEF NoScope, UserSaved, RolesApplied, UserCreated,
     AnswerFailed, unchangedPage
<1>14. ASSUME NEW q \in answers, UsersLoaded(q)
       PROVE  UsersTypeOK'
  <2>1. q.rows \subseteq Users
    BY <1>14 DEF UsersLoaded, Answers
  <2> QED
    BY <1>14, <2>1 DEF UsersLoaded
<1>15. CASE UNCHANGED usersVars
  BY <1>15 DEF usersVars
<1> QED
  BY <1>5, <1>7, <1>8, <1>9, <1>10, <1>11, <1>12, <1>13, <1>14, <1>15
  DEF UsersNext

\* setStatus hides and shows panels of the page.
Panel == {"setup", "verification", "manage", "recovery"}

LEMMA StatusPanels ==
  ASSUME NEW enabled, NEW shown \in SUBSET Panel
  PROVE  WithStatus(enabled, shown) \subseteq Panel
<1>1. CASE enabled
  BY <1>1 DEF WithStatus, Panel
<1>2. CASE ~enabled
  BY <1>2 DEF WithStatus, Panel
<1> QED
  BY <1>1, <1>2

LEMMA SecurityTypesInit == SecurityInit => SecurityTypeOK
<1>1. [do |-> "status", ok |-> FALSE] \in Arrival
  BY DEF Arrival
<1>2. [enabled |-> FALSE, secret |-> Nothing, codes |-> Nothing]
        \in [enabled : BOOLEAN, secret : Secrets \cup {Nothing},
             codes : CodeSets \cup {Nothing}]
  OBVIOUS
<1> QED
  BY <1>1, <1>2 DEF SecurityInit, SecurityTypeOK

LEMMA SecurityTypesStep ==
  SecurityTypeOK /\ [SecurityNext]_securityVars => SecurityTypeOK'
<1> SUFFICES ASSUME SecurityTypeOK, [SecurityNext]_securityVars
             PROVE  SecurityTypeOK'
  OBVIOUS
<1> USE DEF SecurityTypeOK
<1>1. \A enabled, shown :
        shown \subseteq Panel => WithStatus(enabled, shown) \subseteq Panel
  BY StatusPanels
<1>2. ASSUME NEW button \in {"start", "verify", "confirm"},
             NEW q \in Arrival, Sending(button, q)
      PROVE  /\ disabled' \subseteq {"start", "verify", "confirm"}
             /\ arriving' \subseteq Arrival
             /\ UNCHANGED <<confirmAction, missed, panels, qrCode, recoveryCodes>>
  BY <1>2 DEF Sending, shownVars
<1>3. CASE LoadSecurity
  <2>1. [do |-> "status", ok |-> mfa.enabled] \in Arrival
    BY DEF Arrival
  <2> QED
    BY <1>3, <2>1 DEF LoadSecurity
<1>4. CASE CloseConfirmModal
  BY <1>4 DEF CloseConfirmModal, shownVars
<1>5. ASSUME NEW s \in Secrets, StartEnrollment(s)
      PROVE  SecurityTypeOK'
  <2> DEFINE q == [do |-> "enroll", secret |-> IF mfa.enabled THEN Nothing ELSE s]
  <2>1. q \in Arrival /\ Sending("start", q)
    BY <1>5 DEF StartEnrollment, Arrival
  <2>2. mfa' \in [enabled : BOOLEAN, secret : Secrets \cup {Nothing},
                  codes : CodeSets \cup {Nothing}]
    BY <1>5 DEF StartEnrollment
  <2> HIDE DEF q
  <2> QED
    BY <1>2, <2>1, <2>2
<1>6. ASSUME NEW right \in BOOLEAN, NEW c \in CodeSets, VerifyEnrollment(right, c)
      PROVE  SecurityTypeOK'
  <2> DEFINE ok == right /\ ~mfa.enabled /\ qrCode # Nothing /\ qrCode = mfa.secret
             q == [do |-> "verify", codes |-> IF ok THEN c ELSE Nothing]
  <2>1. q \in Arrival
    <3> HIDE DEF ok
    <3> QED BY DEF Arrival
  <2>2. Sending("verify", q)
    BY <1>6 DEF VerifyEnrollment
  <2>3. mfa' \in [enabled : BOOLEAN, secret : Secrets \cup {Nothing},
                  codes : CodeSets \cup {Nothing}]
    BY <1>6 DEF VerifyEnrollment
  <2> HIDE DEF q
  <2> QED
    BY <1>2, <2>1, <2>2, <2>3
<1>7. ASSUME NEW action \in {"disable", "regenerate"}, OpenConfirmModal(action)
      PROVE  SecurityTypeOK'
  BY <1>7 DEF OpenConfirmModal, shownVars
<1>8. ASSUME NEW right \in BOOLEAN, DisableMfa(right)
      PROVE  SecurityTypeOK'
  <2> DEFINE ok == right /\ mfa.enabled
             q == [do |-> "disable", ok |-> ok]
  <2>1. ok \in BOOLEAN
    OBVIOUS
  <2>2. q \in Arrival
    <3> HIDE DEF ok
    <3> QED BY <2>1 DEF Arrival
  <2>3. Sending("confirm", q)
    BY <1>8 DEF DisableMfa
  <2>4. mfa' \in [enabled : BOOLEAN, secret : Secrets \cup {Nothing},
                  codes : CodeSets \cup {Nothing}]
    BY <1>8 DEF DisableMfa
  <2> HIDE DEF q
  <2> QED
    BY <1>2, <2>2, <2>3, <2>4
<1>9. ASSUME NEW right \in BOOLEAN, NEW c \in CodeSets,
             RegenerateRecoveryCodes(right, c)
      PROVE  SecurityTypeOK'
  <2> DEFINE q == [do |-> "regenerate",
                   codes |-> IF right /\ mfa.enabled THEN c ELSE Nothing]
  <2>1. q \in Arrival
    BY DEF Arrival
  <2>2. Sending("confirm", q)
    BY <1>9 DEF RegenerateRecoveryCodes
  <2>3. mfa' \in [enabled : BOOLEAN, secret : Secrets \cup {Nothing},
                  codes : CodeSets \cup {Nothing}]
    BY <1>9 DEF RegenerateRecoveryCodes
  <2> HIDE DEF q
  <2> QED
    BY <1>2, <2>1, <2>2, <2>3
<1>10. ASSUME NEW q \in arriving,
              \/ StatusLoaded(q) \/ EnrollmentStarted(q) \/ EnrollmentVerified(q)
              \/ MfaDisabled(q) \/ RecoveryCodesRegenerated(q)
       PROVE  SecurityTypeOK'
  <2>1. /\ q.do = "enroll" => q.secret \in Secrets \cup {Nothing}
        /\ q.do \in {"verify", "regenerate"} => q.codes \in CodeSets \cup {Nothing}
    BY DEF Arrival
  <2> QED
    BY <1>1, <1>10, <2>1
    DEF Panel, StatusLoaded, EnrollmentStarted, EnrollmentVerified, MfaDisabled,
        RecoveryCodesRegenerated
<1>11. ASSUME NEW q \in arriving, RequestFailed(q)
       PROVE  SecurityTypeOK'
  <2>1. Changed(q) \in BOOLEAN
    BY DEF Changed
  <2> QED
    BY <1>11, <2>1 DEF RequestFailed, shownVars
<1>12. CASE UNCHANGED securityVars
  BY <1>12 DEF securityVars
<1> QED
  BY <1>3, <1>4, <1>5, <1>6, <1>7, <1>8, <1>9, <1>10, <1>11, <1>12
  DEF SecurityNext

-----------------------------------------------------------------------------
(* The portal: while one page is watched, the others stay as loaded.       *)

(* The callback URL of a login changes the tab's storage once, however     *)
(* often it is opened: callback.js removes the state it compares with.     *)
THEOREM CallbacksActOnce == PortalSpec => CallbackActsOnce
<1>1. Init => TabInv
  BY TabInitHolds DEF Init
<1>2. Next => [TabNext]_tabVars
  BY DEF Next, WatchTab, WatchClients, WatchUsers, WatchSecurity
<1>3. UNCHANGED vars => UNCHANGED tabVars
  BY DEF vars
<1>4. TabInv /\ [Next]_vars => TabInv'
  BY <1>2, <1>3, TabStep
<1>5. TabInv /\ [Next]_vars =>
        [page.at = "callback" /\ page.login \in finished => tab' = tab]_tabVars
  BY <1>2, <1>3, TabStep
<1> QED
  BY <1>1, <1>4, <1>5, PTL DEF PortalSpec, CallbackActsOnce

(* The form of clients.js gives no client the values of another, whatever  *)
(* answers and buttons refill, clear and close it between two submits.     *)
THEOREM ClientsKeepOwnValues == PortalSpec => []OwnValues
<1>1. Init => FormInv
  BY FormInitHolds DEF Init
<1>2. FormInv /\ [Next]_vars => FormInv'
  BY FormStep DEF Next, vars, WatchTab, WatchClients, WatchUsers, WatchSecurity
<1>3. FormInv => OwnValues
  BY DEF FormInv
<1> QED
  BY <1>1, <1>2, <1>3, PTL DEF PortalSpec

(* A change sent by users.js lands on an account of the client that the    *)
(* page shows as the managed one when it is sent.                          *)
THEOREM ChangesStayInScope == PortalSpec => []ChangesLandInScope
<1>1. Init => ChangesLandInScope
  BY ChangesInitHolds DEF Init
<1>2. ChangesLandInScope /\ [Next]_vars => ChangesLandInScope'
  BY ChangesStep
  DEF Next, vars, WatchTab, WatchClients, WatchUsers, WatchSecurity
<1> QED
  BY <1>1, <1>2, PTL DEF PortalSpec

(* The recovery codes security.js shows are the ones the server accepts,   *)
(* once the answer to every change has arrived and none was lost.          *)
THEOREM ShownCodesAreStored == PortalSpec => []CodesShownAreStored
<1>1. Init => SecurityInv
  BY SecurityInitHolds DEF Init
<1>2. SecurityInv /\ [Next]_vars => SecurityInv'
  BY SecurityStep
  DEF Next, vars, WatchTab, WatchClients, WatchUsers, WatchSecurity
<1>3. SecurityInv => CodesShownAreStored
  BY DEF SecurityInv
<1> QED
  BY <1>1, <1>2, <1>3, PTL DEF PortalSpec

(* The storage of the tab holds logins that were asked for and answers of  *)
(* /me, on each page of the portals, and the pages of the console keep the *)
(* types of what they show and of what they wait for.                      *)
THEOREM TypeCorrect == PortalSpec => []TypeOK
<1> DEFINE Types == TabTypes /\ ClientsTypeOK /\ UsersTypeOK /\ SecurityTypeOK
<1>1. Init => Types
  BY TabTypesInit, ClientsTypesInit, UsersTypesInit, SecurityTypesInit DEF Init
<1>2. Types /\ [Next]_vars => Types'
  BY TabTypesStep, ClientsTypesStep, UsersTypesStep, SecurityTypesStep
  DEF Next, vars, WatchTab, WatchClients, WatchUsers, WatchSecurity
<1>3. Types => TypeOK
  BY TabTypesAreTypes DEF TypeOK
<1> QED
  BY <1>1, <1>2, <1>3, PTL DEF PortalSpec
=============================================================================
