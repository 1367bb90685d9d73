----------------------------- MODULE PortalTab -----------------------------
(***************************************************************************)
(* Signing in to a portal, in one browser tab: the login pages (auth.js),  *)
(* the callback pages (callback.js), what every page of the consoles does  *)
(* when it is loaded (admin-common.js, dashboard.js, common.js), and the   *)
(* sessionStorage through which these pages hand on a login.  The user may *)
(* go to any page, and back to any callback URL, at any time.              *)
(***************************************************************************)
CONSTANTS Clients, Accounts,
          ClientOf,     \* the client an account belongs to
          AdminClient,  \* the client that auth.js of idp-admin names
          Logins,       \* state, nonce and code verifier of one login() each
          None

ASSUME PortalAssumption ==
  /\ ClientOf \in [Accounts -> Clients]
  /\ AdminClient \in Clients

VARIABLES
  portal,    \* the portal this tab is used for
  tab,       \* sessionStorage
  page,      \* the page that is loaded, and the script that runs in it
  logins,    \* the provider: the logins it was asked for
  holders    \* the provider: the accounts with the role the portal needs

\* History: logins a callback page has completed, or given up and cleared.
VARIABLE finished

tabVars == <<portal, tab, page, logins, holders, finished>>

User == [account : Accounts, holder : BOOLEAN]   \* as /me answered
Tab == [login : Logins \cup {None},     \* state, verifier and nonce
        client : Clients \cup {None},   \* client id and redirect URI
        tokens : Logins \cup {None},    \* access, id and refresh token
        user : User \cup {None}]        \* the cached answer of /me

\* A request of a console page, with the access token it carries.
Job == [do : {"load", "loadDashboard", "verify", "me", "dashboard", "header"},
        token : Logins \cup {None}]
Page == [at : {"login"}, config : Clients \cup {None}]
  \cup [at : {"away"}]                  \* at the provider
  \cup [at : {"callback"}, login : Logins,
        job : {"none", "exchange", "profile"}]
  \cup [at : {"console"}, jobs : SUBSET Job,
        shell : BOOLEAN,                \* the buttons of the page work
        ready : BOOLEAN,                \* the dashboard's own buttons work
        goto : {"stay", "login", "end"}]   \* location.href was set
Login(clients) ==
  [client : clients, account : Accounts \cup {None},
   code : {"none", "issued", "used"},
   live : BOOLEAN]                      \* its access token is accepted

\* null is neither random values nor what the provider keeps of a login.
ASSUME NoneAssumption == None \notin Logins \cup Login(Clients \cup {None})

TabTypeOK ==
  /\ portal \in {"idp-admin", "idp-client-admin"}
  /\ tab \in Tab /\ page \in Page
  /\ logins \in [Logins -> Login(Clients) \cup {None}]
  /\ holders \subseteq Accounts /\ finished \subseteq Logins
  \* What the tab has kept are logins that were asked for.
  /\ \A l \in {tab.login, tab.tokens} \ {None} : logins[l] # None

AtLogin(c) == [at |-> "login", config |-> c]
Away == [at |-> "away"]
Request(do) == [do |-> do, token |-> tab.tokens]
Console(load) == [at |-> "console", jobs |-> {[do |-> load, token |-> None]},
                  shell |-> FALSE, ready |-> FALSE, goto |-> "stay"]
Admin == portal = "idp-admin"

TabInit ==
  /\ portal \in {"idp-admin", "idp-client-admin"}
  /\ tab = [login |-> None, client |-> None, tokens |-> None, user |-> None]
  /\ page = Away
  /\ logins = [l \in Logins |-> None]
  /\ holders = Accounts /\ finished = {}
-----------------------------------------------------------------------------
(* The login pages.  idp-client-admin has one for each client.             *)
OpenLogin(c) ==
  /\ page' = AtLogin(IF Admin THEN None ELSE c)
  /\ UNCHANGED <<portal, tab, logins, holders, finished>>

(* idp-admin: the configuration is stored when it arrives ...              *)
LoginConfig ==
  /\ Admin /\ page.at = "login"
  /\ page' = AtLogin(AdminClient)
  /\ tab' = [tab EXCEPT !.client = AdminClient]
  /\ UNCHANGED <<portal, logins, holders, finished>>

\* randomString, createPkce: no login has these values yet.
NewLogin(l) == logins[l] = None

Asked(l, c) ==
  logins' = [logins EXCEPT ![l] = [client |-> c, account |-> None,
                                   code |-> "none", live |-> FALSE]]

(* ... and the login once its challenge is computed.                       *)
AdminLogin(l) ==
  /\ Admin /\ page.at = "login" /\ page.config # None
  /\ NewLogin(l) /\ Asked(l, page.config)
  /\ tab' = [tab EXCEPT !.login = l]
  /\ page' = Away
  /\ UNCHANGED <<portal, holders, finished>>

(* idp-client-admin stores both together.                                  *)
ClientLogin(l) ==
  /\ ~Admin /\ page.at = "login"
  /\ NewLogin(l) /\ Asked(l, page.config)
  /\ tab' = [tab EXCEPT !.login = l, !.client = page.config]
  /\ page' = Away
  /\ UNCHANGED <<portal, holders, finished>>
-----------------------------------------------------------------------------
(* The provider.                                                           *)
SignInAs(l, a) ==
  /\ ~NewLogin(l) /\ logins[l].account = None /\ ClientOf[a] = logins[l].client
  /\ logins' = [logins EXCEPT ![l].account = a, ![l].code = "issued"]
  /\ UNCHANGED <<portal, tab, page, holders, finished>>

\* An access token ends with its time, its account or its client.
EndToken(l) ==
  /\ ~NewLogin(l) /\ logins[l].live
  /\ logins' = [logins EXCEPT ![l].live = FALSE]
  /\ UNCHANGED <<portal, tab, page, holders, finished>>

ChangeRole(a) ==
  /\ holders' = IF a \in holders THEN holders \ {a} ELSE holders \cup {a}
  /\ UNCHANGED <<portal, tab, page, logins, finished>>

HasRole(l) == logins[l].account \in holders
-----------------------------------------------------------------------------
(* The callback pages, whose URL names the login by its state and code.    *)

\* Which of the script's checks let it go on; the others change nothing.
AdminAccepts(l) == tab.login = l
ClientAccepts(l) == tab.login = l /\ tab.client # None

OpenCallback(l) ==
  /\ ~NewLogin(l) /\ logins[l].code # "none"
  /\ page' = [at |-> "callback", login |-> l,
              job |-> IF (IF Admin THEN AdminAccepts(l) ELSE ClientAccepts(l))
                        THEN "exchange" ELSE "none"]
  /\ UNCHANGED <<portal, tab, logins, holders, finished>>

Running(job) == page.at = "callback" /\ page.job = job
Enter(p) == page' = p /\ UNCHANGED <<portal, holders>>

\* The provider takes a code once, and from the client it was issued to.
Redeems(l) == logins[l].code = "issued" /\ tab.client = logins[l].client
Redeemed(l) == [logins EXCEPT ![l].code = "used", ![l].live = TRUE]

(* POST /token is answered, and the id token is of this login.             *)
Exchange(l) ==
  /\ Running("exchange") /\ page.login = l /\ Redeems(l)
  /\ logins' = Redeemed(l)
  /\ Enter([page EXCEPT !.job = "profile"])
  /\ UNCHANGED <<tab, finished>>

\* The code is redeemed, but the answer does not arrive, or nobody waits.
LoseAnswer(l) ==
  /\ Running("exchange") /\ page.login = l /\ Redeems(l)
  /\ logins' = Redeemed(l)
  /\ UNCHANGED <<portal, tab, page, holders, finished>>

\* Faulty callback pages: the login can be completed again.
AdminSignedInAgain(l) == [tab EXCEPT !.tokens = l]

\* /me answered with the role: tokens are kept, the login is used up.
AdminSignedIn(l) == [tab EXCEPT !.tokens = l, !.login = None]
ClientSignedIn(l) == [tab EXCEPT !.tokens = l, !.login = None]

Complete(l) ==
  /\ Running("profile") /\ page.login = l
  /\ logins[l].live /\ HasRole(l)
  /\ tab' = IF Admin THEN AdminSignedIn(l) ELSE ClientSignedIn(l)
  /\ finished' = finished \cup {l}
  /\ Enter(Console("loadDashboard"))
  /\ UNCHANGED logins

\* The catch blocks: the cached user stays.
AdminGivenUp == [tab EXCEPT !.tokens = None, !.client = None, !.login = None]
ClientGivenUp == [tab EXCEPT !.tokens = None, !.client = None, !.login = None]

(* /token or /me refuse, or are not reached; or the client is not known.   *)
GiveUp(l) ==
  /\ Running("exchange") \/ Running("profile")
  /\ page.login = l
  /\ tab' = IF Admin THEN AdminGivenUp ELSE ClientGivenUp
  /\ finished' = finished \cup {l}
  /\ Enter([page EXCEPT !.job = "none"])
  /\ UNCHANGED logins
-----------------------------------------------------------------------------
(* The pages of the consoles.  Until the browser has left for goto, the    *)
(* answers of requests in flight still run their handlers.                 *)

OpenConsole(load) ==
  /\ page' = Console(load)
  /\ UNCHANGED <<portal, tab, logins, holders, finished>>

Leave ==
  /\ page.at = "console" /\ page.goto # "stay"
  /\ page' = IF page.goto = "login" THEN AtLogin(None) ELSE Away
  /\ UNCHANGED <<portal, tab, logins, holders, finished>>

\* Job j ends with the page p and the storage s.
Ends(j, p, s) ==
  /\ page' = [p EXCEPT !.jobs = @ \ {j}]
  /\ tab' = s
  /\ UNCHANGED <<portal, logins, holders, finished>>

\* logout() of admin-common.js.
Cleared == [tab EXCEPT !.tokens = None, !.client = None, !.user = None]
ToLogin == [page EXCEPT !.goto = "login"]
\* logout() of dashboard.js and common.js: /session/end, nothing is removed.
ToEnd == [page EXCEPT !.goto = "end"]

\* A page that goes on with a request; without a token it signs out.
Fetches(do, p) ==
  IF tab.tokens = None THEN [p EXCEPT !.goto = "end"]
                       ELSE [p EXCEPT !.jobs = @ \cup {Request(do)}]

Working(j, do) == page.at = "console" /\ j \in page.jobs /\ j.do = do
Loading(j) == Working(j, "load") \/ Working(j, "loadDashboard")

\* requireAuthentication, and setup without a token.
AdminLoadSignedOut(j) ==
  /\ Admin /\ Loading(j) /\ tab.tokens = None
  /\ Ends(j, ToLogin, tab)

\* The dashboard's initialize asks who the user is, in any case.
WithInitialize(j, p) ==
  IF j.do = "loadDashboard" THEN Fetches("me", p) ELSE p

(* verifyIdpAdminRole: a cached user decides without a request.            *)
AdminLoad(j) ==
  /\ Admin /\ Loading(j) /\ tab.tokens # None
  /\ CASE tab.user = None ->
            Ends(j, Fetches("verify", WithInitialize(j, page)), tab)
       [] tab.user # None /\ tab.user.holder ->
            Ends(j, Fetches("header",
                            WithInitialize(j, [page EXCEPT !.shell = TRUE])), tab)
       [] OTHER -> Ends(j, ToLogin, Cleared)

\* common.js: buttons first, then loadMe.
ClientLoad(j) ==
  /\ ~Admin /\ Loading(j)
  /\ Ends(j, Fetches("header", [page EXCEPT !.shell = TRUE]), tab)

MeOf(l) == [account |-> logins[l].account, holder |-> HasRole(l)]
Accepted(j) == j.token # None /\ logins[j.token].live

(* Its answer, if it had to ask.  Any other answer signs out, an error of  *)
(* the server as well.  A token that has gone meanwhile takes the new      *)
(* cached user with it: the next apiFetch signs out.                       *)
Verified(j) ==
  /\ Working(j, "verify")
  /\ \/ /\ Accepted(j) /\ HasRole(j.token) /\ tab.tokens # None
        /\ Ends(j, Fetches("header", [page EXCEPT !.shell = TRUE]),
                [tab EXCEPT !.user = MeOf(j.token)])
     \/ Ends(j, ToLogin, Cleared)

(* loadCurrentUser of the dashboard: whoever it is becomes the cached user.*)
MeLoaded(j) ==
  /\ Working(j, "me")
  /\ IF Accepted(j)
       THEN Ends(j, Fetches("dashboard", [page EXCEPT !.ready = TRUE]),
                 [tab EXCEPT !.user = MeOf(j.token)])
       ELSE Ends(j, ToEnd, tab)

\* Its request failed otherwise: the cached user, if any, is as good.
MeFailed(j) ==
  /\ Working(j, "me")
  /\ IF tab.user = None THEN Ends(j, page, tab)
     ELSE Ends(j, Fetches("dashboard", [page EXCEPT !.ready = TRUE]), tab)

(* loadDashboard: figures, which have no state here.                       *)
DashboardLoaded(j) ==
  /\ Working(j, "dashboard")
  /\ Ends(j, IF Accepted(j) THEN page ELSE ToEnd, tab)

Refresh ==
  /\ page.at = "console" /\ page.ready
  /\ page' = Fetches("dashboard", page)
  /\ UNCHANGED <<portal, tab, logins, holders, finished>>

(* loadHeaderProfile of admin-common.js.                                   *)
AdminHeader(j) ==
  /\ Admin /\ Working(j, "header")
  /\ IF Accepted(j) THEN Ends(j, page, tab) ELSE Ends(j, ToLogin, Cleared)

(* loadMe of common.js; a refused role signs out, too.                     *)
ClientHeader(j) ==
  /\ ~Admin /\ Working(j, "header")
  /\ IF Accepted(j) /\ HasRole(j.token)
       THEN Ends(j, Fetches("dashboard", page), tab)
       ELSE Ends(j, ToEnd, tab)

\* The network fails; no handler does anything then.
Unanswered(j) ==
  /\ page.at = "console" /\ j \in page.jobs /\ j.do \notin {"load", "loadDashboard", "me"}
  /\ Ends(j, page, tab)

ClickLogout ==
  /\ page.at = "console" /\ page.shell
  /\ IF Admin THEN page' = ToLogin /\ tab' = Cleared
              ELSE page' = ToEnd /\ UNCHANGED tab
  /\ UNCHANGED <<portal, logins, holders, finished>>

ClickDashboardLogout ==
  /\ page.at = "console" /\ page.ready
  /\ page' = ToEnd
  /\ UNCHANGED <<portal, tab, logins, holders, finished>>
-----------------------------------------------------------------------------
Provider == \/ \E l \in Logins, a \in Accounts : SignInAs(l, a)
            \/ \E l \in Logins : EndToken(l)
            \/ \E a \in Accounts : ChangeRole(a)

SigningIn ==
  \/ \E c \in Clients : OpenLogin(c)
  \/ LoginConfig
  \/ \E l \in Logins :
       \/ AdminLogin(l) \/ ClientLogin(l) \/ OpenCallback(l)
       \/ Exchange(l) \/ LoseAnswer(l) \/ Complete(l) \/ GiveUp(l)

InConsole ==
  \/ \E load \in {"load", "loadDashboard"} : OpenConsole(load)
  \/ Leave \/ Refresh \/ ClickLogout \/ ClickDashboardLogout
  \/ \E j \in Job :
       \/ AdminLoadSignedOut(j) \/ AdminLoad(j) \/ ClientLoad(j)
       \/ Verified(j) \/ MeLoaded(j) \/ MeFailed(j)
       \/ DashboardLoaded(j) \/ AdminHeader(j) \/ ClientHeader(j)
       \/ Unanswered(j)

TabNext == Provider \/ SigningIn \/ InConsole

TabSpec == TabInit /\ [][TabNext]_tabVars
-----------------------------------------------------------------------------
(* The callback URL of a login changes the tab's storage once: opened      *)
(* again (Back, reload, a restored tab), it neither replaces nor removes   *)
(* the tokens, whatever other logins were begun or completed meanwhile.    *)
CallbackActsOnce ==
  [][page.at = "callback" /\ page.login \in finished => tab' = tab]_tabVars
=============================================================================
