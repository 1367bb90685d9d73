# TSCloak in TLA+

TSCloak is an OpenID Connect identity provider written in TypeScript: NestJS around `oidc-provider` 9, with
TypeORM on `better-sqlite3` for its tables, `argon2` for passwords and recovery codes, `otplib` for TOTP, and two
portals in plain browser JavaScript. These modules model the parts of it that keep state between requests and that
several requests, a clock and a crash can disturb: the MFA attempt limiter, MFA enrolment and recovery codes, the
hosted login with its MFA page, accounts and password resets, sign-in through an upstream provider, access tokens and
the guards that take them, clients with dynamic registration, the store of grants, codes and refresh tokens with
consent, and the portals' sign-in and their pages for clients, accounts and MFA. TLC checks all of them on small
instances; TLAPS proves, for every size, every safety property and refinement that a run checks and the code satisfies.

Run everything from this directory: `tlc -config Mfa.cfg Mfa.tla`, `tlapm MfaLoginProofs.tla`.

## How the program runs, and what a step is

One Node process serves all requests. Its JavaScript is single threaded, and the statements of `better-sqlite3` are
synchronous: a request that awaits a repository gives nobody else a turn in which a table could change between two of
its statements. A request really leaves its turn where it waits for a thread or the network: `argon2.hash` and
`argon2.verify`, the QR code of an enrolment, the requests to an upstream provider, mail. **One action of a model is
the code between two such waits.** What the code read before a wait is kept in the model's request context (`req`,
`ctx`) and used after it, as the code does.

Three facts about the libraries are used throughout:

* TypeORM's `save(entity)` compares the entity with the row and writes every column that differs. An entity loaded
  before a wait therefore overwrites what others saved meanwhile, with the values it was loaded with.
* A transaction is atomic against crashes; two statements outside one are not, and a crash may fall between them
  (`CrashAfterMark`, `CrashInVerify`, `CrashAfterFinish`, `CrashInReset`, `CrashInCreate`, `CrashInProvision`,
  `CrashInRegister`). The in-memory limiter
  is lost at a restart. `oidc-provider` awaits every call of its adapter, and other requests run between two of them:
  in `Grants` each call of `OidcAdapter` is a step, and `consume` and `revokeByGrantId`, which take several statements
  with an await in between, are several.
* `oidc-provider` stores an Interaction record, `interactionFinished` puts a result in it, and the browser's next
  request resumes and destroys it. This library is external; `MfaLogin.Resume` models what `src/` relies on. The
  interaction cookie is bound to the path of the uid, so one browser may hold several interactions.

A portal page is a script of its own in the browser. Its handlers run to their next `await` of a `fetch`; a request
takes effect on the server in the order in which it was sent, and its answer arrives at any later time, in any order,
or never. One action of a page's model is a click up to the request it sends, or the arrival of an answer.

## Inventory

| Component (under `src/src`) | State | Operations | Talks to | What is hard |
|---|---|---|---|---|
| Attempt limiter, `mfa/services/mfa-attempt-rate-limit` | Map key -> failures, firstFailureAt, blockedUntil | assertAllowed, recordFailure, reset | called by MFA API and interaction | checks in flight when the block starts, window against block, restart |
| MFA management, `mfa/` | `user_mfa`, `user_mfa_recovery_codes` | enroll, verify, disable, regenerate, verify a recovery code | limiter, argon2, QR code | stale entity saved after a wait, codes replaced while compared, one-time use |
| MFA challenge, `oidc/services/oidc-mfa-challenge` | `oidc_mfa_challenges`, one per interaction | create, get (drops expired), remove | interaction, federation | replacement by another login, expiry, crash between DELETE and INSERT |
| Hosted interaction, `oidc/oidc-interaction` | the provider's interaction and its result | page, login, verifyMfa, consent | authentication, MFA, challenge, grants | argon2 between check and answer, stale interaction written back, two consents that extend one grant |
| Identity, `identity/` | `users`, `password_reset_tokens`, roles | create, update, roles, change, forgot, reset | clients, mail, SCIM | overlapping saves, a token used twice, order of two saves |
| SCIM, `scim/` | none of its own | create, replace, patch, delete | identity | two saves in one create, soft delete against stale saves |
| Federation, `federation/` | providers, client overrides, transactions, identity links | authorize, callback, provider and override administration | upstream OIDC, identity, interaction | repeated callbacks, two first sign-ins, things disabled meanwhile |
| Clients, `clients/`, and the OIDC client adapter | `clients` | create, update, delete; find, upsert, destroy for oidc-provider | everything reads `enabled` | updates in flight against administration, one authentication method told of several registered, a derived callback that is written back |
| OIDC persistence, `oidc/adapters`, `oidc/repositories`, cleanup job | `oidc` rows, of sessions, interactions, grants, codes and refresh tokens | upsert, find, consume, destroy, revokeByGrantId, cleanup | oidc-provider, the middleware that gives each client of a browser its session | expiry against consumption, a row written back after it was deleted, grants revoked while used |
| Registration, `registration/`, `client-registration-policy` | policies, initial access tokens | create token, register | oidc-provider | a crash between the registration and the deletion of the one-use token |
| Security policy, `security/` | one row, copied into the provider at start-up | get, update | OIDC options, sign-in | lifetimes captured at start-up while the row changes |
| Signing keys, `signing-keys/` | none: keys from the environment | load and validate at start-up | OIDC options | which of several keys signs |
| Guards and token service, `security/guards` | none, but the signed tokens that are alive | per-request decision on the token and the rows of the moment | users, roles, clients | tokens that outlive rights, roles and clients |
| Portal sign-in, `public/*/js/{auth,callback,admin-common,dashboard,common}.js` | `sessionStorage` of a tab: state, verifier, tokens, cached user | login, callback, role check of every page, logout | oidc-provider, `/me` | callback URLs opened again, answers after a logout, cached roles |
| Console pages for clients, users and MFA, `public/*/js/{clients,users,security}.js` | variables of the script, form, rows, panels, disabled buttons | list, create, edit, delete; roles; enrol, verify, disable, regenerate | the administration and MFA endpoints | answers in any order, rows and panels that outlive what they were loaded for, double submits |
| Other portal pages | what they show | send a request, show its answer | | no state of their own beyond the form |
| Admin, configuration, mail, migrations | none | | | I/O and presentation |

The status of every component is in `PROJECT.json`; so is the list of hazards with the line where each bites.

## Modules

| Module | Models | State and its code |
|---|---|---|
| `RateLimit` | the limiter's arithmetic as functions on one entry | `AttemptState`: absolute times are kept as differences to now (`age`, `blockLeft`), because the code only compares them with `Date.now()` |
| `AttemptLimiter` | one key and the requests using it | `entry` is the Map's entry, `checking` the requests between assertAllowed and their outcome |
| `Mfa` (EXTENDS `RateLimit`) | `MfaController`, `MfaService`, `MfaRecoveryCodeService` | `row` is `user_mfa`, `codes`/`used` are the recovery codes and their `usedAt`, `attempts` the limiter's `mfa:user:` keys, `req` what waits |
| `GatedLogin` | abstract: a login is answered with a first factor and, if MFA is demanded, a second one | the evidence `first`, `exempt`, `second`; `result`, `sessions` |
| `MfaLogin` (EXTENDS `Mfa`, implements `GatedLogin`) | login, callback end, verifyMfa, challenges, interactions | `challenge`, `stored`/`result` (the Interaction record), `loginAttempts` (keys `oidc-mfa:`), `ctx` |
| `Account` | identity, reset tokens, SCIM as they change accounts, the roles table | `user`, `roles`, `client` (its uuid and its public id are different values), `token`, `req` |
| `Federation` | providers, transactions, links, provisioning | `provider`, `override`, `link`, `tx`, `open`, `ctx` |
| `Access` | guards, client scope of a request, and what administration, SCIM and a client's own endpoints change | `user` (client, enabled, roles), `client`, `token` (signed tokens that have not expired), `req` (a creation or a password save that waits for argon2) |
| `Grants` (implements `TokenLife`) | the adapter's rows, change of client in a browser, consent, redemption, revocation, clean-up | `session` (the record of the browser's cookie), `oidc` (the other rows: interactions with the prompt consent, grants, codes and refresh tokens), `ctx` (requests between two calls of the adapter) |
| `TokenLife` | abstract: a token is issued once, is usable, and is retired for ever | `life` |
| `PortalTab` | sign-in to a portal in one tab | `tab` (`sessionStorage`), `page` (what is loaded and the requests of its script), `logins` (at the provider) |
| `ClientsPage`, `UsersPage`, `SecurityPage` | `clients.js`, `users.js` and `security.js` with the server they talk to | the variables of the scripts by their names, rows and panels shown, answers that have not arrived |
| `Clients` | client administration, dynamic registration, initial access tokens, the client adapter and the token endpoint's authentication | `client` (secret, methods, grants, keys, redirect URIs, enabled), `token`, `issuer`, `req` (registration updates whose body has not come) |
| `MCMfaLogin`, `MCAccount`, `MCFederation`, `MCAccess`, `MCClients`, `MCGrants` | instances for TLC | initial state with two enrolled users, one login and one MFA page at a time (`DividedSpec`); which client an interaction or account belongs to; role and method lists; symmetries |
| `MCPortal` | the portal: the four page modules side by side | `watched` says which of them runs in a behaviour |
| `AttemptLimiterProofs`, `MfaLoginProofs`, `AccountProofs`, `FederationProofs`, `AccessProofs`, `ClientsProofs`, `GrantsProofs`, `PortalProofs` | theorems | |

Composition: `MfaLogin` runs the requests of `Mfa` beside its own (`Manage`), on the same tables and in the same
process, and a restart clears both; every step of it is a step of `Mfa` or leaves `Mfa`'s state alone
(`LoginKeepsMfa`), so what is proved of `Mfa` holds in it. `Federation` ends where a callback has found its user; `MfaLogin`'s
`CallbackEnd` continues there, MFA or result. Both limiter users take the entry's functions from `RateLimit`.
`Account` and `Access` are two views of the same tables: passwords and reset tokens in the one, rights and clients in
the other; both contain the stale save of `changePassword` and `resetPassword` (`PasswordEnd`). `Access` says who may
create, change and delete a client, `Clients` what such a change does. `Grants` begins where `MfaLogin` ends: a
finished login is its `SignIn`, and the prompt after it its consent. `SecurityPage` is the client of `Mfa`: its server
part says what `Mfa` says of requests that do not overlap. `MCPortal` puts the page modules side by side; a page is a
document of its own, and what pages share through the server another administrator can change as well, so that a
behaviour watches one of them.

Two things about `Access` that its definitions show and a reader may not expect: an IDP_ADMIN of any client
administers every client (`Target`), and a user's token with scope `scim` passes the SCIM guard as a client's token
does (`ScimAllowed`). A password save can bring back a role or the enabled flag that was taken meanwhile, which is
why `RolesWereGranted` speaks of roles ever granted. In `Clients`, `UpdateClient` writes back the portal callback it
derived when it read the row, so the callback of an earlier issuer stays registered, and a registration update that
overtakes a deletion brings the client back, enabled (`ManageEnd` on a row that is gone). `oidc-provider` is external
there: that it generates secrets, which methods a request offers, that a registration has its body before the initial
access token is looked up and reaches the listener that deletes the token without another wait (so `Register` is one
step, and two registrations do not overlap between lookup and deletion), and that an update waits for its body after
the client was found. A crash in that step gives no answer and ends the updates that wait.

The roles table of `Account` starts with the role of every new account and grows by `CreateRole`; no request takes a
role out of it. `Access` takes its names as a constant that contains the three seeded ones: the guards ask for
administrators' roles only, so that another name grants nothing whenever it was made.

Two simplifications of the pages. When the server refuses a token with 401 (in idp-client-admin also with 403) the
browser leaves `security.html` for the login while the script goes on: `RequestFailed` is the script,
`LoadSecurity` whoever comes back. When `/me` fails as a page of idp-admin loads, `Verified` signs the tab out whether
the server refused the token or broke down, as `admin-common.js` does.

In `Grants` the library asks for consent, issues codes and decides which refresh tokens are rotated; what a token
covers is cut to what its grant covers when it is redeemed. Two redemptions that both read an unused record before
either marks it are both answered: `consume` writes its mark unconditionally. In the page modules the values of a
client or an account are abstracted to whose values they are; the modal of `security.js` covers the page's own
buttons; both copies of `security.js` are the same script.

What the models abstract: a TOTP is the secret it was made from together with whether it is valid now; a recovery
code is a pair of its set and its position, its hash and normalised form are that identity; passwords are chosen once
each; SQL `NULL` is `None`. Variables introduced as history (`confirmed`, `latest`, `uses`, `first`, `second`,
`exempt`, `sessions`, `retired`, `spent`, `accepted`, `times`, ...) are read by no action that models code, with one
kind of exception: `drawn`, `issued` and `chosen` say which fresh values have been handed out, so that randomness
never repeats. Definitions that begin "Faulty ..." in their comment belong to no specification: they are deliberately
wrong variants of the definition that follows them, used to see that the properties can fail.

## Runs

| Run | Instance | What it shows |
|---|---|---|
| `attempt_limiter` | limit 5, window 10 and block 2 (units of 30 s, so 5 minutes and 60 seconds, as in the code), 3 requests | blocked means the limit was reached (`BlockJustified`); a window takes at most 4 + 3 x 5 wrong codes, however the requests are timed (`GuessBudget`); every block ends (`BlockedKeyFreed`) |
| `mfa` | 1 user, 2 secrets, 2 code sets of 2, 2 requests, limit 2 | MFA is on only with a secret its user confirmed (`VerifiedSecret`); a recovery code is accepted once (`AcceptedOnce`) and only from the latest set (`OnlyLatestCodes`); while MFA is on the table holds exactly that set (`EnabledHasLatestSet`) |
| `mfa_reenroll` (violation) | the same | `OffOnlyByTotp` fails, see findings |
| `mfa_login` | 1 user who logs in with one request and manages MFA with another, 1 interaction, 1 secret, 1 code, time and crashes | `MfaLogin` implements `GatedLogin`; an interaction does not stay on an MFA page no code can pass (`StuckEnds`) |
| `mfa_login_users` | 2 enrolled users, symmetric, 1 interaction, 2 requests, no clock | a login rests on a first factor and on the second or an exemption at that moment (`SessionJustified`), and a recovery code logs in its own account (`RecoveryCodeOfAccount`), when two users' challenges replace each other |
| `account` | 2 accounts, 3 passwords, 2 tokens, 2 requests, a role that is made later, symmetric | a replaced password never comes back (`RetiredPasswordGone`); a token is marked as used only when it has set a password or its account asked for another that lasts as long, crashes included (`LinkNotLost`) |
| `account_reenabled` (violation) | 1 account | `DisabledUntilEnabled` fails, see findings |
| `federation` | 1 provider, 2 clients with an interaction each, 2 states, 2 addresses, 2 accounts, 2 callbacks, symmetric | one login per state (`OneLoginPerState`), one account per subject (`SubjectHasOneAccount`), no disabled account (`DisabledNotAccepted`); an interaction is answered for an account of its client (`AccountOfClient`) although `authorize` accepts any pair; a login completes only with provider and client enabled, unless its account was already being made (`DisabledProviderCompletesNothing`) |
| `access` | 2 clients, 2 accounts, 1 request in flight, 2 live tokens | administrator roles were granted by an IDP_ADMIN (`RolesWereGranted`); a request stays in the client of its token unless its subject is an IDP_ADMIN now (`ClientIsolation`); accounts keep a client that exists (`AccountsHaveClient`); accounts of a disabled client change only by a save that was already waiting (`DisabledClientFrozen`) |
| `clients` | 1 client, 2 secrets, 2 application URIs, 2 issuers, 4 method lists, 1 initial access token, 2 updates in flight | the token endpoint takes exactly the registered methods although it is told one (`MethodMatchesRegistration`); secrets are handed over (`SecretsHandedOver`); what was withdrawn stays withdrawn and what was disabled stays disabled (`WithdrawnUriGone`, `DisabledStaysDisabled`); an initial access token is used once, crashes aside (`InitialTokenUsedOnce`) |
| `grants` | 2 clients with an account each, 1 scope, 1 interaction id, 2 grants, 2 tokens, 2 requests, symmetric | every access token is for scopes its account accepted for its client (`TokensRestOnConsent`); what a finished replay or revocation found is not usable again (`RevokedStaysRevoked`); the store implements `TokenLife` (`TokensLiveOnce`) |
| `portal` | 2 logins of a tab, 2 clients, 2 accounts signing in, 2 clients in the form, 3 accounts in rows, 3 secrets and code sets, up to 3 answers outstanding | a callback URL acts once (`CallbackActsOnce`); a form gives no client the values of another (`OwnValues`); a change lands in the client that was chosen (`ChangesLandInScope`); the recovery codes shown are the ones stored, once every change was answered (`CodesShownAreStored`) |

**Why the bounds are enough.** The hazards here are races of two requests over one row: two requests in flight, two
values of each thing that can be confused (secrets, code sets, tokens, states, addresses, accounts) and one unit of
time that runs out are the least that shows each of them; the faulty variants of the code are found with these
values. The limiter's numbers are the real ones. Times in other runs are short lifetimes, since the code only asks
whether one has ended. `TypeOK` is checked once per module and proved as well; for the limiter, `Mfa` and `Clients` it is only proved.
`mfa_login` gives the login and the MFA pages one request each, because what they disturb is each other;
`mfa_login_users` leaves out time and further
enrolment because `mfa_login` covers them, and its initial state is one that `MfaLogin` reaches. `access` needs an
operator in one client and an account in another, whose tokens, roles and client can be taken from either, and one
request that waits while they are; `clients` has one client, because no operation of one touches another, and with
two secrets and two issuers every replacement can be told from what it replaces; the method lists contain a public, a
secret-based and a key-based method alone and together. Symmetry is used where the values of a set are
interchangeable and no property is temporal beyond one step: users and requests of the login runs, accounts,
passwords, tokens and requests of `account`, and the secrets, URIs, issuers and requests of `clients`; `federation` and `grants` swap a client with all that belongs to it. `grants` uses the
one interaction id again after it is gone, and with two tokens a code is redeemed for a refresh token, replayed and
revoked while another request is between two statements. In `portal` one login of a tab is under way while the other
is opened again, and three answers outstanding let any two of them be overtaken by a third. Deadlock checking is off
only in `mfa_login_users`: with the interaction answered and both codes used, nothing is left to do.

**Fairness.** Safety runs assume none. `AttemptLimiter.FairSpec` assumes that time passes and that a request past
assertAllowed gets its answer: argon2 always answers, and a request is bounded work after it. `MCMfaLogin.DividedSpec`
assumes only that time passes (`WF_vars(Tick)`). No fairness is assumed of users, of requests to come, or of the upstream provider.

## Findings

Each is a run that TLC must find violated; the property states what a comment or document of the repository says.

* `mfa_reenroll`: `startEnrollment` reads the row, waits for the QR code and saves `enabled = false`. An enrolment that
  was verified in that time is switched off again without the TOTP that disabling requires.
* `account_reenabled`: `changePassword` and `resetPassword` save the account they loaded before argon2, `enabled`
  included: an account disabled or deleted through SCIM in between is enabled again.

**Known divergences of code and docs without a run of their own.** The models contain them, and each was seen in a TLC
counterexample while modelling:

* A wrong code that comes back after the failure window and during a block that started late in it clears the block
  (`mfa-attempt-rate-limit.service.ts:41`, against the 60-second block of `docs/mfa.md:607-610`).
* A regeneration that is hashing while MFA is disabled inserts codes after the deletion (`mfa.service.ts:262`, against
  `mfa.controller.ts:118`). They cannot be used while MFA is off, and an enrolment replaces them.
* A challenge that expires while argon2 compares a recovery code still completes the login
  (`oidc-interaction.controller.ts:526`, against `docs/mfa.md:594`).
* Two resets with one token that overlap both save a password (`identity.service.ts:394`, against
  `docs/password-reset-flow.md:236`), and a reset completes although client or account was disabled in between
  (`:417`, against `docs/password-reset-flow.md:410`).
* `invalidateForUser` is called with the public client id while the rows carry the uuid: a new reset request
  invalidates no earlier token (`identity.service.ts:333`, against its comment at `:331`).
* The provider is checked before the password of a new account is hashed and not after it, so a provider disabled in
  that time completes the login (`federation.service.ts:425`, against the comment at `:363`).
  `DisabledProviderCompletesNothing` excepts exactly this.
* `assignRoles` drops unknown names instead of answering 'One or more roles were not found'
  (`identity.service.ts:266`: `find((role) => !role)` returns the missing role itself).
* The federation transaction is consumed before the code exchange (`federation.service.ts:278`), which is the safer
  order; `docs/federation.md:350` says after. An unknown subject is linked to the account with its verified address
  (`:413`); `docs/federation.md:1195` says there is no such linking.
* `createUserWithRoles` looks for a duplicate name with the uuid of the client where the query compares public ids
  (`identity.service.ts:117`): the answer 'Username already exists' is never given, and the unique index refuses the
  insert instead.
* A page of the idp-admin console trusts the cached answer of `/me` for as long as the tab lives, against the comment
  that it re-checks the role "on every admin page load" (`admin-common.js:65`). The server still looks at every request.
* Two redemptions of one code or refresh token that both read it before either has marked it are both answered, since
  `consume` writes its mark without a condition (`oidc.adapter.ts:44`). `TokensLiveOnce` and `RevokedStaysRevoked` say
  what holds all the same.
* `refreshTokenRotationEnabled` of the security policy is stored and shown and read by nothing.
* On the users page a list that was asked for the previous client can arrive last and is shown
  (`users.js:167`); its rows cannot be changed through it, since the server is told the client now chosen
  (`ChangesLandInScope`). On the security page the status asked for at load can arrive after a verification and shows
  the panels of the state before it. Submitting the client form twice creates two clients (`clients.js:237`).

## Theorems

All are proved for every value of the constants, under the named ASSUMEs of the modules and nothing else.

* **Limiter** (`AttemptLimiterProofs`). The inductive invariant is `TypeOK /\ BlockJustified /\ GuessBudget /\
  Paced`. `GuessBudget` alone is not inductive: it bounds the failures of a window but does not say how many more the
  window can take. `Paced` does: it splits the window into the blocks that have fitted into its age and the part
  still ahead, and counts the requests past assertAllowed against the group of the current block. The argument is
  that while a block runs nobody is admitted, so at most `Cardinality(Requests)` failures arrive in each stretch of
  `Block` units. `TypeCorrect`, `BlocksAreJustified` and `GuessesAreBounded` follow.
* **MFA** (`MfaLoginProofs`, first half). The inductive invariant adds to `TypeOK` that what a verification waiting for argon2 is going
  to save has been confirmed as what is saved already has (`Confirmed`), and `CodesInv`: stored codes are of the set
  last given to their user, and no two users have the same set (`Stored`); an accepted code is marked or deleted, so no
  UPDATE finds it again (`Spent`); the codes a comparison is held against were given to its own user (`Pools`). Without
  `Spent` a code accepted in one state could be found again in the next; without `Pools` and `Stored` an UPDATE after
  the wait could accept a code of somebody else's set. `MfaTypeCorrect`, `SecretsAreVerified`, `CodesAreAcceptedOnce`,
  `StoredCodesAreLatest` and the action property `AcceptedCodesAreLatest` follow.
* **Hosted login** (`MfaLoginProofs`, second half). That an answer is given on evidence (`SessionJustified`) is not
  inductive: the answer is made from a challenge, or from what a request kept of one while argon2 compared a recovery
  code. `LoginInv` adds to `TypeOK` what these say: whoever a challenge names has passed the first factor it names in
  this very interaction (`Challenged`), and so has the user of a comparison in flight, who is also the user whose codes
  it compares (`Verifying`). The second stays true when the challenge is replaced by another user's or dropped, because
  the evidence only grows. From `LoginInv`, `LoginIsGated` shows the refinement of `GatedLogin`: the initial states map to
  initial states, and each action adds evidence, answers an interaction that has it, turns an answer into a session, or
  stutters, the crashes inside `verifyMfa` and `create` included (`GateStep`). `SessionsAreJustified` follows, since
  no step of `GatedLogin` gives up the evidence. `LoginKeepsMfa` maps each step to a step of `Mfa` or a stutter, and so
  brings the theorems of the first half to the login; `RecoveryCodesStayWithAccount` combines both halves: the code is of
  the set last given to the user who presents it, and the answer names this user.
* **Accounts** (`AccountProofs`). `RetiredPasswordGone` is not inductive: a request that waits for argon2 saves a
  password chosen earlier. `PasswordsInv` says that such a password is that request's alone, no account has it and
  none had it; `SavedExists` that the account is still there. `TokensInv` says that only a save of a password marks a
  token, which holds because the invalidation of earlier tokens compares a uuid with public ids and finds nothing.
  `ReplacedPasswordsAreGone` and `LinksAreNotLost` follow. `TypeOK` also says that accounts, and the entities requests
  hold across argon2, have only roles that are in the table (`RolesExist`); it is proved on top of that invariant
  (`RolesInductive`), since the table only grows.
* **Federation** (`FederationProofs`). The inductive invariant adds to `TypeOK` and `SubjectHasOneAccount` that a
  state not yet drawn is nowhere and a stored one has logged nobody in (`StateInv`); that what a callback carries was
  taken out of the table by it alone (`Carried`); that links lead to accounts of their client, one for each subject
  (`LinksInv`); and that an accepted login is still linked unless its provider was deleted (`AcceptedInv`).
  `StatesLogInOnce`, `SubjectsAreNotSplit`, `AccountsAreOfClient` follow, and the action properties
  `DisabledAreRefused` and `OnlyEnabledComplete`.
* **Grants** (`GrantsProofs`). Sessions, interactions, requests in flight and rows name grants that may have expired,
  been written back or not been written yet; so the invariant speaks of an `owner` for each grant id: there is a
  function from ids to accounts such that everything that names an id speaks for its owner and its owner's client, with
  scopes the owner accepted (`Owned`). The owner of an id is fixed when the id is drawn; the proof extends the function
  at that step and keeps it at all others. `AccessRestsOnConsent` follows. The refinement `StoreImplementsTokenLife`
  rests on `Lives`: every step of `Grants` either issues one token that had not been drawn, or retires a set of usable
  ones, possibly empty; a `consume` that writes back a row that was deleted writes it with its mark, so that it stays
  retired. `RevocationsHold` adds that what a revocation has still to delete is all that is usable of what it found.
* **Portal** (`PortalProofs`). `TypeCorrect` says more than types: what the storage keeps are logins the provider was
  asked for. It rests on the tokens of requests in flight being of such logins (`ConsoleOK`), on a login that is redeemed
  or live having an account (`SignedIn`), and on idp-client-admin never reaching its login page by the redirects of
  admin-common.js, which would open it without its client (`PageOK`). A login that a callback page has ended is not the tab's login and its values are not
  drawn again (`TabInv`), so its page stays idle: `CallbacksActOnce`. `ClientsKeepOwnValues` rests on the form showing
  the client `editingClientId` names, and blank without one; `ChangesStayInScope` on the server's own look for the
  account. `ShownCodesAreStored` needs most: requests in flight have a button each (`ButtonsInv`); an answer with
  codes has the codes that are stored, because the buttons that would replace them are disabled or out of reach until
  it arrives (`CodesInv`); and the panels say which buttons are (`PanelsInv`), a late answer to the first status
  request included.
* **Access** (`AccessProofs`). Neither `RolesWereGranted` nor `AccountsHaveClient` is inductive: a password save
  writes back a whole row that was read before the wait. `Held` says what is still true of such a row: its account
  exists, is of the same client, and had been granted its administrator's roles. The inductive invariant is `TypeOK
  /\ RolesWereGranted /\ AccountsHaveClient /\ Held`; `TypeCorrect`, `AdminRolesAreGranted` and
  `NoAccountWithoutClient` follow. The action properties `RequestsStayInClient` and `DisabledClientsAreFrozen` need
  only `TypeOK`: every handler looks at the token's client and the row again in the turn in which it writes.
* **Clients** (`ClientsProofs`). The inductive invariant is `TypeOK /\ WithdrawnUriGone /\ TokensInv`, where
  `TokensInv` adds to `InitialTokenUsedOnce` that a used token still in the table was in use at a crash.
  `MethodsMatchRegistration` does not rest on the history of the client but on its type: five lemmas say, for each
  mechanism a request may use, what `Method` answers and `Offered` holds, and `TakenIsEntitled` puts them together
  for every list of methods, so that TLC's four lists stand for all. The action properties `SecretsAreHandedOver` and
  `OnlyAdministrationEnables` follow from `TypeOK`, step by step.

**Only model-checked**: the two liveness properties, `BlockedKeyFreed` and `StuckEnds`, since fairness and ENABLED are
outside what TLAPS proves; and the two findings, which are counterexamples. `mfa_login_users` starts from enrolled users
instead of `Init`; the theorems are about `Spec`, of which that state is a reachable one. No module uses a
recursive operator. The assumptions that `None` (or `Nothing`) is no record, id or value of the sets it stands beside
are those of the code's `NULL`; TLC evaluates them in every run.

## Not modelled, and why

* **Pages and headers.** HTML, CSP, external interaction mode (a redirect), the figures of the dashboard, menus, the
  panel that shows a generated secret, copying to the clipboard. Rendering the consent page keeps no state.
* **Other portal pages**: register, federation, initial access tokens, roles, profile, settings, security policy, and
  the users of a client administrator. They send one request at a time and show its answer; what the server does with it
  is in the module of its component. A tab that the browser duplicates together with its storage is not modelled.
* **Clients**: names, scopes, logout and interaction URLs, the lookup of a client by callback, and the policies that
  refuse registration metadata before anything is stored. Which portal an account may enter by the redirect URI, and
  changes of a client's SCIM scope (`ScimClients` is fixed).
* **SCIM** filters, paging and the PATCH path language: pure parsing, before the account is changed.
* **Security policy**: one row that is read and saved. Its lifetimes are copied into the provider at start-up; `Grants`
  and `MfaLogin` let records expire at any time or after a short lifetime, which allows every value. `allowedScopes` of
  a client only narrows what may be asked for. Rows of interactions and grants whose time is up are as good as deleted,
  since `find` does not return them; tokens keep the difference, because `consume` reads them without a look.
* **Libraries and I/O**: HTTP calls and JOSE (kept as one wait that ends well or not), AES encryption of the TOTP
  secret, signing keys (validated at start-up, no state after it), TOTP time windows (a TOTP is valid or not when it is
  checked), mail, migrations, device codes (not enabled).
* **Several processes** on one database: the limiter's Map and the synchronous statements assume one.
* `resetPassword`'s second save writes a token entity whose client relation is only partly loaded; the model takes it
  to succeed. Identifiers are never reused (`randomUUID`, `randomBytes`), except that `Grants` uses uids of finished
  interactions again, which allows more. `CodesShownAreStored` is about one browser page: another session of the same
  account that changes its MFA would make any page stale.

## Plan

Done: limiter, MFA, hosted login, accounts, federation, access, clients and registration, grants and tokens, the
portals' sign-in and three of their pages; the proofs above. What is left, in the order of what it adds:

1. Pure decisions checked against a reference definition: registration policies, the validation and choice of signing
   keys, the SCIM PATCH language and paging.
2. The remaining portal pages, as far as they keep state between two requests.
