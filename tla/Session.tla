-------------------------------- MODULE Session --------------------------------
(***************************************************************************)
(* Signing in, switching tenant and signing out in one browser tab of the  *)
(* web client: auth/AuthProvider.tsx and what it works with (the routes    *)
(* that guard the shell, the sign-in and the callback pages, the managers  *)
(* of the identity provider's realms), the query cache keyed by tenant,    *)
(* and the requests under way, answered in any order.                      *)
(*                                                                         *)
(* A realm is named by its tenant.  The configuration fetched when a page  *)
(* loads is folded into the load: whoever needs it awaits it.              *)
(***************************************************************************)
EXTENDS Naturals, FiniteSets

CONSTANTS
  Tenants,     \* the tenants the user is a member of
  Admins,      \* those where the user is PLATFORM_ADMIN
  Default,     \* the tenant of the default realm
  EmailFirst,  \* the build flag VITE_EMAIL_FIRST_LOGIN
  MaxLoads,    \* bound: page loads by the user
  MaxRequests, \* bound: row requests under way
  MaxTurns     \* bound: tenant switches, crashes of a page, renewals

ASSUME SessionAssumption ==
  /\ Admins \subseteq Tenants
  /\ Default \in Tenants
  /\ EmailFirst \in BOOLEAN

None == "none"
Unresolved == "unresolved"
Realms == Tenants \cup {None}

VARIABLES
  tab,      \* the document in the tab and what its storage remembers
  auth,     \* the token of the API client and the session of AuthProvider
  mgr,      \* mgr[t]: realm of the manager registered for slug t
  switcher, \* the tenant switcher and the transition screen
  sws,      \* tenant switches under way
  cache,    \* the rows in the query cache: key and tenant they came from
  requests, \* requests for rows under way
  used      \* loads and turns so far (bounds)

sessionVars == <<tab, auth, mgr, switcher, sws, cache, requests, used>>

Places == {"away", "callback", "login", "redirecting", "shell", "crashed"}
LoginStates == {"idle", "loading", "neutral", "network_error", "rate_limited", "malformed"}

\* leaving: where the document is about to navigate, with the slug its redirect_uri carries.
Stay == [to |-> None, slug |-> None, out |-> FALSE]
SignInAt(realm, slug) == [to |-> realm, slug |-> slug, out |-> FALSE]
SignOut == [to |-> None, slug |-> None, out |-> TRUE]

NoSession == [on |-> FALSE, slug |-> None, id |-> None, of |-> None]
NoManagers == [t \in Tenants |-> None]
QuietUi == [pending |-> FALSE, need |-> None, failed |-> None, switching |-> None]
NoAuth == [token |-> None, session |-> NoSession]

\* Variant: the key of an unresolved session carries no tenant segment.
BareKey(id) == id
Key(id) == IF id = None THEN Unresolved ELSE id
SessionKey == Key(auth.session.id)

\* AuthenticatedShellRoot: the shell gives way to the transition screen.
ShellShown == tab.at = "shell" /\ auth.session.on /\ switcher.switching = None

------------------------------------------------------------------------------
(* Documents.  A full page load starts every module and store afresh; only *)
(* the stored realm slug survives.                                         *)

\* fetchTenantConfig: the realm asked for, or the default one when the fetch fails.
Answered(slug) == {IF slug = None THEN Default ELSE slug, Default}

NeedsEmailFirst(slug) == EmailFirst /\ slug = None

Fresh ==
  /\ auth' = NoAuth /\ mgr' = NoManagers /\ switcher' = QuietUi
  /\ sws' = {} /\ cache' = {} /\ requests' = {}

\* ProtectedRoute, unauthenticated: the email-first page, or one redirect to the realm.
Guarded(t, slug, manager) ==
  IF NeedsEmailFirst(slug)
  THEN [t EXCEPT !.at = "login", !.login = "idle", !.stored = slug, !.manager = manager, !.leaving = Stay]
  ELSE [t EXCEPT !.at = "redirecting", !.stored = slug, !.manager = manager,
                 !.leaving = SignInAt(manager, slug)]

Document(slug) ==
  /\ \E m \in Answered(slug) : tab' = Guarded([tab EXCEPT !.renews = FALSE, !.away = Stay], slug, m)
  /\ Fresh

SessionInit ==
  /\ tab = [at |-> "away", stored |-> None, manager |-> None, renews |-> FALSE,
            login |-> "idle", leaving |-> Stay, away |-> Stay]
  /\ auth = NoAuth /\ mgr = NoManagers /\ switcher = QuietUi
  /\ sws = {} /\ cache = {} /\ requests = {}
  /\ used = [loads |-> 0, turns |-> 0, overlap |-> FALSE]

\* The user opens the application, with ?realm= or without, or submits an organisation code.
Load(r) ==
  /\ used.loads < MaxLoads
  /\ tab.at \in {"away", "login", "crashed"}
  /\ tab.at = "login" => r # None
  /\ Document(IF r = None THEN tab.stored ELSE r)
  /\ used' = [used EXCEPT !.loads = @ + 1]

\* The document goes away, to the identity provider or to its end of session.
Leave ==
  /\ tab.leaving # Stay
  /\ tab' = [tab EXCEPT !.at = "away", !.leaving = Stay, !.manager = None, !.renews = FALSE,
                        !.away = IF tab.leaving.out THEN Stay ELSE tab.leaving]
  /\ Fresh /\ UNCHANGED used

\* The identity provider comes back to /auth/callback, with ?realm= when it was given one.
ComeBack ==
  /\ tab.at = "away" /\ tab.away.to # None
  /\ LET slug == IF tab.away.slug = None THEN tab.stored ELSE tab.away.slug
     IN \E m \in Answered(slug) :
          tab' = [tab EXCEPT !.at = "callback", !.stored = slug, !.manager = m, !.leaving = Stay]
  /\ Fresh /\ UNCHANGED used

------------------------------------------------------------------------------
(* A 401 of any request: the session-expired event.                        *)

\* What the handler leaves: whoever is in the shell is sent to sign in again.
Expired(t) ==
  IF NeedsEmailFirst(t.stored)
  THEN IF t.at \in {"shell", "crashed"} THEN Guarded(t, t.stored, t.manager) ELSE t
  ELSE [t EXCEPT !.at = IF t.at \in {"shell", "crashed"} THEN "redirecting" ELSE t.at,
                 !.leaving = SignInAt(t.manager, t.stored)]

\* The shell goes: the switcher's own state is lost with it.
Unmounted(u) == [u EXCEPT !.pending = FALSE, !.need = None, !.failed = None]
Orphaned(s) == {[x EXCEPT !.live = FALSE] : x \in s}

Expire ==
  /\ tab' = Expired(tab) /\ auth' = NoAuth
  /\ switcher' = Unmounted(switcher) /\ sws' = Orphaned(sws)

------------------------------------------------------------------------------
(* OidcCallbackPage.                                                       *)

\* The provider's answer does not fit this document's manager, or its token has no role.
CallbackFails ==
  /\ tab.at = "callback" /\ auth.token = None /\ tab.leaving = Stay
  /\ Document(tab.stored)
  /\ UNCHANGED used

\* The token is set before the session; the tenant's record is read by an admin only.
CallbackToken ==
  /\ tab.at = "callback" /\ auth.token = None /\ tab.leaving = Stay
  /\ tab.manager = tab.away.to
  /\ auth' = [auth EXCEPT !.token = tab.manager]
  /\ tab' = [tab EXCEPT !.renews = TRUE]
  /\ UNCHANGED <<mgr, switcher, sws, cache, requests, used>>

\* answer: the record was found, was not, or the request was refused with 401.
CallbackSession(answer) ==
  /\ tab.at = "callback" /\ tab.renews
  /\ LET asks == tab.stored # None /\ auth.token \in Admins
         t == IF answer = "expired" THEN Expired(tab) ELSE tab
         id == IF asks /\ answer = "found" THEN tab.stored ELSE None
     IN /\ answer # "failed" => asks
        /\ tab' = [t EXCEPT !.at = "shell", !.away = Stay]
        /\ auth' = [token |-> IF answer = "expired" THEN None ELSE auth.token,
                    session |-> [on |-> TRUE, slug |-> tab.stored, id |-> id, of |-> tab.manager]]
  /\ UNCHANGED <<mgr, switcher, sws, cache, requests, used>>

------------------------------------------------------------------------------
(* LoginPage.                                                              *)

\* A submit or a retry with a plausible address; another one asks for nothing.
Discover ==
  /\ tab.at = "login" /\ tab.login # "loading"
  /\ tab' = [tab EXCEPT !.login = "loading"]
  /\ UNCHANGED <<auth, mgr, switcher, sws, cache, requests, used>>

RetryImplausible ==
  /\ tab.at = "login" /\ tab.login \in {"network_error", "rate_limited", "malformed"}
  /\ tab' = [tab EXCEPT !.login = "idle"]
  /\ UNCHANGED <<auth, mgr, switcher, sws, cache, requests, used>>

Discovered(outcome) ==
  /\ tab.at = "login" /\ tab.login = "loading" /\ tab.leaving = Stay
  /\ outcome \in LoginStates \ {"idle", "loading"}
  /\ tab' = [tab EXCEPT !.login = outcome]
  /\ UNCHANGED <<auth, mgr, switcher, sws, cache, requests, used>>

\* The registry keeps one manager per slug, built from the configuration it first got.
Manager(t, m) == IF mgr[t] = None THEN m \in {t, Default} ELSE m = mgr[t]

DiscoveredTenant(t, m, redirects) ==
  /\ tab.at = "login" /\ tab.login = "loading" /\ tab.leaving = Stay
  /\ Manager(t, m) /\ mgr' = [mgr EXCEPT ![t] = m]
  /\ tab' = IF redirects THEN [tab EXCEPT !.stored = t, !.leaving = SignInAt(m, t)]
            ELSE [tab EXCEPT !.stored = t, !.login = "network_error"]
  /\ UNCHANGED <<auth, switcher, sws, cache, requests, used>>

------------------------------------------------------------------------------
(* TenantSwitcher and AuthProvider.switchTenant.                           *)

\* The memberships other than the session's tenant; all of them when that is unresolved.
Offered == IF Cardinality(Tenants) > 1 THEN Tenants \ {auth.session.id} ELSE {}

\* onSelect, from the menu or from the retry of a failed switch.
Select(t) ==
  /\ ShellShown /\ ~switcher.pending /\ t \in Offered \cup ({switcher.failed} \ {None})
  /\ used.turns < MaxTurns
  /\ used' = [used EXCEPT !.turns = @ + 1, !.overlap = @ \/ sws # {}]
  /\ switcher' = [switcher EXCEPT !.pending = TRUE, !.need = None, !.failed = None]
  /\ sws' = sws \cup {[to |-> t, out |-> auth.session.id, got |-> None, live |-> TRUE]}
  /\ UNCHANGED <<tab, auth, mgr, cache, requests>>

\* No silent sign-in: nothing happened, and the switcher says so if it is still there.
SilentRefused(s, outcome) ==
  /\ s.got = None
  /\ sws' = sws \ {s}
  /\ switcher' = IF ~s.live THEN switcher
                 ELSE IF outcome = "interaction_required" THEN [switcher EXCEPT !.pending = FALSE, !.need = s.to]
                 ELSE [switcher EXCEPT !.pending = FALSE, !.failed = s.to]
  /\ \E m \in Realms \ {None} : Manager(s.to, m) /\ mgr' = [mgr EXCEPT ![s.to] = m]
  /\ UNCHANGED <<tab, auth, cache, requests, used>>

\* The transition screen takes the place of the shell.
SilentOk(s, m) ==
  /\ s.got = None
  /\ Manager(s.to, m) /\ mgr' = [mgr EXCEPT ![s.to] = m]
  /\ sws' = Orphaned(sws \ {s}) \cup {[s EXCEPT !.got = m, !.live = FALSE]}
  /\ switcher' = [Unmounted(switcher) EXCEPT !.switching = s.to]
  /\ UNCHANGED <<tab, auth, cache, requests, used>>

\* Variant: no finally{} around the session that is being built.
TokenRefusedQuietly(s) ==
  /\ s.got # None
  /\ sws' = sws \ {s}
  /\ UNCHANGED <<tab, auth, mgr, switcher, cache, requests, used>>

\* A token that does not decode or has no role ends the switch; finally{} clears the screen.
TokenRefused(s) ==
  /\ s.got # None
  /\ sws' = sws \ {s}
  /\ switcher' = [switcher EXCEPT !.switching = None]
  /\ UNCHANGED <<tab, auth, mgr, cache, requests, used>>

\* buildSessionFromToken asks for the new tenant's record with the token of the old one.
RecordAnswers(s) ==
  IF s.got \notin Admins THEN {"skipped"}
  ELSE {"failed", "expired"} \cup (IF auth.token \in Admins THEN {"found"} ELSE {})

\* Variant: the requests under way are not cancelled.
DropRows(id) ==
  /\ cache' = {row \in cache : id = None \/ row.key # id}
  /\ requests' = requests

\* The rows of the tenant left behind go, with their requests, before the session changes.
DropTenant(id) ==
  /\ cache' = {row \in cache : id = None \/ row.key # id}
  /\ requests' = {c \in requests : id = None \/ c.key # id}

Switched(s, answer) ==
  /\ s.got # None /\ answer \in RecordAnswers(s)
  /\ LET t == IF answer = "expired" THEN Expired(tab) ELSE tab
     IN tab' = IF t.at \in {"login", "crashed"} THEN [t EXCEPT !.at = "shell"] ELSE t
  /\ DropTenant(s.out)
  /\ auth' = [token |-> s.got,
              session |-> [on |-> TRUE, slug |-> s.got, of |-> s.got,
                           id |-> IF answer = "found" THEN s.got ELSE None]]
  /\ sws' = Orphaned(sws \ {s})
  /\ switcher' = [Unmounted(switcher) EXCEPT !.switching = None]
  /\ UNCHANGED <<mgr, used>>

\* The explicit sign-in the switcher offers; buildRedirectArgs carries the stored slug.
SignInToTenant(m) ==
  /\ ShellShown /\ switcher.need # None
  /\ Manager(switcher.need, m) /\ mgr' = [mgr EXCEPT ![switcher.need] = m]
  /\ tab' = [tab EXCEPT !.leaving = SignInAt(m, tab.stored)]
  /\ UNCHANGED <<auth, switcher, sws, cache, requests, used>>

------------------------------------------------------------------------------
(* The rest of AuthProvider.                                               *)

\* The manager of the first realm renews its token, whichever tenant is active.
Renew ==
  /\ tab.renews /\ tab.at # "callback" /\ used.turns < MaxTurns
  /\ used' = [used EXCEPT !.turns = @ + 1]
  /\ auth' = [auth EXCEPT !.token = tab.manager]
  /\ UNCHANGED <<tab, mgr, switcher, sws, cache, requests>>

\* signoutRedirect and the redirect of ProtectedRoute, which sees no session, both follow.
Logout ==
  /\ ShellShown
  /\ auth' = NoAuth
  /\ \E l \in {SignOut} \cup (IF EmailFirst THEN {} ELSE {SignInAt(tab.manager, None)}) :
       tab' = [Guarded(tab, None, tab.manager) EXCEPT !.leaving = l]
  /\ switcher' = Unmounted(switcher) /\ sws' = Orphaned(sws)
  /\ UNCHANGED <<mgr, cache, requests, used>>

\* A page throws while it renders: the boundary is above the shell, which goes with it.
Crash ==
  /\ ShellShown /\ used.turns < MaxTurns
  /\ used' = [used EXCEPT !.turns = @ + 1]
  /\ tab' = [tab EXCEPT !.at = "crashed"]
  /\ switcher' = Unmounted(switcher) /\ sws' = Orphaned(sws)
  /\ UNCHANGED <<auth, mgr, cache, requests>>

TryAgain ==
  /\ tab.at = "crashed" /\ auth.session.on
  /\ tab' = [tab EXCEPT !.at = "shell"]
  /\ UNCHANGED <<auth, mgr, switcher, sws, cache, requests, used>>

------------------------------------------------------------------------------
(* Requests for rows: each carries the token of its moment and the key of  *)
(* the session it was made for.                                            *)

Fetch ==
  /\ ShellShown /\ Cardinality(requests) < MaxRequests
  /\ requests' = requests \cup {[key |-> SessionKey, tok |-> auth.token]}
  /\ UNCHANGED <<tab, auth, mgr, switcher, sws, cache, used>>

RowsArrive(c) ==
  /\ c.tok # None
  /\ cache' = cache \cup {[key |-> c.key, from |-> c.tok]}
  /\ requests' = requests \ {c}
  /\ UNCHANGED <<tab, auth, mgr, switcher, sws, used>>

RowsRefused(c, expired) ==
  /\ requests' = requests \ {c}
  /\ IF expired THEN Expire ELSE c.tok # None /\ UNCHANGED <<tab, auth, switcher, sws>>
  /\ UNCHANGED <<mgr, cache, used>>

------------------------------------------------------------------------------
SwitchStep(s) ==
  \/ \E o \in {"interaction_required", "error"} : SilentRefused(s, o)
  \/ \E m \in Tenants : SilentOk(s, m)
  \/ TokenRefused(s)
  \/ \E a \in {"skipped", "found", "failed", "expired"} : Switched(s, a)

CallbackStep ==
  \/ CallbackFails \/ CallbackToken
  \/ \E a \in {"found", "failed", "expired"} : CallbackSession(a)

LoginStep ==
  \/ Discover \/ RetryImplausible
  \/ \E o \in LoginStates : Discovered(o)
  \/ \E t, m \in Tenants, b \in BOOLEAN : DiscoveredTenant(t, m, b)

UserStep ==
  \/ \E r \in Realms : Load(r)
  \/ \E t \in Tenants : Select(t) \/ SignInToTenant(t)
  \/ Logout \/ Crash \/ TryAgain \/ Fetch

SessionNext ==
  \/ UserStep \/ LoginStep \/ CallbackStep
  \/ Leave \/ ComeBack \/ Renew
  \/ \E s \in sws : SwitchStep(s)
  \/ \E c \in requests : RowsArrive(c) \/ \E b \in BOOLEAN : RowsRefused(c, b)

\* The browser navigates when told to, and the provider or its timeout answers each request.
SessionFairness ==
  /\ WF_sessionVars(Leave) /\ WF_sessionVars(CallbackStep)
  /\ WF_sessionVars(\E s \in sws : SwitchStep(s))

SessionSpec == SessionInit /\ [][SessionNext]_sessionVars /\ SessionFairness

------------------------------------------------------------------------------
SessionTypeOK ==
  /\ tab.at \in Places /\ tab.stored \in Realms /\ tab.manager \in Realms
  /\ tab.login \in LoginStates
  /\ auth.token \in Realms /\ auth.session.id \in Realms
  /\ mgr \in [Tenants -> Realms]
  /\ switcher.pending \in BOOLEAN /\ switcher.switching \in Realms
  /\ \A row \in cache : row.key \in Tenants \cup {Unresolved} /\ row.from \in Tenants
  /\ \A s \in sws : s.to \in Tenants /\ s.out \in Realms

\* After a switch no row is left under the key of a tenant that is not the active one
\* (AuthProvider.switchTenant removes them before it sets the session), but when a second
\* switch began before the first had ended, which a crash of the shell makes possible.
\* The state keeps its shape throughout.
KeyedRowsGone ==
  /\ SessionTypeOK
  /\ auth.session.id # None /\ ~used.overlap =>
       \A row \in cache : row.key \in {auth.session.id, Unresolved}

\* Nobody stays on a screen that only waits: the redirect, the callback and the
\* transition screen give way, however the requests they wait for are answered.
ScreensSettle ==
  (tab.at \in {"redirecting", "callback"} \/ switcher.switching # None)
    ~> (tab.at \notin {"redirecting", "callback"} /\ switcher.switching = None)

\* The rows the shell may show are rows of the tenant it was signed in to.
\* The code does not keep it (README, Disagreements): no run checks it.
NoForeignRows ==
  ShellShown => \A row \in cache : row.key = SessionKey => row.from = auth.session.of

================================================================================
