-------------------------------- MODULE Door --------------------------------
(***************************************************************************)
(* Who a request acts for: the server's checks at start (backend/main.py), *)
(* its login endpoints and its choice of an identity (routers/auth.py,     *)
(* deps.py, services/auth.py), and the tabs of one browser that share a    *)
(* cookie jar and a local storage (frontend/src/auth.js, auth-store.js).   *)
(*                                                                         *)
(* A session travels as an HttpOnly cookie, and as a Bearer token that a   *)
(* tab keeps in memory and, where the cookie does not stick, in storage.   *)
(* The registry behind the endpoints is the module Accounts; here it is    *)
(* the set of live tokens.                                                 *)
(***************************************************************************)
EXTENDS Integers, Sequences, FiniteSets

CONSTANTS
  Tabs, Users, Visitor,
  Deployments,   \* configurations: see Deployment
  MaxSessions,   \* bound on the sessions opened
  MaxMishaps     \* bound on lost answers, ended sessions and restarts

\* public: PORT or RENDER is set, or the page is not on localhost.  cross: page and API have
\* different hosts.  secure: the server sees HTTPS.  blocked: no third-party cookies.  pinned:
\* PLUTO_USER_ID.  allowed: what the operator has opted in to, PLUTO_ALLOW_OPEN and the like.
Deployment == [private : BOOLEAN, public : BOOLEAN, pinned : BOOLEAN,
               allowed : SUBSET {"open", "shared", "memory"},
               workers : {1, 2}, redis : {"none", "up", "down"},
               cross : BOOLEAN, secure : BOOLEAN, blocked : BOOLEAN]
ASSUME DeploymentsAssumption ==
  Deployments \subseteq Deployment /\ Visitor \notin Users /\ "refused" \notin Users

VARIABLES
  deployment,   \* the environment of the process
  server,       \* "off", "serving"
  owner,        \* owner[token]: whose each session is
  live,         \* the tokens that are sessions
  jar,          \* pluto_session: a token, or 0; pluto_csrf comes and goes with it
  kept,         \* local storage: a token, or 0
  tabs,         \* see Page
  mishaps

doorVars == <<deployment, server, owner, live, jar, kept, tabs, mishaps>>
registered == <<owner, live>>

Idling == [kind |-> "none", status |-> "none", token |-> 0, marked |-> FALSE, user |-> Visitor]
\* mem: the Bearer token in memory; shown: the name in the corner; goal: what a chain of calls is
\* for; upset (ghost): since the page was loaded a session ended, an answer was lost, or another
\* tab changed what they share.
Page == [mem |-> 0, shown |-> Visitor, call |-> Idling, goal |-> "none", upset |-> FALSE]

DoorInit ==
  /\ deployment \in Deployments /\ server = "off"
  /\ owner = <<>> /\ live = {} /\ jar = 0 /\ kept = 0
  /\ tabs = [t \in Tabs |-> Page] /\ mishaps = 0

\* ---- the process -------------------------------------------------------
\* Open mode on a public host needs PLUTO_ALLOW_OPEN.
OpenInPublic == ~deployment.private /\ deployment.public /\ "open" \notin deployment.allowed
\* And PLUTO_USER_ID, one vault for all visitors, PLUTO_ALLOW_SHARED_VAULT.
SharedInPublic == ~deployment.private /\ deployment.public /\ deployment.pinned /\ "shared" \notin deployment.allowed
\* Several workers need a shared limiter, in private mode without exception.
UncountedWorkers == deployment.workers > 1 /\ deployment.redis = "none"
                    /\ (deployment.private \/ "memory" \notin deployment.allowed)
\* A Redis that is configured must answer in private mode.
DeafLimiter == deployment.private /\ deployment.redis = "down"
Start ==
  /\ server = "off"
  /\ ~(OpenInPublic \/ SharedInPublic \/ UncountedWorkers \/ DeafLimiter)
  /\ server' = "serving"
  /\ UNCHANGED <<deployment, registered, jar, kept, tabs, mishaps>>

\* ---- identity ----------------------------------------------------------
\* authenticate, and current_user for visitors: a token that is no session is refused, even
\* where none would be needed.
Identity(token) ==
  IF token # 0 THEN (IF token \in live THEN owner[token] ELSE "refused")
  ELSE IF deployment.private /\ ~deployment.pinned THEN "refused" ELSE Visitor

\* getToken, then session_token_from: Bearer first, the cookie second.
Bearer(t) == IF tabs[t].mem # 0 THEN tabs[t].mem ELSE kept
Presented(t) == IF Bearer(t) # 0 THEN Bearer(t) ELSE jar
\* _require_csrf, for calls that change something: with a session by cookie the header has to
\* repeat pluto_csrf, which the page can read when it is on the API's host only.
Marked(bearer, cookie) == bearer # 0 \/ cookie = 0 \/ ~deployment.cross

\* _set_session_cookie: SameSite=None only when the page is elsewhere and the call is secure;
\* a Lax cookie of another site is dropped.
Sticks == ~deployment.cross \/ (deployment.secure /\ ~deployment.blocked)

\* ---- calls -------------------------------------------------------------
\* rawReq and req: headers and cookies are taken when the call is made.
CallOf(kind, bearer, cookie, user) ==
  [kind |-> kind, status |-> "sent", token |-> IF bearer # 0 THEN bearer ELSE cookie,
   marked |-> Marked(bearer, cookie), user |-> user]
\* The page goes on with a call: getToken brings the stored token into memory.
Calling(page, kind, user) ==
  LET bearer == IF page.mem # 0 THEN page.mem ELSE kept'
  IN  [page EXCEPT !.mem = bearer, !.call = CallOf(kind, bearer, jar', user)]
Probing(page) == [page EXCEPT !.call = CallOf("probe", 0, jar', Visitor)]

AtRest(t) == tabs[t].call = Idling
Shared == <<jar, kept>>
\* A page changes; if what the tabs share changed with it, the others do not know.
Turns(t, page) == tabs' = [s \in Tabs |-> IF s = t THEN page
                                          ELSE IF Shared' # Shared \/ live' # live
                                               THEN [tabs[s] EXCEPT !.upset = TRUE] ELSE tabs[s]]

\* boot: the page is loaded, and asks who it is.
LoadPage(t) ==
  /\ server = "serving"
  /\ UNCHANGED <<deployment, server, registered, Shared, mishaps>>
  /\ Turns(t, [Calling(Page, "me", Visitor) EXCEPT !.goal = "load"])
\* authSubmit: login or signup, from the dialog of a page without a user.
SubmitLogin(t, u) ==
  /\ server = "serving" /\ AtRest(t) /\ tabs[t].shown = Visitor
  /\ UNCHANGED <<deployment, server, registered, Shared, mishaps>>
  /\ Turns(t, [Calling(tabs[t], "login", u) EXCEPT !.goal = "login"])
\* submitPasswordChange, signOut, signOutEverywhere, and any call that changes data.
Press(t, kind) ==
  /\ server = "serving" /\ AtRest(t) /\ (kind = "write" \/ tabs[t].shown # Visitor)
  /\ UNCHANGED <<deployment, server, registered, Shared, mishaps>>
  /\ Turns(t, [Calling(tabs[t], kind, Visitor) EXCEPT !.goal = kind])

Answer(t, status, token, user) ==
  Turns(t, [tabs[t] EXCEPT !.call.status = status, !.call.token = token, !.call.user = user])
OpenSession(u, stay) == Len(owner) < MaxSessions /\ owner' = Append(owner, u) /\ live' = stay \cup {Len(owner) + 1}
TokensFor(u) == {k \in live : owner[k] = u}

\* What the server makes of a call.
ServeCall(t) ==
  LET c == tabs[t].call
      who == Identity(c.token)
      unsafe == c.kind \notin {"me", "probe", "login"}
      refusal == IF unsafe /\ ~c.marked THEN "403" ELSE IF who = "refused" THEN "401" ELSE "ok"
  IN  /\ server = "serving" /\ c.status = "sent"
      /\ UNCHANGED <<deployment, server, Shared, mishaps>>
      /\ \/ /\ c.kind \in {"me", "probe", "write"} /\ UNCHANGED registered
            /\ Answer(t, refusal, 0, IF who \in Users THEN who ELSE Visitor)
         \* login: right, or refused for any reason
         \/ c.kind = "login" /\ OpenSession(c.user, live) /\ Answer(t, "ok", Len(owner'), c.user)
         \/ c.kind = "login" /\ UNCHANGED registered /\ Answer(t, "401", 0, Visitor)
         \* change_password and logout_all want an account's session; the first may refuse the password
         \/ /\ c.kind \in {"change", "everywhere"} /\ UNCHANGED registered
            /\ refusal # "ok" \/ who \notin Users \/ c.kind = "change"
            /\ Answer(t, IF refusal = "ok" THEN "401" ELSE refusal, 0, Visitor)
         \/ /\ c.kind = "change" /\ refusal = "ok" /\ who \in Users
            /\ OpenSession(who, live \ TokensFor(who)) /\ Answer(t, "ok", Len(owner'), who)
         \/ /\ c.kind = "everywhere" /\ refusal = "ok" /\ who \in Users
            /\ live' = live \ TokensFor(who) /\ UNCHANGED owner /\ Answer(t, "ok", 0, Visitor)
         \* logout asks for no identity
         \/ /\ c.kind = "logout" /\ c.marked
            /\ live' = live \ {c.token} /\ UNCHANGED owner /\ Answer(t, "ok", 0, Visitor)
         \/ c.kind = "logout" /\ ~c.marked /\ UNCHANGED registered /\ Answer(t, "403", 0, Visitor)

\* ---- what the page makes of an answer ----------------------------------
Rests(page) == [page EXCEPT !.call = Idling, !.goal = "none"]
\* adoptSessionToken and the cookie that came with the answer: memory only, then a probe.
Adopts(t, token) ==
  /\ jar' = IF Sticks THEN token ELSE jar
  /\ kept' = 0
  /\ Turns(t, Probing([tabs[t] EXCEPT !.mem = token]))
\* A plausible bug: the token is stored when the cookie does stick.
FaultyPersists(status) == status = "ok"
\* _cookieSticks: only a 401, or no answer, says that the cookie does not.
Persists(status) == status \in {"401", "lost"}
Probed(t) ==
  LET p == tabs[t] IN
  /\ p.call.kind = "probe"
  /\ kept' = (IF Persists(p.call.status) THEN p.mem ELSE kept) /\ UNCHANGED jar
  /\ Turns(t, IF p.goal = "login" THEN Calling(p, "me", Visitor) ELSE Rests(p))
\* refreshMe: without an answer the name stays.  After a login it decides.
Learns(t) ==
  LET p == tabs[t]
      name == IF p.call.status = "lost" THEN p.shown ELSE p.call.user
      stuck == p.goal = "login" /\ name = Visitor
  IN  /\ p.call.kind = "me"
      /\ kept' = (IF stuck THEN 0 ELSE kept) /\ UNCHANGED jar
      /\ Turns(t, Rests([p EXCEPT !.shown = name, !.mem = IF stuck THEN 0 ELSE @]))
\* login and change-password: a session, or an error in the dialog.
Granted(t) ==
  LET c == tabs[t].call IN
  /\ c.kind \in {"login", "change"}
  /\ IF c.status = "ok" THEN Adopts(t, c.token) ELSE UNCHANGED Shared /\ Turns(t, Rests(tabs[t]))
Forgets(page) == [page EXCEPT !.shown = Visitor, !.mem = 0]
\* signOut goes on whatever the answer; the cookie goes with an answer that clears it.
SignedOut(t) ==
  LET c == tabs[t].call IN
  /\ c.kind = "logout"
  /\ jar' = (IF c.status = "ok" THEN 0 ELSE jar) /\ kept' = 0
  /\ Turns(t, Rests(Forgets(tabs[t])))
\* signOutEverywhere signs out unless there was no answer; logout_all has cleared the cookie.
SignedOutEverywhere(t) ==
  LET c == tabs[t].call IN
  /\ c.kind = "everywhere"
  /\ jar' = (IF c.status = "ok" THEN 0 ELSE jar) /\ UNCHANGED kept
  /\ Turns(t, IF c.status = "lost" THEN Rests(tabs[t]) ELSE Calling(tabs[t], "logout", Visitor))
\* req: 401 opens the login dialog once.
Wrote(t) ==
  LET c == tabs[t].call IN
  /\ c.kind = "write" /\ UNCHANGED Shared
  /\ \/ Turns(t, Rests(tabs[t]))
     \/ c.status = "401" /\ \E u \in Users : Turns(t, [Calling(tabs[t], "login", u) EXCEPT !.goal = "login"])
Hear(t) ==
  /\ tabs[t].call.status \notin {"none", "sent"}
  /\ UNCHANGED <<deployment, server, registered, mishaps>>
  /\ Probed(t) \/ Learns(t) \/ Granted(t) \/ SignedOut(t) \/ SignedOutEverywhere(t) \/ Wrote(t)

\* ---- mishaps -----------------------------------------------------------
Mishap == mishaps < MaxMishaps /\ mishaps' = mishaps + 1
Lost(page) == [page EXCEPT !.call.status = "lost", !.call.user = Visitor, !.upset = TRUE]
\* A call or its answer is lost, or it failed: the cookies of the answer too.
LoseCall(t) ==
  /\ ~AtRest(t) /\ tabs[t].call.status # "lost" /\ Mishap
  /\ UNCHANGED <<deployment, server, registered, Shared>>
  /\ Turns(t, Lost(tabs[t]))
\* Sessions run out, or the registry is lost with the disk.
EndSessions ==
  /\ live # {} /\ Mishap
  /\ \E gone \in (SUBSET live) \ {{}} : live' = live \ gone
  /\ tabs' = [t \in Tabs |-> [tabs[t] EXCEPT !.upset = TRUE]]
  /\ UNCHANGED <<deployment, server, owner, Shared>>
\* The process ends, and starts again in the same environment.
Shutdown ==
  /\ server = "serving" /\ Mishap /\ server' = "off"
  /\ tabs' = [t \in Tabs |-> IF tabs[t].call.status = "sent" THEN Lost(tabs[t]) ELSE tabs[t]]
  /\ UNCHANGED <<deployment, registered, Shared>>

DoorNext ==
  \/ Start \/ EndSessions \/ Shutdown
  \/ \E t \in Tabs : \/ LoadPage(t) \/ ServeCall(t) \/ Hear(t) \/ LoseCall(t)
                     \/ \E u \in Users : SubmitLogin(t, u)
                     \/ \E kind \in {"change", "logout", "everywhere", "write"} : Press(t, kind)
DoorSpec == DoorInit /\ [][DoorNext]_doorVars

\* ---- properties --------------------------------------------------------
ActsFor(token) == IF Identity(token) \in Users THEN Identity(token) ELSE Visitor
Quiet(t) == AtRest(t) /\ ~tabs[t].upset
\* A page on another site than the API that lives on its cookie.
OnForeignCookie(t) == deployment.cross /\ Bearer(t) = 0 /\ jar # 0
\* A page at rest acts for the user it shows, now and after a reload, and its changes are
\* accepted: unless a session ended, an answer was lost or another tab changed what they share
\* since it was loaded; but a cookie of another site does not carry changes (nor the logout), and
\* where a call without credentials is answered, in open mode or with an identity of the
\* environment, the probe takes that answer for a cookie that stuck.
ActsAsShownUnlessUpset ==
  \A t \in Tabs : Quiet(t) /\ ~OnForeignCookie(t) =>
    /\ ActsFor(Presented(t)) = tabs[t].shown
    /\ Marked(Bearer(t), jar)
    /\ \/ ActsFor(IF kept # 0 THEN kept ELSE jar) = tabs[t].shown
       \/ ~Sticks /\ (deployment.private => deployment.pinned)

\* README.md:131-134 and auth-store.js:74-78: a page on another site than the API sends the
\* marker "1", which the server accepts.
SignedInMayWrite == \A t \in Tabs : Quiet(t) /\ tabs[t].shown # Visitor => Marked(Bearer(t), jar)
=============================================================================
