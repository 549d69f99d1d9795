---------------------------------- MODULE Session ----------------------------------
(***************************************************************************)
(* Sessions of the web interface: the tabs of one browser share the token  *)
(* of localStorage (lib/auth-context.tsx); each has its own copy in the    *)
(* state of React, its own page and its requests (lib/api.ts), which carry *)
(* the token that is stored when they are made.  The server keeps nothing: *)
(* a token is good until it expires (api/auth.go, api/middleware.go).      *)
(*                                                                         *)
(* Setting location.href starts a navigation; the handlers of the tab go   *)
(* on running until the page is unloaded.                                  *)
(***************************************************************************)
EXTENDS Naturals

CONSTANTS
    Tabs,
    Tokens,     \* the tokens the server issues
    NoToken     \* null

ASSUME SessionAssumption == NoToken \notin Tokens

VARIABLES
    issued, expired,
    stored,     \* localStorage
    token,      \* the state of each tab's AuthProvider
    page,       \* "closed", "login", "polling" (Agents, Runs), "quiet" (the other pages)
    hidden,     \* the tabs that are hidden while their page polls
    leaving,    \* tabs that navigate to /login
    login,      \* the form: how far the request got, and the token it was granted
    req,        \* a request of a page: how far it got, and the token it carries
    signedOut   \* the session was ended, and no login has succeeded since

tab == <<token, page, login, req>>
sessionVars == <<hidden, issued, expired, stored, leaving, signedOut, tab>>

Idle == [phase |-> "idle", token |-> NoToken]
NoReq == [phase |-> "none", token |-> NoToken]

SessionTypeOK ==
    /\ expired \subseteq issued /\ issued \subseteq Tokens
    /\ stored \in issued \cup {NoToken} /\ signedOut \in BOOLEAN
    /\ token \in [Tabs -> issued \cup {NoToken}]
    /\ page \in [Tabs -> {"closed", "login", "polling", "quiet"}]
    /\ hidden \subseteq Tabs /\ leaving \subseteq Tabs
    /\ login \in [Tabs -> [phase : {"idle", "error", "sent", "granted", "denied", "lost"},
                           token : issued \cup {NoToken}]]
    /\ req \in [Tabs -> [phase : {"none", "sent", "done", "refused"},
                         token : issued \cup {NoToken}]]

SessionInit ==
    /\ issued = {} /\ expired = {}
    /\ stored = NoToken /\ signedOut = TRUE
    /\ token = [t \in Tabs |-> NoToken]
    /\ page = [t \in Tabs |-> "closed"] /\ hidden = {} /\ leaving = {}
    /\ login = [t \in Tabs |-> Idle]
    /\ req = [t \in Tabs |-> NoReq]

Good(k) == k # NoToken /\ k \notin expired

-----------------------------------------------------------------------------
(* Pages *)

\* The tab loads a page from the server: AuthProvider reads the stored token,
\* and ProtectedRoute sends a page without one to /login.
Load(t, p) ==
    /\ page' = [page EXCEPT ![t] = IF stored = NoToken THEN "login" ELSE p]
    /\ token' = [token EXCEPT ![t] = stored]
    /\ login' = [login EXCEPT ![t] = Idle]
    /\ req' = [req EXCEPT ![t] = NoReq]
    /\ leaving' = leaving \ {t} /\ hidden' = hidden \ {t}
    /\ UNCHANGED <<issued, expired, stored, signedOut>>

\* The user opens the tab or reloads it; a page keeps its address.
Open(t) ==
    \/ page[t] \in {"closed", "quiet"} /\ Load(t, "quiet")
    \/ page[t] \in {"login", "polling"} /\ Load(t, page[t])

\* The navigation ends; /login is shown also with a token.
Unload(t) == t \in leaving /\ Load(t, "login")

\* A link of the sidebar.  The queries of the page that is left are aborted, its
\* mutations are not.
Visit(t, p) ==
    /\ page[t] \in {"polling", "quiet"} /\ p \in {"polling", "quiet"} \ {page[t]}
    /\ page' = [page EXCEPT ![t] = p] /\ hidden' = hidden \ {t}
    /\ \/ UNCHANGED req
       \/ req' = [req EXCEPT ![t] = NoReq]
    /\ UNCHANGED <<issued, expired, stored, leaving, signedOut, token, login>>

\* Faulty variant: only the state of this tab forgets the token.
LogoutHere(t) ==
    /\ page[t] \in {"polling", "quiet"}
    /\ signedOut' = TRUE
    /\ token' = [token EXCEPT ![t] = NoToken]
    /\ page' = [page EXCEPT ![t] = "login"] /\ hidden' = hidden \ {t}
    /\ UNCHANGED <<issued, expired, stored, leaving, login, req>>

\* handleLogout: the token is forgotten, and the page has none.
Logout(t) ==
    /\ page[t] \in {"polling", "quiet"}
    /\ stored' = NoToken /\ signedOut' = TRUE
    /\ token' = [token EXCEPT ![t] = NoToken]
    /\ page' = [page EXCEPT ![t] = "login"] /\ hidden' = hidden \ {t}
    /\ \/ UNCHANGED req
       \/ req' = [req EXCEPT ![t] = NoReq]
    /\ UNCHANGED <<issued, expired, leaving, login>>

\* The user turns away from a tab, or back to it: it matters where a page polls.
Turn(t) ==
    /\ page[t] = "polling"
    /\ hidden' = (hidden \ {t}) \cup ({t} \ hidden)
    /\ UNCHANGED <<issued, expired, stored, leaving, signedOut, tab>>

-----------------------------------------------------------------------------
(* Requests *)

\* request, of a page: it carries whatever is stored.
Request(t) ==
    /\ page[t] \in {"polling", "quiet"} /\ req[t] = NoReq
    /\ req' = [req EXCEPT ![t] = [phase |-> "sent", token |-> stored]]
    /\ UNCHANGED <<hidden, issued, expired, stored, leaving, signedOut, token, page, login>>

Respond(t, phase) ==
    /\ req[t].phase = "sent"
    /\ req' = [req EXCEPT ![t] = [NoReq EXCEPT !.phase = phase]]
    /\ UNCHANGED <<hidden, issued, expired, stored, leaving, signedOut, token, page, login>>

\* jwtAuthMiddleware
Refuse(t) == ~Good(req[t].token) /\ Respond(t, "refused")

\* The handler's answer, whatever it is, or a failing network.
Serve(t) == Respond(t, "done")

Done(t) ==
    /\ req[t].phase = "done"
    /\ req' = [req EXCEPT ![t] = NoReq]
    /\ UNCHANGED <<hidden, issued, expired, stored, leaving, signedOut, token, page, login>>

\* Faulty variant: the page stays where it is.
EndSessionHere(t) == stored' = NoToken /\ signedOut' = TRUE /\ UNCHANGED leaving

\* What request does with status 401, of a page's request and of a login alike.
EndSession(t) == stored' = NoToken /\ signedOut' = TRUE /\ leaving' = leaving \cup {t}

Refused(t) ==
    /\ req[t].phase = "refused"
    /\ EndSession(t)
    /\ req' = [req EXCEPT ![t] = NoReq]
    /\ UNCHANGED <<hidden, issued, expired, token, page, login>>

-----------------------------------------------------------------------------
(* The login page *)

\* handleSubmit; the button is disabled while a login is under way.
Submit(t) ==
    /\ page[t] = "login" /\ login[t].phase \in {"idle", "error"}
    /\ login' = [login EXCEPT ![t] = [Idle EXCEPT !.phase = "sent"]]
    /\ UNCHANGED <<hidden, issued, expired, stored, leaving, signedOut, token, page, req>>

\* handleLogin
Grant(t, k) ==
    /\ login[t].phase = "sent" /\ k \notin issued
    /\ issued' = issued \cup {k}
    /\ login' = [login EXCEPT ![t] = [phase |-> "granted", token |-> k]]
    /\ UNCHANGED <<hidden, expired, stored, leaving, signedOut, token, page, req>>

\* Wrong credentials; a failing statement, a request that is lost.
Deny(t, phase) ==
    /\ login[t].phase = "sent"
    /\ login' = [login EXCEPT ![t].phase = phase]
    /\ UNCHANGED <<hidden, issued, expired, stored, leaving, signedOut, token, page, req>>

\* setToken and navigate
LoggedIn(t) ==
    /\ login[t].phase = "granted"
    /\ stored' = login[t].token /\ signedOut' = FALSE
    /\ token' = [token EXCEPT ![t] = login[t].token]
    /\ page' = [page EXCEPT ![t] = "quiet"]
    /\ login' = [login EXCEPT ![t] = Idle]
    /\ UNCHANGED <<hidden, issued, expired, leaving, req>>

\* The message is shown until the page that request leaves is unloaded.
LoginDenied(t) ==
    /\ login[t].phase = "denied"
    /\ EndSession(t)
    /\ login' = [login EXCEPT ![t].phase = "error"]
    /\ UNCHANGED <<hidden, issued, expired, token, page, req>>

LoginLost(t) ==
    /\ login[t].phase = "lost"
    /\ login' = [login EXCEPT ![t].phase = "error"]
    /\ UNCHANGED <<hidden, issued, expired, stored, leaving, signedOut, token, page, req>>

\* 24 hours have passed.
Expire(k) ==
    /\ k \in issued \ expired
    /\ expired' = expired \cup {k}
    /\ UNCHANGED <<hidden, issued, stored, leaving, signedOut, tab>>

-----------------------------------------------------------------------------
SessionNext ==
    \/ \E t \in Tabs :
        \/ Turn(t) \/ Open(t) \/ Unload(t) \/ Logout(t) \/ Request(t) \/ Submit(t)
        \/ Refuse(t) \/ Serve(t) \/ Done(t) \/ Refused(t)
        \/ LoggedIn(t) \/ LoginDenied(t) \/ LoginLost(t)
        \/ \E p \in {"polling", "quiet"} : Visit(t, p)
        \/ \E p \in {"denied", "lost"} : Deny(t, p)
        \/ \E k \in Tokens : Grant(t, k)
    \/ \E k \in Tokens : Expire(k)

SessionSpec == SessionInit /\ [][SessionNext]_sessionVars

\* refetchInterval, without refetchIntervalInBackground: a hidden tab skips it.
Poll(t) == page[t] = "polling" /\ t \notin hidden /\ Request(t)

\* Pages that poll make requests while they are visible, and answers are handled;
\* a server that is up answers in the end, however often a request fails or a
\* page is reloaded.
SessionFairness ==
    \A t \in Tabs :
        /\ WF_sessionVars(Poll(t))
        /\ WF_sessionVars(Respond(t, "done") \/ Refuse(t))
        /\ SF_sessionVars(Refuse(t))
        /\ WF_sessionVars(Done(t))
        /\ SF_sessionVars(Refused(t))
        /\ WF_sessionVars(Unload(t))

SessionFairSpec == SessionSpec /\ SessionFairness

-----------------------------------------------------------------------------
(* Properties *)

\* Once the session is ended, by a logout or a refusal in any tab, no token is
\* stored until a login succeeds, whatever the other tabs do, load or still
\* have under way.
SignOutHolds == signedOut => stored = NoToken

\* A tab that polls and stays visible does not stay on a session that has expired
\* or was ended in another tab: it ends at the login page, unless a login
\* elsewhere renews the session.
EndsAtLogin ==
    \A t \in Tabs : (page[t] = "polling" /\ ~Good(stored))
                        ~> (page[t] # "polling" \/ Good(stored) \/ t \in hidden)
=============================================================================
