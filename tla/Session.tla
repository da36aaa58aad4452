------------------------------- MODULE Session --------------------------------
(***************************************************************************)
(* Sessions: the middleware and the routes of tstlan/auth, and the tabs of  *)
(* one browser (components/auth-provider.tsx) that share its cookie.        *)
(*                                                                          *)
(* A request takes the cookie and the CSRF token along when it is sent.     *)
(* The service reads the session, may commit a refresh of it, checks the    *)
(* token, runs the handler and answers, each a step; the browser takes the  *)
(* cookie of an answer even when the tab that asked is gone.  Tokens are    *)
(* random and never drawn twice; a CSRF token stands for its session.       *)
(*                                                                          *)
(* Slip... definitions are mistakes the properties tell from the model.     *)
(***************************************************************************)
EXTENDS Integers, Sequences

CONSTANTS
    None,         \* no session, no cookie, no tab, no user
    Users,        \* the accounts
    Tabs,         \* the tabs of the browser
    Requests,     \* bound: requests under way at once
    Ttl,          \* session_ttl_hours
    RefreshAfter, \* session_refresh_after
    MaxTime,      \* bound: the clock
    MaxSessions,  \* bound: sessions made
    Budgets       \* bounds: pages opened, requests sent from them, faults

Tokens == Nat \ {0}
Safe == {"me", "read"}
Unsafe == {"login", "logout", "write"}

ASSUME SessionAssumption ==
    /\ None \notin Users \cup Tabs \cup Nat
    /\ {Ttl, RefreshAfter, MaxTime, MaxSessions} \subseteq Nat
    /\ Budgets \subseteq [opens: Nat, sends: Nat, faults: Nat]

VARIABLES
    clock,      \* the server's clock
    owners,     \* the account of every token drawn, 1 for the first
    expires,    \* the table: when the session of a token expires
    cookie,     \* the browser's cookie
    tabs,       \* AuthState of every tab, "closed" before it is opened
    requests,   \* the requests under way
    loggedOut,  \* history variable: tokens a logout has answered 200 for
    left        \* what is left of the budget

browser == <<cookie, tabs>>
table == <<owners, expires>>
vars == <<clock, table, browser, requests, loggedOut, left>>

Tab == [status: {"closed", "loading", "anonymous"}, user: {None}, csrf: {None}]
         \cup [status: {"authenticated"}, user: Users, csrf: Tokens]

(* A request: who sent it with what, how far it is, what the service found. *)
(* "by" is the account the sending tab showed, for the properties only.     *)
Request ==
    [tab: Tabs \cup {None}, kind: Safe \cup Unsafe, by: Users \cup {None},
     user: Users \cup {None}, cookie: Tokens \cup {None}, csrf: Tokens \cup {None},
     pc: {"sent", "refresh", "handle", "answered"}, until: Nat,
     session: Tokens \cup {None}, code: {0, 200, 401, 403, 500}]

Spend(what) == left[what] > 0 /\ left' = [left EXCEPT ![what] = @ - 1]

TabState(status, user, csrf) == [status |-> status, user |-> user, csrf |-> csrf]

----------------------------------------------------------------------------
Init ==
    /\ clock = 0
    /\ owners = <<>> /\ expires = <<>>
    /\ cookie = None
    /\ tabs = [t \in Tabs |-> TabState("closed", None, None)]
    /\ requests = [r \in Requests |-> None]
    /\ loggedOut = {}
    /\ left \in Budgets

Tick ==
    /\ clock < MaxTime
    /\ clock' = clock + 1
    /\ UNCHANGED <<table, browser, requests, loggedOut, left>>

(* max_age of the cookie has passed, or the user has cleared it. *)
DropCookie ==
    /\ cookie # None
    /\ Spend("faults")
    /\ cookie' = None
    /\ UNCHANGED <<clock, table, tabs, requests, loggedOut>>

----------------------------------------------------------------------------
(* The tabs.                                                                *)

(* fetch(), which adds the cookie; "from" is the tab as it sends. *)
Fetch(r, t, from, kind, user) ==
    [tab |-> t, kind |-> kind, by |-> from.user, user |-> user, cookie |-> cookie,
     csrf |-> from.csrf, pc |-> "sent", until |-> 0, session |-> None, code |-> 0]

(* A page is opened or reloaded: the answers to what the tab had asked are  *)
(* no longer for it, and fetchMe is sent.                                   *)
Open(t, r) ==
    /\ requests[r] = None
    /\ Spend("opens")
    /\ tabs' = [tabs EXCEPT ![t] = TabState("loading", None, None)]
    /\ requests' = [q \in Requests |->
          IF q = r THEN Fetch(r, t, tabs'[t], "me", None)
          ELSE IF requests[q] # None /\ requests[q].tab = t
               THEN [requests[q] EXCEPT !.tab = None] ELSE requests[q]]
    /\ UNCHANGED <<clock, table, cookie, loggedOut>>

Send(r, t, kind, user) ==
    /\ requests[r] = None
    /\ Spend("sends")
    /\ requests' = [requests EXCEPT ![r] = Fetch(r, t, tabs[t], kind, user)]
    /\ UNCHANGED <<clock, table, browser, loggedOut>>

(* onSubmit of the login page, whose button is disabled until it fails. *)
SignIn(t, r, user) ==
    /\ tabs[t].status = "anonymous"
    /\ \A q \in Requests : requests[q] # None => requests[q].tab # t
    /\ Send(r, t, "login", user)

(* What a page of a user sends: a read, a change, or signOut. *)
Ask(t, r, kind) ==
    /\ tabs[t].status = "authenticated"
    /\ kind \in {"read", "write", "logout"}
    /\ Send(r, t, kind, None)

----------------------------------------------------------------------------
(* The service.                                                             *)

At(r, pc) == requests[r] # None /\ requests[r].pc = pc

Advance(r, q) == requests' = [requests EXCEPT ![r] = q]

(* Any token passes. *)
SlipAdmitted(q, session) == TRUE

(* _reject_csrf: without a session there is nothing to protect. *)
Admitted(q, session) ==
    q.kind \in {"write", "logout"} /\ session # None => q.csrf = session

(* The request after the middleware. *)
Passed(q, session) ==
    IF Admitted(q, session) THEN [q EXCEPT !.pc = "handle", !.session = session]
    ELSE [q EXCEPT !.pc = "answered", !.code = 403]

(* resolve_session, its SELECT. *)
Resolve(r) ==
    /\ At(r, "sent")
    /\ LET q == requests[r]
           until == expires[q.cookie] IN
        IF q.cookie \notin DOMAIN expires THEN Advance(r, Passed(q, None))
        ELSE IF until <= clock THEN Advance(r, Passed(q, None))
        ELSE IF clock - (until - Ttl) >= RefreshAfter
        THEN Advance(r, [q EXCEPT !.pc = "refresh", !.until = clock + Ttl])
        ELSE Advance(r, Passed(q, q.cookie))
    /\ UNCHANGED <<clock, table, browser, loggedOut, left>>

(* An UPDATE that inserts the row when there is none. *)
SlipRefresh(r) ==
    /\ At(r, "refresh")
    /\ LET token == requests[r].cookie IN
        expires' = [t \in DOMAIN expires \cup {token} |->
                        IF t = token THEN requests[r].until ELSE expires[t]]
    /\ Advance(r, Passed(requests[r], requests[r].cookie))
    /\ UNCHANGED <<clock, owners, browser, loggedOut, left>>

(* Its UPDATE, which fails with StaleDataError when the row is gone. *)
Refresh(r) ==
    /\ At(r, "refresh")
    /\ LET q == requests[r] IN
        IF q.cookie \in DOMAIN expires
        THEN /\ expires' = [expires EXCEPT ![q.cookie] = q.until]
             /\ Advance(r, Passed(q, q.cookie))
        ELSE /\ Advance(r, [q EXCEPT !.pc = "answered", !.code = 500])
             /\ UNCHANGED expires
    /\ UNCHANGED <<clock, owners, browser, loggedOut, left>>

Answered(q, code) == [q EXCEPT !.pc = "answered", !.code = code]

(* The routes that need a user: me, the reads and the changes. *)
Handle(r) ==
    /\ At(r, "handle")
    /\ requests[r].kind \in {"me", "read", "write"}
    /\ Advance(r, Answered(requests[r], IF requests[r].session = None THEN 401 ELSE 200))
    /\ UNCHANGED <<clock, table, browser, loggedOut, left>>

(* authenticate and create_session. *)
Login(r) ==
    /\ At(r, "handle") /\ requests[r].kind = "login"
    /\ Len(owners) < MaxSessions
    /\ owners' = Append(owners, requests[r].user)
    /\ expires' = [t \in DOMAIN expires \cup {Len(owners')} |->
          IF t = Len(owners') THEN clock + Ttl ELSE expires[t]]
    /\ Advance(r, [Answered(requests[r], 200) EXCEPT !.session = Len(owners')])
    /\ UNCHANGED <<clock, browser, loggedOut, left>>

LoginRejected(r) ==
    /\ At(r, "handle") /\ requests[r].kind = "login"
    /\ Advance(r, Answered(requests[r], 401))
    /\ UNCHANGED <<clock, table, browser, loggedOut, left>>

(* revoke_session, of the cookie's session whatever it is by now.  Its      *)
(* SELECT and its DELETE need no step between them: a DELETE of a row that  *)
(* is gone changes nothing.                                                 *)
Logout(r) ==
    /\ At(r, "handle") /\ requests[r].kind = "logout"
    /\ LET token == requests[r].cookie IN
        /\ expires' = [t \in DOMAIN expires \ {token} |-> expires[t]]
        /\ loggedOut' = loggedOut \cup ({token} \ {None})
    /\ Advance(r, Answered(requests[r], 200))
    /\ UNCHANGED <<clock, owners, browser, left>>

----------------------------------------------------------------------------
(* The answer.                                                              *)

(* Set-Cookie: of a login, of a logout, and of every safe request that had  *)
(* a session.                                                               *)
CookieAfter(q) ==
    IF q.kind = "login" /\ q.code = 200 THEN q.session
    ELSE IF q.kind = "logout" /\ q.code = 200 THEN None
    ELSE IF q.kind \in Safe /\ q.session # None THEN q.cookie
    ELSE cookie

(* AuthState after it: only a me, a login or a logout changes it. *)
StateAfter(q) ==
    IF q.kind \in {"me", "login"} /\ q.code = 200
    THEN TabState("authenticated", owners[q.session], q.session)
    ELSE IF q.kind = "me" \/ (q.kind = "logout" /\ q.code = 200)
    THEN TabState("anonymous", None, None)
    ELSE tabs[q.tab]

Answer(r) ==
    /\ At(r, "answered")
    /\ cookie' = CookieAfter(requests[r])
    /\ tabs' = IF requests[r].tab = None THEN tabs
               ELSE [tabs EXCEPT ![requests[r].tab] = StateAfter(requests[r])]
    /\ Advance(r, None)
    /\ UNCHANGED <<clock, table, loggedOut, left>>

(* The request or its answer is lost, and fetch() rejects. *)
Fails(r) ==
    /\ requests[r] # None /\ requests[r].pc \in {"sent", "answered"}
    /\ Spend("faults")
    /\ tabs' = IF requests[r].tab = None THEN tabs
               ELSE [tabs EXCEPT ![requests[r].tab] =
                        StateAfter(Answered(requests[r], 0))]
    /\ Advance(r, None)
    /\ UNCHANGED <<clock, table, cookie, loggedOut>>

----------------------------------------------------------------------------
Next ==
    \/ Tick \/ DropCookie
    \/ \E r \in Requests :
        \/ \E t \in Tabs :
            \/ Open(t, r)
            \/ \E u \in Users : SignIn(t, r, u)
            \/ \E kind \in {"read", "write", "logout"} : Ask(t, r, kind)
        \/ Resolve(r) \/ Refresh(r) \/ Handle(r) \/ Login(r) \/ LoginRejected(r)
        \/ Logout(r) \/ Answer(r) \/ Fails(r)

Spec == Init /\ [][Next]_vars

----------------------------------------------------------------------------
TypeOK ==
    /\ clock \in Nat
    /\ owners \in Seq(Users)
    /\ DOMAIN expires \subseteq DOMAIN owners
    /\ expires \in [DOMAIN expires -> Nat]
    /\ cookie \in DOMAIN owners \cup {None}
    /\ tabs \in [Tabs -> Tab]
    /\ requests \in [Requests -> Request \cup {None}]
    /\ loggedOut \subseteq DOMAIN owners

(* A change that the service makes was sent by a page that showed the       *)
(* account it is made for, whichever tab has logged in or out since, in     *)
(* whatever order cookies were set and sessions expired (_reject_csrf).     *)
ChangesByShownUser ==
    \A r \in Requests :
        (At(r, "answered") /\ requests[r].kind = "write" /\ requests[r].code = 200)
            => requests[r].by = owners[requests[r].session]

(* A session that was logged out stays out: a refresh that read the row     *)
(* before the logout does not bring it back (resolve_session).              *)
LoggedOutStaysOut == loggedOut \cap DOMAIN expires = {}

=============================================================================
