---------------------------- MODULE SessionProofs -----------------------------
(***************************************************************************)
(* The promises of Session, for any number of accounts, tabs, requests,     *)
(* sessions and clock steps.                                                *)
(*                                                                          *)
(* What a tab knows and what a request carries name tokens that were drawn, *)
(* and a page that shows an account holds the token of a session of that    *)
(* account.  From there the check of the CSRF token ties the account a      *)
(* change is made for to the account the page showed.                       *)
(***************************************************************************)
EXTENDS Session, TLAPS

Drawn == DOMAIN owners

(* A tab shows the account whose session its CSRF token is of. *)
TabKnows(tab) == tab.csrf # None => tab.csrf \in Drawn /\ tab.user = owners[tab.csrf]

(* A request carries drawn tokens, and the account its page showed owns the *)
(* CSRF token; a session is found at the end of the middleware only.        *)
Carries(q) ==
    /\ q.cookie # None => q.cookie \in Drawn
    /\ q.csrf # None => q.csrf \in Drawn /\ q.by = owners[q.csrf]
    /\ q.session # None => q.session \in Drawn
    /\ q.pc \in {"sent", "refresh"} => q.session = None

(* A change that got past the middleware has the token of its session, an   *)
(* answer 200 to me, a login or a change names a session, and a login names *)
(* an account.                                                              *)
Checked(q) ==
    /\ q.kind = "login" => q.user \in Users
    /\ (q.kind = "write" /\ q.session # None) => q.csrf = q.session
    /\ (q.pc = "answered" /\ q.code = 200 /\ q.kind \in {"me", "login", "write"})
          => q.session # None

Sound == \A r \in Requests : requests[r] # None =>
            Carries(requests[r]) /\ Checked(requests[r])

Knowing == \A t \in Tabs : TabKnows(tabs[t])

(* The inductive invariant. *)
Inv == TypeOK /\ LoggedOutStaysOut /\ Knowing /\ Sound

----------------------------------------------------------------------------
(* Tokens drawn so far are numbers, so that None is not among them. *)
LEMMA DrawnAreTokens ==
    ASSUME TypeOK
    PROVE  Drawn \subseteq Tokens /\ None \notin Drawn /\ \A t \in Drawn : owners[t] \in Users
  BY SessionAssumption DEF TypeOK, Drawn, Tokens

(* A field of a request takes any value of its type. *)
LEMMA StageOfRequest ==
    ASSUME NEW q \in Request, NEW pc \in {"sent", "refresh", "handle", "answered"}
    PROVE  [q EXCEPT !.pc = pc] \in Request
  BY DEF Request

LEMMA TabOfRequest ==
    ASSUME NEW q \in Request
    PROVE  [q EXCEPT !.tab = None] \in Request
  BY DEF Request

LEMMA HandedOn ==
    ASSUME NEW q \in Request, NEW session \in Tokens \cup {None}
    PROVE  [q EXCEPT !.pc = "handle", !.session = session] \in Request
  <1>1. [q EXCEPT !.pc = "handle"] \in Request
    BY StageOfRequest
  <1>2. ASSUME NEW p \in Request
        PROVE  [p EXCEPT !.session = session] \in Request
    BY DEF Request
  <1> QED
    BY <1>1, <1>2

LEMMA Refreshing ==
    ASSUME NEW q \in Request, NEW until \in Nat
    PROVE  [q EXCEPT !.pc = "refresh", !.until = until] \in Request
  <1>1. [q EXCEPT !.pc = "refresh"] \in Request
    BY StageOfRequest
  <1>2. ASSUME NEW p \in Request
        PROVE  [p EXCEPT !.until = until] \in Request
    BY DEF Request
  <1> QED
    BY <1>1, <1>2

LEMMA AnsweredIsRequest ==
    ASSUME NEW q \in Request, NEW code \in {0, 200, 401, 403, 500}
    PROVE  /\ Answered(q, code) \in Request
           /\ Answered(q, code).pc = "answered" /\ Answered(q, code).code = code
           /\ \A f \in {"tab", "kind", "by", "user", "cookie", "csrf", "session"} :
                 Answered(q, code)[f] = q[f]
  <1>1. [q EXCEPT !.pc = "answered"] \in Request
    BY StageOfRequest
  <1>2. ASSUME NEW p \in Request
        PROVE  [p EXCEPT !.code = code] \in Request
    BY DEF Request
  <1>3. Answered(q, code) \in Request
    BY <1>1, <1>2 DEF Answered
  <1> QED
    BY <1>3 DEF Answered, Request

(* What the middleware hands on is still a request with the right tokens.   *)
LEMMA PassedIsSound ==
    ASSUME TypeOK, NEW q \in Request, NEW session \in Drawn \cup {None},
           Carries(q), Checked(q), q.pc \in {"sent", "refresh"}
    PROVE  /\ Passed(q, session) \in Request
           /\ Carries(Passed(q, session)) /\ Checked(Passed(q, session))
  <1>0. session \in Tokens \cup {None} /\ q.session = None
    BY DrawnAreTokens DEF Carries
  <1>1. CASE Admitted(q, session)
    <2>1. Passed(q, session) = [q EXCEPT !.pc = "handle", !.session = session]
      BY <1>1 DEF Passed
    <2>2. Passed(q, session) \in Request
      <3>1. session \in Tokens \cup {None}
        BY <1>0
      <3>2. [q EXCEPT !.pc = "handle", !.session = session] \in Request
        BY <3>1, HandedOn, Zenon
      <3> QED
        BY <2>1, <3>2, Zenon
    <2> QED
      BY <1>1, <2>1, <2>2 DEF Request, Carries, Checked, Admitted
  <1>2. CASE ~Admitted(q, session)
    <2>1. Passed(q, session) = Answered(q, 403)
      BY <1>2 DEF Passed, Answered
    <2> QED
      BY <1>0, <2>1, AnsweredIsRequest DEF Carries, Checked
  <1> QED
    BY <1>1, <1>2

(* A step that replaces one request by a sound one, and changes nothing the *)
(* invariant reads of a request, keeps every request sound.                 *)
LEMMA OneRequest ==
    ASSUME Inv, NEW r \in Requests, NEW q \in Request \cup {None}, Advance(r, q),
           UNCHANGED owners, q # None => Carries(q) /\ Checked(q)
    PROVE  requests' \in [Requests -> Request \cup {None}] /\ Sound'
  <1>1. requests' \in [Requests -> Request \cup {None}]
    BY DEF Inv, TypeOK, Advance
  <1>2. ASSUME NEW s \in Requests, requests'[s] # None
        PROVE  Carries(requests[s])' /\ Checked(requests[s])'
    BY <1>2 DEF Inv, TypeOK, Sound, Advance, Carries, Checked, Drawn
  <1> QED
    BY <1>1, <1>2 DEF Sound, Carries, Checked, Drawn

----------------------------------------------------------------------------
(* What a tab and the browser take from an answer.                          *)
LEMMA StateIsKnown ==
    ASSUME Inv, NEW q \in Request, Carries(q), Checked(q), q.pc = "answered", q.tab \in Tabs
    PROVE  StateAfter(q) \in Tab /\ TabKnows(StateAfter(q))
  <1>1. CASE q.kind \in {"me", "login"} /\ q.code = 200
    <2>1. q.session \in Tokens /\ q.session \in Drawn /\ owners[q.session] \in Users
      BY <1>1, DrawnAreTokens DEF Inv, Carries, Checked
    <2>2. StateAfter(q) = TabState("authenticated", owners[q.session], q.session)
      BY <1>1 DEF StateAfter
    <2> QED
      BY <2>1, <2>2 DEF TabState, Tab, TabKnows
  <1>2. CASE ~(q.kind \in {"me", "login"} /\ q.code = 200)
    <2>1. StateAfter(q) \in {TabState("anonymous", None, None), tabs[q.tab]}
      BY <1>2 DEF StateAfter
    <2>2. TabState("anonymous", None, None) \in Tab /\ TabKnows(TabState("anonymous", None, None))
      BY DEF TabState, Tab, TabKnows
    <2>3. tabs[q.tab] \in Tab /\ TabKnows(tabs[q.tab])
      BY DEF Inv, TypeOK, Knowing
    <2> QED
      BY <2>1, <2>2, <2>3
  <1> QED
    BY <1>1, <1>2

LEMMA CookieIsDrawn ==
    ASSUME Inv, NEW q \in Request, Carries(q), Checked(q), q.pc = "answered"
    PROVE  CookieAfter(q) \in Drawn \cup {None}
  BY DEF Inv, TypeOK, Carries, Checked, CookieAfter, Drawn

(* A new request carries what its tab knows. *)
LEMMA FetchIsSound ==
    ASSUME Inv, NEW r \in Requests, NEW t \in Tabs, NEW from \in Tab, TabKnows(from),
           NEW kind \in Safe \cup Unsafe, NEW user \in Users \cup {None},
           kind = "login" => user \in Users
    PROVE  /\ Fetch(r, t, from, kind, user) \in Request
           /\ Carries(Fetch(r, t, from, kind, user)) /\ Checked(Fetch(r, t, from, kind, user))
  <1>1. from.user \in Users \cup {None} /\ from.csrf \in Tokens \cup {None}
    BY DEF Tab
  <1>2. cookie \in Tokens \cup {None} /\ cookie \in Drawn \cup {None}
    BY DrawnAreTokens DEF Inv, TypeOK, Drawn
  <1>3. Fetch(r, t, from, kind, user) \in Request
    BY <1>1, <1>2 DEF Fetch, Request
  <1> QED
    BY <1>2, <1>3 DEF Fetch, Carries, Checked, TabKnows

----------------------------------------------------------------------------
LEMMA InitInv == Init => Inv
  <1> SUFFICES ASSUME Init PROVE Inv
    OBVIOUS
  <1>1. TypeOK
    BY SessionAssumption DEF Init, TypeOK, TabState, Tab
  <1> QED
    BY <1>1 DEF Init, Inv, LoggedOutStaysOut, Knowing, TabKnows, TabState, Sound

LEMMA OpenKeepsInv ==
    ASSUME Inv, NEW r \in Requests, NEW t \in Tabs, Open(t, r)
    PROVE  Inv'
  <1> DEFINE fresh == TabState("loading", None, None)
  <1>1. fresh \in Tab /\ TabKnows(fresh)
    BY DEF TabState, Tab, TabKnows
  <1>2. tabs' = [tabs EXCEPT ![t] = fresh] /\ tabs'[t] = fresh
    BY DEF Open, Inv, TypeOK
  <1> DEFINE me == Fetch(r, t, tabs'[t], "me", None)
  <1>3. me \in Request /\ Carries(me) /\ Checked(me)
    BY <1>1, <1>2, FetchIsSound DEF Safe
  <1>4. ASSUME NEW s \in Requests, requests'[s] # None
        PROVE  requests'[s] \in Request /\ Carries(requests'[s]) /\ Checked(requests'[s])
    <2>1. CASE s = r
      BY <2>1, <1>3 DEF Open
    <2>2. CASE s # r
      <3>1. requests[s] \in Request /\ Carries(requests[s]) /\ Checked(requests[s])
        BY <2>2, <1>4 DEF Open, Inv, TypeOK, Sound
      <3>2. requests'[s] \in {requests[s], [requests[s] EXCEPT !.tab = None]}
        BY <2>2 DEF Open
      <3>3. [requests[s] EXCEPT !.tab = None] \in Request
        BY <3>1, TabOfRequest
      <3> QED
        BY <3>1, <3>2, <3>3 DEF Carries, Checked, Request
    <2> QED
      BY <2>1, <2>2
  <1>5. requests' \in [Requests -> Request \cup {None}]
    BY <1>4 DEF Open
  <1>6. TypeOK'
    BY <1>1, <1>2, <1>5 DEF Inv, TypeOK, Open, table
  <1>7. LoggedOutStaysOut'
    BY DEF Inv, LoggedOutStaysOut, Open, table
  <1>8. Knowing'
    BY <1>1, <1>2 DEF Inv, TypeOK, Knowing, TabKnows, Drawn, Open, table
  <1>9. Sound'
    <2>1. ASSUME NEW s \in Requests, requests'[s] # None
          PROVE  Carries(requests'[s]) /\ Checked(requests'[s])
      BY <1>4, <2>1
    <2>2. owners' = owners
      BY DEF Open, table
    <2> QED
      BY <2>1, <2>2 DEF Sound, Carries, Checked, Drawn
  <1> QED
    BY <1>6, <1>7, <1>8, <1>9 DEF Inv

(* A step of one request that changes nothing but the request. *)
LEMMA RequestStepKeepsInv ==
    ASSUME Inv, NEW r \in Requests, NEW q \in Request \cup {None}, Advance(r, q),
           q # None => Carries(q) /\ Checked(q), UNCHANGED <<clock, table, browser, loggedOut>>
    PROVE  Inv'
  <1>1. requests' \in [Requests -> Request \cup {None}] /\ Sound'
    BY OneRequest DEF table
  <1> QED
    BY <1>1 DEF Inv, TypeOK, LoggedOutStaysOut, Knowing, TabKnows, Drawn, table, browser

LEMMA SendKeepsInv ==
    ASSUME Inv, NEW r \in Requests, NEW t \in Tabs, NEW kind \in Safe \cup Unsafe,
           NEW user \in Users \cup {None}, kind = "login" => user \in Users,
           Send(r, t, kind, user)
    PROVE  Inv'
  <1>1. tabs[t] \in Tab /\ TabKnows(tabs[t])
    BY DEF Inv, TypeOK, Knowing
  <1> DEFINE q == Fetch(r, t, tabs[t], kind, user)
  <1>2. q \in Request /\ Carries(q) /\ Checked(q)
    BY <1>1, FetchIsSound
  <1>3. Advance(r, q) /\ UNCHANGED <<clock, table, browser, loggedOut>>
    BY DEF Send, Advance
  <1> HIDE DEF q
  <1> QED
    BY <1>2, <1>3, RequestStepKeepsInv

LEMMA ResolveKeepsInv ==
    ASSUME Inv, NEW r \in Requests, Resolve(r)
    PROVE  Inv'
  <1> DEFINE q == requests[r]
  <1>1. q \in Request /\ q # None /\ Carries(q) /\ Checked(q) /\ q.pc = "sent" /\ TypeOK
    BY DEF Resolve, At, Inv, TypeOK, Sound
  <1>2. UNCHANGED <<clock, table, browser, loggedOut>>
    BY DEF Resolve
  <1>3. CASE Advance(r, Passed(q, None))
    BY <1>1, <1>2, <1>3, PassedIsSound, RequestStepKeepsInv
  <1>4. CASE q.cookie \in DOMAIN expires /\ Advance(r, Passed(q, q.cookie))
    <2>1. q.cookie \in Drawn \cup {None}
      BY <1>1 DEF Carries
    <2> HIDE DEF q
    <2> QED
      BY <2>1, <1>1, <1>2, <1>4, PassedIsSound, RequestStepKeepsInv
  <1>5. CASE Advance(r, [q EXCEPT !.pc = "refresh", !.until = clock + Ttl])
    <2> DEFINE p == [q EXCEPT !.pc = "refresh", !.until = clock + Ttl]
    <2>1. clock + Ttl \in Nat
      BY <1>1, SessionAssumption DEF TypeOK
    <2>2. p \in Request
      BY <1>1, <2>1, Refreshing
    <2>3. Carries(p) /\ Checked(p)
      BY <1>1, <2>2 DEF Carries, Checked, Request
    <2> HIDE DEF p
    <2> QED
      BY <1>2, <1>5, <2>2, <2>3, RequestStepKeepsInv DEF p
  <1> QED
    BY <1>3, <1>4, <1>5 DEF Resolve

LEMMA HandleKeepsInv ==
    ASSUME Inv, NEW r \in Requests, Handle(r) \/ LoginRejected(r)
    PROVE  Inv'
  <1> DEFINE q == requests[r]
  <1>1. q \in Request /\ q # None /\ Carries(q) /\ Checked(q) /\ q.pc = "handle"
    BY DEF Handle, LoginRejected, At, Inv, TypeOK, Sound
  <1>2. PICK code \in {200, 401} : /\ Advance(r, Answered(q, code))
                                   /\ code = 200 => q.session # None
    BY DEF Handle, LoginRejected
  <1>3. UNCHANGED <<clock, table, browser, loggedOut>>
    BY DEF Handle, LoginRejected
  <1> DEFINE p == Answered(q, code)
  <1>4. p \in Request /\ Carries(p) /\ Checked(p)
    BY <1>1, <1>2, AnsweredIsRequest DEF Carries, Checked
  <1> HIDE DEF p
  <1> QED
    BY <1>2, <1>3, <1>4, RequestStepKeepsInv DEF p

(* A refresh writes to a row that is there or to none. *)
LEMMA RefreshKeepsInv ==
    ASSUME Inv, NEW r \in Requests, Refresh(r)
    PROVE  Inv'
  <1> DEFINE q == requests[r]
  <1>1. q \in Request /\ q # None /\ Carries(q) /\ Checked(q) /\ q.pc = "refresh" /\ TypeOK
    BY DEF Refresh, At, Inv, TypeOK, Sound
  <1>2. PICK p \in Request : Advance(r, p) /\ Carries(p) /\ Checked(p)
    <2>1. CASE q.cookie \in DOMAIN expires
      <3>1. q.cookie \in Drawn \cup {None}
        BY <1>1 DEF Carries
      <3>2. Advance(r, Passed(q, q.cookie))
        BY <2>1 DEF Refresh
      <3> HIDE DEF q
      <3> QED
        BY <3>1, <3>2, <1>1, PassedIsSound
    <2>2. CASE q.cookie \notin DOMAIN expires
      <3>1. Advance(r, Answered(q, 500))
        BY <2>2 DEF Refresh, Answered
      <3>2. Answered(q, 500) \in Request /\ Carries(Answered(q, 500)) /\ Checked(Answered(q, 500))
        BY <1>1, AnsweredIsRequest DEF Carries, Checked
      <3> QED
        BY <3>1, <3>2
    <2> QED
      BY <2>1, <2>2
  <1>3. requests' \in [Requests -> Request \cup {None}] /\ Sound'
    BY <1>2, OneRequest DEF Refresh
  <1>4. DOMAIN expires' = DOMAIN expires /\ expires' \in [DOMAIN expires -> Nat]
    <2>1. q.until \in Nat /\ expires \in [DOMAIN expires -> Nat]
      BY <1>1 DEF TypeOK, Request
    <2>2. expires' \in {expires, [expires EXCEPT ![q.cookie] = q.until]}
      BY DEF Refresh
    <2> HIDE DEF q
    <2> QED
      BY <2>1, <2>2
  <1>5. UNCHANGED <<clock, owners, browser, loggedOut>>
    BY DEF Refresh
  <1> QED
    BY <1>3, <1>4, <1>5 DEF Inv, TypeOK, LoggedOutStaysOut, Knowing, TabKnows, Drawn, browser

LEMMA LogoutKeepsInv ==
    ASSUME Inv, NEW r \in Requests, Logout(r)
    PROVE  Inv'
  <1> DEFINE q == requests[r]
  <1>1. q \in Request /\ q # None /\ Carries(q) /\ Checked(q) /\ q.pc = "handle" /\ q.kind = "logout"
    BY DEF Logout, At, Inv, TypeOK, Sound
  <1>2. Answered(q, 200) \in Request /\ Carries(Answered(q, 200)) /\ Checked(Answered(q, 200))
    BY <1>1, AnsweredIsRequest DEF Carries, Checked
  <1>3. requests' \in [Requests -> Request \cup {None}] /\ Sound'
    BY <1>2, OneRequest DEF Logout
  <1>4. /\ DOMAIN expires' = DOMAIN expires \ {q.cookie}
        /\ expires' \in [DOMAIN expires' -> Nat]
        /\ loggedOut' = loggedOut \cup ({q.cookie} \ {None})
        /\ q.cookie \in Drawn \cup {None}
    BY <1>1 DEF Logout, Carries, Inv, TypeOK
  <1>5. UNCHANGED <<clock, owners, browser>>
    BY DEF Logout
  <1> HIDE DEF q
  <1> QED
    BY <1>3, <1>4, <1>5 DEF Inv, TypeOK, LoggedOutStaysOut, Knowing, TabKnows, Drawn, browser

(* A login draws a new token, and says nothing about the old ones. *)
LEMMA LoginKeepsInv ==
    ASSUME Inv, NEW r \in Requests, Login(r)
    PROVE  Inv'
  <1> DEFINE q == requests[r]
             token == Len(owners')
             done == [Answered(q, 200) EXCEPT !.session = token]
  <1>1. /\ q \in Request /\ q # None /\ Carries(q) /\ Checked(q)
        /\ q.pc = "handle" /\ q.kind = "login"
    BY DEF Login, At, Inv, TypeOK, Sound
  <1>2. q.user \in Users /\ owners \in Seq(Users) /\ owners' = Append(owners, q.user)
    BY <1>1 DEF Checked, Login, Inv, TypeOK
  <1>3. /\ owners' \in Seq(Users) /\ token = Len(owners) + 1
        /\ Drawn' = Drawn \cup {token} /\ token \notin Drawn /\ token \in Tokens
        /\ \A t \in Drawn : owners'[t] = owners[t]
    BY <1>2 DEF Drawn, Tokens
  <1>4. done \in Request
    <2>1. Answered(q, 200) \in Request
      BY <1>1, AnsweredIsRequest
    <2>2. ASSUME NEW p \in Request
          PROVE  [p EXCEPT !.session = token] \in Request
      BY <1>3 DEF Request
    <2> QED
      BY <2>1, <2>2
  <1>5. Carries(requests[r])' /\ Checked(requests[r])'
    <2>0. requests'[r] = done
      BY DEF Login, Advance, Inv, TypeOK
    <2>1. /\ done.pc = "answered" /\ done.session = token
          /\ \A f \in {"kind", "by", "user", "cookie", "csrf"} : done[f] = q[f]
      BY <1>1, <1>4, AnsweredIsRequest DEF Request
    <2> HIDE DEF done, q, token
    <2>2. token # None
      BY <1>3, SessionAssumption DEF Tokens
    <2>3. \A f \in {"kind", "by", "user", "cookie", "csrf"} : requests'[r][f] = q[f]
      BY <2>0, <2>1
    <2>4. requests'[r].pc = "answered" /\ requests'[r].session = token
      BY <2>0, <2>1
    <2> HIDE DEF done, q, token
    <2>5. Carries(requests[r])'
      BY <1>1, <1>3, <2>2, <2>3, <2>4 DEF Carries
    <2>6. Checked(requests[r])'
      BY <1>1, <1>2, <2>2, <2>3, <2>4 DEF Checked
    <2> QED
      BY <2>5, <2>6
  <1>6. ASSUME NEW s \in Requests, requests'[s] # None
        PROVE  /\ requests'[s] \in Request
               /\ Carries(requests[s])' /\ Checked(requests[s])'
    <2>1. CASE s = r
      BY <2>1, <1>4, <1>5 DEF Login, Advance, Inv, TypeOK
    <2>2. CASE s # r
      <3>1. requests'[s] = requests[s]
        BY <2>2 DEF Login, Advance, Inv, TypeOK
      <3>2. requests[s] \in Request /\ Carries(requests[s]) /\ Checked(requests[s])
        BY <1>6, <3>1 DEF Inv, TypeOK, Sound
      <3> HIDE DEF done, q, token
      <3> QED
        BY <1>3, <3>1, <3>2 DEF Carries, Checked
    <2> QED
      BY <2>1, <2>2
  <1>7. requests' \in [Requests -> Request \cup {None}] /\ Sound'
    BY <1>6 DEF Login, Advance, Inv, TypeOK, Sound
  <1>8. /\ DOMAIN expires' = DOMAIN expires \cup {token}
        /\ expires' \in [DOMAIN expires' -> Nat]
    BY SessionAssumption DEF Login, Inv, TypeOK
  <1>9. UNCHANGED <<clock, browser, loggedOut>>
    BY DEF Login
  <1> HIDE DEF done, q, token
  <1>10. TypeOK'
    BY <1>3, <1>7, <1>8, <1>9 DEF Inv, TypeOK, Drawn, browser
  <1>11. LoggedOutStaysOut'
    BY <1>3, <1>8, <1>9 DEF Inv, TypeOK, LoggedOutStaysOut, Drawn
  <1>12. Knowing'
    BY <1>3, <1>9 DEF Inv, Knowing, TabKnows, browser
  <1> QED
    BY <1>7, <1>10, <1>11, <1>12 DEF Inv

(* An answer, or its loss, reaches the tab that asked and the cookie. *)
LEMMA AnswerKeepsInv ==
    ASSUME Inv, NEW r \in Requests, Answer(r) \/ Fails(r)
    PROVE  Inv'
  <1> DEFINE q == requests[r]
  <1>1. q \in Request /\ q # None /\ Carries(q) /\ Checked(q) /\ TypeOK
    BY DEF Answer, Fails, At, Inv, TypeOK, Sound
  <1>2. PICK p \in Request :
            /\ Carries(p) /\ Checked(p) /\ p.pc = "answered"
            /\ cookie' \in {cookie, CookieAfter(p)}
            /\ \/ tabs' = tabs
               \/ p.tab \in Tabs /\ tabs' = [tabs EXCEPT ![p.tab] = StateAfter(p)]
    <2>1. CASE Answer(r)
      <3>1. q.pc = "answered" /\ q.tab \in Tabs \cup {None}
        BY <1>1, <2>1 DEF Answer, At, Request
      <3> QED
        BY <1>1, <2>1, <3>1 DEF Answer
    <2>2. CASE Fails(r)
      <3> DEFINE lost == Answered(q, 0)
      <3>1. lost \in Request /\ lost.pc = "answered" /\ lost.tab = q.tab
        BY <1>1, AnsweredIsRequest
      <3>2. Carries(lost) /\ Checked(lost)
        BY <1>1, AnsweredIsRequest DEF Carries, Checked
      <3>3. q.tab \in Tabs \cup {None}
        BY <1>1 DEF Request
      <3>4. cookie' = cookie /\ tabs' = IF q.tab = None THEN tabs
                                        ELSE [tabs EXCEPT ![q.tab] = StateAfter(lost)]
        BY <2>2 DEF Fails
      <3> HIDE DEF lost, q
      <3> QED
        BY <3>1, <3>2, <3>3, <3>4
    <2> QED
      BY <2>1, <2>2
  <1>3. cookie' \in Drawn \cup {None}
    BY <1>1, <1>2, CookieIsDrawn DEF TypeOK, Drawn
  <1>4. p.tab \in Tabs => StateAfter(p) \in Tab /\ TabKnows(StateAfter(p))
    BY <1>2, StateIsKnown
  <1>5. Advance(r, None) /\ UNCHANGED <<clock, table, loggedOut>>
    BY DEF Answer, Fails
  <1>6. requests' \in [Requests -> Request \cup {None}] /\ Sound'
    BY <1>5, OneRequest DEF table
  <1>7. TypeOK'
    BY <1>2, <1>3, <1>4, <1>5, <1>6 DEF TypeOK, Inv, Drawn, table
  <1>8. Knowing'
    BY <1>2, <1>4, <1>5 DEF Inv, TypeOK, Knowing, TabKnows, Drawn, table
  <1> QED
    BY <1>5, <1>6, <1>7, <1>8 DEF Inv, LoggedOutStaysOut, table

----------------------------------------------------------------------------
THEOREM NextKeepsInv == Inv /\ [Next]_vars => Inv'
  <1> SUFFICES ASSUME Inv, [Next]_vars PROVE Inv'
    OBVIOUS
  <1>1. CASE Tick \/ DropCookie \/ UNCHANGED vars
    <2>1. clock' \in Nat /\ cookie' \in {cookie, None}
      BY <1>1 DEF Inv, TypeOK, Tick, DropCookie, vars, browser
    <2>2. UNCHANGED <<table, tabs, requests, loggedOut>>
      BY <1>1 DEF Tick, DropCookie, vars, browser
    <2> QED
      BY <2>1, <2>2 DEF Inv, TypeOK, LoggedOutStaysOut, Knowing, Sound, TabKnows, Carries,
                        Checked, Drawn, table
  <1>2. ASSUME NEW r \in Requests, NEW t \in Tabs,
               \/ Open(t, r)
               \/ \E u \in Users : SignIn(t, r, u)
               \/ \E kind \in {"read", "write", "logout"} : Ask(t, r, kind)
        PROVE  Inv'
    <2>1. CASE Open(t, r)
      BY <2>1, OpenKeepsInv
    <2>2. ASSUME NEW u \in Users, SignIn(t, r, u) PROVE Inv'
      BY <2>2, SendKeepsInv DEF SignIn, Unsafe
    <2>3. ASSUME NEW kind \in {"read", "write", "logout"}, Ask(t, r, kind) PROVE Inv'
      BY <2>3, SendKeepsInv DEF Ask, Safe, Unsafe
    <2> QED
      BY <1>2, <2>1, <2>2, <2>3
  <1>3. ASSUME NEW r \in Requests,
               \/ Resolve(r) \/ Refresh(r) \/ Handle(r) \/ Login(r) \/ LoginRejected(r)
               \/ Logout(r) \/ Answer(r) \/ Fails(r)
        PROVE  Inv'
    BY <1>3, ResolveKeepsInv, RefreshKeepsInv, HandleKeepsInv, LoginKeepsInv, LogoutKeepsInv,
       AnswerKeepsInv
  <1> QED
    BY <1>1, <1>2, <1>3 DEF Next

(* The invariant holds in every reachable state (Session). *)
THEOREM Invariance == Spec => []Inv
  BY InitInv, NextKeepsInv, PTL DEF Spec

(* The tables, the tabs and the requests keep their types, and every token  *)
(* in a cookie or an answer was drawn by a login (create_session).          *)
THEOREM TypeCorrect == Spec => []TypeOK
  <1>1. Inv => TypeOK
    BY DEF Inv
  <1> QED
    BY <1>1, Invariance, PTL

(* No refresh brings a session back that was logged out, however requests   *)
(* overlap (resolve_session, revoke_session).                               *)
THEOREM SessionsStayOut == Spec => []LoggedOutStaysOut
  <1>1. Inv => LoggedOutStaysOut
    BY DEF Inv
  <1> QED
    BY <1>1, Invariance, PTL

(* Every change is made for the account that the page it came from showed,  *)
(* for any number of tabs, logins and requests (_reject_csrf).              *)
THEOREM ChangesAreByShownUser == Spec => []ChangesByShownUser
  <1>1. Inv => ChangesByShownUser
    BY SessionAssumption DEF Inv, TypeOK, Sound, Carries, Checked, ChangesByShownUser, At
  <1> QED
    BY <1>1, Invariance, PTL

=============================================================================
