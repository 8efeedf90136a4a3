-------------------------------- MODULE Sessions -------------------------------
(***************************************************************************)
(* Login and logout: the login handler inside WithTimeout, the rows of      *)
(* user_sessions, the browser's cookie jar, and the tabs that share it.     *)
(*                                                                          *)
(* A session is named after the login that created it.  Time counts in      *)
(* ticks, several to the second: MySQL rounds expires_at to a second, the    *)
(* Expires of a cookie is cut to one.                                        *)
(*                                                                          *)
(* Complications a behaviour may have:                                       *)
(*   "doubleSubmit"  the login button is pressed while a login is under way  *)
(*   "secondTab"     more than one tab is used                               *)
(*   "replyLost"     the connection of a login or of a logout breaks         *)
(*   "restore"       the database is restored and the backend restarted      *)
(*   "dayPasses"     a session may expire; without it the clock stands still *)
(***************************************************************************)
EXTENDS Integers

CONSTANTS
  Tabs, FirstTab,
  MaxLogins,       \* bound: logins submitted
  TicksPerSecond,
  Lifetime,        \* sessionDuration in ticks
  MaxNow,          \* bound: the clock
  Conditions       \* the sets of complications that are looked at

ASSUME SessionAssumption ==
  /\ FirstTab \in Tabs
  /\ {MaxLogins, TicksPerSecond, Lifetime} \subseteq Nat \ {0}
  /\ Lifetime % TicksPerSecond = 0
  /\ MaxNow \in Nat

Logins == 1 .. MaxLogins

VARIABLES
  may,        \* the complications of this behaviour
  now,        \* the clock of the server, the database and the browser
  fn, ctx, done, answer,   \* WithTimeout
  step,       \* what the closure of Login does next
  expiresAt,  \* the expiresAt Login returns with the session, 0 before
  rows,       \* user_sessions: the expires_at of each login's row, 0 for none
  cookie,     \* session_id in the cookie jar
  page,       \* what a tab shows; "shop" is any page without login or logout
  isLoading,  \* of the tab's login page
  submitted,  \* number of logins submitted
  tab,        \* the tab a login was submitted in
  request     \* a login's request as the browser sees it

Call == INSTANCE WithTimeout WITH Requests <- Logins

callVars == <<fn, ctx, done, answer>>
serverVars == <<callVars, step, expiresAt, rows>>
tabVars == <<page, isLoading>>
loginVars == <<submitted, tab, request>>
vars == <<may, now, serverVars, cookie, tabVars, loginVars>>

NoCookie == [login |-> 0, expires |-> 0]

Pages ==
  {"shop", "login", "loggingOut", "cookieCleared", "loggedOut", "logoutFailed",
   "logoutHangs"}

TypeOK ==
  /\ may \in Conditions
  /\ now \in 0 .. MaxNow
  /\ Call!CallTypeOK
  /\ step \in [Logins -> {"find", "create", "return"}]
  /\ expiresAt \in [Logins -> 0 .. MaxNow + Lifetime]
  /\ rows \in [Logins -> {s * TicksPerSecond : s \in 0 .. MaxNow + Lifetime}]
  /\ cookie \in [login : 0 .. MaxLogins, expires : 0 .. MaxNow + Lifetime]
  /\ page \in [Tabs -> Pages]
  /\ isLoading \in [Tabs -> BOOLEAN]
  /\ submitted \in 0 .. MaxLogins
  /\ tab \in [Logins -> Tabs]
  /\ request \in [Logins -> {"unsent", "sent", "accepted", "refused", "over"}]

Init ==
  /\ may \in Conditions
  /\ now = 0
  /\ Call!CallInit
  /\ step = [n \in Logins |-> "find"]
  /\ expiresAt = [n \in Logins |-> 0]
  /\ rows = [n \in Logins |-> 0]
  /\ cookie = NoCookie
  /\ page = [t \in Tabs |-> "shop"]
  /\ isLoading = [t \in Tabs |-> FALSE]
  /\ submitted = 0
  /\ tab = [n \in Logins |-> FirstTab]
  /\ request = [n \in Logins |-> "unsent"]

Tick ==
  /\ "dayPasses" \in may
  /\ now < MaxNow
  /\ now' = now + 1
  /\ UNCHANGED <<may, serverVars, cookie, tabVars, loginVars>>

--------------------------------------------------------------------------------
\* The server.

CutToSecond(time) == (time \div TicksPerSecond) * TicksPerSecond
RoundToSecond(time) == CutToSecond(time + TicksPerSecond \div 2)

\* FindByUserName and the comparison of the password succeed.
CheckPassword(n) ==
  /\ fn[n] = "running" /\ step[n] = "find"
  /\ step' = [step EXCEPT ![n] = "create"]
  /\ UNCHANGED <<callVars, expiresAt, rows>>

\* Defect: a column that keeps fractions of a second.
InsertExact(n) == rows' = [rows EXCEPT ![n] = now + Lifetime]

\* The row of login n; the column holds whole seconds.
Insert(n) == rows' = [rows EXCEPT ![n] = RoundToSecond(now + Lifetime)]

\* Defect: expiresAt is returned whatever becomes of the row.
CreateUnchecked(n) ==
  /\ fn[n] = "running" /\ step[n] = "create"
  /\ step' = [step EXCEPT ![n] = "return"]
  /\ expiresAt' = [expiresAt EXCEPT ![n] = now + Lifetime]
  /\ Insert(n) \/ UNCHANGED rows
  /\ UNCHANGED callVars

\* SessionRepo.Create: the INSERT succeeds.
Create(n) ==
  /\ fn[n] = "running" /\ step[n] = "create"
  /\ step' = [step EXCEPT ![n] = "return"]
  /\ expiresAt' = [expiresAt EXCEPT ![n] = now + Lifetime]
  /\ Insert(n)
  /\ UNCHANGED callVars

FnSucceeds(n) ==
  /\ step[n] = "return"
  /\ Call!Send(n, "ok")
  /\ UNCHANGED <<step, expiresAt, rows>>

\* An unknown user, a wrong password or a failed statement; an INSERT that is
\* reported as failed may have created the row.
FnFails(n) ==
  /\ step[n] # "return"
  /\ Call!Send(n, "error")
  /\ \/ step[n] = "create" /\ Insert(n)
     \/ UNCHANGED rows
  /\ UNCHANGED <<step, expiresAt>>

DeadlinePasses(n) == Call!EndContext(n) /\ UNCHANGED <<step, expiresAt, rows>>

Answer(n) ==
  /\ Call!ReturnResult(n) \/ Call!ReturnCtxErr(n)
  /\ UNCHANGED <<step, expiresAt, rows>>

LoginStep(n) ==
  /\ \/ CheckPassword(n) \/ Create(n) \/ FnSucceeds(n) \/ FnFails(n)
     \/ DeadlinePasses(n) \/ Answer(n)
  /\ UNCHANGED <<may, now, cookie, tabVars, loginVars>>

\* The backend is stopped, which breaks its connections, and starts with a
\* database without sessions.
Restore ==
  /\ "restore" \in may
  /\ rows' = [n \in Logins |-> 0]
  /\ fn' = [n \in Logins |-> IF fn[n] = "running" THEN "exited" ELSE fn[n]]
  /\ ctx' = [n \in Logins |-> IF ctx[n] = "live" THEN "ended" ELSE ctx[n]]
  /\ done' = [n \in Logins |-> "empty"]
  /\ answer' = [n \in Logins |-> IF fn[n] # "idle" /\ answer[n] = "none" THEN "error" ELSE answer[n]]
  /\ UNCHANGED <<may, now, step, expiresAt, cookie, tabVars, loginVars>>

\* FindUserBySessionID finds the session of login n.
Accepted(n) == rows[n] > now

--------------------------------------------------------------------------------
\* The browser.

HasCookie == cookie.login # 0 /\ cookie.expires > now

\* UserAuthMiddleware: a cookie, and a session that has not expired.
UserAuth == HasCookie /\ Accepted(cookie.login)

Uses(t) == t = FirstTab \/ "secondTab" \in may

\* The requests of a page that is left are aborted.
Abort(t) ==
  request' = [n \in Logins |-> IF tab[n] = t /\ request[n] # "unsent" THEN "over" ELSE request[n]]

\* RootPage redirects by the presence of the cookie alone.
RootPage == IF HasCookie THEN "shop" ELSE "login"

\* Defect: the requests of the page that is left are still attended to.
OpenKeepingRequests(t) ==
  /\ Uses(t)
  /\ \E p \in {RootPage, "login", "shop", "loggingOut"} : page' = [page EXCEPT ![t] = p]
  /\ isLoading' = [isLoading EXCEPT ![t] = FALSE]
  /\ UNCHANGED <<may, now, serverVars, cookie, loginVars>>

\* An address is entered: the tab loads a new page.  /logout calls
\* clearCookieAction as soon as it is shown.
Open(t) ==
  /\ Uses(t)
  /\ \E p \in {RootPage, "login", "shop", "loggingOut"} : page' = [page EXCEPT ![t] = p]
  /\ isLoading' = [isLoading EXCEPT ![t] = FALSE]
  /\ Abort(t)
  /\ UNCHANGED <<may, now, serverVars, cookie, submitted, tab>>

\* The button is not disabled while isLoading.
HandleSubmit(t) ==
  /\ page[t] = "login"
  /\ isLoading[t] => "doubleSubmit" \in may
  /\ submitted < MaxLogins
  /\ submitted' = submitted + 1
  /\ tab' = [tab EXCEPT ![submitted'] = t]
  /\ request' = [request EXCEPT ![submitted'] = "sent"]
  /\ isLoading' = [isLoading EXCEPT ![t] = TRUE]
  /\ Call!StartCall(submitted')
  /\ UNCHANGED <<may, now, step, expiresAt, rows, cookie, page>>

\* The reply's header reaches the cookie jar before the page's code runs.
ReceiveReply(n) ==
  /\ request[n] = "sent"
  /\ \/ /\ answer[n] = "ok"
        /\ request' = [request EXCEPT ![n] = "accepted"]
        /\ cookie' = [login |-> n, expires |-> CutToSecond(expiresAt[n])]
     \/ /\ answer[n] = "error" \/ "replyLost" \in may
        /\ request' = [request EXCEPT ![n] = "refused"]
        /\ UNCHANGED cookie
  /\ UNCHANGED <<may, now, serverVars, tabVars, submitted, tab>>

\* Defect: isLoading is reset after a success only.
LoginReturnsLoading(n) ==
  /\ request[n] \in {"accepted", "refused"}
  /\ request' = [request EXCEPT ![n] = "over"]
  /\ IF request[n] = "accepted"
     THEN page' = [page EXCEPT ![tab[n]] = "shop"] /\ isLoading' = [isLoading EXCEPT ![tab[n]] = FALSE]
     ELSE UNCHANGED tabVars
  /\ UNCHANGED <<may, now, serverVars, cookie, submitted, tab>>

\* router.push or the error message, then the finally block.
LoginReturns(n) ==
  /\ request[n] \in {"accepted", "refused"}
  /\ request' = [request EXCEPT ![n] = "over"]
  /\ page' = IF request[n] = "accepted" THEN [page EXCEPT ![tab[n]] = "shop"] ELSE page
  /\ isLoading' = [isLoading EXCEPT ![tab[n]] = FALSE]
  /\ UNCHANGED <<may, now, serverVars, cookie, submitted, tab>>

ClearCookie(t) ==
  /\ page[t] = "loggingOut"
  /\ cookie' = NoCookie
  /\ page' = [page EXCEPT ![t] = "cookieCleared"]
  /\ UNCHANGED <<may, now, serverVars, isLoading, loginVars>>

\* Defect: result.success is not looked at.
LogoutReturnsUnchecked(t) ==
  /\ page[t] \in {"loggingOut", "cookieCleared"}
  /\ page' = [page EXCEPT ![t] = "loggedOut"]
  /\ UNCHANGED <<may, now, serverVars, cookie, isLoading, loginVars>>

\* Defect: setError is not called.
LogoutReturnsSilently(t) ==
  /\ \/ page[t] = "cookieCleared" /\ page' = [page EXCEPT ![t] = "loggedOut"]
     \/ page[t] = "loggingOut" /\ page' = [page EXCEPT ![t] = "logoutHangs"]
  /\ UNCHANGED <<may, now, serverVars, cookie, isLoading, loginVars>>

\* The action's result; when the call itself fails nobody catches the error.
LogoutReturns(t) ==
  /\ \/ page[t] = "cookieCleared" /\ page' = [page EXCEPT ![t] = "loggedOut"]
     \/ page[t] = "loggingOut" /\ page' = [page EXCEPT ![t] = "logoutFailed"]
     \/ page[t] = "loggingOut" /\ "replyLost" \in may /\ page' = [page EXCEPT ![t] = "logoutHangs"]
  /\ UNCHANGED <<may, now, serverVars, cookie, isLoading, loginVars>>

\* The links of the logout page, which do not load a new document.
FollowLink(t) ==
  /\ \/ page[t] = "loggedOut" /\ page' = [page EXCEPT ![t] = "login"]
     \/ page[t] = "logoutFailed" /\ page' = [page EXCEPT ![t] = RootPage]
  /\ UNCHANGED <<may, now, serverVars, cookie, isLoading, loginVars>>

LogoutStep(t) == ClearCookie(t) \/ LogoutReturns(t)

Next ==
  \/ Tick
  \/ Restore
  \/ \E n \in Logins : LoginStep(n) \/ ReceiveReply(n) \/ LoginReturns(n)
  \/ \E t \in Tabs : Open(t) \/ HandleSubmit(t) \/ LogoutStep(t) \/ FollowLink(t)

\* Deadlines pass, a ready select proceeds, replies arrive and are handled; the
\* goroutine may hang.
Fairness ==
  /\ \A n \in Logins :
       /\ WF_vars(DeadlinePasses(n) /\ UNCHANGED <<may, now, cookie, tabVars, loginVars>>)
       /\ WF_vars(Answer(n) /\ UNCHANGED <<may, now, cookie, tabVars, loginVars>>)
       /\ WF_vars(ReceiveReply(n))
       /\ WF_vars(LoginReturns(n))
  /\ \A t \in Tabs : WF_vars(LogoutStep(t))

Spec == Init /\ [][Next]_vars /\ Fairness

--------------------------------------------------------------------------------

(* A cookie the browser still sends names a session the backend still accepts: *)
(* the row exists before the cookie and outlives it, although one expiry is    *)
(* rounded to the second and the other cut.  A restored database forgets.      *)
CookieIsAccepted ==
  "restore" \notin may => (HasCookie => UserAuth)

(* Whoever has just been told that a login succeeded, or tried one more, does  *)
(* not end up in the session of an earlier attempt: the late reply of a login  *)
(* that was left never reaches the cookie jar.  Only a second press of the      *)
(* button, or another tab, can bring the reply of an earlier login after it.    *)
CookieOfLastLogin ==
  [][cookie' \in {cookie, NoCookie} \/ "doubleSubmit" \in may
       \/ \A n \in cookie'.login + 1 .. submitted : tab[n] # tab[cookie'.login]]_vars

(* "Logged out" on the screen: the browser has no session, whatever logins were *)
(* under way before, as long as no other tab logs in.                          *)
LoggedOutIsOut ==
  "secondTab" \notin may => (page[FirstTab] = "loggedOut" => ~HasCookie)

(* A login that is under way ends, with a hanging database and with a lost     *)
(* connection too: the page does not stay at "logging in".                     *)
LoginEnds == \A t \in Tabs : isLoading[t] ~> ~isLoading[t]

(* A logout ends with one of its two messages: a tab is not left for good at  *)
(* "loggingOut", unless its user reloads it again and again.                *)
LogoutEnds ==
  "replyLost" \notin may =>
    \A t \in Tabs :
      []<>(page[t] \notin {"loggingOut", "cookieCleared", "logoutHangs"}) \/ []<><<Open(t)>>_vars
================================================================================
