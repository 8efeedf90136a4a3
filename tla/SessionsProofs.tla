----------------------------- MODULE SessionsProofs ----------------------------
(***************************************************************************)
(* Theorems about Sessions, for any number of tabs and logins, any clock    *)
(* and lifetime of a session, and any complications.                        *)
(***************************************************************************)
EXTENDS Sessions, TLAPS

(* What \div leaves is less than the divisor. *)
LEMMA Division ==
  ASSUME NEW a \in Nat, NEW d \in Nat \ {0}
  PROVE  a \div d \in Nat /\ d * (a \div d) =< a /\ a < d * (a \div d) + d
OBVIOUS

(* A later time is not cut to an earlier second. *)
LEMMA DivisionIsMonotone ==
  ASSUME NEW a \in Nat, NEW b \in Nat, a =< b, NEW d \in Nat \ {0}
  PROVE  a \div d =< b \div d
<1> DEFINE p == a \div d  q == b \div d
<1>1. p \in Nat /\ q \in Nat /\ d * p =< a /\ b < d * q + d
  BY Division
<1> HIDE DEF p, q
<1> SUFFICES ASSUME q + 1 =< p PROVE FALSE
  BY <1>1 DEF p, q
<1>2. d * (q + 1) =< d * p
  BY <1>1
<1>3. d * (q + 1) = d * q + d
  BY <1>1
<1> QED BY <1>1, <1>2, <1>3

(* The row's expiry is not before the cookie's, and is one the type allows. *)
LEMMA Seconds ==
  ASSUME NEW x \in Nat
  PROVE  /\ CutToSecond(x) \in 0 .. x
         /\ RoundToSecond(x) \in Nat /\ CutToSecond(x) =< RoundToSecond(x)
         /\ x > 0 => \E s \in 0 .. x : RoundToSecond(x) = s * TicksPerSecond
<1> DEFINE d == TicksPerSecond  h == d \div 2  p == x \div d  q == (x + h) \div d
<1>1. d \in Nat \ {0}
  BY SessionAssumption
<1>2. h \in Nat /\ 2 * h =< d
  BY <1>1, Division
<1>3. p \in Nat /\ d * p =< x
  BY <1>1, Division
<1>4. q \in Nat /\ d * q =< x + h
  BY <1>1, <1>2, Division
<1>5. p =< q
  BY <1>1, <1>2, DivisionIsMonotone
<1>6. CutToSecond(x) = p * d /\ RoundToSecond(x) = q * d
  BY DEF CutToSecond, RoundToSecond
<1> HIDE DEF d, h, p, q
<1>7. p * d = d * p /\ q * d = d * q /\ d * p =< d * q
  BY <1>1, <1>3, <1>4, <1>5
<1>8. ASSUME x > 0 PROVE q =< x
  <2> SUFFICES ASSUME x + 1 =< q PROVE FALSE
    BY <1>4
  <2>1. d * (x + 1) =< d * q
    BY <1>1, <1>4
  <2>2. d * (x + 1) = d * x + d
    BY <1>1
  <2>3. x =< d * x
    BY <1>1
  <2> QED BY <1>1, <1>2, <1>4, <2>1, <2>2, <2>3
<1>9. x > 0 => q \in 0 .. x /\ RoundToSecond(x) = q * TicksPerSecond
  BY <1>4, <1>6, <1>8 DEF d
<1>10. d * p \in Nat /\ d * q \in Nat
  BY <1>1, <1>3, <1>4
<1> QED BY <1>3, <1>4, <1>6, <1>7, <1>9, <1>10

--------------------------------------------------------------------------------
(* The inductive invariant *)

\* A result in the channel or an answer of "ok" comes from a goroutine that has
\* created its session.
OkIsCreated ==
  \A n \in Logins : done[n] = "ok" \/ answer[n] = "ok" => step[n] = "return"

\* The cookie is the one of a login that was answered.
CookieIsBacked ==
  cookie.login # 0 =>
    step[cookie.login] = "return" /\ cookie.expires = CutToSecond(expiresAt[cookie.login])

\* A session's row lasts at least as long as the cookie that may name it.
RowsOutlastCookies ==
  "restore" \notin may =>
    \A n \in Logins : step[n] = "return" => rows[n] >= CutToSecond(expiresAt[n])

UnderWay(n) == request[n] \in {"sent", "accepted", "refused"}

\* Without a second press, the login a tab has under way is its last one.
LastIsUnderWay ==
  /\ \A n \in Logins : UnderWay(n) => n =< submitted
  /\ "doubleSubmit" \notin may =>
       \A n \in Logins : UnderWay(n) =>
         isLoading[tab[n]] /\ \A m \in n + 1 .. submitted : tab[m] # tab[n]

\* With one tab, a login that may still set the cookie is not waited for by a
\* page on its way out.
LogoutIsAlone ==
  "secondTab" \notin may =>
    /\ \A t \in Tabs \ {FirstTab} : page[t] = "shop"
    /\ \A n \in Logins : UnderWay(n) => tab[n] = FirstTab
    /\ (\E n \in Logins : request[n] \in {"sent", "accepted"}) => page[FirstTab] \in {"shop", "login"}

\* ... and the cookie that was cleared stays so.
ClearedStaysCleared ==
  "secondTab" \notin may =>
    (page[FirstTab] \in {"cookieCleared", "loggedOut"} => cookie.login = 0)

IInv ==
  /\ TypeOK
  /\ OkIsCreated
  /\ CookieIsBacked
  /\ RowsOutlastCookies
  /\ LastIsUnderWay
  /\ LogoutIsAlone
  /\ ClearedStaysCleared

--------------------------------------------------------------------------------
(* IInv holds initially, and every step keeps it: one lemma per action. *)

LEMMA InitIInv == Init => IInv
<1> SUFFICES ASSUME Init PROVE IInv
  OBVIOUS
<1> USE SessionAssumption DEF Init, Call!CallInit
<1>1. TypeOK
  <2>1. cookie \in [login : 0 .. MaxLogins, expires : 0 .. MaxNow + Lifetime]
    BY DEF NoCookie
  <2>2. rows \in [Logins -> {s * TicksPerSecond : s \in 0 .. MaxNow + Lifetime}]
    <3>1. 0 = 0 * TicksPerSecond /\ 0 \in 0 .. MaxNow + Lifetime
      OBVIOUS
    <3> QED BY <3>1
  <2> QED BY <2>1, <2>2 DEF TypeOK, Call!CallTypeOK, Pages
<1>2. OkIsCreated /\ CookieIsBacked /\ RowsOutlastCookies
  BY DEF OkIsCreated, CookieIsBacked, RowsOutlastCookies, NoCookie
<1>3. LastIsUnderWay /\ LogoutIsAlone /\ ClearedStaysCleared
  BY DEF LastIsUnderWay, LogoutIsAlone, ClearedStaysCleared, UnderWay
<1> QED BY <1>1, <1>2, <1>3 DEF IInv

(* The clock is not read by the invariant. *)
LEMMA TickKeeps ==
  ASSUME IInv, Tick PROVE IInv'
<1> USE SessionAssumption DEF IInv, Tick, serverVars, callVars, tabVars, loginVars
<1>1. TypeOK'
  BY DEF TypeOK, Call!CallTypeOK
<1>2. OkIsCreated' /\ CookieIsBacked' /\ RowsOutlastCookies'
  BY DEF OkIsCreated, CookieIsBacked, RowsOutlastCookies, CutToSecond
<1>3. LastIsUnderWay' /\ LogoutIsAlone' /\ ClearedStaysCleared'
  BY DEF LastIsUnderWay, LogoutIsAlone, ClearedStaysCleared, UnderWay
<1> QED BY <1>1, <1>2, <1>3

(* What is inserted at a time is of the type, and lasts as long as the cookie. *)
LEMMA Inserted ==
  ASSUME TypeOK, NEW n \in Logins, Insert(n)
  PROVE  /\ rows' \in [Logins -> {s * TicksPerSecond : s \in 0 .. MaxNow + Lifetime}]
         /\ \A m \in Logins \ {n} : rows'[m] = rows[m]
         /\ now + Lifetime \in 0 .. MaxNow + Lifetime
         /\ rows'[n] >= CutToSecond(now + Lifetime)
<1> DEFINE x == now + Lifetime
<1>1. x \in 0 .. MaxNow + Lifetime /\ x > 0
  BY SessionAssumption DEF TypeOK
<1> HIDE DEF x
<1>2. x \in Nat
  BY <1>1, SessionAssumption
<1>3. RoundToSecond(x) \in Nat /\ CutToSecond(x) \in Nat /\ CutToSecond(x) =< RoundToSecond(x)
  BY <1>2, Seconds
<1>4. PICK s \in 0 .. x : RoundToSecond(x) = s * TicksPerSecond
  BY <1>1, <1>2, Seconds
<1>5. s \in 0 .. MaxNow + Lifetime
  BY <1>1, <1>2, SessionAssumption
<1>6. rows' = [rows EXCEPT ![n] = RoundToSecond(x)]
  BY DEF Insert, x
<1>7. rows' \in [Logins -> {t * TicksPerSecond : t \in 0 .. MaxNow + Lifetime}]
  BY <1>4, <1>5, <1>6 DEF TypeOK
<1>8. rows'[n] = RoundToSecond(x) /\ \A m \in Logins \ {n} : rows'[m] = rows[m]
  BY <1>6 DEF TypeOK
<1> QED BY <1>1, <1>3, <1>7, <1>8 DEF x

(* The steps of a login's goroutine and of WithTimeout leave the browser alone. *)
LEMMA LoginStepKeeps ==
  ASSUME IInv, NEW n \in Logins, LoginStep(n) PROVE IInv'
<1> USE SessionAssumption DEF IInv
<1>1. UNCHANGED <<may, now, cookie, tabVars, loginVars>>
  BY DEF LoginStep
<1>2. LastIsUnderWay' /\ LogoutIsAlone' /\ ClearedStaysCleared'
  BY <1>1 DEF LastIsUnderWay, LogoutIsAlone, ClearedStaysCleared, UnderWay, tabVars, loginVars
<1>3. CASE CheckPassword(n)
  <2> USE <1>3 DEF CheckPassword, callVars
  <2>1. TypeOK'
    BY <1>1 DEF TypeOK, Call!CallTypeOK, tabVars, loginVars
  <2>2. OkIsCreated' /\ CookieIsBacked' /\ RowsOutlastCookies'
    BY <1>1 DEF OkIsCreated, CookieIsBacked, RowsOutlastCookies, CutToSecond, TypeOK
  <2> QED BY <1>2, <2>1, <2>2
<1>4. CASE Create(n)
  <2> USE <1>4 DEF Create, callVars
  <2>1. TypeOK'
    BY <1>1, Inserted DEF TypeOK, Call!CallTypeOK, tabVars, loginVars
  <2>2. \A m \in Logins : step[m] = "return" =>
          m # n /\ step'[m] = "return" /\ expiresAt'[m] = expiresAt[m] /\ rows'[m] = rows[m]
    BY Inserted DEF TypeOK
  <2>3. step'[n] = "return" /\ expiresAt'[n] = now + Lifetime
    BY DEF TypeOK
  <2>4. OkIsCreated'
    BY <2>2 DEF OkIsCreated
  <2>5. CookieIsBacked'
    BY <1>1, <2>2 DEF CookieIsBacked, CutToSecond, TypeOK, Logins
  <2>6. RowsOutlastCookies'
    <3> SUFFICES ASSUME "restore" \notin may, NEW m \in Logins, step'[m] = "return"
                 PROVE  rows'[m] >= CutToSecond(expiresAt'[m])
      BY <1>1 DEF RowsOutlastCookies, CutToSecond
    <3>1. CASE m = n
      BY <3>1, <2>3, Inserted
    <3>2. CASE m # n
      BY <3>2, <2>2 DEF RowsOutlastCookies, TypeOK
    <3> QED BY <3>1, <3>2
  <2> QED BY <1>2, <2>1, <2>4, <2>5, <2>6
<1>5. CASE FnFails(n)
  <2> USE <1>5 DEF FnFails, Call!Send, Call!CanSend
  <2>1. /\ rows' \in [Logins -> {s * TicksPerSecond : s \in 0 .. MaxNow + Lifetime}]
        /\ \A m \in Logins : step[m] = "return" => rows'[m] = rows[m]
    BY Inserted DEF TypeOK
  <2>2. TypeOK'
    BY <1>1, <2>1 DEF TypeOK, Call!CallTypeOK, tabVars, loginVars
  <2>3. OkIsCreated' /\ CookieIsBacked' /\ RowsOutlastCookies'
    BY <1>1, <2>1 DEF OkIsCreated, CookieIsBacked, RowsOutlastCookies, CutToSecond, TypeOK,
                      Call!CallTypeOK
  <2> QED BY <1>2, <2>2, <2>3
<1>6. CASE FnSucceeds(n) \/ DeadlinePasses(n) \/ Answer(n)
  <2> USE <1>6 DEF FnSucceeds, DeadlinePasses, Answer, Call!Send, Call!CanSend, Call!EndContext,
                   Call!ReturnResult, Call!ReturnCtxErr
  <2>1. TypeOK'
    <3>1. Call!CallTypeOK'
      BY DEF TypeOK, Call!CallTypeOK
    <3> QED BY <1>1, <3>1 DEF TypeOK, tabVars, loginVars
  <2>2. OkIsCreated'
    BY DEF OkIsCreated, TypeOK, Call!CallTypeOK
  <2>3. CookieIsBacked' /\ RowsOutlastCookies'
    BY <1>1 DEF CookieIsBacked, RowsOutlastCookies, CutToSecond
  <2> QED BY <1>2, <2>1, <2>2, <2>3
<1> QED BY <1>3, <1>4, <1>5, <1>6 DEF LoginStep

(* A restore forgets the sessions, and the property about them is off. *)
LEMMA RestoreKeeps ==
  ASSUME IInv, Restore PROVE IInv'
<1> USE SessionAssumption DEF IInv, Restore, tabVars, loginVars
<1>1. TypeOK'
  <2>1. rows' \in [Logins -> {s * TicksPerSecond : s \in 0 .. MaxNow + Lifetime}]
    <3>1. 0 = 0 * TicksPerSecond /\ 0 \in 0 .. MaxNow + Lifetime
      OBVIOUS
    <3> QED BY <3>1
  <2>2. Call!CallTypeOK'
    BY DEF TypeOK, Call!CallTypeOK
  <2> QED BY <2>1, <2>2 DEF TypeOK
<1>2. OkIsCreated' /\ CookieIsBacked' /\ RowsOutlastCookies'
  BY DEF OkIsCreated, CookieIsBacked, RowsOutlastCookies, CutToSecond
<1>3. LastIsUnderWay' /\ LogoutIsAlone' /\ ClearedStaysCleared'
  BY DEF LastIsUnderWay, LogoutIsAlone, ClearedStaysCleared, UnderWay
<1> QED BY <1>1, <1>2, <1>3

(* A page that is left takes its logins with it. *)
LEMMA OpenKeeps ==
  ASSUME IInv, NEW t \in Tabs, Open(t) PROVE IInv'
<1> USE SessionAssumption DEF IInv, Open, Abort, serverVars, callVars
<1>1. PICK p \in {"shop", "login", "loggingOut"} : page' = [page EXCEPT ![t] = p]
  BY DEF RootPage
<1>2. TypeOK'
  BY <1>1 DEF TypeOK, Call!CallTypeOK, Pages
<1>3. OkIsCreated' /\ CookieIsBacked' /\ RowsOutlastCookies'
  BY DEF OkIsCreated, CookieIsBacked, RowsOutlastCookies, CutToSecond
<1>4. \A n \in Logins : (request'[n] = request[n] /\ tab[n] # t) \/ request'[n] \in {"over", "unsent"}
  BY DEF TypeOK
<1>5. "secondTab" \notin may => t = FirstTab
  BY DEF Uses
<1>6. LastIsUnderWay' /\ LogoutIsAlone'
  BY <1>1, <1>4, <1>5 DEF LastIsUnderWay, LogoutIsAlone, UnderWay, TypeOK
<1>7. ClearedStaysCleared'
  BY <1>1, <1>5 DEF ClearedStaysCleared, TypeOK
<1> QED BY <1>2, <1>3, <1>6, <1>7

(* A press of the button is the only step that brings a login under way. *)
LEMMA HandleSubmitKeeps ==
  ASSUME IInv, NEW t \in Tabs, HandleSubmit(t) PROVE IInv'
<1> USE SessionAssumption DEF IInv, HandleSubmit
<1>1. submitted' = submitted + 1 /\ submitted' \in Logins
  BY DEF TypeOK, Logins
<1>2. TypeOK'
  <2>1. Call!CallTypeOK'
    BY <1>1 DEF TypeOK, Call!CallTypeOK, Call!StartCall
  <2> QED BY <1>1, <2>1 DEF TypeOK
<1>3. OkIsCreated' /\ CookieIsBacked' /\ RowsOutlastCookies'
  BY DEF OkIsCreated, CookieIsBacked, RowsOutlastCookies, CutToSecond, Call!StartCall
<1>4. /\ \A n \in Logins \ {submitted'} : request'[n] = request[n] /\ tab'[n] = tab[n]
      /\ tab'[submitted'] = t /\ isLoading'[t]
  BY <1>1 DEF TypeOK
<1>5. "secondTab" \notin may => t = FirstTab
  BY DEF LogoutIsAlone
<1>6. LastIsUnderWay'
  <2>1. \A n \in Logins \ {submitted'} : UnderWay(n)' => UnderWay(n) /\ n =< submitted
    BY <1>4 DEF UnderWay, LastIsUnderWay
  <2>2. submitted \in Nat /\ \A n \in Logins : n \in Nat
    BY DEF TypeOK, Logins
  <2>3. \A n \in Logins : UnderWay(n)' => n =< submitted'
    BY <1>1, <2>1, <2>2
  <2>4. ASSUME "doubleSubmit" \notin may, NEW n \in Logins, UnderWay(n)'
        PROVE  isLoading'[tab'[n]] /\ \A m \in n + 1 .. submitted' : tab'[m] # tab'[n]
    <3>1. CASE n = submitted'
      BY <3>1, <1>1, <1>4, <2>2
    <3>2. CASE n # submitted'
      <4>1. UnderWay(n) /\ tab'[n] = tab[n] /\ isLoading[tab[n]]
        BY <2>1, <2>4, <3>2, <1>4 DEF LastIsUnderWay
      <4>2. tab[n] # t /\ tab[n] \in Tabs
        BY <2>4, <4>1 DEF TypeOK
      <4>3. isLoading'[tab[n]]
        BY <4>1, <4>2 DEF TypeOK
      <4>4. ASSUME NEW m \in n + 1 .. submitted' PROVE tab'[m] # tab[n]
        <5>1. CASE m = submitted'
          BY <5>1, <1>4, <4>2
        <5>2. CASE m # submitted'
          <6>1. m \in n + 1 .. submitted /\ m \in Logins \ {submitted'}
            BY <5>2, <1>1, <2>2 DEF Logins
          <6> QED BY <6>1, <4>1, <2>4, <1>4 DEF LastIsUnderWay
        <5> QED BY <5>1, <5>2
      <4> QED BY <4>1, <4>3, <4>4
    <3> QED BY <3>1, <3>2
  <2> QED BY <2>3, <2>4 DEF LastIsUnderWay
<1>7. LogoutIsAlone'
  BY <1>1, <1>4, <1>5 DEF LogoutIsAlone, UnderWay
<1>8. ClearedStaysCleared'
  BY DEF ClearedStaysCleared
<1> QED BY <1>2, <1>3, <1>6, <1>7, <1>8

(* Only an accepted login sets the cookie. *)
LEMMA ReceiveReplyKeeps ==
  ASSUME IInv, NEW n \in Logins, ReceiveReply(n) PROVE IInv'
<1> USE SessionAssumption DEF IInv, ReceiveReply, serverVars, callVars, tabVars
<1>1. \/ cookie' = cookie
      \/ cookie' = [login |-> n, expires |-> CutToSecond(expiresAt[n])] /\ answer[n] = "ok"
  OBVIOUS
<1>2. CutToSecond(expiresAt[n]) \in 0 .. MaxNow + Lifetime
  <2>1. expiresAt[n] \in 0 .. MaxNow + Lifetime
    BY DEF TypeOK
  <2>2. CutToSecond(expiresAt[n]) \in 0 .. expiresAt[n]
    BY <2>1, Seconds
  <2> QED BY <2>1, <2>2
<1>3. TypeOK'
  <2>1. cookie' \in [login : 0 .. MaxLogins, expires : 0 .. MaxNow + Lifetime]
    BY <1>1, <1>2 DEF TypeOK, Logins
  <2> QED BY <2>1 DEF TypeOK, Call!CallTypeOK
<1>4. OkIsCreated' /\ RowsOutlastCookies'
  BY DEF OkIsCreated, RowsOutlastCookies, CutToSecond
<1>5. CookieIsBacked'
  BY <1>1 DEF CookieIsBacked, OkIsCreated, CutToSecond
<1>6. request[n] = "sent" /\ \E r \in {"accepted", "refused"} : request' = [request EXCEPT ![n] = r]
  OBVIOUS
<1>7. LastIsUnderWay' /\ LogoutIsAlone'
  BY <1>6 DEF LastIsUnderWay, LogoutIsAlone, UnderWay, TypeOK
<1>8. ClearedStaysCleared'
  BY DEF ClearedStaysCleared, LogoutIsAlone, UnderWay
<1> QED BY <1>3, <1>4, <1>5, <1>7, <1>8

(* A login that has returned is no longer under way. *)
LEMMA LoginReturnsKeeps ==
  ASSUME IInv, NEW n \in Logins, LoginReturns(n) PROVE IInv'
<1> USE SessionAssumption DEF IInv, LoginReturns, serverVars, callVars
<1>1. TypeOK'
  BY DEF TypeOK, Call!CallTypeOK, Pages
<1>2. OkIsCreated' /\ CookieIsBacked' /\ RowsOutlastCookies'
  BY DEF OkIsCreated, CookieIsBacked, RowsOutlastCookies, CutToSecond
<1>3. \A m \in Logins : UnderWay(m)' => m # n /\ request'[m] = request[m]
  BY DEF UnderWay, TypeOK
<1>4. LastIsUnderWay'
  <2>1. ASSUME "doubleSubmit" \notin may, NEW m \in Logins, UnderWay(m)'
        PROVE  isLoading'[tab[m]] /\ \A k \in m + 1 .. submitted : tab[k] # tab[m]
    <3>1. UnderWay(m) /\ UnderWay(n) /\ m # n
      BY <1>3, <2>1 DEF UnderWay
    <3>2. m =< submitted /\ n =< submitted /\ m \in Nat /\ n \in Nat /\ submitted \in Nat
      BY <3>1 DEF LastIsUnderWay, TypeOK, Logins
    <3>3. m \in n + 1 .. submitted \/ n \in m + 1 .. submitted
      BY <3>1, <3>2
    <3>4. tab[m] # tab[n]
      BY <2>1, <3>1, <3>3 DEF LastIsUnderWay
    <3> QED BY <2>1, <3>1, <3>4 DEF LastIsUnderWay, TypeOK
  <2>2. \A m \in Logins : UnderWay(m)' => m =< submitted
    BY <1>3 DEF LastIsUnderWay, UnderWay
  <2> QED BY <2>1, <2>2 DEF LastIsUnderWay
<1>5. "secondTab" \notin may =>
        tab[n] = FirstTab /\ (request[n] = "accepted" => page[FirstTab] \in {"shop", "login"})
  BY DEF LogoutIsAlone, UnderWay
<1>6. LogoutIsAlone' /\ ClearedStaysCleared'
  BY <1>3, <1>5 DEF LogoutIsAlone, ClearedStaysCleared, UnderWay, TypeOK
<1> QED BY <1>1, <1>2, <1>4, <1>6

(* A logout only ever clears the cookie. *)
LEMMA LogoutKeeps ==
  ASSUME IInv, NEW t \in Tabs, LogoutStep(t) \/ FollowLink(t) PROVE IInv'
<1> USE SessionAssumption
    DEF IInv, LogoutStep, ClearCookie, LogoutReturns, FollowLink, serverVars, callVars, loginVars
<1>1. cookie' \in {cookie, NoCookie}
  OBVIOUS
<1>2. /\ page[t] \in {"loggingOut", "cookieCleared", "loggedOut", "logoutFailed"}
      /\ \E p \in Pages : page' = [page EXCEPT ![t] = p]
  BY DEF Pages, RootPage
<1>3. TypeOK'
  <2>1. cookie' \in [login : 0 .. MaxLogins, expires : 0 .. MaxNow + Lifetime]
    BY <1>1 DEF TypeOK, NoCookie
  <2> QED BY <1>2, <2>1 DEF TypeOK, Call!CallTypeOK
<1>4. OkIsCreated' /\ CookieIsBacked' /\ RowsOutlastCookies'
  BY <1>1 DEF OkIsCreated, CookieIsBacked, RowsOutlastCookies, CutToSecond, NoCookie
<1>5. "secondTab" \notin may => t = FirstTab
  BY <1>2 DEF LogoutIsAlone
<1>6. LastIsUnderWay' /\ LogoutIsAlone'
  BY <1>2, <1>5 DEF LastIsUnderWay, LogoutIsAlone, UnderWay, TypeOK
<1>7. ClearedStaysCleared'
  BY <1>5 DEF ClearedStaysCleared, TypeOK, NoCookie, RootPage
<1> QED BY <1>3, <1>4, <1>6, <1>7

(* Whatever happens, IInv stays true. *)
LEMMA StepIInv == IInv /\ [Next]_vars => IInv'
<1> SUFFICES ASSUME IInv, [Next]_vars PROVE IInv'
  OBVIOUS
<1>1. CASE UNCHANGED vars
  <2> USE <1>1 DEF vars, serverVars, callVars, tabVars, loginVars, IInv
  <2>1. TypeOK'
    BY DEF TypeOK, Call!CallTypeOK
  <2>2. OkIsCreated' /\ CookieIsBacked' /\ RowsOutlastCookies'
    BY DEF OkIsCreated, CookieIsBacked, RowsOutlastCookies, CutToSecond
  <2>3. LastIsUnderWay' /\ LogoutIsAlone' /\ ClearedStaysCleared'
    BY DEF LastIsUnderWay, LogoutIsAlone, ClearedStaysCleared, UnderWay
  <2> QED BY <2>1, <2>2, <2>3
<1>2. CASE Next
  BY <1>2, TickKeeps, RestoreKeeps, LoginStepKeeps, ReceiveReplyKeeps, LoginReturnsKeeps,
     OpenKeeps, HandleSubmitKeeps, LogoutKeeps DEF Next
<1> QED BY <1>1, <1>2

(* ... and so holds in every reachable state. *)
THEOREM Invariance == Spec => []IInv
BY InitIInv, StepIInv, PTL DEF Spec

(* Every variable keeps its type: what TypeOK says of Sessions, cut and rounded *)
(* times included.                                                               *)
THEOREM TypeCorrect == Spec => []TypeOK
<1>1. IInv => TypeOK
  BY DEF IInv
<1> QED BY <1>1, Invariance, PTL

(* The backend accepts every cookie that the browser sends, unless the database *)
(* is restored: whatever the clock, the lifetime of a session and the moment of  *)
(* the login, the rounded expiry of the row is not before the cut one of the     *)
(* cookie.                                                                       *)
THEOREM CookieAccepted == Spec => []CookieIsAccepted
<1>1. IInv => CookieIsAccepted
  <2> SUFFICES ASSUME IInv, "restore" \notin may, HasCookie PROVE Accepted(cookie.login)
    BY DEF CookieIsAccepted, UserAuth
  <2> DEFINE n == cookie.login
  <2>1. n \in Logins /\ step[n] = "return" /\ cookie.expires = CutToSecond(expiresAt[n])
    BY DEF HasCookie, IInv, TypeOK, CookieIsBacked, Logins
  <2>2. rows[n] >= cookie.expires /\ cookie.expires > now
    BY <2>1 DEF HasCookie, IInv, RowsOutlastCookies
  <2>3. now \in Int /\ cookie.expires \in Int
    BY SessionAssumption DEF IInv, TypeOK
  <2>4. rows[n] \in Int
    <3>1. PICK s \in 0 .. MaxNow + Lifetime : rows[n] = s * TicksPerSecond
      BY <2>1 DEF IInv, TypeOK
    <3> QED BY <3>1, SessionAssumption
  <2> QED BY <2>2, <2>3, <2>4 DEF Accepted
<1> QED BY <1>1, Invariance, PTL

(* With one tab, "logged out" on the screen means that there is no cookie.       *)
THEOREM LoggedOut == Spec => []LoggedOutIsOut
<1>1. IInv => LoggedOutIsOut
  BY DEF IInv, ClearedStaysCleared, LoggedOutIsOut, HasCookie
<1> QED BY <1>1, Invariance, PTL

(* Without a second press, no reply but that of the last login of its tab sets   *)
(* the cookie.                                                                   *)
THEOREM LastLoginWins == Spec => CookieOfLastLogin
<1>1. IInv /\ [Next]_vars =>
        [cookie' \in {cookie, NoCookie} \/ "doubleSubmit" \in may
           \/ \A n \in cookie'.login + 1 .. submitted : tab[n] # tab[cookie'.login]]_vars
  <2> SUFFICES ASSUME IInv, Next, "doubleSubmit" \notin may, cookie' \notin {cookie, NoCookie}
               PROVE  \A n \in cookie'.login + 1 .. submitted : tab[n] # tab[cookie'.login]
    OBVIOUS
  <2>1. PICK n \in Logins : ReceiveReply(n)
    BY DEF Next, Tick, Restore, LoginStep, LoginReturns, Open, HandleSubmit, LogoutStep,
           ClearCookie, LogoutReturns, FollowLink
  <2>2. cookie'.login = n /\ UnderWay(n)
    BY <2>1 DEF ReceiveReply, UnderWay
  <2> QED BY <2>2 DEF IInv, LastIsUnderWay
<1> QED BY <1>1, Invariance, PTL DEF Spec, CookieOfLastLogin

================================================================================
