---------------------------- MODULE PagesProofs ----------------------------
(***************************************************************************)
(* Proofs about what is kept of pages and accounts: signing in (attempts,  *)
(* sessions and redirects), the alerts raised from what the pages told     *)
(* (what they count, their level, their episodes), the reading of a page   *)
(* (requests, the rules of its site and their cache), the catalogue of     *)
(* competitors and URLs, AI connections and the mail account.              *)
(***************************************************************************)
EXTENDS SignIn, AlertRaise, PageFetch, Catalogue, Connections, MailAccount, FiniteSetTheorems, TLAPS

-----------------------------------------------------------------------------
(* Signing in: types.                                                      *)
SessionRow == [state : {"none", "active", "revoked"}, expires : Nat, seen : -1..MaxHours]
BrowserRow == [at : {"away", "app", "login", "expired"}, go : Nat]
UnderWay == [by : Browsers, unread : BOOLEAN]
CounterRow == [count : Nat, until : 0..(MaxHours + LoginWindow)]

SignInTyped ==
  /\ session \in [Sessions -> SessionRow] /\ cookie \in [Browsers -> Sessions \cup {NoSession}]
  /\ browser \in [Browsers -> BrowserRow] /\ trying \in [Checks -> {Free} \cup UnderWay]
  /\ counter \in [Counters -> CounterRow]
  /\ redis \in BOOLEAN /\ hour \in 0..MaxHours /\ used \in [Sessions -> -1..MaxHours]
  /\ wrong \in [Counters -> Nat] /\ ended \subseteq Sessions

(* What a step may do to a session: close it, use it, or open a new one.   *)
SessionCloses(s) ==
  /\ session'[s].expires = session[s].expires /\ session'[s].seen = session[s].seen /\ used'[s] = used[s]
  /\ session'[s].state \in {session[s].state, "none", "revoked"}
  /\ s \in ended' => s \in ended \/ (session'[s].state = "revoked" /\ session[s].state = "active")
SessionUsed(s) ==
  /\ session[s].state = "active" /\ session'[s].state = "active"
  /\ session'[s].expires = session[s].expires
  /\ used'[s] = hour /\ (s \in ended' => s \in ended)
  /\ session'[s].seen = hour \/ (session'[s].seen = session[s].seen /\ hour - session[s].seen <= TouchEvery)
SessionOpens(s) ==
  /\ session[s] = NoRow /\ session'[s].seen = hour /\ used'[s] = hour /\ (s \in ended' => s \in ended)
SessionMoves(s) == SessionCloses(s) \/ SessionUsed(s) \/ SessionOpens(s)

LEMMA TouchedEffect ==
  ASSUME SignInTyped, NEW s \in Sessions
  PROVE  /\ Touched(s) \in [Sessions -> SessionRow]
         /\ \A t \in Sessions \ {s} : Touched(s)[t] = session[t]
         /\ Touched(s)[s].state = session[s].state /\ Touched(s)[s].expires = session[s].expires
         /\ \/ Touched(s)[s].seen = hour
            \/ Touched(s)[s].seen = session[s].seen /\ hour - session[s].seen <= TouchEvery
<1>1. session[s] \in SessionRow /\ hour \in -1..MaxHours
  BY SignInConstants DEF SignInTyped
<1>2. CASE hour - session[s].seen > TouchEvery
  <2>1. Touched(s) = [session EXCEPT ![s].seen = hour]
    BY <1>2 DEF Touched
  <2>2. [session[s] EXCEPT !.seen = hour] \in SessionRow
    BY <1>1 DEF SessionRow
  <2>3. QED
    BY <1>1, <2>1, <2>2 DEF SignInTyped, SessionRow
<1>3. CASE ~(hour - session[s].seen > TouchEvery)
  <2>1. Touched(s) = session
    BY <1>3 DEF Touched
  <2>2. hour - session[s].seen <= TouchEvery
    BY <1>1, <1>3, SignInConstants DEF SessionRow
  <2>3. QED
    BY <2>1, <2>2 DEF SignInTyped
<1>4. QED
  BY <1>2, <1>3

LEMMA RevokedType ==
  ASSUME NEW f \in [Sessions -> SessionRow], NEW K
  PROVE  LET g == [s \in Sessions |-> IF s \in K THEN [f[s] EXCEPT !.state = "revoked"] ELSE f[s]] IN
           /\ g \in [Sessions -> SessionRow]
           /\ \A s \in Sessions :
                g[s].expires = f[s].expires /\ g[s].seen = f[s].seen
                /\ g[s].state = IF s \in K THEN "revoked" ELSE f[s].state
<1>1. \A s \in Sessions : f[s] \in SessionRow
  OBVIOUS
<1>2. \A r \in SessionRow :
        LET q == [r EXCEPT !.state = "revoked"] IN
          q \in SessionRow /\ q.expires = r.expires /\ q.seen = r.seen /\ q.state = "revoked"
  BY DEF SessionRow
<1>3. QED
  BY <1>1, <1>2

LEMMA SessionsMove ==
  ASSUME SignInTyped, [SignInNext]_sVars
  PROVE  /\ session' \in [Sessions -> SessionRow] /\ used' \in [Sessions -> -1..MaxHours]
         /\ ended' \subseteq Sessions
         /\ \/ hour' = hour
            \/ hour < MaxHours /\ hour' = hour + 1 /\ UNCHANGED <<session, cookie, browser, used, ended>>
         /\ \A s \in Sessions : SessionMoves(s)
<1> DEFINE Goal ==
      /\ session' \in [Sessions -> SessionRow] /\ used' \in [Sessions -> -1..MaxHours]
      /\ ended' \subseteq Sessions
      /\ \A s \in Sessions : SessionMoves(s)
<1>0. /\ session \in [Sessions -> SessionRow] /\ used \in [Sessions -> -1..MaxHours] /\ ended \subseteq Sessions
      /\ hour \in -1..MaxHours /\ hour \in Nat /\ cookie \in [Browsers -> Sessions \cup {NoSession}]
  BY SignInConstants DEF SignInTyped
<1>1. ASSUME session' = session, used' = used, ended' = ended
      PROVE  Goal
  BY <1>0, <1>1 DEF SessionMoves, SessionCloses
<1>2. ASSUME NEW c \in Checks, NEW s \in Sessions, RightPassword(c, s)
      PROVE  Goal
  <2> DEFINE r == [state |-> "active", expires |-> hour + Absolute, seen |-> hour]
  <2>1. /\ session[s] = NoRow /\ session' = [Kept EXCEPT ![s] = r]
        /\ used' = [used EXCEPT ![s] = hour] /\ ended' = ended
    BY <1>2 DEF RightPassword
  <2>2. r \in SessionRow /\ r.seen = hour
    BY <1>0, SignInConstants DEF SessionRow
  <2> HIDE DEF r
  <2>3. /\ Kept \in [Sessions -> SessionRow]
        /\ \A t \in Sessions : Kept[t].expires = session[t].expires /\ Kept[t].seen = session[t].seen
                               /\ Kept[t].state \in {session[t].state, "none"}
    <3>1. \A x \in SessionRow :
            LET q == [x EXCEPT !.state = "none"] IN
              q \in SessionRow /\ q.expires = x.expires /\ q.seen = x.seen /\ q.state = "none"
      BY DEF SessionRow
    <3>2. QED
      BY <1>0, <3>1 DEF Kept
  <2>4. SessionOpens(s)
    BY <1>0, <2>1, <2>2, <2>3 DEF SessionOpens
  <2>5. ASSUME NEW t \in Sessions \ {s}
        PROVE  SessionCloses(t)
    BY <1>0, <2>1, <2>3 DEF SessionCloses
  <2>6. QED
    BY <1>0, <2>1, <2>2, <2>3, <2>4, <2>5 DEF SessionMoves
<1>3. ASSUME NEW b \in Browsers, Request(b)
      PROVE  Goal
  <2> DEFINE s == cookie[b]
  <2>1. /\ Accepts(s) /\ session' = Touched(s) /\ used' = [used EXCEPT ![s] = hour] /\ ended' = ended
    BY <1>3 DEF Request
  <2>2. s \in Sessions /\ session[s].state = "active"
    BY <1>0, <2>1 DEF Accepts
  <2>3. SessionUsed(s)
    BY <1>0, <2>1, <2>2, TouchedEffect DEF SessionUsed
  <2>4. ASSUME NEW t \in Sessions \ {s}
        PROVE  SessionCloses(t)
    BY <1>0, <2>1, <2>2, TouchedEffect DEF SessionCloses
  <2>5. QED
    BY <1>0, <2>1, <2>2, <2>3, <2>4, TouchedEffect DEF SessionMoves
<1>4. ASSUME NEW b \in Browsers, LogoutElsewhere(b)
      PROVE  Goal
  <2> DEFINE c == cookie[b]
  <2>1. /\ Accepts(c) /\ used' = [used EXCEPT ![c] = hour] /\ ended' = ended \cup Others(c)
        /\ session' = [s \in Sessions |-> IF s \in Others(c) THEN [session[s] EXCEPT !.state = "revoked"]
                                          ELSE Touched(c)[s]]
    BY <1>4 DEF LogoutElsewhere
  <2>2. c \in Sessions /\ session[c].state = "active"
    BY <1>0, <2>1 DEF Accepts
  <2>3. Others(c) \subseteq Sessions \ {c} /\ \A s \in Others(c) : session[s].state = "active"
    BY DEF Others
  <2> DEFINE f == Touched(c)
  <2>4. f \in [Sessions -> SessionRow] /\ \A s \in Others(c) : f[s] = session[s]
    BY <2>2, <2>3, TouchedEffect
  <2>5. session' = [s \in Sessions |-> IF s \in Others(c) THEN [f[s] EXCEPT !.state = "revoked"] ELSE f[s]]
    BY <2>1, <2>4
  <2>6. /\ session' \in [Sessions -> SessionRow]
        /\ \A s \in Sessions :
             session'[s].expires = f[s].expires /\ session'[s].seen = f[s].seen
             /\ session'[s].state = IF s \in Others(c) THEN "revoked" ELSE f[s].state
    BY <2>4, <2>5, RevokedType
  <2>7. SessionUsed(c)
    BY <1>0, <2>1, <2>2, <2>3, <2>6, TouchedEffect DEF SessionUsed
  <2>8. ASSUME NEW t \in Sessions \ {c}
        PROVE  SessionCloses(t)
    <3>1. f[t] = session[t]
      BY <2>2, TouchedEffect
    <3>2. QED
      BY <1>0, <2>1, <2>3, <2>6, <3>1 DEF SessionCloses
  <2>9. QED
    BY <1>0, <2>1, <2>2, <2>3, <2>6, <2>7, <2>8 DEF SessionMoves
<1>5. ASSUME NEW b \in Browsers, NEW fails \in BOOLEAN, Logout(b, fails)
      PROVE  Goal
  <2>1. used' = used
    BY <1>5 DEF Logout
  <2>2. CASE session' = session /\ ended' = ended
    BY <1>1, <2>1, <2>2
  <2>3. ASSUME NEW K, K = {cookie[b]} \cap {s \in Sessions : session[s].state = "active"}, SignOut(K)
        PROVE  Goal
    <3>1. K \subseteq Sessions /\ \A s \in K : session[s].state = "active"
      BY <2>3
    <3>2. /\ session' = [s \in Sessions |-> IF s \in K THEN [session[s] EXCEPT !.state = "revoked"] ELSE session[s]]
          /\ ended' = ended \cup K
      BY <2>3 DEF SignOut
    <3>3. /\ session' \in [Sessions -> SessionRow]
          /\ \A s \in Sessions :
               session'[s].expires = session[s].expires /\ session'[s].seen = session[s].seen
               /\ session'[s].state = IF s \in K THEN "revoked" ELSE session[s].state
      BY <1>0, <3>2, RevokedType
    <3>4. QED
      BY <1>0, <2>1, <3>1, <3>2, <3>3 DEF SessionMoves, SessionCloses
  <2>4. QED
    BY <1>5, <2>2, <2>3 DEF Logout
<1>6. \/ session' = session /\ used' = used /\ ended' = ended
      \/ \E c \in Checks, s \in Sessions : RightPassword(c, s)
      \/ \E b \in Browsers : \/ Request(b) \/ LogoutElsewhere(b)
                             \/ \E fails \in BOOLEAN : Logout(b, fails)
  BY DEF SignInNext, sVars, TryLogin, WrongPassword, Refused, Load, RedisFails, Hour
<1>7. Goal
  BY <1>1, <1>2, <1>3, <1>4, <1>5, <1>6
<1>8. \/ hour' = hour
      \/ hour < MaxHours /\ hour' = hour + 1 /\ UNCHANGED <<session, cookie, browser, used, ended>>
  BY DEF SignInNext, sVars, TryLogin, WrongPassword, RightPassword, Request, Refused, Load, Logout,
         LogoutElsewhere, RedisFails, Hour
<1>9. QED
  BY <1>7, <1>8

(* A session that is active was touched not long before its last use; one  *)
(* that was ended is not active and not a fresh row.                       *)
SessionInOrder(s) ==
  /\ session[s].seen <= hour /\ used[s] <= hour
  /\ session[s].state = "active" =>
       session[s].seen >= 0 /\ session[s].seen <= used[s] /\ used[s] - session[s].seen <= TouchEvery
  /\ s \in ended => session[s].state # "active" /\ session[s].seen >= 0

LEMMA SessionStep ==
  ASSUME SignInTyped, [SignInNext]_sVars, NEW s \in Sessions, SessionInOrder(s)
  PROVE  SessionInOrder(s)'
<1>1. /\ session[s] \in SessionRow /\ session'[s] \in SessionRow /\ hour \in Nat /\ hour' \in Nat
      /\ hour <= hour' /\ used[s] \in Int /\ used'[s] \in Int /\ SessionMoves(s)
      /\ hour' = hour \/ (session' = session /\ used' = used /\ ended' = ended)
  <2>1. /\ session' \in [Sessions -> SessionRow] /\ used' \in [Sessions -> -1..MaxHours]
        /\ \/ hour' = hour
           \/ hour < MaxHours /\ hour' = hour + 1 /\ UNCHANGED <<session, cookie, browser, used, ended>>
        /\ SessionMoves(s)
    BY SessionsMove
  <2>2. hour \in Nat /\ session[s] \in SessionRow /\ used[s] \in -1..MaxHours
    BY SignInConstants DEF SignInTyped
  <2>3. QED
    BY <2>1, <2>2, SignInConstants
<1>2. CASE session' = session /\ used' = used /\ ended' = ended
  BY <1>1, <1>2 DEF SessionInOrder, SessionRow
<1>3. CASE hour' = hour /\ SessionCloses(s)
  BY <1>1, <1>3 DEF SessionInOrder, SessionRow, SessionCloses
<1>4. CASE hour' = hour /\ SessionUsed(s)
  BY <1>1, <1>4, SignInConstants DEF SessionInOrder, SessionRow, SessionUsed
<1>5. CASE hour' = hour /\ SessionOpens(s)
  <2>1. session[s].seen = -1
    BY <1>5 DEF SessionOpens, NoRow
  <2>2. s \notin ended'
    BY <1>5, <2>1 DEF SessionOpens, SessionInOrder
  <2>3. QED
    BY <1>1, <1>5, <2>2, SignInConstants DEF SessionInOrder, SessionOpens
<1>6. QED
  BY <1>1, <1>2, <1>3, <1>4, <1>5 DEF SessionMoves

(* A browser is sent to the login page with a session that lives only if   *)
(* it has just opened it.                                                  *)
BrowserInOrder(b) ==
  /\ cookie[b] # NoSession => session[cookie[b]].seen >= 0
  /\ browser[b].go <= 4
  /\ browser[b].at = "app" => browser[b].go <= 1
  /\ browser[b].at = "expired" => browser[b].go <= 2
  /\ browser[b].at = "login" => browser[b].go = 0 \/ (~Signed(b) /\ browser[b].go <= 3)

LEMMA OpenedStaysOpened ==
  ASSUME SignInTyped, [SignInNext]_sVars, NEW s \in Sessions, session[s].seen >= 0
  PROVE  /\ session'[s].seen >= 0 /\ session'[s].expires = session[s].expires
<1>1. SessionMoves(s) /\ hour \in Nat
  BY SessionsMove, SignInConstants DEF SignInTyped
<1>2. ~SessionOpens(s)
  <2>1. NoRow.seen = -1
    BY DEF NoRow
  <2>2. QED
    BY <2>1 DEF SessionOpens
<1>3. QED
  BY <1>1, <1>2 DEF SessionMoves, SessionCloses, SessionUsed

(* What a step does to a browser and its cookie.                           *)
LEMMA BrowserMoves ==
  ASSUME SignInTyped, [SignInNext]_sVars, NEW b \in Browsers
  PROVE  \/ browser'[b] = browser[b] /\ cookie'[b] = cookie[b]
         \/ browser'[b] = browser[b] /\ browser[b].at = "away" /\ cookie'[b] = NoSession
         \/ /\ browser'[b].at = browser[b].at /\ browser'[b].go = 0
            /\ cookie'[b] \in Sessions /\ session'[cookie'[b]].seen = hour
         \/ Refused(b) /\ browser'[b].at = "app" /\ browser'[b].go = 0 /\ cookie'[b] = cookie[b]
         \/ Load(b)
<1>0. browser \in [Browsers -> BrowserRow] /\ cookie \in [Browsers -> Sessions \cup {NoSession}]
  BY DEF SignInTyped
<1>1. ASSUME NEW a \in Browsers \ {b}, Refused(a) \/ Load(a) \/ \E fails \in BOOLEAN : Logout(a, fails)
      PROVE  browser'[b] = browser[b] /\ cookie'[b] = cookie[b]
  BY <1>0, <1>1 DEF Refused, Load, Logout
<1>2. ASSUME NEW c \in Checks, NEW s \in Sessions, RightPassword(c, s)
      PROVE  \/ browser'[b] = browser[b] /\ cookie'[b] = cookie[b]
             \/ /\ browser'[b].at = browser[b].at /\ browser'[b].go = 0
                /\ cookie'[b] = s /\ session'[s].seen = hour
  <2> DEFINE a == trying[c].by
  <2>1. /\ browser' = [browser EXCEPT ![a].go = 0] /\ cookie' = [cookie EXCEPT ![a] = s]
        /\ session' = [Kept EXCEPT ![s] = [state |-> "active", expires |-> hour + Absolute, seen |-> hour]]
    BY <1>2 DEF RightPassword
  <2>2. DOMAIN Kept = Sessions
    BY DEF Kept
  <2>3. session'[s].seen = hour
    BY <2>1, <2>2
  <2> HIDE DEF a
  <2>4. CASE a = b
    BY <1>0, <2>1, <2>3, <2>4 DEF BrowserRow
  <2>5. CASE a # b
    BY <1>0, <2>1, <2>5
  <2>6. QED
    BY <2>4, <2>5
<1>3. ASSUME \/ \E c \in Checks : WrongPassword(c) \/ \E a \in Browsers : TryLogin(a, c)
             \/ \E a \in Browsers : Request(a) \/ LogoutElsewhere(a)
             \/ RedisFails \/ Hour \/ UNCHANGED sVars
      PROVE  browser'[b] = browser[b] /\ cookie'[b] = cookie[b]
  BY <1>3 DEF WrongPassword, TryLogin, Request, LogoutElsewhere, RedisFails, Hour, sVars
<1>4. CASE Refused(b)
  BY <1>0, <1>4 DEF Refused
<1>5. ASSUME NEW fails \in BOOLEAN, Logout(b, fails)
      PROVE  browser'[b] = browser[b] /\ cookie'[b] = NoSession /\ browser[b].at = "away"
  BY <1>0, <1>5 DEF Logout
<1>6. \/ \E a \in Browsers : Refused(a) \/ Load(a) \/ \E fails \in BOOLEAN : Logout(a, fails)
      \/ \E c \in Checks, s \in Sessions : RightPassword(c, s)
      \/ \E c \in Checks : WrongPassword(c) \/ \E a \in Browsers : TryLogin(a, c)
      \/ \E a \in Browsers : Request(a) \/ LogoutElsewhere(a)
      \/ RedisFails \/ Hour \/ UNCHANGED sVars
  BY DEF SignInNext
<1>7. QED
  BY <1>1, <1>2, <1>3, <1>4, <1>5, <1>6

LEMMA BrowserStep ==
  ASSUME SignInTyped, [SignInNext]_sVars, NEW b \in Browsers, BrowserInOrder(b)
  PROVE  BrowserInOrder(b)'
<1>1. /\ browser[b] \in BrowserRow /\ browser[b].go \in Nat /\ hour \in Nat /\ cookie[b] \in Sessions \cup {NoSession}
      /\ hour' = hour \/ hour' = hour + 1
  BY SessionsMove, SignInConstants DEF SignInTyped, BrowserRow
<1>2. cookie[b] # NoSession =>
        session'[cookie[b]].seen >= 0 /\ session'[cookie[b]].expires = session[cookie[b]].expires
  BY <1>1, OpenedStaysOpened DEF BrowserInOrder
<1>3. cookie[b] # NoSession => session[cookie[b]].expires \in Nat
  BY <1>1 DEF SignInTyped, SessionRow
<1>4. cookie'[b] = cookie[b] /\ ~Signed(b) => ~Signed(b)'
  BY <1>1, <1>2, <1>3 DEF Signed
<1>5. CASE browser'[b] = browser[b] /\ cookie'[b] = cookie[b]
  BY <1>1, <1>2, <1>4, <1>5 DEF BrowserInOrder
<1>6. CASE browser'[b] = browser[b] /\ browser[b].at = "away" /\ cookie'[b] = NoSession
  BY <1>1, <1>6 DEF BrowserInOrder
<1>7. CASE /\ browser'[b].at = browser[b].at /\ browser'[b].go = 0
           /\ cookie'[b] \in Sessions /\ session'[cookie'[b]].seen = hour
  BY <1>1, <1>7 DEF BrowserInOrder
<1>8. CASE Refused(b) /\ browser'[b].at = "app" /\ browser'[b].go = 0 /\ cookie'[b] = cookie[b]
  BY <1>1, <1>2, <1>8 DEF BrowserInOrder
<1>9. CASE Load(b)
  <2> DEFINE next == CASE browser[b].at = "app" -> IF Signed(b) THEN Layout(b) ELSE "login"
                       [] browser[b].at = "login" -> IF Signed(b) THEN "app" ELSE "away"
                       [] OTHER -> "login"
  <2>1. /\ browser[b].at \in {"app", "login", "expired"}
        /\ browser' = [browser EXCEPT ![b].at = next, ![b].go = browser[b].go + 1]
        /\ cookie' = IF browser[b].at = "expired" THEN [cookie EXCEPT ![b] = NoSession] ELSE cookie
    BY <1>9 DEF Load
  <2>2. browser'[b].at = next /\ browser'[b].go = browser[b].go + 1
    BY <2>1 DEF SignInTyped, BrowserRow
  <2>3. CASE browser[b].at = "app"
    <3>1. next = IF Signed(b) THEN Layout(b) ELSE "login"
      BY <2>3
    <3>2. next \in {"away", "expired"} \/ (next = "login" /\ ~Signed(b))
      BY <3>1 DEF Layout
    <3>3. cookie'[b] = cookie[b] /\ browser'[b].go <= 2
      BY <1>1, <2>1, <2>2, <2>3 DEF BrowserInOrder
    <3>4. QED
      BY <1>1, <1>2, <1>4, <2>2, <3>2, <3>3 DEF BrowserInOrder
  <2>4. CASE browser[b].at = "login"
    <3>1. cookie'[b] = cookie[b]
      BY <2>1, <2>4
    <3>2. CASE Signed(b)
      <4>1. next = "app" /\ browser'[b].go = 1
        BY <1>1, <2>2, <2>4, <3>2 DEF BrowserInOrder
      <4>2. QED
        BY <1>2, <2>2, <3>1, <4>1 DEF BrowserInOrder
    <3>3. CASE ~Signed(b)
      <4>1. next = "away" /\ browser'[b].go <= 4
        BY <1>1, <2>2, <2>4, <3>3 DEF BrowserInOrder
      <4>2. QED
        BY <1>2, <2>2, <3>1, <4>1 DEF BrowserInOrder
    <3>4. QED
      BY <3>2, <3>3
  <2>5. CASE browser[b].at = "expired"
    <3>1. next = "login" /\ browser[b].go <= 2
      BY <2>5 DEF BrowserInOrder
    <3>2. cookie'[b] = NoSession /\ browser'[b].go <= 3 /\ browser'[b].go <= 4
      BY <1>1, <2>1, <2>2, <2>5, <3>1 DEF SignInTyped
    <3>3. QED
      BY <2>2, <3>1, <3>2 DEF BrowserInOrder, Signed
  <2>6. QED
    BY <2>1, <2>3, <2>4, <2>5
<1>10. QED
  BY <1>5, <1>6, <1>7, <1>8, <1>9, BrowserMoves

(* What a step does to the counters, and who was let in by a count.        *)
Counting(k) == {c \in Checks : trying[c] # Free /\ ~trying[c].unread /\ k \in {trying[c].by, Email}}
CountersKept == counter' = counter /\ wrong' = wrong

CountedWrong(c) ==
  /\ trying[c] # Free
  /\ counter' = [k \in Counters |-> IF k \in {trying[c].by, Email} THEN Hit(k) ELSE counter[k]]
  /\ wrong' = [k \in Counters |->
       IF k \in {trying[c].by, Email} THEN (IF Running(k) THEN wrong[k] ELSE 0) + (IF trying[c].unread THEN 0 ELSE 1)
       ELSE wrong[k]]

LEMMA RequestsMove ==
  ASSUME SignInTyped, NEW c \in Checks, NEW r \in {Free} \cup UnderWay, trying' = [trying EXCEPT ![c] = r]
  PROVE  /\ trying' \in [Checks -> {Free} \cup UnderWay]
         /\ \A k : r = Free => Counting(k)' = Counting(k) \ {c}
         /\ \A k : trying[c] = Free /\ k \notin {r.by, Email} => Counting(k)' = Counting(k)
         /\ \A k : trying[c] = Free /\ r.unread => Counting(k)' = Counting(k)
<1>1. /\ trying \in [Checks -> {Free} \cup UnderWay] /\ trying'[c] = r
      /\ \A d \in Checks \ {c} : trying'[d] = trying[d]
  BY DEF SignInTyped
<1>2. trying' \in [Checks -> {Free} \cup UnderWay]
  BY <1>1
<1>3. QED
  BY <1>1, <1>2 DEF Counting

LEMMA CountersMove ==
  ASSUME SignInTyped, [SignInNext]_sVars
  PROVE  /\ redis' \in BOOLEAN /\ browser' \in [Browsers -> BrowserRow]
         /\ trying' \in [Checks -> {Free} \cup UnderWay]
         /\ cookie' \in [Browsers -> Sessions \cup {NoSession}]
         /\ hour' \in 0..MaxHours /\ hour <= hour'
         /\ \/ CountersKept /\ \A k : Counting(k)' \subseteq Counting(k)
            \/ \E b \in Browsers :
                 /\ CountersKept /\ hour' = hour /\ \A k : k \notin {b, Email} => Counting(k)' = Counting(k)
                 /\ \A k \in {b, Email} : Count(k) < Allowance(k)
            \/ \E c \in Checks : CountedWrong(c) /\ hour' = hour /\ \A k : Counting(k)' = Counting(k) \ {c}
            \/ \E b \in Browsers :
                 /\ counter' = [counter EXCEPT ![b] = [count |-> 0, until |-> 0]] /\ wrong' = [wrong EXCEPT ![b] = 0]
                 /\ hour' = hour /\ \A k : Counting(k)' \subseteq Counting(k)
<1> DEFINE Types == /\ redis' \in BOOLEAN /\ browser' \in [Browsers -> BrowserRow]
                    /\ trying' \in [Checks -> {Free} \cup UnderWay]
                    /\ cookie' \in [Browsers -> Sessions \cup {NoSession}]
           Still == CountersKept /\ \A k : Counting(k)' \subseteq Counting(k)
           LetIn(b) == /\ CountersKept /\ hour' = hour /\ \A k : k \notin {b, Email} => Counting(k)' = Counting(k)
                       /\ \A k \in {b, Email} : Count(k) < Allowance(k)
           Wronged(c) == CountedWrong(c) /\ hour' = hour /\ \A k : Counting(k)' = Counting(k) \ {c}
           Cleared(b) == /\ counter' = [counter EXCEPT ![b] = [count |-> 0, until |-> 0]] /\ wrong' = [wrong EXCEPT ![b] = 0]
                         /\ hour' = hour /\ \A k : Counting(k)' \subseteq Counting(k)
           Moves == Still \/ (\E b \in Browsers : LetIn(b)) \/ (\E c \in Checks : Wronged(c)) \/ \E b \in Browsers : Cleared(b)
<1>0. /\ redis \in BOOLEAN /\ browser \in [Browsers -> BrowserRow] /\ trying \in [Checks -> {Free} \cup UnderWay]
      /\ cookie \in [Browsers -> Sessions \cup {NoSession}] /\ hour \in 0..MaxHours
  BY DEF SignInTyped
<1>1. hour' \in 0..MaxHours /\ hour <= hour'
  BY <1>0, SessionsMove, SignInConstants
<1>2. ASSUME NEW b \in Browsers, NEW c \in Checks, TryLogin(b, c)
      PROVE  Types /\ Moves
  <2> DEFINE r == [by |-> b, unread |-> ~redis]
  <2>1. /\ trying[c] = Free /\ trying' = [trying EXCEPT ![c] = r] /\ Within(b) /\ Within(Email)
        /\ CountersKept /\ redis' = redis /\ cookie' = cookie /\ browser' = browser /\ hour' = hour
    BY <1>2 DEF TryLogin, CountersKept
  <2>2. r \in UnderWay /\ r.by = b /\ r.unread = ~redis
    BY <1>0 DEF UnderWay
  <2> HIDE DEF r
  <2>3. Types
    BY <1>0, <2>1, <2>2, RequestsMove
  <2>4. CASE redis
    <3>1. \A k : k \notin {b, Email} => Counting(k)' = Counting(k)
      BY <2>1, <2>2, RequestsMove
    <3>2. \A k \in {b, Email} : Count(k) < Allowance(k)
      BY <2>1, <2>4 DEF Within
    <3>3. QED
      BY <2>1, <2>3, <3>1, <3>2
  <2>5. CASE ~redis
    <3>1. \A k : Counting(k)' = Counting(k)
      BY <2>1, <2>2, <2>5, RequestsMove
    <3>2. QED
      BY <2>1, <2>3, <3>1
  <2>6. QED
    BY <2>4, <2>5
<1>3. ASSUME NEW c \in Checks, WrongPassword(c)
      PROVE  Types /\ Moves
  <2>1. /\ trying' = [trying EXCEPT ![c] = Free] /\ redis' = redis /\ cookie' = cookie /\ browser' = browser /\ hour' = hour
    BY <1>3 DEF WrongPassword
  <2>2. Types /\ \A k : Counting(k)' = Counting(k) \ {c}
    BY <1>0, <2>1, RequestsMove
  <2>3. CASE redis
    <3>1. CountedWrong(c)
      BY <1>3, <2>3 DEF WrongPassword, CountedWrong
    <3>2. QED
      BY <2>1, <2>2, <3>1
  <2>4. CASE ~redis
    <3>1. CountersKept
      <4>1. wrong' = [k \in Counters |-> wrong[k]] /\ counter' = counter
        BY <1>3, <2>4 DEF WrongPassword
      <4>2. QED
        BY <4>1 DEF CountersKept, SignInTyped
    <3>2. QED
      BY <2>2, <3>1
  <2>5. QED
    BY <2>3, <2>4
<1>4. ASSUME NEW c \in Checks, NEW s \in Sessions, RightPassword(c, s)
      PROVE  Types /\ Moves
  <2> DEFINE b == trying[c].by
  <2>1. /\ trying[c] # Free /\ trying' = [trying EXCEPT ![c] = Free] /\ redis' = redis /\ hour' = hour
        /\ browser' = [browser EXCEPT ![b].go = 0] /\ cookie' = [cookie EXCEPT ![b] = s]
        /\ \/ CountersKept
           \/ counter' = [counter EXCEPT ![b] = [count |-> 0, until |-> 0]] /\ wrong' = [wrong EXCEPT ![b] = 0]
    BY <1>4 DEF RightPassword, CountersKept
  <2>2. b \in Browsers
    <3>1. trying[c] \in UnderWay
      BY <1>0, <2>1
    <3>2. QED
      BY <3>1 DEF UnderWay
  <2> HIDE DEF b
  <2>3. browser' \in [Browsers -> BrowserRow] /\ cookie' \in [Browsers -> Sessions \cup {NoSession}]
    <3>1. [browser[b] EXCEPT !.go = 0] \in BrowserRow
      BY <1>0, <2>2 DEF BrowserRow
    <3>2. QED
      BY <1>0, <2>1, <2>2, <3>1
  <2>4. trying' \in [Checks -> {Free} \cup UnderWay] /\ \A k : Counting(k)' = Counting(k) \ {c}
    BY <2>1, RequestsMove
  <2>5. QED
    BY <1>0, <2>1, <2>2, <2>3, <2>4
<1>5. ASSUME NEW b \in Browsers,
             \/ Request(b) \/ LogoutElsewhere(b) \/ Refused(b) \/ Load(b) \/ \E fails \in BOOLEAN : Logout(b, fails)
      PROVE  Types /\ Moves
  <2>1. /\ trying' = trying /\ redis' = redis /\ CountersKept
        /\ cookie' = cookie \/ cookie' = [cookie EXCEPT ![b] = NoSession]
    BY <1>5 DEF Request, LogoutElsewhere, Refused, Load, Logout, CountersKept
  <2>2. \A k : Counting(k)' = Counting(k)
    BY <2>1 DEF Counting
  <2>3. browser' \in [Browsers -> BrowserRow]
    <3>1. CASE browser' = browser
      BY <1>0, <3>1
    <3>2. CASE Refused(b)
      BY <1>0, <3>2 DEF Refused, BrowserRow
    <3>3. CASE Load(b)
      <4> DEFINE next == CASE browser[b].at = "app" -> IF Signed(b) THEN Layout(b) ELSE "login"
                           [] browser[b].at = "login" -> IF Signed(b) THEN "app" ELSE "away"
                           [] OTHER -> "login"
      <4>1. browser' = [browser EXCEPT ![b].at = next, ![b].go = browser[b].go + 1]
            /\ browser[b].at \in {"app", "login", "expired"}
        BY <3>3 DEF Load
      <4>2. next \in {"away", "app", "login", "expired"}
        BY <4>1 DEF Layout
      <4> HIDE DEF next
      <4>3. browser[b].go + 1 \in Nat
        BY <1>0 DEF BrowserRow
      <4>4. QED
        BY <1>0, <4>1, <4>2, <4>3 DEF BrowserRow
    <3>4. browser' = browser \/ Refused(b) \/ Load(b)
      BY <1>5 DEF Request, LogoutElsewhere, Logout
    <3>5. QED
      BY <3>1, <3>2, <3>3, <3>4
  <2>4. QED
    BY <1>0, <2>1, <2>2, <2>3
<1>6. CASE RedisFails \/ Hour \/ UNCHANGED sVars
  <2>1. browser' = browser /\ trying' = trying /\ CountersKept /\ cookie' = cookie
    BY <1>6 DEF RedisFails, Hour, sVars, CountersKept
  <2>2. redis' = redis \/ redis' = ~redis
    BY <1>6 DEF RedisFails, Hour, sVars
  <2>3. redis' \in BOOLEAN
    BY <1>0, <2>2
  <2>4. \A k : Counting(k)' = Counting(k)
    BY <2>1 DEF Counting
  <2>5. Types
    BY <1>0, <2>1, <2>3
  <2>6. Moves
    BY <2>1, <2>4
  <2>7. QED
    BY <1>1, <2>5, <2>6
<1>7. Types /\ Moves
  BY <1>2, <1>3, <1>4, <1>5, <1>6 DEF SignInNext
<1>8. QED
  BY <1>1, <1>7

(* Since its window opened a counter has counted every wrong password it   *)
(* let in; whoever passed the last look at it that it allowed is one of    *)
(* the requests under way.                                                 *)
Most(k) == Allowance(k) + (Cardinality(Checks) - 1)

Guessed(k) ==
  /\ wrong[k] <= Most(k)
  /\ Running(k) => wrong[k] <= counter[k].count /\ wrong[k] + Cardinality(Counting(k)) <= Most(k)

GuessesInOrder == \A k \in Counters : Guessed(k)

LEMMA MostType ==
  ASSUME NEW k \in Counters
  PROVE  /\ Allowance(k) \in Nat \ {0} /\ Cardinality(Checks) \in Nat \ {0} /\ Most(k) \in Nat
         /\ Most(k) = Allowance(k) + Cardinality(Checks) - 1 /\ Email \notin Browsers
<1>1. WiderBy * Attempts \in Nat \ {0} /\ Attempts \in Nat \ {0}
  BY SignInConstants
<1>2. Cardinality(Checks) \in Nat \ {0}
  BY SignInConstants, FS_CardinalityType, FS_EmptySet
<1>3. QED
  BY <1>1, <1>2, SignInConstants DEF Most, Allowance, Email

LEMMA CountingCount ==
  ASSUME NEW R, R \subseteq Checks
  PROVE  /\ IsFiniteSet(R) /\ Cardinality(R) \in Nat /\ Cardinality(R) <= Cardinality(Checks)
         /\ \A S \in SUBSET R : Cardinality(S) \in Nat /\ Cardinality(S) <= Cardinality(R)
         /\ \A c \in Checks :
              /\ Cardinality(R \ {c}) <= Cardinality(Checks) - 1
              /\ c \in R => Cardinality(R \ {c}) = Cardinality(R) - 1
<1>1. IsFiniteSet(R) /\ Cardinality(R) \in Nat /\ Cardinality(R) <= Cardinality(Checks)
  BY SignInConstants, FS_Subset, FS_CardinalityType
<1>2. \A S \in SUBSET R : Cardinality(S) \in Nat /\ Cardinality(S) <= Cardinality(R)
  BY <1>1, FS_Subset, FS_CardinalityType
<1>3. ASSUME NEW c \in Checks
      PROVE  /\ Cardinality(R \ {c}) <= Cardinality(Checks) - 1
             /\ c \in R => Cardinality(R \ {c}) = Cardinality(R) - 1
  <2>1. IsFiniteSet(Checks \ {c}) /\ Cardinality(Checks \ {c}) = Cardinality(Checks) - 1
    BY SignInConstants, FS_RemoveElement
  <2>2. Cardinality(R \ {c}) <= Cardinality(Checks \ {c})
    <3>1. R \ {c} \subseteq Checks \ {c}
      OBVIOUS
    <3>2. QED
      BY <2>1, <3>1, FS_Subset
  <2>3. c \in R => Cardinality(R \ {c}) = Cardinality(R) - 1
    BY <1>1, FS_RemoveElement
  <2>4. QED
    BY <2>1, <2>2, <2>3
<1>4. QED
  BY <1>1, <1>2, <1>3

LEMMA GuessStep ==
  ASSUME SignInTyped, GuessesInOrder, [SignInNext]_sVars
  PROVE  /\ GuessesInOrder' /\ counter' \in [Counters -> CounterRow] /\ wrong' \in [Counters -> Nat]
<1> DEFINE Goal == /\ GuessesInOrder' /\ counter' \in [Counters -> CounterRow] /\ wrong' \in [Counters -> Nat]
<1>0. /\ hour \in Nat /\ hour' \in Nat /\ hour <= hour' /\ hour <= MaxHours
      /\ counter \in [Counters -> CounterRow] /\ wrong \in [Counters -> Nat]
      /\ Browsers \subseteq Counters /\ Email \in Counters /\ LoginWindow \in Nat \ {0} /\ MaxHours \in Nat
  BY CountersMove, SignInConstants DEF SignInTyped, Counters
<1>1. ASSUME NEW k \in Counters
      PROVE  /\ counter[k].count \in Nat /\ counter[k].until \in 0..(MaxHours + LoginWindow) /\ wrong[k] \in Nat
             /\ Counting(k) \subseteq Checks /\ Counting(k)' \subseteq Checks
             /\ Cardinality(Counting(k)) \in Nat /\ Cardinality(Counting(k)') \in Nat
             /\ Guessed(k)
  <2>1. Counting(k) \subseteq Checks /\ Counting(k)' \subseteq Checks
    BY DEF Counting
  <2>2. QED
    BY <1>0, <2>1, CountingCount DEF CounterRow, GuessesInOrder
(* A key about which nothing is counted.                                   *)
<1>2. ASSUME NEW k \in Counters, counter'[k] = counter[k], wrong'[k] = wrong[k], Counting(k)' \subseteq Counting(k)
      PROVE  Guessed(k)'
  <2>1. Running(k)' => Running(k)
    BY <1>0, <1>1, <1>2, SignInConstants DEF Running
  <2>2. Cardinality(Counting(k)') <= Cardinality(Counting(k))
    BY <1>1, <1>2, CountingCount
  <2>3. Most(k)' = Most(k)
    BY DEF Most, Allowance
  <2>4. QED
    BY <1>1, <1>2, <2>1, <2>2, <2>3, MostType DEF Guessed
<1>3. CASE CountersKept /\ \A k : Counting(k)' \subseteq Counting(k)
  BY <1>0, <1>2, <1>3 DEF GuessesInOrder, CountersKept
<1>4. ASSUME NEW b \in Browsers,
             CountersKept, hour' = hour, \A k : k \notin {b, Email} => Counting(k)' = Counting(k),
             \A k \in {b, Email} : Count(k) < Allowance(k)
      PROVE  Goal
  <2>1. ASSUME NEW k \in {b, Email} PROVE Guessed(k)'
    <3>1. k \in Counters /\ counter'[k] = counter[k] /\ wrong'[k] = wrong[k] /\ (Running(k)' <=> Running(k))
      BY <1>0, <1>4 DEF CountersKept, Running
    <3>2. Running(k) => wrong[k] <= counter[k].count /\ counter[k].count < Allowance(k)
      BY <1>1, <1>4, <3>1 DEF Count, Guessed
    <3>3. Cardinality(Counting(k)') <= Cardinality(Checks)
      BY <1>1, <3>1, CountingCount
    <3>4. Most(k)' = Most(k) /\ wrong[k] <= Most(k)
      BY <1>1, <3>1 DEF Most, Allowance, Guessed
    <3>5. QED
      BY <1>1, <3>1, <3>2, <3>3, <3>4, MostType DEF Guessed
  <2>2. ASSUME NEW k \in Counters \ {b, Email} PROVE Guessed(k)'
    <3>1. Counting(k)' \subseteq Counting(k) /\ counter'[k] = counter[k] /\ wrong'[k] = wrong[k]
      BY <1>4 DEF CountersKept
    <3>2. QED
      BY <1>2, <3>1
  <2>3. QED
    BY <1>0, <1>4, <2>1, <2>2 DEF GuessesInOrder, CountersKept
<1>5. ASSUME NEW c \in Checks, CountedWrong(c), hour' = hour, \A k : Counting(k)' = Counting(k) \ {c}
      PROVE  Goal
  <2> DEFINE n == IF trying[c].unread THEN 0 ELSE 1
             b == trying[c].by
  <2>1. n \in {0, 1} /\ b \in Browsers /\ b # Email
    <3>1. trying[c] \in UnderWay
      BY <1>5 DEF CountedWrong, SignInTyped
    <3>2. QED
      BY <1>0, <3>1, MostType DEF UnderWay
  <2>2. ASSUME NEW k \in {b, Email}
        PROVE  /\ counter'[k] \in CounterRow /\ wrong'[k] \in Nat /\ k \in Counters
               /\ Running(k) => counter'[k].count = counter[k].count + 1 /\ wrong'[k] = wrong[k] + n
               /\ ~Running(k) => counter'[k].count = 1 /\ wrong'[k] = n
    <3>1. k \in Counters /\ counter'[k] = Hit(k) /\ wrong'[k] = (IF Running(k) THEN wrong[k] ELSE 0) + n
      BY <1>0, <1>5, <2>1 DEF CountedWrong
    <3>2. CASE Running(k)
      <4>1. counter'[k] = [counter[k] EXCEPT !.count = counter[k].count + 1]
        BY <3>1, <3>2 DEF Hit
      <4>2. counter'[k] \in CounterRow /\ counter'[k].count = counter[k].count + 1
        BY <1>0, <1>1, <3>1, <4>1 DEF CounterRow
      <4>3. QED
        BY <1>0, <1>1, <2>1, <3>1, <3>2, <4>2
    <3>3. CASE ~Running(k)
      <4>1. counter'[k] = [count |-> 1, until |-> hour + LoginWindow]
        BY <3>1, <3>3 DEF Hit
      <4>2. counter'[k] \in CounterRow /\ counter'[k].count = 1
        <5>1. hour + LoginWindow \in 0..(MaxHours + LoginWindow)
          BY <1>0
        <5>2. QED
          BY <4>1, <5>1 DEF CounterRow
      <4>3. QED
        BY <2>1, <3>1, <3>3, <4>2
    <3>4. QED
      BY <3>2, <3>3
  <2>3. ASSUME NEW k \in Counters \ {b, Email}
        PROVE  counter'[k] = counter[k] /\ wrong'[k] = wrong[k]
    BY <1>5, <2>3 DEF CountedWrong
  <2>4. counter' \in [Counters -> CounterRow] /\ wrong' \in [Counters -> Nat]
    <3>1. \A k \in Counters : counter'[k] \in CounterRow /\ wrong'[k] \in Nat
      BY <1>0, <2>2, <2>3
    <3>2. counter' = [k \in Counters |-> counter'[k]] /\ wrong' = [k \in Counters |-> wrong'[k]]
      BY <1>5 DEF CountedWrong
    <3>3. QED
      BY <3>1, <3>2
  <2>5. ASSUME NEW k \in {b, Email} PROVE Guessed(k)'
    <3>1. k \in Counters /\ (n = 1 => c \in Counting(k))
      BY <1>5, <2>2 DEF Counting, CountedWrong
    <3>2. /\ Cardinality(Counting(k)') <= Cardinality(Checks) - 1
          /\ Cardinality(Counting(k)') <= Cardinality(Counting(k))
          /\ n = 1 => Cardinality(Counting(k)') = Cardinality(Counting(k)) - 1
      BY <1>1, <1>5, <3>1, CountingCount
    <3>3. Most(k)' = Most(k)
      BY DEF Most, Allowance
    <3>4. CASE Running(k)
      <4>1. counter'[k].count = counter[k].count + 1 /\ wrong'[k] = wrong[k] + n
        BY <2>2, <3>4
      <4>2. wrong[k] <= counter[k].count /\ wrong[k] + Cardinality(Counting(k)) <= Most(k)
        BY <1>1, <3>1, <3>4 DEF Guessed
      <4> HIDE DEF n
      <4>3. wrong'[k] <= counter'[k].count /\ wrong'[k] + Cardinality(Counting(k)') <= Most(k) /\ wrong'[k] <= Most(k)
        BY <1>1, <2>1, <3>1, <3>2, <4>1, <4>2, MostType
      <4>4. QED
        BY <3>3, <4>3 DEF Guessed
    <3>5. CASE ~Running(k)
      <4>1. counter'[k].count = 1 /\ wrong'[k] = n
        BY <2>2, <3>5
      <4> HIDE DEF n
      <4>2. wrong'[k] <= counter'[k].count /\ wrong'[k] + Cardinality(Counting(k)') <= Most(k) /\ wrong'[k] <= Most(k)
        BY <1>1, <2>1, <3>1, <3>2, <4>1, MostType
      <4>3. QED
        BY <3>3, <4>2 DEF Guessed
    <3>6. QED
      BY <3>4, <3>5
  <2>6. ASSUME NEW k \in Counters \ {b, Email} PROVE Guessed(k)'
    <3>1. Counting(k)' \subseteq Counting(k)
      BY <1>5
    <3>2. QED
      BY <1>2, <2>3, <3>1
  <2>7. QED
    BY <2>4, <2>5, <2>6 DEF GuessesInOrder
<1>6. ASSUME NEW b \in Browsers,
             counter' = [counter EXCEPT ![b] = [count |-> 0, until |-> 0]], wrong' = [wrong EXCEPT ![b] = 0],
             hour' = hour, \A k : Counting(k)' \subseteq Counting(k)
      PROVE  Goal
  <2>1. [count |-> 0, until |-> 0] \in CounterRow
    BY SignInConstants DEF CounterRow
  <2>2. /\ counter' \in [Counters -> CounterRow] /\ wrong' \in [Counters -> Nat]
        /\ counter'[b].until = 0 /\ wrong'[b] = 0
        /\ \A k \in Counters \ {b} : counter'[k] = counter[k] /\ wrong'[k] = wrong[k]
    BY <1>0, <1>6, <2>1
  <2>3. Guessed(b)'
    <3>1. ~Running(b)' /\ b \in Counters
      BY <1>0, <2>2 DEF Running
    <3>2. Most(b)' = Most(b)
      BY DEF Most, Allowance
    <3>3. QED
      BY <2>2, <3>1, <3>2, MostType DEF Guessed
  <2>4. ASSUME NEW k \in Counters \ {b} PROVE Guessed(k)'
    <3>1. Counting(k)' \subseteq Counting(k) /\ counter'[k] = counter[k] /\ wrong'[k] = wrong[k]
      BY <1>6, <2>2
    <3>2. QED
      BY <1>2, <3>1
  <2>5. QED
    BY <2>2, <2>3, <2>4 DEF GuessesInOrder
<1>7. QED
  BY <1>3, <1>4, <1>5, <1>6, CountersMove

SignInInv ==
  /\ SignInTyped /\ GuessesInOrder
  /\ \A s \in Sessions : SessionInOrder(s)
  /\ \A b \in Browsers : BrowserInOrder(b)

LEMMA SignInKept == SignInSpec => []SignInInv
<1>1. SignInInit => SignInInv
  <2> SUFFICES ASSUME SignInInit PROVE SignInInv
    OBVIOUS
  <2>1. NoRow \in SessionRow /\ Away \in BrowserRow /\ [c \in Checks |-> Free] \in [Checks -> {Free} \cup UnderWay] /\ [count |-> 0, until |-> 0] \in CounterRow
    BY SignInConstants DEF NoRow, Away, SessionRow, BrowserRow, CounterRow
  <2>2. SignInTyped
    <3>1. -1 \in -1..MaxHours /\ 0 \in 0..MaxHours
      BY SignInConstants
    <3>2. QED
      BY <2>1, <3>1 DEF SignInInit, SignInTyped
  <2>3. /\ \A s \in Sessions : session[s].state = "none" /\ session[s].seen = -1 /\ used[s] = -1
        /\ \A b \in Browsers : cookie[b] = NoSession /\ browser[b].at = "away" /\ browser[b].go = 0
        /\ \A k \in Counters : wrong[k] = 0 /\ counter[k].until = 0
        /\ hour = 0 /\ ended = {} /\ Browsers \subseteq Counters /\ Email \in Counters
    BY DEF SignInInit, NoRow, Away, Counters
  <2>4. \A k \in Counters : ~Running(k)
    BY <2>3 DEF Running
  <2>5. GuessesInOrder
    BY <2>3, <2>4, MostType DEF GuessesInOrder, Guessed
  <2>6. \A s \in Sessions : SessionInOrder(s)
    BY <2>3 DEF SessionInOrder
  <2>7. \A b \in Browsers : BrowserInOrder(b)
    BY <2>3 DEF BrowserInOrder
  <2>8. QED
    BY <2>2, <2>5, <2>6, <2>7 DEF SignInInv
<1>2. SignInInv /\ [SignInNext]_sVars => SignInInv'
  <2> SUFFICES ASSUME SignInInv, [SignInNext]_sVars PROVE SignInInv'
    OBVIOUS
  <2>1. SignInTyped'
    BY SessionsMove, CountersMove, GuessStep DEF SignInInv, SignInTyped
  <2>2. GuessesInOrder'
    BY GuessStep DEF SignInInv
  <2>3. \A s \in Sessions : SessionInOrder(s)'
    BY SessionStep DEF SignInInv
  <2>4. \A b \in Browsers : BrowserInOrder(b)'
    BY BrowserStep DEF SignInInv
  <2>5. QED
    BY <2>1, <2>2, <2>3, <2>4 DEF SignInInv
<1>3. QED
  BY <1>1, <1>2, PTL DEF SignInSpec

(* However many browsers try, Redis comes and goes and sessions are        *)
(* revoked while they are used: wrong passwords are bounded by the two     *)
(* counters, a session that was signed out is never accepted again, the    *)
(* idle limit counts from the last use, and no browser is sent round.      *)
THEOREM SignInCorrect == SignInSpec => []SignInHolds
<1>1. SignInInv => SignInHolds
  <2> SUFFICES ASSUME SignInInv PROVE SignInHolds
    OBVIOUS
  <2>1. GuessesAreBounded
    BY DEF GuessesAreBounded, SignInInv, GuessesInOrder, Guessed, Most
  <2>2. SignedOutStaysOut
    BY DEF SignedOutStaysOut, Accepts, SignInInv, SessionInOrder, SignInTyped
  <2>3. IdleMeansUnused
    <3> SUFFICES ASSUME NEW s \in Sessions, session[s].state = "active", session[s].expires > hour
                 PROVE  /\ Accepts(s) => hour - used[s] <= Idle
                        /\ ~Accepts(s) => hour - used[s] >= Idle - TouchEvery
      BY DEF IdleMeansUnused
    <3>1. /\ session[s].seen \in Int /\ used[s] \in Int /\ hour \in Int
          /\ session[s].seen <= used[s] /\ used[s] - session[s].seen <= TouchEvery
      BY SignInConstants DEF SignInInv, SessionInOrder, SignInTyped, SessionRow
    <3>2. Accepts(s) <=> hour - session[s].seen <= Idle
      BY SignInConstants DEF Accepts
    <3>3. QED
      BY <3>1, <3>2, SignInConstants
  <2>4. RedirectsEnd
    <3>1. \A b \in Browsers : browser[b].go \in Nat /\ browser[b].go <= 4
      BY DEF SignInInv, BrowserInOrder, SignInTyped, BrowserRow
    <3>2. QED
      BY <3>1 DEF RedirectsEnd
  <2>5. QED
    BY <2>1, <2>2, <2>3, <2>4 DEF SignInHolds
<1>2. QED
  BY <1>1, SignInKept, PTL

(* Sessions, cookies, browsers and counters keep their types, and no       *)
(* session was last seen in the future (getUserSessionAccess, the rate limit's hit).    *)
THEOREM SignInTypeCorrect == SignInSpec => []SignInTypeOK
<1>1. SignInInv => SignInTypeOK
  <2> SUFFICES ASSUME SignInInv PROVE SignInTypeOK
    OBVIOUS
  <2>1. \A s \in Sessions : session[s].state \in {"none", "active", "revoked"} /\ session[s].seen \in -1..hour
    <3> SUFFICES ASSUME NEW s \in Sessions
                 PROVE  session[s].state \in {"none", "active", "revoked"} /\ session[s].seen \in -1..hour
      OBVIOUS
    <3>1. session[s].state \in {"none", "active", "revoked"} /\ session[s].seen \in -1..MaxHours
      BY DEF SignInInv, SignInTyped, SessionRow
    <3>2. session[s].seen <= hour /\ hour \in 0..MaxHours
      BY DEF SignInInv, SignInTyped, SessionInOrder
    <3>3. MaxHours \in Nat
      BY SignInConstants
    <3>4. QED
      BY <3>1, <3>2, <3>3
  <2>2. /\ \A b \in Browsers : browser[b].at \in {"away", "app", "login", "expired"}
        /\ \A c \in Checks : trying[c].by \in Browsers \cup {"nobody"}
    BY DEF SignInInv, SignInTyped, BrowserRow, UnderWay, Free
  <2>3. \A k \in Counters : counter[k].count \in Nat /\ counter[k].until \in 0..(MaxHours + LoginWindow)
    BY DEF SignInInv, SignInTyped, CounterRow
  <2>4. QED
    BY <2>1, <2>2, <2>3 DEF SignInInv, SignInTyped, SignInTypeOK
<1>2. QED
  BY <1>1, SignInKept, PTL

-----------------------------------------------------------------------------
(* Raising alerts: types.                                                  *)
Task == [signal : Nat, level : Levels]
RaiserRow == [at : {"idle", "list", "find", "write"}, pending : Seq(Task), open : Nat, seen : Alert \cup {<<>>}]

RaiseTyped ==
  /\ signals \in Seq(Signal) /\ alerts \in Seq(Alert)
  /\ IsFiniteSet(links) /\ links \subseteq [signal : Nat, alert : Nat, level : Levels]
  /\ \A l \in links : l.signal \in DOMAIN signals /\ l.alert \in DOMAIN alerts
  /\ rules \in Rules /\ day \in 0..MaxDays
  /\ raiser \in [Raisers -> RaiserRow]

(* What a raise has in hand: signals that exist and, between the read and  *)
(* the write, an alert of the signal's page and kind that was open and     *)
(* within the cooldown when it was read.                                   *)
TasksKnown(x) ==
  /\ x.at \in {"find", "write"} => x.pending # <<>>
  /\ \A n \in DOMAIN x.pending : x.pending[n].signal \in DOMAIN signals
FoundInOrder(x) ==
  x.at = "write" /\ x.open # 0 =>
    /\ x.open \in DOMAIN alerts /\ x.seen \in Alert /\ x.seen.key = alerts[x.open].key
    /\ x.seen.key = DedupeKey(signals[x.pending[1].signal]) /\ x.seen.status # "DISMISSED"
    /\ x.seen.last >= signals[x.pending[1].signal].at - Cooldown
InHand == \A r \in Raisers : TasksKnown(raiser[r]) /\ FoundInOrder(raiser[r])

LEMMA DecidedType ==
  ASSUME RaiseTyped, NEW s, Decided(s) # 0
  PROVE  Decided(s) \in Levels
<1> DEFINE levels == {r.level : r \in {x \in rules : Matches(x, s)}}
<1>1. \A x \in rules : x.level \in Levels
  BY DEF RaiseTyped, Rules, DefaultRules, Rule, Levels
<1>2. levels \subseteq Levels
  BY <1>1
<1>3. Decided(s) = IF levels = {} THEN 0 ELSE CHOOSE l \in levels : \A m \in levels : m <= l
  BY DEF Decided
<1>4. levels # {}
  BY <1>3
<1>. HIDE DEF levels
<1>5. \E l \in levels : \A m \in levels : m <= l
  <2>1. CASE 3 \in levels
    BY <2>1, <1>2 DEF Levels
  <2>2. CASE 3 \notin levels /\ 2 \in levels
    BY <2>2, <1>2 DEF Levels
  <2>3. CASE 3 \notin levels /\ 2 \notin levels
    <3>1. \A l \in levels : l = 1
      BY <2>3, <1>2 DEF Levels
    <3>2. QED
      BY <3>1, <1>4
  <2>4. QED
    BY <2>1, <2>2, <2>3
<1>6. QED
  BY <1>2, <1>3, <1>4, <1>5

LEMMA DueCounted == ASSUME RaiseTyped PROVE Cardinality(Due) \in Nat /\ (Cardinality(Due) = 0 <=> Due = {})
<1>1. DOMAIN signals = 1..Len(signals) /\ Len(signals) \in Nat
  BY DEF RaiseTyped
<1>2. Due \subseteq 1..Len(signals)
  BY <1>1 DEF Due
<1>3. IsFiniteSet(1..Len(signals))
  BY <1>1, FS_Interval
<1>4. IsFiniteSet(Due)
  BY <1>2, <1>3, FS_Subset
<1>5. QED
  BY <1>4, FS_CardinalityType, FS_EmptySet

LEMMA RestTyped == Rest \in RaiserRow /\ Rest.pending = <<>> /\ Rest.at = "idle"
BY DEF Rest, RaiserRow

LEMMA PromoteEffect ==
  ASSUME RaiseTyped, NEW r \in Raisers, NEW kind \in Kinds, NEW page \in Pages, NEW size \in Sizes, NEW sure \in BOOLEAN,
         Promote(r, kind, page, size, sure)
  PROVE  /\ signals' \in Seq(Signal) /\ raiser' \in [Raisers -> RaiserRow]
         /\ \A i \in DOMAIN signals : /\ i \in DOMAIN signals' /\ signals'[i].kind = signals[i].kind
                                      /\ signals'[i].page = signals[i].page /\ signals'[i].at = signals[i].at
         /\ raiser' = [raiser EXCEPT ![r].at = "list"]
         /\ UNCHANGED <<alerts, links, rules, day, stale>>
<1>0. /\ raiser' = [raiser EXCEPT ![r].at = "list"] /\ raiser' \in [Raisers -> RaiserRow]
      /\ UNCHANGED <<alerts, links, rules, day, stale>>
  BY DEF Promote, RaiseTyped, RaiserRow
<1>1. CASE SameDay(kind, page) = {}
  <2> DEFINE new == [kind |-> kind, page |-> page, size |-> size, sure |-> sure, at |-> day]
  <2>1. new \in Signal
    BY DEF Signal, RaiseTyped
  <2>2. signals' = Append(signals, new)
    BY <1>1 DEF Promote
  <2>. HIDE DEF new
  <2>3. signals' \in Seq(Signal) /\ \A i \in DOMAIN signals : i \in DOMAIN signals' /\ signals'[i] = signals[i]
    BY <2>1, <2>2 DEF RaiseTyped
  <2>4. QED
    BY <2>3, <1>0
<1>2. CASE SameDay(kind, page) # {}
  <2>1. signals' = [i \in DOMAIN signals |-> IF i \in SameDay(kind, page) THEN [signals[i] EXCEPT !.sure = @ /\ sure] ELSE signals[i]]
    BY <1>2 DEF Promote
  <2>2. \A i \in DOMAIN signals : signals[i] \in Signal
    BY DEF RaiseTyped
  <2>3. ASSUME NEW i \in DOMAIN signals
        PROVE  /\ signals'[i] \in Signal /\ signals'[i].kind = signals[i].kind
               /\ signals'[i].page = signals[i].page /\ signals'[i].at = signals[i].at
    <3>1. CASE i \in SameDay(kind, page)
      <4>1. signals'[i] = [signals[i] EXCEPT !.sure = @ /\ sure]
        BY <3>1, <2>1
      <4>2. (signals[i].sure /\ sure) \in BOOLEAN
        OBVIOUS
      <4>3. QED
        BY <4>1, <4>2, <2>2, Zenon DEF Signal
    <3>2. CASE i \notin SameDay(kind, page)
      BY <3>2, <2>1, <2>2
    <3>3. QED
      BY <3>1, <3>2
  <2>4. DOMAIN signals' = 1..Len(signals) /\ Len(signals) \in Nat
    BY <2>1 DEF RaiseTyped
  <2>5. signals' = [i \in 1..Len(signals) |-> signals'[i]]
    BY <2>1 DEF RaiseTyped
  <2>6. signals' \in Seq(Signal)
    BY <2>3, <2>4, <2>5 DEF RaiseTyped
  <2>7. QED
    BY <2>3, <2>4, <2>6, <1>0
<1>3. QED
  BY <1>1, <1>2

LEMMA ListEffect ==
  ASSUME RaiseTyped, NEW r \in Raisers, List(r)
  PROVE  /\ raiser' \in [Raisers -> RaiserRow]
         /\ \A q \in Raisers \ {r} : raiser'[q] = raiser[q]
         /\ raiser'[r].at \in {"idle", "find"} /\ TasksKnown(raiser'[r])
         /\ UNCHANGED <<signals, alerts, links, rules, day, stale>>
<1>1. PICK order \in [1..Cardinality(Due) -> Due] :
        raiser' = [raiser EXCEPT ![r] =
            [Rest EXCEPT !.at = IF Due = {} THEN "idle" ELSE "find",
                         !.pending = [n \in DOMAIN order |-> [signal |-> order[n], level |-> Decided(signals[order[n]])]]]]
  BY DEF List
<1> DEFINE todo == [n \in DOMAIN order |-> [signal |-> order[n], level |-> Decided(signals[order[n]])]]
           at == IF Due = {} THEN "idle" ELSE "find"
           alertRow == [Rest EXCEPT !.at = at, !.pending = todo]
<1>2. \A i \in Due : i \in DOMAIN signals /\ i \in Nat /\ Decided(signals[i]) \in Levels
  BY DecidedType DEF Due, RaiseTyped
<1>3. todo \in Seq(Task) /\ Len(todo) = Cardinality(Due) /\ \A n \in DOMAIN todo : todo[n].signal \in DOMAIN signals
  <2>1. Cardinality(Due) \in Nat
    BY DueCounted
  <2>2. DOMAIN order = 1..Cardinality(Due) /\ \A n \in DOMAIN order : order[n] \in Due
    OBVIOUS
  <2>3. \A n \in DOMAIN order : [signal |-> order[n], level |-> Decided(signals[order[n]])] \in Task
    BY <1>2, <2>2 DEF Task
  <2>4. todo \in [1..Cardinality(Due) -> Task]
    BY <2>2, <2>3
  <2>5. \A n \in DOMAIN todo : todo[n].signal \in DOMAIN signals
    BY <1>2, <2>2
  <2>. HIDE DEF todo
  <2>6. QED
    BY <2>1, <2>4, <2>5
<1>4. raiser' = [raiser EXCEPT ![r] = alertRow]
  BY <1>1
<1>5. Due # {} => todo # <<>>
  BY <1>3, DueCounted
<1>6. at \in {"idle", "find"} /\ (at = "find" => Due # {})
  OBVIOUS
<1>. HIDE DEF todo, at
<1>7. alertRow \in RaiserRow /\ alertRow.at = at /\ alertRow.pending = todo
  BY <1>3, <1>6 DEF Rest, RaiserRow
<1>. HIDE DEF alertRow
<1>8. raiser'[r] = alertRow /\ \A q \in Raisers \ {r} : raiser'[q] = raiser[q]
  BY <1>4 DEF RaiseTyped
<1>9. raiser' \in [Raisers -> RaiserRow]
  BY <1>4, <1>7 DEF RaiseTyped
<1>10. TasksKnown(alertRow)
  BY <1>3, <1>5, <1>6, <1>7 DEF TasksKnown
<1>11. UNCHANGED <<signals, alerts, links, rules, day, stale>>
  BY DEF List
<1>12. QED
  BY <1>6, <1>7, <1>8, <1>9, <1>10, <1>11

LEMMA FindEffect ==
  ASSUME RaiseTyped, InHand, NEW r \in Raisers, Find(r)
  PROVE  /\ raiser' \in [Raisers -> RaiserRow]
         /\ \A q \in Raisers \ {r} : raiser'[q] = raiser[q]
         /\ TasksKnown(raiser'[r]) /\ FoundInOrder(raiser'[r])
         /\ UNCHANGED <<signals, alerts, links, rules, day, stale>>
<1> DEFINE s == signals[raiser[r].pending[1].signal]
<1>1. raiser[r] \in RaiserRow /\ raiser[r].at = "find" /\ TasksKnown(raiser[r])
  BY DEF RaiseTyped, InHand, Find
<1>2. raiser[r].pending # <<>> /\ Head(raiser[r].pending) = raiser[r].pending[1] /\ s \in Signal
  BY <1>1 DEF TasksKnown, RaiserRow, RaiseTyped, Task
<1>3. CASE raiser' = [raiser EXCEPT ![r].at = "write", ![r].open = 0, ![r].seen = <<>>]
  <2>1. raiser'[r] = [raiser[r] EXCEPT !.at = "write", !.open = 0, !.seen = <<>>]
    BY <1>3 DEF RaiseTyped
  <2> DEFINE x1 == [raiser[r] EXCEPT !.at = "write"]
             x2 == [x1 EXCEPT !.open = 0]
  <2>a. x1 \in RaiserRow /\ x1.pending = raiser[r].pending
    BY <1>1 DEF RaiserRow
  <2>. HIDE DEF x1
  <2>b. x2 \in RaiserRow /\ x2.pending = x1.pending /\ x2.open = 0
    BY <2>a DEF RaiserRow
  <2>c. raiser'[r] = [x2 EXCEPT !.seen = <<>>]
    BY <2>1 DEF x1
  <2>. HIDE DEF x2
  <2>d. <<>> \in Alert \cup {<<>>}
    OBVIOUS
  <2>2. raiser'[r] \in RaiserRow /\ raiser'[r].open = 0 /\ raiser'[r].pending = raiser[r].pending
    BY <2>a, <2>b, <2>c, <2>d, Zenon DEF RaiserRow
  <2>3. raiser' \in [Raisers -> RaiserRow] /\ \A q \in Raisers \ {r} : raiser'[q] = raiser[q]
    BY <1>3, <2>2 DEF RaiseTyped
  <2>4. TasksKnown(raiser'[r])
    BY <1>1, <1>2, <2>2 DEF TasksKnown
  <2>5. FoundInOrder(raiser'[r])
    BY <2>2 DEF FoundInOrder
  <2>6. QED
    BY <2>3, <2>4, <2>5 DEF Find
<1>4. CASE \E i \in Joinable(s) : raiser' = [raiser EXCEPT ![r].at = "write", ![r].open = i, ![r].seen = alerts[i]]
  <2>1. PICK i \in Joinable(s) : raiser' = [raiser EXCEPT ![r].at = "write", ![r].open = i, ![r].seen = alerts[i]]
    BY <1>4
  <2>2. /\ i \in DOMAIN alerts /\ i \in Nat /\ alerts[i] \in Alert /\ alerts[i].key = DedupeKey(s)
        /\ alerts[i].status # "DISMISSED" /\ alerts[i].last >= s.at - Cooldown
    BY <2>1 DEF Joinable, RaiseTyped
  <2>3. raiser'[r] = [raiser[r] EXCEPT !.at = "write", !.open = i, !.seen = alerts[i]]
    BY <2>1 DEF RaiseTyped
  <2>4. /\ raiser'[r] \in RaiserRow /\ raiser'[r].open = i /\ raiser'[r].seen = alerts[i]
        /\ raiser'[r].pending = raiser[r].pending
    BY <1>1, <2>2, <2>3 DEF RaiserRow
  <2>5. raiser' \in [Raisers -> RaiserRow] /\ \A q \in Raisers \ {r} : raiser'[q] = raiser[q]
    BY <2>1, <2>4 DEF RaiseTyped
  <2>6. TasksKnown(raiser'[r])
    BY <1>1, <1>2, <2>4 DEF TasksKnown
  <2>7. FoundInOrder(raiser'[r])
    BY <2>2, <2>4 DEF FoundInOrder
  <2>8. QED
    BY <2>5, <2>6, <2>7 DEF Find
<1>5. QED
  BY <1>2, <1>3, <1>4 DEF Find

(* What the write of one signal does: it joins an alert, it opens one, or  *)
(* it fails because the signal is linked.                                  *)
Joined(i, seen, p, s) ==
  /\ alerts' = [alerts EXCEPT ![i] = Merged(@, seen, p.level, s)]
  /\ links' = links \cup {[signal |-> p.signal, alert |-> i, level |-> p.level]}
  /\ stale' = IF Outdated(i, seen, s) THEN stale \cup {DedupeKey(s)} ELSE stale
AlertOpened(p, s) ==
  /\ alerts' = Append(alerts, New(p.level, s))
  /\ links' = links \cup {[signal |-> p.signal, alert |-> Len(alerts) + 1, level |-> p.level]}
  /\ stale' = IF Joinable(s) # {} THEN stale \cup {DedupeKey(s)} ELSE stale

WrittenBy(r, p, s) ==
  /\ p \in Task /\ p.signal \in DOMAIN signals /\ s = signals[p.signal] /\ s \in Signal
  /\ UNCHANGED <<signals, rules, day>>
  /\ \A q \in Raisers \ {r} : raiser'[q] = raiser[q]
  /\ raiser' \in [Raisers -> RaiserRow] /\ raiser'[r].at # "write" /\ TasksKnown(raiser'[r])
  /\ \/ UNCHANGED <<alerts, links, stale>>
     \/ /\ p.signal \notin Handled /\ AlertOpened(p, s)
     \/ /\ p.signal \notin Handled
        /\ \E i \in DOMAIN alerts, seen \in Alert :
             /\ Joined(i, seen, p, s) /\ seen.key = DedupeKey(s) /\ seen.status # "DISMISSED"
             /\ seen.last >= s.at - Cooldown /\ alerts[i].key = DedupeKey(s)

LEMMA AdvancedEffect ==
  ASSUME RaiseTyped, InHand, NEW r \in Raisers, raiser[r].at = "write"
  PROVE  Advanced(r) \in RaiserRow /\ Advanced(r).at # "write" /\ TasksKnown(Advanced(r))
<1> DEFINE at == IF Len(raiser[r].pending) > 1 THEN "find" ELSE "idle"
           todo == Tail(raiser[r].pending)
<1>1. raiser[r].pending \in Seq(Task) /\ raiser[r].pending # <<>> /\ TasksKnown(raiser[r])
  BY DEF RaiseTyped, RaiserRow, InHand, TasksKnown
<1>2. todo \in Seq(Task) /\ Len(todo) = Len(raiser[r].pending) - 1
  BY <1>1
<1>3. \A n \in DOMAIN todo : n + 1 \in DOMAIN raiser[r].pending /\ todo[n] = raiser[r].pending[n + 1]
  BY <1>1, <1>2
<1>. HIDE DEF todo
<1>4. at \in {"idle", "find"} /\ (at = "find" => todo # <<>>)
  <2>1. CASE Len(raiser[r].pending) > 1
    <3>1. at = "find" /\ todo # <<>>
      BY <1>1, <1>2, <2>1
    <3>2. QED
      BY <3>1
  <2>2. CASE ~(Len(raiser[r].pending) > 1)
    <3>1. at = "idle"
      BY <2>2
    <3>2. QED
      BY <3>1
  <2>3. QED
    BY <2>1, <2>2
<1> DEFINE alertRow == [Rest EXCEPT !.at = at, !.pending = todo]
<1>5. Advanced(r) = alertRow
  BY DEF Advanced, todo
<1>6. \A n \in DOMAIN todo : todo[n].signal \in DOMAIN signals
  BY <1>1, <1>3 DEF TasksKnown
<1>. HIDE DEF at
<1>7. alertRow \in RaiserRow /\ alertRow.at = at /\ alertRow.pending = todo
  BY <1>2, <1>4 DEF Rest, RaiserRow
<1>. HIDE DEF alertRow
<1>8. QED
  BY <1>4, <1>5, <1>6, <1>7 DEF TasksKnown

LEMMA WriteEffect ==
  ASSUME RaiseTyped, InHand, NEW r \in Raisers, Write(r), NEW p, p = raiser[r].pending[1]
  PROVE  WrittenBy(r, p, signals[p.signal])
<1> DEFINE s == signals[p.signal]
           open == raiser[r].open
           seen == raiser[r].seen
<1>1. raiser[r] \in RaiserRow /\ raiser[r].at = "write" /\ TasksKnown(raiser[r]) /\ FoundInOrder(raiser[r])
  BY DEF RaiseTyped, InHand, Write
<1>2. /\ raiser[r].pending # <<>> /\ raiser[r].pending \in Seq(Task) /\ Head(raiser[r].pending) = p
      /\ p \in Task /\ p.signal \in DOMAIN signals /\ s \in Signal
  BY <1>1 DEF TasksKnown, RaiserRow, RaiseTyped
<1>3. UNCHANGED <<signals, rules, day>>
  BY DEF Write
<1>4. CASE p.signal \in Handled
  <2>1. raiser' = [raiser EXCEPT ![r] = Rest] /\ UNCHANGED <<alerts, links, stale>>
    BY <1>2, <1>4 DEF Write
  <2>2. TasksKnown(Rest) /\ raiser'[r] = Rest /\ raiser' \in [Raisers -> RaiserRow] /\ Rest.at # "write"
    BY <2>1, RestTyped DEF TasksKnown, RaiseTyped
  <2>3. \A q \in Raisers \ {r} : raiser'[q] = raiser[q]
    BY <2>1 DEF RaiseTyped
  <2>4. QED
    BY <1>2, <1>3, <2>1, <2>2, <2>3 DEF WrittenBy
<1>5. CASE p.signal \notin Handled
  <2>1. raiser' = [raiser EXCEPT ![r] = Advanced(r)]
    BY <1>2, <1>5 DEF Write
  <2>2. /\ TasksKnown(raiser'[r]) /\ raiser' \in [Raisers -> RaiserRow] /\ raiser'[r].at # "write"
        /\ \A q \in Raisers \ {r} : raiser'[q] = raiser[q]
    BY <2>1, <1>1, AdvancedEffect DEF RaiseTyped
  <2>3. CASE open = 0
    <3>1. AlertOpened(p, s)
      BY <1>2, <1>5, <2>3 DEF Write, AlertOpened, Outdated
    <3>2. QED
      BY <1>2, <1>3, <1>5, <2>2, <3>1 DEF WrittenBy
  <2>4. CASE open # 0
    <3>1. Joined(open, seen, p, s)
      BY <1>2, <1>5, <2>4 DEF Write, Joined
    <3>2. /\ open \in DOMAIN alerts /\ seen \in Alert /\ seen.key = DedupeKey(s) /\ seen.status # "DISMISSED"
          /\ seen.last >= s.at - Cooldown /\ alerts[open].key = DedupeKey(s)
      BY <1>1, <2>4 DEF FoundInOrder
    <3>3. QED
      BY <1>2, <1>3, <1>5, <2>2, <3>1, <3>2 DEF WrittenBy
  <2>5. QED
    BY <2>3, <2>4
<1>6. QED
  BY <1>4, <1>5

(* The rows after a join and after an opening.                             *)
LEMMA JoinedRow ==
  ASSUME RaiseTyped, NEW i \in DOMAIN alerts, NEW seen \in Alert, NEW p \in Task, NEW s \in Signal, Joined(i, seen, p, s)
  PROVE  /\ alerts' \in Seq(Alert) /\ DOMAIN alerts' = DOMAIN alerts
         /\ \A j \in DOMAIN alerts \ {i} : alerts'[j] = alerts[j]
         /\ alerts'[i].key = alerts[i].key /\ alerts'[i].status = alerts[i].status
         /\ alerts'[i].first = alerts[i].first /\ alerts'[i].count = alerts[i].count + 1
         /\ alerts'[i].last = Later(seen.last, s.at)
         /\ alerts'[i].level = IF p.level > seen.level THEN p.level ELSE alerts[i].level
<1>1. alerts[i] \in Alert /\ p.level \in Levels
  BY DEF RaiseTyped, Task
<1>2. Later(seen.last, s.at) \in 0..MaxDays
  BY DEF Later, Alert, Signal
<1> DEFINE last == Later(seen.last, s.at)
           level == IF p.level > seen.level THEN p.level ELSE alerts[i].level
           alertRow == Merged(alerts[i], seen, p.level, s)
<1>3. level \in Levels
  BY <1>1 DEF Alert
<1>4. alertRow = [alerts[i] EXCEPT !.count = @ + 1, !.last = last, !.level = level]
  BY <1>1 DEF Merged, Alert
<1>. HIDE DEF last, level
<1>5. /\ alertRow \in Alert /\ alertRow.key = alerts[i].key /\ alertRow.status = alerts[i].status /\ alertRow.first = alerts[i].first
      /\ alertRow.count = alerts[i].count + 1 /\ alertRow.last = last /\ alertRow.level = level
  <2> DEFINE x1 == [alerts[i] EXCEPT !.count = @ + 1]
             x2 == [x1 EXCEPT !.last = last]
  <2>1. last \in 0..MaxDays
    BY <1>2 DEF last
  <2>2. /\ x1 \in Alert /\ x1.key = alerts[i].key /\ x1.status = alerts[i].status /\ x1.first = alerts[i].first
        /\ x1.count = alerts[i].count + 1
    BY <1>1 DEF Alert
  <2>. HIDE DEF x1
  <2>3. /\ x2 \in Alert /\ x2.key = x1.key /\ x2.status = x1.status /\ x2.first = x1.first /\ x2.count = x1.count
        /\ x2.last = last
    BY <2>1, <2>2 DEF Alert
  <2>4. alertRow = [x2 EXCEPT !.level = level]
    BY <1>4 DEF x1
  <2>. HIDE DEF x2
  <2>5. QED
    BY <1>3, <2>2, <2>3, <2>4 DEF Alert
<1>6. alerts' = [alerts EXCEPT ![i] = alertRow]
  BY DEF Joined
<1>. HIDE DEF alertRow
<1>7. alerts' \in Seq(Alert) /\ DOMAIN alerts' = DOMAIN alerts /\ alerts'[i] = alertRow /\ \A j \in DOMAIN alerts \ {i} : alerts'[j] = alerts[j]
  BY <1>5, <1>6 DEF RaiseTyped
<1>8. QED
  BY <1>5, <1>7 DEF last, level

LEMMA OpenedRow ==
  ASSUME RaiseTyped, NEW p \in Task, NEW s \in Signal, AlertOpened(p, s)
  PROVE  /\ alerts' \in Seq(Alert) /\ DOMAIN alerts' = DOMAIN alerts \cup {Len(alerts) + 1}
         /\ Len(alerts) \in Nat /\ Len(alerts) + 1 \notin DOMAIN alerts
         /\ \A j \in DOMAIN alerts : alerts'[j] = alerts[j]
         /\ LET new == alerts'[Len(alerts) + 1] IN
              /\ new.key = DedupeKey(s) /\ new.level = p.level /\ new.first = s.at /\ new.last = s.at /\ new.count = 1
<1>1. New(p.level, s) \in Alert
  BY DEF New, Alert, Task, Signal, DedupeKey, Key
<1>2. alerts' = Append(alerts, New(p.level, s)) /\ alerts \in Seq(Alert)
  BY DEF AlertOpened, RaiseTyped
<1>3. alerts'[Len(alerts) + 1] = New(p.level, s)
  BY <1>1, <1>2
<1>4. /\ alerts' \in Seq(Alert) /\ DOMAIN alerts' = DOMAIN alerts \cup {Len(alerts) + 1}
      /\ Len(alerts) \in Nat /\ Len(alerts) + 1 \notin DOMAIN alerts
      /\ \A j \in DOMAIN alerts : alerts'[j] = alerts[j]
  BY <1>1, <1>2
<1>5. QED
  BY <1>3, <1>4 DEF New

(* What no step takes back: a signal keeps its page, kind and day, and an  *)
(* alert its key and its first day.                                        *)
SignalsKept ==
  \A i \in DOMAIN signals : /\ i \in DOMAIN signals' /\ signals'[i].kind = signals[i].kind
                            /\ signals'[i].page = signals[i].page /\ signals'[i].at = signals[i].at
AlertsKept ==
  \A i \in DOMAIN alerts : i \in DOMAIN alerts' /\ alerts'[i].key = alerts[i].key

LEMMA SetStatusEffect ==
  ASSUME RaiseTyped, NEW i \in DOMAIN alerts, NEW status \in {"ACKNOWLEDGED", "DISMISSED"}, SetStatus(i, status)
  PROVE  /\ alerts' \in Seq(Alert) /\ DOMAIN alerts' = DOMAIN alerts
         /\ \A j \in DOMAIN alerts \ {i} : alerts'[j] = alerts[j]
         /\ alerts'[i].key = alerts[i].key /\ alerts'[i].first = alerts[i].first /\ alerts'[i].last = alerts[i].last
         /\ alerts'[i].level = alerts[i].level /\ alerts'[i].count = alerts[i].count
         /\ UNCHANGED <<signals, links, rules, raiser, day>>
         /\ stale' = IF alerts[i].status = "DISMISSED" THEN stale \cup {alerts[i].key} ELSE stale
<1>1. alerts[i] \in Alert
  BY DEF RaiseTyped
<1> DEFINE alertRow == [alerts[i] EXCEPT !.status = status]
<1>2. /\ alertRow \in Alert /\ alertRow.key = alerts[i].key /\ alertRow.first = alerts[i].first /\ alertRow.last = alerts[i].last
      /\ alertRow.level = alerts[i].level /\ alertRow.count = alerts[i].count
  BY <1>1 DEF Alert
<1>3. alerts' = [alerts EXCEPT ![i] = alertRow]
  BY DEF SetStatus
<1>. HIDE DEF alertRow
<1>4. alerts' \in Seq(Alert) /\ DOMAIN alerts' = DOMAIN alerts /\ alerts'[i] = alertRow /\ \A j \in DOMAIN alerts \ {i} : alerts'[j] = alerts[j]
  BY <1>2, <1>3 DEF RaiseTyped
<1>5. QED
  BY <1>2, <1>4 DEF SetStatus

LEMMA HandStays ==
  ASSUME RaiseTyped, SignalsKept, AlertsKept, NEW x \in RaiserRow, TasksKnown(x)
  PROVE  TasksKnown(x)' /\ (FoundInOrder(x) => FoundInOrder(x)')
<1>1. TasksKnown(x)'
  BY DEF TasksKnown, SignalsKept
<1>2. ASSUME FoundInOrder(x), x.at = "write", x.open # 0
      PROVE  /\ x.open \in DOMAIN alerts' /\ x.seen \in Alert /\ x.seen.key = alerts'[x.open].key
             /\ x.seen.key = DedupeKey(signals'[x.pending[1].signal]) /\ x.seen.status # "DISMISSED"
             /\ x.seen.last >= signals'[x.pending[1].signal].at - Cooldown
  <2> DEFINE k == x.pending[1].signal
  <2>1. k \in DOMAIN signals
    BY <1>2 DEF TasksKnown, RaiserRow
  <2>2. signals'[k].kind = signals[k].kind /\ signals'[k].page = signals[k].page /\ signals'[k].at = signals[k].at
    BY <2>1 DEF SignalsKept
  <2>3. x.open \in DOMAIN alerts' /\ alerts'[x.open].key = alerts[x.open].key
    BY <1>2 DEF FoundInOrder, AlertsKept
  <2>4. QED
    BY <1>2, <2>2, <2>3 DEF FoundInOrder, DedupeKey
<1>3. FoundInOrder(x) => FoundInOrder(x)'
  BY <1>2 DEF FoundInOrder
<1>4. QED
  BY <1>1, <1>3

(* One raise moves and what the others hold stays in order.                *)
LEMMA OthersStay ==
  ASSUME RaiseTyped, InHand, SignalsKept, AlertsKept, NEW r \in Raisers, raiser' \in [Raisers -> RaiserRow],
         \A q \in Raisers \ {r} : raiser'[q] = raiser[q],
         TasksKnown(raiser'[r]), FoundInOrder(raiser'[r])
  PROVE  InHand'
<1>1. ASSUME NEW q \in Raisers, NEW x, x = raiser'[q] PROVE TasksKnown(x)' /\ FoundInOrder(x)'
  <2>1. x \in RaiserRow /\ TasksKnown(x) /\ FoundInOrder(x)
    BY <1>1 DEF InHand
  <2>2. QED
    BY <2>1, HandStays
<1>2. QED
  BY <1>1 DEF InHand

Quiet == UNCHANGED <<alerts, links, stale>>
StepKept == RaiseTyped' /\ InHand' /\ SignalsKept

LEMMA QuietKeepsAlerts == Quiet => AlertsKept
BY DEF Quiet, AlertsKept

LEMMA SameSignals == signals' = signals => SignalsKept
BY DEF SignalsKept

LEMMA PromoteKept ==
  ASSUME RaiseTyped, InHand, NEW r \in Raisers, NEW kind \in Kinds, NEW page \in Pages, NEW size \in Sizes, NEW sure \in BOOLEAN,
         Promote(r, kind, page, size, sure)
  PROVE  StepKept /\ Quiet
<1>1. Quiet /\ SignalsKept /\ AlertsKept
  BY PromoteEffect, QuietKeepsAlerts DEF Quiet, SignalsKept
<1>2. raiser[r] \in RaiserRow /\ raiser'[r] = [raiser[r] EXCEPT !.at = "list"] /\ \A q \in Raisers \ {r} : raiser'[q] = raiser[q]
  BY PromoteEffect DEF RaiseTyped
<1>3. raiser'[r].at = "list" /\ raiser'[r].pending = raiser[r].pending
  BY <1>2 DEF RaiserRow
<1>4. TasksKnown(raiser'[r]) /\ FoundInOrder(raiser'[r])
  BY <1>3 DEF InHand, TasksKnown, FoundInOrder
<1>5. raiser' \in [Raisers -> RaiserRow]
  BY PromoteEffect
<1>6. InHand'
  BY <1>1, <1>2, <1>4, <1>5, OthersStay
<1>7. RaiseTyped'
  BY <1>1, PromoteEffect DEF RaiseTyped, SignalsKept
<1>8. QED
  BY <1>1, <1>6, <1>7 DEF StepKept

LEMMA ListKept ==
  ASSUME RaiseTyped, InHand, NEW r \in Raisers, List(r)
  PROVE  StepKept /\ Quiet
<1>1. Quiet /\ SignalsKept /\ AlertsKept
  BY ListEffect, QuietKeepsAlerts, SameSignals DEF Quiet
<1>2. FoundInOrder(raiser'[r])
  BY ListEffect DEF FoundInOrder
<1>3. InHand'
  BY <1>1, <1>2, ListEffect, OthersStay
<1>4. RaiseTyped'
  BY ListEffect DEF RaiseTyped
<1>5. QED
  BY <1>1, <1>3, <1>4 DEF StepKept

LEMMA FindKept ==
  ASSUME RaiseTyped, InHand, NEW r \in Raisers, Find(r)
  PROVE  StepKept /\ Quiet
<1>1. Quiet /\ SignalsKept /\ AlertsKept
  BY FindEffect, QuietKeepsAlerts, SameSignals DEF Quiet
<1>2. InHand'
  BY <1>1, FindEffect, OthersStay
<1>3. RaiseTyped'
  BY FindEffect DEF RaiseTyped
<1>4. QED
  BY <1>1, <1>2, <1>3 DEF StepKept

LEMMA AbandonKept ==
  ASSUME RaiseTyped, InHand, NEW r \in Raisers, Abandon(r)
  PROVE  StepKept /\ Quiet
<1>1. Quiet /\ SignalsKept /\ AlertsKept
  BY QuietKeepsAlerts, SameSignals DEF Abandon, Quiet
<1>2. raiser' = [raiser EXCEPT ![r] = Rest]
  BY DEF Abandon
<1>3. raiser' \in [Raisers -> RaiserRow] /\ raiser'[r] = Rest /\ \A q \in Raisers \ {r} : raiser'[q] = raiser[q]
  BY <1>2, RestTyped DEF RaiseTyped
<1>4. TasksKnown(raiser'[r]) /\ FoundInOrder(raiser'[r])
  BY <1>3, RestTyped DEF TasksKnown, FoundInOrder
<1>5. InHand'
  BY <1>1, <1>3, <1>4, OthersStay
<1>6. RaiseTyped'
  BY <1>3 DEF RaiseTyped, Abandon
<1>7. QED
  BY <1>1, <1>5, <1>6 DEF StepKept

LEMMA WriteKept ==
  ASSUME RaiseTyped, InHand, NEW r \in Raisers, NEW p, NEW s, WrittenBy(r, p, s)
  PROVE  StepKept
<1>1. SignalsKept /\ UNCHANGED <<signals, rules, day>>
  BY SameSignals DEF WrittenBy
<1>2. /\ alerts' \in Seq(Alert) /\ AlertsKept
      /\ IsFiniteSet(links') /\ links' \subseteq [signal : Nat, alert : Nat, level : Levels]
      /\ \A l \in links' : l.signal \in DOMAIN signals /\ l.alert \in DOMAIN alerts'
  <2>1. CASE Quiet
    BY <2>1 DEF Quiet, RaiseTyped, AlertsKept
  <2>2. CASE AlertOpened(p, s)
    <3> DEFINE n == [signal |-> p.signal, alert |-> Len(alerts) + 1, level |-> p.level]
    <3>1. p \in Task /\ s \in Signal /\ p.signal \in DOMAIN signals
      BY DEF WrittenBy
    <3>2. n \in [signal : Nat, alert : Nat, level : Levels] /\ n.signal \in DOMAIN signals /\ n.alert \in DOMAIN alerts'
      BY <2>2, <3>1, OpenedRow DEF Task
    <3>3. links' = links \cup {n}
      BY <2>2 DEF AlertOpened
    <3>. HIDE DEF n
    <3>4. IsFiniteSet(links')
      BY <3>3, FS_AddElement DEF RaiseTyped
    <3>5. AlertsKept
      BY <2>2, <3>1, OpenedRow DEF AlertsKept
    <3>6. QED
      BY <2>2, <3>1, <3>2, <3>3, <3>4, <3>5, OpenedRow DEF RaiseTyped, AlertsKept
  <2>3. CASE \E i \in DOMAIN alerts, seen \in Alert : Joined(i, seen, p, s)
    <3>0. PICK i \in DOMAIN alerts, seen \in Alert : Joined(i, seen, p, s)
      BY <2>3
    <3> DEFINE n == [signal |-> p.signal, alert |-> i, level |-> p.level]
    <3>1. p \in Task /\ s \in Signal /\ p.signal \in DOMAIN signals
      BY DEF WrittenBy
    <3>2. n \in [signal : Nat, alert : Nat, level : Levels] /\ n.signal \in DOMAIN signals /\ n.alert \in DOMAIN alerts
      BY <3>1 DEF Task, RaiseTyped
    <3>3. links' = links \cup {n}
      BY <3>0 DEF Joined
    <3>. HIDE DEF n
    <3>4. IsFiniteSet(links')
      BY <3>3, FS_AddElement DEF RaiseTyped
    <3>5. alerts' \in Seq(Alert) /\ DOMAIN alerts' = DOMAIN alerts
      BY <3>0, <3>1, JoinedRow
    <3>6. AlertsKept
      BY <3>0, <3>1, JoinedRow DEF AlertsKept
    <3>7. QED
      BY <3>2, <3>3, <3>4, <3>5, <3>6 DEF RaiseTyped
  <2>4. QED
    BY <2>1, <2>2, <2>3 DEF WrittenBy, Quiet
<1>3. RaiseTyped'
  BY <1>1, <1>2 DEF RaiseTyped, WrittenBy
<1>4. FoundInOrder(raiser'[r])
  BY DEF WrittenBy, FoundInOrder
<1>5. InHand'
  BY <1>1, <1>2, <1>4, OthersStay DEF WrittenBy
<1>6. QED
  BY <1>1, <1>3, <1>5 DEF StepKept

LEMMA SetStatusKept ==
  ASSUME RaiseTyped, InHand, NEW i \in DOMAIN alerts, NEW status \in {"ACKNOWLEDGED", "DISMISSED"}, SetStatus(i, status)
  PROVE  StepKept
<1>1. SignalsKept /\ AlertsKept
  BY SetStatusEffect, SameSignals DEF AlertsKept
<1>2. RaiseTyped'
  BY SetStatusEffect DEF RaiseTyped
<1>3. ASSUME NEW q \in Raisers, NEW x, x = raiser'[q] PROVE TasksKnown(x)' /\ FoundInOrder(x)'
  <2>1. x \in RaiserRow /\ TasksKnown(x) /\ FoundInOrder(x)
    BY <1>3, SetStatusEffect DEF InHand, RaiseTyped
  <2>2. QED
    BY <1>1, <2>1, HandStays
<1>4. InHand'
  BY <1>3 DEF InHand
<1>5. QED
  BY <1>1, <1>2, <1>4 DEF StepKept

LEMMA PlainKept ==
  ASSUME RaiseTyped, InHand, UNCHANGED <<signals, raiser>>, rules' \in Rules, day' \in 0..MaxDays, Quiet
  PROVE  StepKept
<1>1. SignalsKept
  BY SameSignals
<1>2. RaiseTyped'
  BY DEF RaiseTyped, Quiet
<1>3. InHand'
  BY DEF InHand, TasksKnown, FoundInOrder, Quiet
<1>4. QED
  BY <1>1, <1>2, <1>3 DEF StepKept

(* Every step is one of three kinds, and keeps types and what is in hand.  *)
AlertWritten == \E r \in Raisers : \E p : WrittenBy(r, p, signals[p.signal])
Statused == \E i \in DOMAIN alerts, status \in {"ACKNOWLEDGED", "DISMISSED"} : SetStatus(i, status)

LEMMA RaiseSteps ==
  ASSUME RaiseTyped, InHand, [RaiseNext]_aVars
  PROVE  StepKept /\ (Quiet \/ AlertWritten \/ Statused)
<1>1. CASE UNCHANGED aVars
  <2>1. Quiet /\ UNCHANGED <<signals, raiser>> /\ rules' \in Rules /\ day' \in 0..MaxDays
    BY <1>1 DEF aVars, Quiet, RaiseTyped
  <2>2. QED
    BY <2>1, PlainKept
<1>2. CASE \E r \in Raisers, kind \in Kinds, page \in Pages, size \in Sizes, sure \in BOOLEAN : Promote(r, kind, page, size, sure)
  BY <1>2, PromoteKept
<1>3. CASE \E r \in Raisers : List(r) \/ Find(r) \/ Abandon(r)
  BY <1>3, ListKept, FindKept, AbandonKept
<1>4. CASE \E r \in Raisers : Write(r)
  <2>1. PICK r \in Raisers : Write(r)
    BY <1>4
  <2>2. \E p : WrittenBy(r, p, signals[p.signal])
    BY <2>1, WriteEffect
  <2>3. QED
    BY <2>2, WriteKept DEF AlertWritten
<1>5. CASE Statused
  BY <1>5, SetStatusKept DEF Statused
<1>6. CASE (\E set \in Rules : ReplaceRules(set)) \/ NextDay
  <2>1. Quiet /\ UNCHANGED <<signals, raiser>> /\ rules' \in Rules /\ day' \in 0..MaxDays
    BY <1>6, RaiseConstants DEF ReplaceRules, NextDay, Quiet, RaiseTyped
  <2>2. QED
    BY <2>1, PlainKept
<1>7. QED
  BY <1>1, <1>2, <1>3, <1>4, <1>5, <1>6 DEF RaiseNext, Statused

-----------------------------------------------------------------------------
(* The signals behind an alert.                                            *)
LEMMA LinkAdded ==
  ASSUME RaiseTyped, NEW n, links' = links \cup {n}, NEW j
  PROVE  LinksOf(j)' = IF n.alert = j THEN LinksOf(j) \cup {n} ELSE LinksOf(j)
BY DEF LinksOf

LEMMA LinksCounted ==
  ASSUME RaiseTyped, NEW j
  PROVE  IsFiniteSet(LinksOf(j)) /\ (\A n : n \notin LinksOf(j) => Cardinality(LinksOf(j) \cup {n}) = Cardinality(LinksOf(j)) + 1)
<1>1. LinksOf(j) \subseteq links
  BY DEF LinksOf
<1>2. IsFiniteSet(LinksOf(j))
  BY <1>1, FS_Subset DEF RaiseTyped
<1>3. QED
  BY <1>2, FS_AddElement

LEMMA NotLinked ==
  ASSUME NEW p, p.signal \notin Handled
  PROVE  \A l \in links : l.signal # p.signal
BY DEF Handled

LEMMA QuietLinks == ASSUME UNCHANGED links, NEW j PROVE LinksOf(j)' = LinksOf(j)
BY DEF LinksOf

(* An alert counts its signals, after each kind of step.                   *)
LEMMA CountsKept ==
  ASSUME RaiseTyped, InHand, CountsItsSignals, Quiet \/ AlertWritten \/ Statused
  PROVE  CountsItsSignals'
<1>1. CASE Quiet
  <2>1. \A j : LinksOf(j)' = LinksOf(j)
    BY <1>1, QuietLinks DEF Quiet
  <2>2. QED
    BY <1>1, <2>1 DEF Quiet, CountsItsSignals
<1>2. CASE Statused
  <2>1. PICK i \in DOMAIN alerts, status \in {"ACKNOWLEDGED", "DISMISSED"} : SetStatus(i, status)
    BY <1>2 DEF Statused
  <2>2. UNCHANGED links /\ DOMAIN alerts' = DOMAIN alerts /\ \A j \in DOMAIN alerts : alerts'[j].count = alerts[j].count
    BY <2>1, SetStatusEffect
  <2>3. \A j : LinksOf(j)' = LinksOf(j)
    BY <2>2, QuietLinks
  <2>4. QED
    BY <2>2, <2>3 DEF CountsItsSignals
<1>3. CASE AlertWritten /\ ~Quiet
  <2>0. PICK r \in Raisers : \E p : WrittenBy(r, p, signals[p.signal])
    BY <1>3 DEF AlertWritten
  <2>1. PICK p : WrittenBy(r, p, signals[p.signal])
    BY <2>0
  <2> DEFINE s == signals[p.signal]
  <2>2. p \in Task /\ s \in Signal /\ p.signal \notin Handled
    BY <1>3, <2>1 DEF WrittenBy, Quiet
  <2>3. \A l \in links : l.signal # p.signal
    BY <2>2, NotLinked
  <2>4. CASE AlertOpened(p, s)
    <3>0. PICK k : k = Len(alerts) + 1
      OBVIOUS
    <3> DEFINE n == [signal |-> p.signal, alert |-> k, level |-> p.level]
    <3>1. links' = links \cup {n} /\ n.signal = p.signal /\ n.alert = k
      BY <2>4, <3>0 DEF AlertOpened
    <3>2. /\ DOMAIN alerts' = DOMAIN alerts \cup {k} /\ k \notin DOMAIN alerts
          /\ \A j \in DOMAIN alerts : alerts'[j] = alerts[j]
          /\ alerts'[k].count = 1
      BY <2>2, <2>4, <3>0, OpenedRow
    <3>. HIDE DEF n
    <3>3. \A l, m \in links' : l.signal = m.signal => l = m
      BY <2>3, <3>1 DEF CountsItsSignals
    <3>4. ASSUME NEW j \in DOMAIN alerts PROVE LinksOf(j)' = LinksOf(j)
      BY <3>1, <3>2, LinkAdded
    <3>5. LinksOf(k) = {}
      BY <3>2 DEF LinksOf, RaiseTyped
    <3>6. LinksOf(k)' = {n}
      BY <3>1, <3>5, LinkAdded
    <3>7. Cardinality({n}) = 1
      BY FS_Singleton
    <3>8. \A j \in DOMAIN alerts' : alerts'[j].count = Cardinality(LinksOf(j)')
      BY <3>2, <3>4, <3>6, <3>7 DEF CountsItsSignals
    <3>9. QED
      BY <3>3, <3>8 DEF CountsItsSignals
  <2>5. CASE \E i \in DOMAIN alerts, seen \in Alert : Joined(i, seen, p, s)
    <3>0. PICK i \in DOMAIN alerts, seen \in Alert : Joined(i, seen, p, s)
      BY <2>5
    <3> DEFINE n == [signal |-> p.signal, alert |-> i, level |-> p.level]
    <3>1. links' = links \cup {n} /\ n.signal = p.signal /\ n.alert = i
      BY <3>0 DEF Joined
    <3>2. /\ DOMAIN alerts' = DOMAIN alerts /\ \A j \in DOMAIN alerts \ {i} : alerts'[j] = alerts[j]
          /\ alerts'[i].count = alerts[i].count + 1
      BY <2>2, <3>0, JoinedRow
    <3>. HIDE DEF n
    <3>3. \A l, m \in links' : l.signal = m.signal => l = m
      BY <2>3, <3>1 DEF CountsItsSignals
    <3>4. ASSUME NEW j \in DOMAIN alerts \ {i} PROVE LinksOf(j)' = LinksOf(j)
      BY <3>1, LinkAdded
    <3>5. n \notin LinksOf(i)
      BY <2>3, <3>1 DEF LinksOf
    <3>6. LinksOf(i)' = LinksOf(i) \cup {n}
      BY <3>1, LinkAdded
    <3>7. Cardinality(LinksOf(i) \cup {n}) = Cardinality(LinksOf(i)) + 1
      BY <3>5, LinksCounted
    <3>8. \A j \in DOMAIN alerts' : alerts'[j].count = Cardinality(LinksOf(j)')
      <4>1. alerts'[i].count = Cardinality(LinksOf(i)')
        BY <3>2, <3>6, <3>7 DEF CountsItsSignals
      <4>2. QED
        BY <4>1, <3>2, <3>4 DEF CountsItsSignals
    <3>9. QED
      BY <3>3, <3>8 DEF CountsItsSignals
  <2>6. QED
    BY <1>3, <2>1, <2>4, <2>5 DEF WrittenBy, Quiet
<1>4. QED
  BY <1>1, <1>2, <1>3

-----------------------------------------------------------------------------
(* Levels and episodes.  A write from a read that is up to date goes to    *)
(* the alert as it was read, and no later alert of its page and kind was   *)
(* there to join; a new alert opens when there was none.                   *)
LEMMA UpToDate ==
  ASSUME RaiseTyped, NEW i \in DOMAIN alerts, NEW seen, NEW p, NEW s, Joined(i, seen, p, s),
         alerts[i].key = DedupeKey(s), alerts[i].key \notin stale'
  PROVE  /\ alerts[i].key \notin stale /\ alerts[i] = seen
         /\ \A j \in Joinable(s) : ~(alerts[j].last > alerts[i].last)
<1>1. i # 0
  BY DEF RaiseTyped
<1>2. ~Outdated(i, seen, s)
  BY DEF Joined
<1>3. QED
  BY <1>1, <1>2 DEF Outdated, Joined

LEMMA NothingToJoin ==
  ASSUME NEW p, NEW s, AlertOpened(p, s), DedupeKey(s) \notin stale'
  PROVE  DedupeKey(s) \notin stale /\ Joinable(s) = {}
BY DEF AlertOpened

LEMMA StaleGrows == ASSUME Quiet \/ AlertWritten \/ Statused PROVE stale \subseteq stale'
BY DEF Quiet, AlertWritten, WrittenBy, AlertOpened, Joined, Statused, SetStatus

NotBackwards == \A i \in DOMAIN alerts : alerts[i].key \notin stale => alerts[i].first <= alerts[i].last

LeveledAs(i) ==
  /\ \E l \in LinksOf(i) : l.level = alerts[i].level
  /\ \A l \in LinksOf(i) : l.level <= alerts[i].level /\ signals[l.signal].at <= alerts[i].last

LEMMA LevelKept ==
  ASSUME RaiseTyped, InHand, LevelIsHighest, NotBackwards, StepKept, Quiet \/ AlertWritten \/ Statused
  PROVE  LevelIsHighest' /\ NotBackwards'
<1>1. stale \subseteq stale'
  BY StaleGrows
<1>2. \A l \in links : signals'[l.signal].at = signals[l.signal].at
  BY DEF StepKept, SignalsKept, RaiseTyped
<1>3. CASE Quiet
  <2>1. \A j : LinksOf(j)' = LinksOf(j)
    BY <1>3, QuietLinks DEF Quiet
  <2>2. \A j : \A l \in LinksOf(j) : l \in links
    BY DEF LinksOf
  <2>3. QED
    BY <1>2, <1>3, <2>1, <2>2 DEF Quiet, LevelIsHighest, NotBackwards
<1>4. CASE Statused
  <2>1. PICK i \in DOMAIN alerts, status \in {"ACKNOWLEDGED", "DISMISSED"} : SetStatus(i, status)
    BY <1>4 DEF Statused
  <2>2. /\ UNCHANGED links /\ DOMAIN alerts' = DOMAIN alerts
        /\ \A j \in DOMAIN alerts : /\ alerts'[j].key = alerts[j].key /\ alerts'[j].level = alerts[j].level
                                    /\ alerts'[j].first = alerts[j].first /\ alerts'[j].last = alerts[j].last
    BY <2>1, SetStatusEffect
  <2>3. \A j : LinksOf(j)' = LinksOf(j)
    BY <2>2, QuietLinks
  <2>4. \A j : \A l \in LinksOf(j) : l \in links
    BY DEF LinksOf
  <2>5. QED
    BY <1>1, <1>2, <2>2, <2>3, <2>4 DEF LevelIsHighest, NotBackwards
<1>5. CASE AlertWritten /\ ~Quiet
  <2>0. PICK r \in Raisers : \E p : WrittenBy(r, p, signals[p.signal])
    BY <1>5 DEF AlertWritten
  <2>1. PICK p : WrittenBy(r, p, signals[p.signal])
    BY <2>0
  <2> DEFINE s == signals[p.signal]
  <2>2. p \in Task /\ s \in Signal /\ p.signal \in DOMAIN signals /\ signals' = signals
    BY <2>1 DEF WrittenBy
  <2>3. \A j : \A l \in LinksOf(j) : l \in links
    BY DEF LinksOf
  <2>4. CASE AlertOpened(p, s)
    <3>0. PICK k : k = Len(alerts) + 1
      OBVIOUS
    <3> DEFINE n == [signal |-> p.signal, alert |-> k, level |-> p.level]
    <3>1. links' = links \cup {n} /\ n.signal = p.signal /\ n.alert = k /\ n.level = p.level
      BY <2>4, <3>0 DEF AlertOpened
    <3>2. /\ DOMAIN alerts' = DOMAIN alerts \cup {k} /\ k \notin DOMAIN alerts
          /\ \A j \in DOMAIN alerts : alerts'[j] = alerts[j]
          /\ alerts'[k].level = p.level /\ alerts'[k].first = s.at /\ alerts'[k].last = s.at
      BY <2>2, <2>4, <3>0, OpenedRow
    <3>3. s.at \in Nat /\ p.level \in Nat
      BY <2>2, RaiseConstants DEF Signal, Task, Levels
    <3>. HIDE DEF n
    <3>4. ASSUME NEW j \in DOMAIN alerts PROVE LinksOf(j)' = LinksOf(j)
      BY <3>1, <3>2, LinkAdded
    <3>5. LinksOf(k) = {}
      BY <3>2 DEF LinksOf, RaiseTyped
    <3>6. LinksOf(k)' = {n}
      BY <3>1, <3>5, LinkAdded
    <3>7. LeveledAs(k)'
      BY <2>2, <3>1, <3>2, <3>3, <3>6 DEF LeveledAs
    <3>8. ASSUME NEW j \in DOMAIN alerts, alerts'[j].key \notin stale'
          PROVE  LeveledAs(j)' /\ alerts'[j].first <= alerts'[j].last
      <4>1. LeveledAs(j) /\ alerts[j].first <= alerts[j].last
        BY <1>1, <3>2, <3>8 DEF LevelIsHighest, LeveledAs, NotBackwards
      <4>2. QED
        BY <1>2, <2>3, <3>2, <3>4, <4>1 DEF LeveledAs
    <3>9. QED
      BY <3>2, <3>3, <3>7, <3>8 DEF LevelIsHighest, LeveledAs, NotBackwards
  <2>5. CASE \E i \in DOMAIN alerts, seen \in Alert : Joined(i, seen, p, s) /\ alerts[i].key = DedupeKey(s)
    <3>0. PICK i \in DOMAIN alerts, seen \in Alert : Joined(i, seen, p, s) /\ alerts[i].key = DedupeKey(s)
      BY <2>5
    <3> DEFINE n == [signal |-> p.signal, alert |-> i, level |-> p.level]
    <3>1. links' = links \cup {n} /\ n.signal = p.signal /\ n.alert = i /\ n.level = p.level
      BY <3>0 DEF Joined
    <3>2. /\ DOMAIN alerts' = DOMAIN alerts /\ \A j \in DOMAIN alerts \ {i} : alerts'[j] = alerts[j]
          /\ alerts'[i].key = alerts[i].key /\ alerts'[i].first = alerts[i].first
          /\ alerts'[i].last = Later(seen.last, s.at)
          /\ alerts'[i].level = IF p.level > seen.level THEN p.level ELSE alerts[i].level
      BY <2>2, <3>0, JoinedRow
    <3>. HIDE DEF n
    <3>3. ASSUME NEW j \in DOMAIN alerts \ {i}, alerts'[j].key \notin stale'
          PROVE  LeveledAs(j)' /\ alerts'[j].first <= alerts'[j].last
      <4>1. LinksOf(j)' = LinksOf(j)
        BY <3>1, LinkAdded
      <4>2. LeveledAs(j) /\ alerts[j].first <= alerts[j].last
        BY <1>1, <3>2, <3>3 DEF LevelIsHighest, LeveledAs, NotBackwards
      <4>3. QED
        BY <1>2, <2>3, <3>2, <4>1, <4>2 DEF LeveledAs
    <3>4. ASSUME alerts'[i].key \notin stale'
          PROVE  LeveledAs(i)' /\ alerts'[i].first <= alerts'[i].last
      <4>1. alerts[i].key \notin stale /\ alerts[i] = seen
        BY <3>0, <3>2, <3>4, UpToDate
      <4>2. LeveledAs(i) /\ alerts[i].first <= alerts[i].last
        BY <4>1 DEF LevelIsHighest, LeveledAs, NotBackwards
      <4>3. LinksOf(i)' = LinksOf(i) \cup {n}
        BY <3>1, LinkAdded
      <4>4. /\ alerts[i].last \in Int /\ alerts[i].first \in Int /\ s.at \in Int /\ alerts[i].level \in Levels /\ p.level \in Levels
            /\ \A l \in links : l.level \in Levels /\ signals[l.signal].at \in Int
        <5>1. alerts[i] \in Alert /\ \A l \in links : l.level \in Levels /\ signals[l.signal] \in Signal
          BY DEF RaiseTyped
        <5>2. \A d \in 0..MaxDays : d \in Int
          OBVIOUS
        <5>3. \A x \in Signal : x.at \in Int
          BY <5>2 DEF Signal
        <5>4. \A x \in Alert : x.first \in Int /\ x.last \in Int /\ x.level \in Levels
          BY <5>2 DEF Alert
        <5>5. QED
          BY <2>2, <5>1, <5>3, <5>4 DEF Task
      <4>5. /\ alerts'[i].last \in Int /\ alerts'[i].last >= alerts[i].last /\ alerts'[i].last >= s.at
        BY <3>2, <4>1, <4>4 DEF Later
      <4>6. /\ alerts'[i].level \in Levels /\ alerts'[i].level >= alerts[i].level /\ alerts'[i].level >= p.level
            /\ alerts'[i].level \in {alerts[i].level, p.level}
        BY <3>2, <4>1, <4>4 DEF Levels
      <4>7. \A l \in LinksOf(i)' : l.level <= alerts'[i].level /\ signals'[l.signal].at <= alerts'[i].last
        <5>1. ASSUME NEW l \in LinksOf(i) PROVE l.level <= alerts'[i].level /\ signals'[l.signal].at <= alerts'[i].last
          BY <2>2, <2>3, <4>2, <4>4, <4>5, <4>6 DEF LeveledAs, Levels
        <5>2. n.level <= alerts'[i].level /\ signals'[n.signal].at <= alerts'[i].last
          BY <2>2, <3>1, <4>5, <4>6
        <5>3. QED
          BY <4>3, <5>1, <5>2
      <4>8. \E l \in LinksOf(i)' : l.level = alerts'[i].level
        <5>1. \E l \in LinksOf(i) : l.level = alerts[i].level
          BY <4>2 DEF LeveledAs
        <5>2. QED
          BY <3>1, <4>3, <4>6, <5>1
      <4>9. QED
        BY <3>2, <4>2, <4>4, <4>5, <4>7, <4>8 DEF LeveledAs
    <3>5. QED
      BY <3>2, <3>3, <3>4 DEF LevelIsHighest, LeveledAs, NotBackwards
  <2>6. QED
    BY <1>5, <2>1, <2>4, <2>5 DEF WrittenBy, Quiet
<1>6. QED
  BY <1>3, <1>4, <1>5

(* Two episodes of one page and kind.                                      *)
KeptApart(i, j) == alerts[j].first > alerts[i].last + Cooldown \/ alerts[i].first > alerts[j].last + Cooldown
Live(i) == alerts[i].status # "DISMISSED"
EpisodesApart ==
  \A i, j \in DOMAIN alerts :
    i # j /\ alerts[i].key = alerts[j].key /\ alerts[i].key \notin stale /\ Live(i) /\ Live(j) => KeptApart(i, j)

LEMMA ApartRepeats == ASSUME RaiseTyped, EpisodesApart PROVE RepeatsJoin
<1>1. ASSUME NEW i \in DOMAIN alerts, NEW j \in DOMAIN alerts, i < j, alerts[i].key = alerts[j].key,
             alerts[i].key \notin stale, "DISMISSED" \notin {alerts[i].status, alerts[j].status}
      PROVE  alerts[j].first > alerts[i].last + Cooldown \/ alerts[i].first > alerts[j].last + Cooldown
  <2>1. i # j
    BY <1>1 DEF RaiseTyped
  <2>2. QED
    BY <1>1, <2>1 DEF EpisodesApart, KeptApart, Live
<1>2. QED
  BY <1>1 DEF RepeatsJoin

LEMMA AlertTimes ==
  ASSUME RaiseTyped
  PROVE  \A i \in DOMAIN alerts : alerts[i].first \in Int /\ alerts[i].last \in Int
<1>1. \A i \in DOMAIN alerts : alerts[i] \in Alert
  BY DEF RaiseTyped
<1>2. \A d \in 0..MaxDays : d \in Int
  OBVIOUS
<1>3. QED
  BY <1>1, <1>2 DEF Alert

(* An alert that a signal joins stays apart from the others: a later one   *)
(* would have been there to join.                                          *)
LEMMA JoinStaysApart ==
  ASSUME RaiseTyped, NotBackwards, EpisodesApart, NEW i \in DOMAIN alerts, NEW seen \in Alert, NEW p \in Task,
         NEW s \in Signal, Joined(i, seen, p, s), alerts[i].key = DedupeKey(s), seen.status # "DISMISSED",
         seen.last >= s.at - Cooldown,
         NEW j \in DOMAIN alerts, i # j, alerts[j].key = alerts[i].key, alerts[i].key \notin stale', Live(j)
  PROVE  KeptApart(i, j)' /\ KeptApart(j, i)'
<1>1. /\ alerts[i].key \notin stale /\ alerts[i] = seen
      /\ \A k \in Joinable(s) : ~(alerts[k].last > alerts[i].last)
  BY UpToDate
<1>2. Live(i)
  BY <1>1 DEF Live
<1>3. KeptApart(i, j)
  BY <1>1, <1>2 DEF EpisodesApart
<1>4. /\ alerts[i].first \in Int /\ alerts[i].last \in Int /\ alerts[j].first \in Int /\ alerts[j].last \in Int
      /\ s.at \in Int /\ Cooldown \in Nat
  <2>1. \A d \in 0..MaxDays : d \in Int
    OBVIOUS
  <2>2. QED
    BY <2>1, AlertTimes, RaiseConstants DEF Signal
<1>5. alerts[j].first <= alerts[j].last
  BY <1>1 DEF NotBackwards
<1>6. alerts[i].first > alerts[j].last + Cooldown
  <2>1. CASE alerts[j].first > alerts[i].last + Cooldown
    <3>1. alerts[j].last > alerts[i].last /\ alerts[j].last >= s.at - Cooldown
      BY <1>1, <1>4, <1>5, <2>1
    <3>2. j \in Joinable(s)
      BY <3>1 DEF Joinable, Live
    <3>3. QED
      BY <1>1, <3>1, <3>2
  <2>2. QED
    BY <1>3, <2>1 DEF KeptApart
<1>7. alerts'[i].first = alerts[i].first /\ alerts'[j] = alerts[j]
  BY JoinedRow
<1>8. QED
  BY <1>6, <1>7 DEF KeptApart

LEMMA ApartKept ==
  ASSUME RaiseTyped, InHand, NotBackwards, EpisodesApart, Quiet \/ AlertWritten \/ Statused
  PROVE  EpisodesApart'
<1>1. stale \subseteq stale'
  BY StaleGrows
<1>2. CASE Quiet
  BY <1>2 DEF Quiet, EpisodesApart, KeptApart, Live
<1>3. CASE Statused
  <2>1. PICK i \in DOMAIN alerts, status \in {"ACKNOWLEDGED", "DISMISSED"} : SetStatus(i, status)
    BY <1>3 DEF Statused
  <2>2. /\ DOMAIN alerts' = DOMAIN alerts /\ \A j \in DOMAIN alerts \ {i} : alerts'[j] = alerts[j]
        /\ alerts'[i].key = alerts[i].key /\ alerts'[i].first = alerts[i].first /\ alerts'[i].last = alerts[i].last
        /\ stale' = IF alerts[i].status = "DISMISSED" THEN stale \cup {alerts[i].key} ELSE stale
    BY <2>1, SetStatusEffect
  <2>3. ASSUME NEW j \in DOMAIN alerts, alerts[j].key \notin stale', Live(j)' PROVE Live(j)
    BY <2>2, <2>3 DEF Live
  <2>4. QED
    BY <1>1, <2>2, <2>3 DEF EpisodesApart, KeptApart
<1>4. CASE AlertWritten /\ ~Quiet
  <2>0. PICK r \in Raisers : \E p : WrittenBy(r, p, signals[p.signal])
    BY <1>4 DEF AlertWritten
  <2>1. PICK p : WrittenBy(r, p, signals[p.signal])
    BY <2>0
  <2>s. PICK s : s = signals[p.signal]
    OBVIOUS
  <2>2. p \in Task /\ s \in Signal
    BY <2>1, <2>s DEF WrittenBy
  <2>3. CASE AlertOpened(p, s)
    <3>0. PICK k : k = Len(alerts) + 1
      OBVIOUS
    <3>1. /\ DOMAIN alerts' = DOMAIN alerts \cup {k} /\ k \notin DOMAIN alerts
          /\ \A j \in DOMAIN alerts : alerts'[j] = alerts[j]
          /\ alerts'[k].key = DedupeKey(s) /\ alerts'[k].first = s.at
      BY <2>2, <2>3, <3>0, OpenedRow
    <3>2. ASSUME NEW j \in DOMAIN alerts, alerts[j].key = DedupeKey(s), alerts[j].key \notin stale', Live(j)
          PROVE  KeptApart(j, k)' /\ KeptApart(k, j)'
      <4>1. Joinable(s) = {}
        BY <2>3, <3>2, NothingToJoin
      <4>2. ~(alerts[j].last >= s.at - Cooldown)
        BY <3>2, <4>1 DEF Joinable, Live
      <4>3. alerts[j].last \in Int /\ s.at \in Int /\ Cooldown \in Int
        <5>1. \A d \in 0..MaxDays : d \in Int
          OBVIOUS
        <5>2. QED
          BY <2>2, <5>1, AlertTimes, RaiseConstants DEF Signal
      <4>4. alerts'[k].first > alerts'[j].last + Cooldown
        BY <3>1, <4>2, <4>3
      <4>5. QED
        BY <4>4 DEF KeptApart
    <3>3. ASSUME NEW i \in DOMAIN alerts', NEW j \in DOMAIN alerts', i # j, alerts'[i].key = alerts'[j].key,
                 alerts'[i].key \notin stale', Live(i)', Live(j)'
          PROVE  KeptApart(i, j)'
      <4>1. CASE i \in DOMAIN alerts /\ j \in DOMAIN alerts
        <5>1. alerts'[i] = alerts[i] /\ alerts'[j] = alerts[j]
          BY <3>1, <4>1
        <5>2. KeptApart(i, j)
          BY <1>1, <3>3, <4>1, <5>1 DEF EpisodesApart, Live
        <5>3. QED
          BY <5>1, <5>2 DEF KeptApart
      <4>2. CASE i = k
        <5>1. j \in DOMAIN alerts /\ alerts'[j] = alerts[j]
          BY <3>1, <3>3, <4>2
        <5>2. alerts[j].key = DedupeKey(s) /\ alerts[j].key \notin stale' /\ Live(j)
          BY <3>1, <3>3, <4>2, <5>1 DEF Live
        <5>3. QED
          BY <3>2, <4>2, <5>1, <5>2
      <4>3. CASE j = k
        <5>1. i \in DOMAIN alerts /\ alerts'[i] = alerts[i]
          BY <3>1, <3>3, <4>3
        <5>2. alerts[i].key = DedupeKey(s) /\ alerts[i].key \notin stale' /\ Live(i)
          BY <3>1, <3>3, <4>3, <5>1 DEF Live
        <5>3. QED
          BY <3>2, <4>3, <5>1, <5>2
      <4>4. QED
        BY <3>1, <4>1, <4>2, <4>3
    <3>4. QED
      BY <3>3 DEF EpisodesApart
  <2>4. CASE \E i \in DOMAIN alerts, seen \in Alert :
               /\ Joined(i, seen, p, s) /\ alerts[i].key = DedupeKey(s) /\ seen.status # "DISMISSED"
               /\ seen.last >= s.at - Cooldown
    <3>1. PICK m \in DOMAIN alerts, seen \in Alert :
               /\ Joined(m, seen, p, s) /\ alerts[m].key = DedupeKey(s) /\ seen.status # "DISMISSED"
               /\ seen.last >= s.at - Cooldown
      BY <2>4
    <3>2. /\ DOMAIN alerts' = DOMAIN alerts /\ alerts'[m].key = alerts[m].key
          /\ \A j \in DOMAIN alerts \ {m} : alerts'[j] = alerts[j]
      BY <2>2, <3>1, JoinedRow
    <3>3. ASSUME NEW j \in DOMAIN alerts, j # m, alerts[j].key = alerts[m].key, alerts[m].key \notin stale', Live(j)
          PROVE  KeptApart(m, j)' /\ KeptApart(j, m)'
      BY <2>2, <3>1, <3>3, JoinStaysApart
    <3>4. ASSUME NEW i \in DOMAIN alerts', NEW j \in DOMAIN alerts', i # j, alerts'[i].key = alerts'[j].key,
                 alerts'[i].key \notin stale', Live(i)', Live(j)'
          PROVE  KeptApart(i, j)'
      <4>1. CASE i # m /\ j # m
        <5>1. alerts'[i] = alerts[i] /\ alerts'[j] = alerts[j] /\ i \in DOMAIN alerts /\ j \in DOMAIN alerts
          BY <3>2, <4>1
        <5>2. KeptApart(i, j)
          BY <1>1, <3>4, <5>1 DEF EpisodesApart, Live
        <5>3. QED
          BY <5>1, <5>2 DEF KeptApart
      <4>2. CASE i = m
        <5>1. j \in DOMAIN alerts /\ j # m /\ alerts'[j] = alerts[j]
          BY <3>2, <3>4, <4>2
        <5>2. alerts[j].key = alerts[m].key /\ alerts[m].key \notin stale' /\ Live(j)
          BY <3>2, <3>4, <4>2, <5>1 DEF Live
        <5>3. QED
          BY <3>3, <4>2, <5>1, <5>2
      <4>3. CASE j = m
        <5>1. i \in DOMAIN alerts /\ i # m /\ alerts'[i] = alerts[i]
          BY <3>2, <3>4, <4>3
        <5>2. alerts[i].key = alerts[m].key /\ alerts[m].key \notin stale' /\ Live(i)
          BY <3>2, <3>4, <4>3, <5>1 DEF Live
        <5>3. QED
          BY <3>3, <4>3, <5>1, <5>2
      <4>4. QED
        BY <4>1, <4>2, <4>3
    <3>5. QED
      BY <3>4 DEF EpisodesApart
  <2>5. QED
    BY <1>4, <2>1, <2>s, <2>3, <2>4 DEF WrittenBy, Quiet
<1>5. QED
  BY <1>2, <1>3, <1>4

-----------------------------------------------------------------------------
(* Alerts and what they stand for.                                         *)
RaiseInv == RaiseTyped /\ InHand /\ CountsItsSignals /\ LevelIsHighest /\ NotBackwards /\ EpisodesApart

LEMMA RaiseStarts == RaiseInit => RaiseInv
<1> SUFFICES ASSUME RaiseInit PROVE RaiseInv
  OBVIOUS
<1>1. RaiseTyped
  <2>1. 0 \in 0..MaxDays
    BY RaiseConstants
  <2>2. raiser \in [Raisers -> RaiserRow]
    BY RestTyped DEF RaiseInit
  <2>3. IsFiniteSet({})
    BY FS_EmptySet
  <2>4. signals = <<>> /\ alerts = <<>> /\ links = {} /\ rules \in Rules /\ day = 0
    BY DEF RaiseInit
  <2>5. QED
    BY <2>1, <2>2, <2>3, <2>4 DEF RaiseTyped
<1>2. InHand
  BY RestTyped DEF RaiseInit, InHand, TasksKnown, FoundInOrder
<1>3. DOMAIN alerts = {} /\ links = {}
  BY DEF RaiseInit
<1>4. CountsItsSignals /\ LevelIsHighest /\ NotBackwards /\ EpisodesApart
  BY <1>3 DEF CountsItsSignals, LevelIsHighest, NotBackwards, EpisodesApart
<1>5. QED
  BY <1>1, <1>2, <1>4 DEF RaiseInv

LEMMA RaiseInvKept == RaiseInv /\ [RaiseNext]_aVars => RaiseInv'
<1> SUFFICES ASSUME RaiseInv, [RaiseNext]_aVars PROVE RaiseInv'
  OBVIOUS
<1>1. StepKept /\ (Quiet \/ AlertWritten \/ Statused)
  BY RaiseSteps DEF RaiseInv
<1>2. CountsItsSignals'
  BY <1>1, CountsKept DEF RaiseInv
<1>3. LevelIsHighest' /\ NotBackwards'
  BY <1>1, LevelKept DEF RaiseInv
<1>4. EpisodesApart'
  BY <1>1, ApartKept DEF RaiseInv
<1>5. QED
  BY <1>1, <1>2, <1>3, <1>4 DEF RaiseInv, StepKept

(* A dismissed alert gets no signal, unless it was dismissed after the     *)
(* raise had read it.                                                      *)
DismissedSkipped ==
  \A i \in DOMAIN alerts :
    alerts[i].status = "DISMISSED" /\ alerts'[i].count # alerts[i].count => alerts[i].key \in stale'

LEMMA DismissedStep == RaiseInv /\ [RaiseNext]_aVars => [DismissedSkipped]_alerts
<1> SUFFICES ASSUME RaiseInv, [RaiseNext]_aVars PROVE DismissedSkipped
  OBVIOUS
<1>1. Quiet \/ AlertWritten \/ Statused
  BY RaiseSteps DEF RaiseInv
<1>2. RaiseTyped
  BY DEF RaiseInv
<1>3. CASE Quiet
  BY <1>3 DEF Quiet, DismissedSkipped
<1>4. CASE Statused
  <2>1. PICK i \in DOMAIN alerts, status \in {"ACKNOWLEDGED", "DISMISSED"} : SetStatus(i, status)
    BY <1>4 DEF Statused
  <2>2. \A j \in DOMAIN alerts : alerts'[j].count = alerts[j].count
    BY <1>2, <2>1, SetStatusEffect
  <2>3. QED
    BY <2>2 DEF DismissedSkipped
<1>5. CASE AlertWritten /\ ~Quiet
  <2>0. PICK r \in Raisers : \E p : WrittenBy(r, p, signals[p.signal])
    BY <1>5 DEF AlertWritten
  <2>1. PICK p : WrittenBy(r, p, signals[p.signal])
    BY <2>0
  <2>2. PICK s : s = signals[p.signal]
    OBVIOUS
  <2>3. p \in Task /\ s \in Signal
    BY <2>1, <2>2 DEF WrittenBy
  <2>4. CASE AlertOpened(p, s)
    <3>1. \A j \in DOMAIN alerts : alerts'[j] = alerts[j]
      BY <1>2, <2>3, <2>4, OpenedRow
    <3>2. QED
      BY <3>1 DEF DismissedSkipped
  <2>5. CASE \E i \in DOMAIN alerts, seen \in Alert :
               Joined(i, seen, p, s) /\ alerts[i].key = DedupeKey(s) /\ seen.status # "DISMISSED"
    <3>1. PICK i \in DOMAIN alerts, seen \in Alert :
               Joined(i, seen, p, s) /\ alerts[i].key = DedupeKey(s) /\ seen.status # "DISMISSED"
      BY <2>5
    <3>2. \A j \in DOMAIN alerts \ {i} : alerts'[j] = alerts[j]
      BY <1>2, <2>3, <3>1, JoinedRow
    <3>3. alerts[i].key \in stale' \/ alerts[i] = seen
      BY <1>2, <2>3, <3>1, UpToDate
    <3>4. QED
      BY <3>1, <3>2, <3>3 DEF DismissedSkipped
  <2>6. QED
    BY <1>5, <2>1, <2>2, <2>4, <2>5 DEF WrittenBy, Quiet
<1>6. QED
  BY <1>1, <1>3, <1>4, <1>5

(* Raising (alerts.ts): however raises overlap, crash and are repeated,    *)
(* every signal is behind one alert, and an alert counts exactly the       *)
(* signals behind it; unless it was written from a read that was out of    *)
(* date it has their highest level and is further than the cooldown from   *)
(* the next alert of its page and kind; and a dismissed alert is left      *)
(* alone.                                                                  *)
THEOREM AlertsCorrect == RaiseSpec => AlertsStandForTheirSignals
<1>1. RaiseInv => CountsItsSignals /\ LevelIsHighest /\ RepeatsJoin
  BY ApartRepeats DEF RaiseInv
<1>2. RaiseSpec => [][DismissedSkipped]_alerts
  BY RaiseStarts, RaiseInvKept, DismissedStep, PTL DEF RaiseSpec
<1>3. DismissedIsLeftAlone <=> [][DismissedSkipped]_alerts
  BY PTL DEF DismissedIsLeftAlone, DismissedSkipped
<1>4. QED
  BY <1>1, <1>2, <1>3, RaiseStarts, RaiseInvKept, PTL DEF RaiseSpec, AlertsStandForTheirSignals

(* The rows of a raise keep their types, and links point at rows that      *)
(* exist.                                                                  *)
THEOREM RaiseTypeCorrect == RaiseSpec => []RaiseTypeOK
<1>1. RaiseInv => RaiseTypeOK
  <2> SUFFICES ASSUME RaiseInv PROVE RaiseTypeOK
    OBVIOUS
  <2>1. RaiseTyped
    BY DEF RaiseInv
  <2>2. QED
    BY <2>1 DEF RaiseTyped, RaiseTypeOK, RaiserRow
<1>2. QED
  BY <1>1, RaiseStarts, RaiseInvKept, PTL DEF RaiseSpec

-----------------------------------------------------------------------------
(* Reading a page: types.                                                  *)
Answers == {"open", "closed", "down"}
ReaderRow == [at : {"idle", "robots", "resolve", "head", "body"}, origin : Origins \cup {"none"}, first : Origins \cup {"none"},
              left : Nat, chunks : Nat, validators : BOOLEAN, result : Results]

FetchTyped ==
  /\ robots \in [Origins -> Answers] /\ cache \in Seq(Entry) /\ clock \in Nat
  /\ reader \in [Readers -> ReaderRow] /\ said \in [Origins -> [Answers -> Int]]
  /\ requests \in [Readers -> Nat \X Nat]

(* What is left of a reading's requests and of its body.                   *)
WithinBounds(x, q) ==
  /\ q[1] <= MaxRedirects + 1 /\ q[2] <= MaxChunks + 1
  /\ x.at = "robots" => q[1] = 0 /\ q[2] = 0 /\ x.origin \in Origins
  /\ x.at = "resolve" => q[1] + x.left <= MaxRedirects
  /\ x.at \in {"head", "body"} => q[1] + x.left <= MaxRedirects + 1 /\ x.chunks <= MaxChunks

(* An entry of the cache that allows a site stands for an answer, no older *)
(* than the time that the entry is kept.                                   *)
Permits(o, since) == \E a \in {"open", "down"} : said[o][a] >= 0 /\ said[o][a] >= since

FetchInv ==
  /\ FetchTyped
  /\ \A r \in Readers : WithinBounds(reader[r], requests[r])
  /\ \A o \in Origins, a \in Answers : said[o][a] <= clock
  /\ \A i \in DOMAIN cache : cache[i].allowed => Permits(cache[i].origin, cache[i].expires - RobotsTtl)

LEMMA NotReadingTyped ==
  /\ NotReading \in ReaderRow /\ NotReading.at = "idle" /\ Failed \in ReaderRow /\ Failed.at = "idle"
BY DEF NotReading, Failed, ReaderRow, Results

LEMMA RecordTyped ==
  ASSUME NEW at \in {"idle", "robots", "resolve", "head", "body"}, NEW o \in Origins, NEW first \in Origins \cup {"none"},
         NEW left \in Nat, NEW v \in BOOLEAN
  PROVE  [at |-> at, origin |-> o, first |-> first, left |-> left, chunks |-> 0, validators |-> v, result |-> "none"] \in ReaderRow
<1>1. o \in Origins \cup {"none"} /\ 0 \in Nat /\ "none" \in Results
  BY DEF Results
<1>2. QED
  BY <1>1, Zenon DEF ReaderRow

LEMMA EntryTyped ==
  ASSUME FetchTyped, NEW i \in DOMAIN cache
  PROVE  cache[i] \in Entry /\ cache[i].origin \in Origins /\ cache[i].allowed \in BOOLEAN /\ cache[i].expires \in Nat
<1>1. cache[i] \in Entry
  BY DEF FetchTyped
<1>2. QED
  BY <1>1 DEF Entry

LEMMA AdmittedTyped ==
  ASSUME NEW r, NEW o \in Origins, NEW allowed \in BOOLEAN, NEW v \in BOOLEAN, NEW x, x = Admitted(r, o, allowed, v)
  PROVE  /\ x \in ReaderRow
         /\ allowed => x.at = "resolve" /\ x.left = MaxRedirects /\ x.first = o
         /\ ~allowed => x.at = "idle"
<1>1. CASE allowed
  <2>1. x = [at |-> "resolve", origin |-> o, first |-> o, left |-> MaxRedirects, chunks |-> 0, validators |-> v, result |-> "none"]
    BY <1>1 DEF Admitted, NotReading
  <2>2. QED
    <3>1. MaxRedirects \in Nat /\ 0 \in Nat /\ "none" \in Results
      BY FetchConstants DEF Results
    <3>2. x \in ReaderRow
      BY <2>1, <3>1, RecordTyped
    <3>3. x.at = "resolve" /\ x.left = MaxRedirects /\ x.first = o
      BY <2>1
    <3>4. QED
      BY <1>1, <3>2, <3>3
<1>2. CASE ~allowed
  BY <1>2, NotReadingTyped DEF Admitted
<1>3. QED
  BY <1>1, <1>2

(* A step of one reader that stays within its bounds.                      *)
LEMMA ReaderMoves ==
  ASSUME FetchTyped, \A r \in Readers : WithinBounds(reader[r], requests[r]),
         NEW r \in Readers, NEW x \in ReaderRow, NEW q \in Nat \X Nat,
         reader' = [reader EXCEPT ![r] = x], requests' = [requests EXCEPT ![r] = q], WithinBounds(x, q)
  PROVE  /\ reader' \in [Readers -> ReaderRow] /\ requests' \in [Readers -> Nat \X Nat]
         /\ \A t \in Readers : WithinBounds(reader'[t], requests'[t])
<1>1. reader' \in [Readers -> ReaderRow] /\ requests' \in [Readers -> Nat \X Nat]
  BY DEF FetchTyped
<1>2. reader'[r] = x /\ requests'[r] = q
  BY DEF FetchTyped
<1>3. \A t \in Readers \ {r} : reader'[t] = reader[t] /\ requests'[t] = requests[t]
  BY DEF FetchTyped
<1>4. QED
  BY <1>1, <1>2, <1>3

LEMMA StoredTyped ==
  ASSUME FetchTyped, NEW entry \in Entry
  PROVE  /\ Stored(MadeRoom, entry) \in Seq(Entry)
         /\ \A i \in DOMAIN Stored(MadeRoom, entry) :
              Stored(MadeRoom, entry)[i] = entry \/ \E j \in DOMAIN cache : Stored(MadeRoom, entry)[i] = cache[j]
<1>0. PICK kept : kept = MadeRoom
  OBVIOUS
<1>1. kept \in Seq(Entry) /\ \A i \in DOMAIN kept : \E j \in DOMAIN cache : kept[i] = cache[j]
  <2>1. CASE Len(cache) >= CacheSize
    <3>1. kept = Tail(cache) /\ cache # <<>> /\ cache \in Seq(Entry)
      BY <1>0, <2>1, FetchConstants DEF MadeRoom, FetchTyped
    <3>2. kept \in Seq(Entry) /\ Len(kept) = Len(cache) - 1
      BY <3>1
    <3>3. \A i \in DOMAIN kept : i + 1 \in DOMAIN cache /\ kept[i] = cache[i + 1]
      BY <3>1, <3>2
    <3>4. QED
      BY <3>2, <3>3
  <2>2. CASE ~(Len(cache) >= CacheSize)
    BY <1>0, <2>2 DEF MadeRoom, FetchTyped
  <2>3. QED
    BY <2>1, <2>2
<1>2. CASE \E i \in DOMAIN kept : kept[i].origin = entry.origin
  <2>1. Stored(kept, entry) = [i \in DOMAIN kept |-> IF kept[i].origin = entry.origin THEN entry ELSE kept[i]]
    BY <1>2 DEF Stored
  <2>2. DOMAIN kept = 1..Len(kept) /\ Len(kept) \in Nat /\ \A i \in DOMAIN kept : kept[i] \in Entry
    BY <1>1
  <2>3. Stored(kept, entry) \in [1..Len(kept) -> Entry]
    BY <2>1, <2>2
  <2>4. Stored(kept, entry) \in Seq(Entry)
    BY <2>2, <2>3
  <2>5. QED
    BY <1>0, <1>1, <2>1, <2>4
<1>3. CASE ~\E i \in DOMAIN kept : kept[i].origin = entry.origin
  <2>1. Stored(kept, entry) = Append(kept, entry)
    BY <1>3 DEF Stored
  <2>2. Append(kept, entry) \in Seq(Entry) /\ \A i \in DOMAIN Append(kept, entry) : Append(kept, entry)[i] = entry \/ (i \in DOMAIN kept /\ Append(kept, entry)[i] = kept[i])
    BY <1>1
  <2>3. QED
    BY <1>0, <1>1, <2>1, <2>2
<1>4. QED
  BY <1>2, <1>3

(* What no step of a reading touches.                                      *)
SiteRulesKept == UNCHANGED <<robots, cache, clock, said>>

ReadersInBounds == \A r \in Readers : WithinBounds(reader[r], requests[r])
ReadersStayInBounds ==
  /\ reader' \in [Readers -> ReaderRow] /\ requests' \in [Readers -> Nat \X Nat]
  /\ \A r \in Readers : WithinBounds(reader'[r], requests'[r])

LEMMA BoundsOfOne ==
  ASSUME FetchTyped, ReadersInBounds, NEW r \in Readers
  PROVE  reader[r] \in ReaderRow /\ requests[r] \in Nat \X Nat /\ WithinBounds(reader[r], requests[r])
BY DEF FetchTyped, ReadersInBounds

LEMMA MovesAlone ==
  ASSUME FetchTyped, ReadersInBounds, NEW r \in Readers, NEW x \in ReaderRow, At(r, x), UNCHANGED requests,
         WithinBounds(x, requests[r])
  PROVE  ReadersStayInBounds
<1>1. requests' = [requests EXCEPT ![r] = requests[r]] /\ requests[r] \in Nat \X Nat
  BY DEF FetchTyped
<1>2. QED
  BY <1>1, ReaderMoves DEF At, ReadersInBounds, ReadersStayInBounds

LEMMA FailedInBounds ==
  ASSUME FetchTyped, ReadersInBounds, NEW r \in Readers
  PROVE  WithinBounds(Failed, requests[r]) /\ WithinBounds([NotReading EXCEPT !.result = "verified"], requests[r])
         /\ WithinBounds([NotReading EXCEPT !.result = "notModified"], requests[r])
         /\ [NotReading EXCEPT !.result = "verified"] \in ReaderRow
         /\ [NotReading EXCEPT !.result = "notModified"] \in ReaderRow
<1>1. requests[r][1] <= MaxRedirects + 1 /\ requests[r][2] <= MaxChunks + 1
  BY BoundsOfOne DEF WithinBounds
<1>2. QED
  BY <1>1 DEF WithinBounds, Failed, NotReading, ReaderRow, Results

LEMMA FailsAlone ==
  ASSUME FetchTyped, ReadersInBounds, NEW r \in Readers, At(r, Failed), UNCHANGED requests
  PROVE  ReadersStayInBounds
BY FailedInBounds, NotReadingTyped, MovesAlone

LEMMA AskOrStart ==
  ASSUME FetchTyped, ReadersInBounds, NEW r \in Readers, NEW o \in Origins, NEW allowed \in BOOLEAN, NEW v \in BOOLEAN,
         NEW q, q = <<0, 0>>, reader' = [reader EXCEPT ![r] = Admitted(r, o, allowed, v)],
         requests' = [requests EXCEPT ![r] = q]
  PROVE  ReadersStayInBounds
<1>0. PICK x : x = Admitted(r, o, allowed, v)
  OBVIOUS
<1>1. x \in ReaderRow /\ (x.at = "idle" \/ (x.at = "resolve" /\ x.left = MaxRedirects))
  BY <1>0, AdmittedTyped
<1>2. q \in Nat \X Nat /\ q[1] = 0 /\ q[2] = 0
  OBVIOUS
<1>3. WithinBounds(x, q)
  BY <1>1, <1>2, FetchConstants DEF WithinBounds
<1>4. QED
  BY <1>0, <1>1, <1>2, <1>3, ReaderMoves DEF ReadersInBounds, ReadersStayInBounds

LEMMA StartEffect ==
  ASSUME FetchTyped, ReadersInBounds, NEW r \in Readers, NEW o \in Origins, NEW v \in BOOLEAN, StartReading(r, o, v)
  PROVE  ReadersStayInBounds
<1>0. PICK q : q = <<0, 0>>
  OBVIOUS
<1>1. CASE Fresh(o) # {}
  <2>1. PICK i \in Fresh(o) : At(r, Admitted(r, o, cache[i].allowed, v))
    BY <1>1 DEF StartReading
  <2>2. i \in DOMAIN cache
    BY <2>1 DEF Fresh, Cached
  <2>3. cache[i].allowed \in BOOLEAN
    BY <2>2, EntryTyped
  <2>4. QED
    BY <1>0, <2>1, <2>3, AskOrStart DEF StartReading, At
<1>2. CASE Fresh(o) = {}
  <2> DEFINE x == [NotReading EXCEPT !.at = "robots", !.origin = o, !.validators = v]
  <2> DEFINE x1 == [NotReading EXCEPT !.at = "robots"]
             x2 == [x1 EXCEPT !.origin = o]
  <2>a. x1 \in ReaderRow /\ x1.at = "robots"
    BY NotReadingTyped DEF ReaderRow
  <2>. HIDE DEF x1
  <2>b. x2 \in ReaderRow /\ x2.at = "robots" /\ x2.origin = o
    BY <2>a DEF ReaderRow
  <2>c. x = [x2 EXCEPT !.validators = v]
    BY DEF x1
  <2>. HIDE DEF x2
  <2>2. x \in ReaderRow
    BY <2>b, <2>c DEF ReaderRow
  <2>3. x.at = "robots" /\ x.origin = o
    BY <2>b, <2>c DEF ReaderRow
  <2>. HIDE DEF x
  <2>4. q \in Nat \X Nat /\ q[1] = 0 /\ q[2] = 0
    BY <1>0
  <2>5. WithinBounds(x, q)
    BY <2>3, <2>4, FetchConstants DEF WithinBounds
  <2>6. reader' = [reader EXCEPT ![r] = x] /\ requests' = [requests EXCEPT ![r] = q]
    BY <1>0, <1>2 DEF StartReading, At, x
  <2>7. QED
    BY <2>2, <2>4, <2>5, <2>6, ReaderMoves DEF ReadersInBounds, ReadersStayInBounds
<1>3. QED
  BY <1>1, <1>2

LEMMA ReachEffect ==
  ASSUME FetchTyped, ReadersInBounds, NEW r \in Readers, NEW usable \in BOOLEAN, Resolve(r, usable)
  PROVE  ReadersStayInBounds
<1>1. CASE ~usable
  BY <1>1, FailsAlone DEF Resolve
<1>2. CASE usable
  <2>0. PICK x, q : x = [reader[r] EXCEPT !.at = "head", !.chunks = 0] /\ q = <<requests[r][1] + 1, 0>>
    OBVIOUS
  <2>1. /\ reader[r] \in ReaderRow /\ requests[r] \in Nat \X Nat /\ WithinBounds(reader[r], requests[r])
        /\ reader[r].at = "resolve"
    BY BoundsOfOne DEF Resolve
  <2>2. x \in ReaderRow /\ x.at = "head" /\ x.chunks = 0 /\ x.left = reader[r].left /\ reader[r].left \in Nat
    BY <2>0, <2>1 DEF ReaderRow
  <2>3. q \in Nat \X Nat /\ q[1] = requests[r][1] + 1 /\ q[2] = 0 /\ requests[r][1] \in Nat
    BY <2>0, <2>1
  <2>4. requests[r][1] + reader[r].left <= MaxRedirects
    BY <2>1 DEF WithinBounds
  <2>5. WithinBounds(x, q)
    BY <2>2, <2>3, <2>4, FetchConstants DEF WithinBounds
  <2>6. reader' = [reader EXCEPT ![r] = x] /\ requests' = [requests EXCEPT ![r] = q]
    BY <1>2, <2>0 DEF Resolve, At
  <2>7. QED
    BY <2>2, <2>3, <2>5, <2>6, ReaderMoves DEF ReadersInBounds, ReadersStayInBounds
<1>3. QED
  BY <1>1, <1>2

LEMMA HeadEffect ==
  ASSUME FetchTyped, ReadersInBounds, NEW r \in Readers, Head200(r)
  PROVE  ReadersStayInBounds
<1>0. PICK x : x = [reader[r] EXCEPT !.at = "body"]
  OBVIOUS
<1>1. reader[r] \in ReaderRow /\ WithinBounds(reader[r], requests[r]) /\ reader[r].at = "head"
  BY BoundsOfOne DEF Head200
<1>2. x \in ReaderRow /\ x.at = "body" /\ x.left = reader[r].left /\ x.chunks = reader[r].chunks
  BY <1>0, <1>1 DEF ReaderRow
<1>3. WithinBounds(x, requests[r])
  BY <1>1, <1>2 DEF WithinBounds
<1>4. QED
  BY <1>0, <1>2, <1>3, MovesAlone DEF Head200

LEMMA RedirectEffect ==
  ASSUME FetchTyped, ReadersInBounds, NEW r \in Readers, NEW o \in Origins, Redirect(r, o)
  PROVE  ReadersStayInBounds
<1>1. CASE reader[r].left = 0
  BY <1>1, FailsAlone DEF Redirect, Redirected
<1>2. CASE reader[r].left # 0
  <2>0. PICK x : x = [reader[r] EXCEPT !.at = "resolve", !.origin = o, !.left = @ - 1]
    OBVIOUS
  <2>1. reader[r] \in ReaderRow /\ WithinBounds(reader[r], requests[r]) /\ reader[r].at = "head" /\ requests[r] \in Nat \X Nat
    BY BoundsOfOne DEF Redirect
  <2> DEFINE x1 == [reader[r] EXCEPT !.at = "resolve"]
             x2 == [x1 EXCEPT !.origin = o]
  <2>2. x1 \in ReaderRow /\ x1.at = "resolve" /\ x1.left = reader[r].left /\ reader[r].left \in Nat
    BY <2>1 DEF ReaderRow
  <2>3. x = [[x1 EXCEPT !.origin = o] EXCEPT !.left = x1.left - 1]
    BY <2>0, <2>1 DEF ReaderRow
  <2>. HIDE DEF x1
  <2>4. x2 \in ReaderRow /\ x2.at = "resolve" /\ x2.left = x1.left
    BY <2>2 DEF ReaderRow
  <2>5. x = [x2 EXCEPT !.left = x2.left - 1]
    BY <2>3, <2>4
  <2>. HIDE DEF x2
  <2>6. x2.left - 1 \in Nat
    BY <1>2, <2>2, <2>4
  <2>7. x \in ReaderRow /\ x.at = "resolve" /\ x.left = x2.left - 1
    BY <2>4, <2>5, <2>6 DEF ReaderRow
  <2>8. requests[r][1] + reader[r].left <= MaxRedirects + 1 /\ requests[r][1] \in Nat
    BY <2>1 DEF WithinBounds
  <2>9. requests[r][1] + x.left <= MaxRedirects
    BY <2>2, <2>4, <2>7, <2>8, FetchConstants
  <2>10. WithinBounds(x, requests[r])
    BY <2>1, <2>7, <2>9 DEF WithinBounds
  <2>11. At(r, x) /\ UNCHANGED requests
    BY <1>2, <2>0 DEF Redirect, Redirected
  <2>12. QED
    BY <2>7, <2>10, <2>11, MovesAlone
<1>3. QED
  BY <1>1, <1>2

LEMMA ChunkEffect ==
  ASSUME FetchTyped, ReadersInBounds, NEW r \in Readers, Chunk(r)
  PROVE  ReadersStayInBounds
<1>0. PICK n, q : n = reader[r].chunks + 1 /\ q = <<requests[r][1], n>>
  OBVIOUS
<1>1. reader[r] \in ReaderRow /\ WithinBounds(reader[r], requests[r]) /\ reader[r].at = "body" /\ requests[r] \in Nat \X Nat
  BY BoundsOfOne DEF Chunk
<1>2. n \in Nat /\ n <= MaxChunks + 1 /\ requests[r][1] \in Nat /\ requests[r][1] <= MaxRedirects + 1
  BY <1>0, <1>1, FetchConstants DEF ReaderRow, WithinBounds
<1>3. q \in Nat \X Nat /\ q[1] = requests[r][1] /\ q[2] = n
  BY <1>0, <1>2
<1>4. requests' = [requests EXCEPT ![r] = q]
  <2>1. requests' = [requests EXCEPT ![r][2] = n]
    BY <1>0 DEF Chunk
  <2>2. requests[r] = <<requests[r][1], requests[r][2]>>
    BY <1>1
  <2>3. [requests[r] EXCEPT ![2] = n] = q
    BY <1>0, <2>2
  <2>4. QED
    BY <2>1, <2>3
<1>5. CASE n > MaxChunks
  <2>1. WithinBounds(Failed, q)
    BY <1>2, <1>3, NotReadingTyped DEF WithinBounds
  <2>2. reader' = [reader EXCEPT ![r] = Failed]
    BY <1>0, <1>5 DEF Chunk, At
  <2>3. QED
    BY <1>3, <1>4, <2>1, <2>2, NotReadingTyped, ReaderMoves DEF ReadersInBounds, ReadersStayInBounds
<1>6. CASE ~(n > MaxChunks)
  <2>0. PICK x : x = [reader[r] EXCEPT !.chunks = n]
    OBVIOUS
  <2>1. x \in ReaderRow /\ x.at = "body" /\ x.left = reader[r].left /\ x.chunks = n
    BY <1>1, <1>2, <2>0 DEF ReaderRow
  <2>2. WithinBounds(x, q)
    BY <1>1, <1>2, <1>3, <1>6, <2>1, FetchConstants DEF WithinBounds
  <2>3. reader' = [reader EXCEPT ![r] = x]
    BY <1>0, <1>6, <2>0 DEF Chunk, At
  <2>4. QED
    BY <1>3, <1>4, <2>1, <2>2, <2>3, ReaderMoves DEF ReadersInBounds, ReadersStayInBounds
<1>7. QED
  BY <1>5, <1>6

LEMMA AnswerEffect ==
  ASSUME FetchTyped, ReadersInBounds, NEW r \in Readers,
         Refuse(r) \/ Answer304(r) \/ (\E isPage \in BOOLEAN : End(r, isPage))
  PROVE  ReadersStayInBounds
<1>1. UNCHANGED requests
  BY DEF Refuse, Answer304, End
<1>2. \/ At(r, Failed) \/ At(r, [NotReading EXCEPT !.result = "verified"]) \/ At(r, [NotReading EXCEPT !.result = "notModified"])
  BY DEF Refuse, Answer304, NotModified, End
<1>3. QED
  BY <1>1, <1>2, FailsAlone, FailedInBounds, MovesAlone

-----------------------------------------------------------------------------
(* The answers of the sites and the cache.                                 *)
AnswersStand ==
  /\ \A o \in Origins, a \in Answers : said[o][a] <= clock
  /\ \A i \in DOMAIN cache : cache[i].allowed => Permits(cache[i].origin, cache[i].expires - RobotsTtl)

LEMMA AskEffect ==
  ASSUME FetchTyped, ReadersInBounds, AnswersStand, NEW r \in Readers, AskRobots(r)
  PROVE  FetchTyped' /\ ReadersStayInBounds /\ AnswersStand'
<1>0. PICK o, a, v, entry : o = reader[r].origin /\ a = robots[o] /\ v = reader[r].validators
                            /\ entry = [origin |-> o, allowed |-> a # "closed", expires |-> clock + RobotsTtl]
  OBVIOUS
<1>1. reader[r] \in ReaderRow /\ requests[r] \in Nat \X Nat /\ WithinBounds(reader[r], requests[r]) /\ reader[r].at = "robots"
  BY BoundsOfOne DEF AskRobots
<1>2. o \in Origins /\ v \in BOOLEAN /\ requests[r][1] = 0 /\ requests[r][2] = 0
  BY <1>0, <1>1 DEF WithinBounds, ReaderRow
<1>3. a \in Answers
  BY <1>0, <1>2 DEF FetchTyped
<1>4. ReadersStayInBounds
  <2>1. requests[r] = <<0, 0>>
    BY <1>1, <1>2
  <2>2. requests' = [requests EXCEPT ![r] = <<0, 0>>]
    BY <2>1 DEF AskRobots, FetchTyped
  <2>3. reader' = [reader EXCEPT ![r] = Admitted(r, o, a # "closed", v)]
    BY <1>0 DEF AskRobots, At
  <2>4. (a # "closed") \in BOOLEAN
    OBVIOUS
  <2>5. QED
    BY <1>2, <2>2, <2>3, <2>4, AskOrStart
<1>5. entry \in Entry
  <2>1. clock + RobotsTtl \in Nat
    BY FetchConstants DEF FetchTyped
  <2>2. (a # "closed") \in BOOLEAN
    OBVIOUS
  <2>3. QED
    BY <1>0, <1>2, <2>1, <2>2, Zenon DEF Entry
<1>6. cache' = Stored(MadeRoom, entry)
  BY <1>0 DEF AskRobots
<1>7. cache' \in Seq(Entry) /\ \A i \in DOMAIN cache' : cache'[i] = entry \/ \E j \in DOMAIN cache : cache'[i] = cache[j]
  BY <1>5, <1>6, StoredTyped
<1>8. /\ said' \in [Origins -> [Answers -> Int]] /\ said'[o][a] = clock
      /\ \A p \in Origins, b \in Answers : p # o \/ b # a => said'[p][b] = said[p][b]
  <2>1. said' = [said EXCEPT ![o][a] = clock]
    BY <1>0 DEF AskRobots
  <2>2. QED
    BY <1>2, <1>3, <2>1 DEF FetchTyped
<1>9. UNCHANGED <<robots, clock>>
  BY DEF AskRobots
<1>10. FetchTyped'
  BY <1>4, <1>7, <1>8, <1>9 DEF FetchTyped, ReadersStayInBounds
<1>11. \A p \in Origins, b \in Answers : said'[p][b] <= clock' /\ said'[p][b] >= said[p][b]
  <2>1. ASSUME NEW p \in Origins, NEW b \in Answers PROVE said'[p][b] <= clock' /\ said'[p][b] >= said[p][b]
    <3>1. said[p][b] \in Int /\ said[p][b] <= clock /\ clock \in Nat
      BY DEF AnswersStand, FetchTyped
    <3>2. said'[p][b] = clock \/ said'[p][b] = said[p][b]
      BY <1>8
    <3>3. QED
      BY <1>9, <3>1, <3>2
  <2>2. QED
    BY <2>1
<1>12. ASSUME NEW i \in DOMAIN cache', cache'[i].allowed
       PROVE  \E b \in {"open", "down"} : said'[cache'[i].origin][b] >= 0 /\ said'[cache'[i].origin][b] >= cache'[i].expires - RobotsTtl
  <2>1. CASE cache'[i] = entry
    <3>1. cache'[i].origin = o /\ cache'[i].expires = clock + RobotsTtl /\ a # "closed"
      <4>1. entry.origin = o /\ entry.expires = clock + RobotsTtl /\ entry.allowed = (a # "closed")
        BY <1>0, Zenon
      <4>2. QED
        BY <1>12, <2>1, <4>1, Zenon
    <3>2. a \in {"open", "down"} /\ clock \in Nat /\ clock >= cache'[i].expires - RobotsTtl
      BY <1>3, <3>1, FetchConstants DEF Answers, FetchTyped
    <3>3. QED
      BY <1>8, <3>1, <3>2
  <2>2. CASE \E j \in DOMAIN cache : cache'[i] = cache[j]
    <3>1. PICK j \in DOMAIN cache : cache'[i] = cache[j]
      BY <2>2
    <3>2. Permits(cache[j].origin, cache[j].expires - RobotsTtl)
      BY <1>12, <3>1 DEF AnswersStand
    <3>3. cache[j].origin \in Origins /\ cache[j].expires - RobotsTtl \in Int
      BY FetchConstants, EntryTyped
    <3>4. PICK b \in {"open", "down"} : said[cache[j].origin][b] >= 0 /\ said[cache[j].origin][b] >= cache[j].expires - RobotsTtl
      BY <3>2 DEF Permits
    <3>5. /\ said'[cache[j].origin][b] >= said[cache[j].origin][b]
          /\ said'[cache[j].origin][b] \in Int /\ said[cache[j].origin][b] \in Int
      BY <1>8, <1>11, <3>3 DEF Answers, FetchTyped
    <3>6. said'[cache[j].origin][b] >= 0 /\ said'[cache[j].origin][b] >= cache[j].expires - RobotsTtl
      BY <3>3, <3>4, <3>5
    <3>7. QED
      BY <3>1, <3>6
  <2>3. QED
    BY <1>7, <2>1, <2>2
<1>13. AnswersStand'
  BY <1>11, <1>12 DEF AnswersStand, Permits
<1>14. QED
  BY <1>4, <1>10, <1>13

ReadStep(r) ==
  \/ \E o \in Origins, v \in BOOLEAN : StartReading(r, o, v)
  \/ Refuse(r) \/ Head200(r) \/ Chunk(r) \/ Answer304(r)
  \/ \E b \in BOOLEAN : Resolve(r, b) \/ End(r, b)
  \/ \E o \in Origins : Redirect(r, o)

LEMMA FetchInvByParts == FetchInv <=> FetchTyped /\ ReadersInBounds /\ AnswersStand
BY DEF FetchInv, ReadersInBounds, AnswersStand

LEMMA ReadStepKept ==
  ASSUME FetchInv, NEW r \in Readers, ReadStep(r)
  PROVE  FetchInv' /\ SiteRulesKept
<1>1. SiteRulesKept
  BY DEF SiteRulesKept, ReadStep, StartReading, Refuse, Head200, Chunk, Answer304, Resolve, End, Redirect
<1>2. ReadersStayInBounds
  BY FetchInvByParts, StartEffect, ReachEffect, HeadEffect, RedirectEffect, ChunkEffect, AnswerEffect DEF ReadStep
<1>3. FetchTyped'
  BY <1>1, <1>2, FetchInvByParts DEF FetchTyped, SiteRulesKept, ReadersStayInBounds
<1>4. AnswersStand'
  BY <1>1, FetchInvByParts DEF AnswersStand, Permits, SiteRulesKept
<1>5. QED
  BY <1>1, <1>2, <1>3, <1>4 DEF FetchInv, AnswersStand, ReadersStayInBounds

LEMMA FetchStarts == FetchInit => FetchInv
<1> SUFFICES ASSUME FetchInit PROVE FetchInv
  OBVIOUS
<1>1. FetchTyped
  <2>1. reader \in [Readers -> ReaderRow]
    BY NotReadingTyped DEF FetchInit
  <2>2. robots \in [Origins -> Answers] /\ said \in [Origins -> [Answers -> Int]]
    BY DEF FetchInit, Answers
  <2>3. requests \in [Readers -> Nat \X Nat] /\ cache \in Seq(Entry) /\ clock \in Nat
    BY DEF FetchInit
  <2>4. QED
    BY <2>1, <2>2, <2>3 DEF FetchTyped
<1>2. \A r \in Readers : WithinBounds(reader[r], requests[r])
  BY NotReadingTyped, FetchConstants DEF FetchInit, WithinBounds
<1>3. \A o \in Origins, a \in Answers : said[o][a] <= clock
  BY DEF FetchInit, Answers
<1>4. QED
  BY <1>1, <1>2, <1>3 DEF FetchInv, FetchInit

LEMMA FetchKept == FetchInv /\ [FetchNext]_fVars => FetchInv'
<1> SUFFICES ASSUME FetchInv, [FetchNext]_fVars PROVE FetchInv'
  OBVIOUS
<1>1. CASE UNCHANGED fVars
  BY <1>1 DEF fVars, FetchInv, FetchTyped, WithinBounds, Permits
<1>2. CASE \E r \in Readers : ReadStep(r)
  BY <1>2, ReadStepKept
<1>3. CASE \E r \in Readers : AskRobots(r)
  <2>1. FetchTyped' /\ ReadersStayInBounds /\ AnswersStand'
    BY <1>3, FetchInvByParts, AskEffect
  <2>2. QED
    BY <2>1 DEF FetchInv, AnswersStand, ReadersStayInBounds
<1>4. CASE \E o \in Origins, a \in {"open", "closed", "down"} : RobotsChange(o, a)
  <2>1. robots' \in [Origins -> Answers] /\ UNCHANGED <<cache, reader, clock, said, requests>>
    BY <1>4 DEF RobotsChange, FetchInv, FetchTyped, Answers
  <2>2. QED
    BY <2>1 DEF FetchInv, FetchTyped, WithinBounds, Permits
<1>5. CASE FetchTick
  <2>1. clock \in Nat /\ clock' = clock + 1 /\ UNCHANGED <<robots, cache, reader, said, requests>>
    BY <1>5 DEF FetchTick, FetchInv, FetchTyped
  <2>2. FetchTyped'
    BY <2>1 DEF FetchInv, FetchTyped
  <2>3. \A o \in Origins, a \in Answers : said'[o][a] <= clock'
    BY <2>1 DEF FetchInv, FetchTyped
  <2>4. QED
    BY <2>1, <2>2, <2>3 DEF FetchInv, WithinBounds, Permits
<1>6. QED
  BY <1>1, <1>2, <1>3, <1>4, <1>5 DEF FetchNext, ReadStep

(* A reading is admitted on an answer that is recent.                      *)
AdmittedOnAnswer ==
  \A r \in Readers : Admits(r) =>
    LET o == reader'[r].first IN
      \E a \in {"open", "down"} : said'[o][a] >= 0 /\ clock - said'[o][a] <= RobotsTtl

LEMMA AdmittedStep == FetchInv /\ [FetchNext]_fVars => [AdmittedOnAnswer]_reader
<1> SUFFICES ASSUME FetchInv, FetchNext, NEW r \in Readers, Admits(r)
             PROVE  \E a \in {"open", "down"} : said'[reader'[r].first][a] >= 0 /\ clock - said'[reader'[r].first][a] <= RobotsTtl
  BY DEF AdmittedOnAnswer, fVars
<1>1. FetchTyped /\ ReadersInBounds /\ AnswersStand
  BY FetchInvByParts
<1>2. reader[r] \in ReaderRow /\ reader[r].at \in {"idle", "robots"} /\ reader'[r].at = "resolve" /\ reader \in [Readers -> ReaderRow]
  BY <1>1 DEF Admits, FetchTyped
<1>3. (\E o \in Origins, v \in BOOLEAN : StartReading(r, o, v)) \/ AskRobots(r)
  <2>1. PICK t \in Readers : ReadStep(t) \/ AskRobots(t)
    BY <1>2 DEF FetchNext, ReadStep, RobotsChange, FetchTick
  <2>2. \E x : reader' = [reader EXCEPT ![t] = x]
    BY <2>1 DEF ReadStep, StartReading, AskRobots, Refuse, Head200, Chunk, Answer304, Resolve, End, Redirect, At
  <2>3. t = r
    BY <1>2, <2>2
  <2>4. QED
    BY <1>2, <2>1, <2>3 DEF ReadStep, Refuse, Head200, Chunk, Answer304, Resolve, End, Redirect
<1>4. CASE \E o \in Origins, v \in BOOLEAN : StartReading(r, o, v)
  <2>1. PICK o \in Origins, v \in BOOLEAN : StartReading(r, o, v)
    BY <1>4
  <2>2. CASE Fresh(o) = {}
    <3>1. reader'[r] = [NotReading EXCEPT !.at = "robots", !.origin = o, !.validators = v]
      BY <1>2, <2>1, <2>2 DEF StartReading, At
    <3>2. QED
      BY <1>2, <3>1 DEF NotReading
  <2>3. CASE Fresh(o) # {}
    <3>1. PICK i \in Fresh(o) : At(r, Admitted(r, o, cache[i].allowed, v))
      BY <2>1, <2>3 DEF StartReading
    <3>2. i \in DOMAIN cache /\ cache[i].origin = o /\ cache[i].expires > clock
      BY <3>1 DEF Fresh, Cached
    <3>3. cache[i].allowed \in BOOLEAN /\ cache[i].expires \in Nat /\ clock \in Nat
      BY <1>1, <3>2, EntryTyped DEF FetchTyped
    <3>4. reader'[r] = Admitted(r, o, cache[i].allowed, v)
      BY <1>2, <3>1 DEF At
    <3>5. cache[i].allowed /\ reader'[r].first = o
      BY <1>2, <3>3, <3>4, AdmittedTyped
    <3>6. PICK a \in {"open", "down"} : said[o][a] >= 0 /\ said[o][a] >= cache[i].expires - RobotsTtl
      BY <1>1, <3>2, <3>5 DEF AnswersStand, Permits
    <3>7. said[o][a] \in Int /\ said' = said
      BY <1>1, <2>1 DEF FetchTyped, Answers, StartReading
    <3>8. clock - said[o][a] <= RobotsTtl
      BY <3>2, <3>3, <3>6, <3>7, FetchConstants
    <3>9. QED
      BY <3>5, <3>6, <3>7, <3>8
  <2>4. QED
    BY <2>2, <2>3
<1>5. CASE AskRobots(r)
  <2>0. PICK o, a : o = reader[r].origin /\ a = robots[o]
    OBVIOUS
  <2>1. o \in Origins /\ reader[r].validators \in BOOLEAN
    BY <1>1, <1>2, <1>5, <2>0, BoundsOfOne DEF WithinBounds, AskRobots, ReaderRow
  <2>2. a \in Answers /\ clock \in Nat
    BY <1>1, <2>0, <2>1 DEF FetchTyped
  <2>3. reader'[r] = Admitted(r, o, a # "closed", reader[r].validators)
    BY <1>2, <1>5, <2>0 DEF AskRobots, At
  <2>4. (a # "closed") \in BOOLEAN
    OBVIOUS
  <2>5. a # "closed" /\ reader'[r].first = o
    <3>0. PICK b \in BOOLEAN : b = (a # "closed")
      BY <2>4
    <3>1. PICK x : x = Admitted(r, o, b, reader[r].validators)
      OBVIOUS
    <3>2. (b => x.at = "resolve" /\ x.first = o) /\ (~b => x.at = "idle")
      BY <2>1, <3>1, AdmittedTyped
    <3>3. reader'[r] = x
      BY <2>3, <3>0, <3>1
    <3>4. b /\ x.first = o
      BY <1>2, <3>2, <3>3
    <3>5. QED
      BY <3>0, <3>3, <3>4
  <2>6. a \in {"open", "down"}
    BY <2>2, <2>5 DEF Answers
  <2>7. said'[o][a] = clock
    BY <1>1, <1>5, <2>0, <2>1, <2>2 DEF AskRobots, FetchTyped
  <2>8. said'[o][a] >= 0 /\ clock - said'[o][a] <= RobotsTtl
    BY <2>2, <2>7, FetchConstants
  <2>9. QED
    BY <2>5, <2>6, <2>8
<1>6. QED
  BY <1>3, <1>4, <1>5

(* Verified readings (verifiedExtractor.ts, robots.ts, safeFetch.ts): for  *)
(* any sites, scans, limits and cache, a reading makes one request more    *)
(* than its redirects and cuts a body at the limit; and a page is          *)
(* requested only when its site, asked within the time the rules are kept, *)
(* did not disallow it or did not answer.                                  *)
THEOREM FetchCorrect == FetchSpec => FetchIsPolite
<1>1. FetchInv => ReadingIsBounded
  BY DEF FetchInv, WithinBounds, ReadingIsBounded
<1>2. FetchSpec => [][AdmittedOnAnswer]_reader
  BY FetchStarts, FetchKept, AdmittedStep, PTL DEF FetchSpec
<1>3. HonoursRecentRules <=> [][AdmittedOnAnswer]_reader
  BY PTL DEF HonoursRecentRules, AdmittedOnAnswer
<1>4. QED
  BY <1>1, <1>2, <1>3, FetchStarts, FetchKept, PTL DEF FetchSpec, FetchIsPolite

-----------------------------------------------------------------------------
(* The robots cache: one entry per site, and no more than it may hold.     *)
CacheInOrder ==
  /\ Len(cache) <= CacheSize
  /\ \A i, j \in DOMAIN cache : cache[i].origin = cache[j].origin => i = j

LEMMA StoredInOrder ==
  ASSUME FetchTyped, CacheInOrder, NEW entry \in Entry, NEW next, next = Stored(MadeRoom, entry)
  PROVE  /\ Len(next) <= CacheSize
         /\ \A i, j \in DOMAIN next : next[i].origin = next[j].origin => i = j
<1>0. PICK kept : kept = MadeRoom
  OBVIOUS
<1>1. /\ kept \in Seq(Entry) /\ Len(kept) < CacheSize
      /\ \A i, j \in DOMAIN kept : kept[i].origin = kept[j].origin => i = j
  <2>0. cache \in Seq(Entry) /\ CacheSize \in Nat \ {0} /\ Len(cache) <= CacheSize
    BY FetchConstants DEF FetchTyped, CacheInOrder
  <2>1. CASE Len(cache) >= CacheSize
    <3>1. kept = Tail(cache) /\ cache # <<>>
      BY <1>0, <2>0, <2>1 DEF MadeRoom
    <3>2. kept \in Seq(Entry) /\ Len(kept) = Len(cache) - 1
      BY <2>0, <3>1
    <3>3. \A i \in DOMAIN kept : i \in Int /\ i + 1 \in DOMAIN cache /\ kept[i] = cache[i + 1]
      BY <2>0, <3>1, <3>2
    <3>4. ASSUME NEW i \in DOMAIN kept, NEW j \in DOMAIN kept, kept[i].origin = kept[j].origin PROVE i = j
      <4>1. i + 1 = j + 1
        BY <3>3, <3>4 DEF CacheInOrder
      <4>2. QED
        BY <3>3, <4>1
    <3>5. QED
      BY <2>0, <3>2, <3>4
  <2>2. CASE ~(Len(cache) >= CacheSize)
    BY <1>0, <2>0, <2>2 DEF MadeRoom, CacheInOrder
  <2>3. QED
    BY <2>1, <2>2
<1>2. CASE \E i \in DOMAIN kept : kept[i].origin = entry.origin
  <2>1. next = [i \in DOMAIN kept |-> IF kept[i].origin = entry.origin THEN entry ELSE kept[i]]
    BY <1>0, <1>2 DEF Stored
  <2>2. DOMAIN next = DOMAIN kept /\ \A i \in DOMAIN kept : next[i].origin = kept[i].origin
    BY <2>1
  <2>3. DOMAIN kept = 1..Len(kept) /\ Len(kept) \in Nat
    BY <1>1
  <2>4. next \in [1..Len(kept) -> Entry]
    BY <1>1, <2>1, <2>3
  <2>5. Len(next) = Len(kept)
    BY <2>3, <2>4
  <2>6. QED
    BY <1>1, <2>2, <2>5, FetchConstants
<1>3. CASE ~\E i \in DOMAIN kept : kept[i].origin = entry.origin
  <2>1. next = Append(kept, entry)
    BY <1>0, <1>3 DEF Stored
  <2>2. /\ Len(next) = Len(kept) + 1 /\ DOMAIN next = DOMAIN kept \cup {Len(kept) + 1}
        /\ next[Len(kept) + 1] = entry /\ \A i \in DOMAIN kept : next[i] = kept[i]
    BY <1>1, <2>1
  <2>3. Len(next) <= CacheSize
    BY <1>1, <2>2, FetchConstants
  <2>4. QED
    BY <1>1, <1>3, <2>2, <2>3
<1>4. QED
  BY <1>2, <1>3

LEMMA CacheKept == FetchInv /\ CacheInOrder /\ [FetchNext]_fVars => CacheInOrder'
<1> SUFFICES ASSUME FetchInv, CacheInOrder, [FetchNext]_fVars PROVE CacheInOrder'
  OBVIOUS
<1>1. CASE \E r \in Readers : AskRobots(r)
  <2>1. PICK r \in Readers : AskRobots(r)
    BY <1>1
  <2>2. PICK o, allowed : /\ o = reader[r].origin /\ allowed = (robots[o] # "closed")
                          /\ cache' = Stored(MadeRoom, [origin |-> o, allowed |-> allowed, expires |-> clock + RobotsTtl])
    BY <2>1 DEF AskRobots
  <2>3. o \in Origins
    BY <2>1, <2>2 DEF FetchInv, WithinBounds, AskRobots
  <2>4. clock + RobotsTtl \in Nat
    BY FetchConstants DEF FetchInv, FetchTyped
  <2>5. [origin |-> o, allowed |-> allowed, expires |-> clock + RobotsTtl] \in Entry
    BY <2>2, <2>3, <2>4, Zenon DEF Entry
  <2>6. QED
    BY <2>2, <2>5, StoredInOrder DEF FetchInv, CacheInOrder
<1>2. CASE UNCHANGED cache
  BY <1>2 DEF CacheInOrder
<1>3. QED
  BY <1>1, <1>2 DEF FetchNext, fVars, StartReading, Refuse, Head200, Chunk, Answer304, Resolve, End, Redirect,
     RobotsChange, FetchTick

(* The robots cache (robots.ts): scans that found no entry store theirs    *)
(* one after the other, and still the cache has one entry per site and no  *)
(* more than it may hold.                                                  *)
THEOREM CacheCorrect == FetchSpec => []FetchTypeOK
<1>1. FetchInit => CacheInOrder
  BY FetchConstants DEF FetchInit, CacheInOrder
<1>2. ASSUME FetchInv, CacheInOrder PROVE FetchTypeOK
  <2>1. \A i \in DOMAIN cache : cache[i] \in Entry
    BY <1>2, EntryTyped DEF FetchInv
  <2>2. ASSUME NEW o \in Origins PROVE Cardinality(Cached(o)) <= 1
    <3>1. CASE Cached(o) = {}
      <4>1. Cardinality({}) = 0
        BY FS_EmptySet
      <4>2. QED
        BY <3>1, <4>1
    <3>2. CASE \E i : i \in Cached(o)
      <4>1. PICK i : i \in Cached(o)
        BY <3>2
      <4>2. Cached(o) = {i}
        BY <1>2, <4>1 DEF Cached, CacheInOrder
      <4>3. Cardinality({i}) = 1
        BY FS_Singleton
      <4>4. QED
        BY <4>2, <4>3
    <3>3. QED
      BY <3>1, <3>2
  <2>3. \A r \in Readers : reader[r].result \in Results
    BY <1>2 DEF FetchInv, FetchTyped, ReaderRow
  <2>4. QED
    BY <1>2, <2>1, <2>2, <2>3 DEF FetchTypeOK, CacheInOrder
<1>3. QED
  BY <1>1, <1>2, FetchStarts, FetchKept, CacheKept, PTL DEF FetchSpec

-----------------------------------------------------------------------------
(* The catalogue.  An id that a request under way will use is unused and   *)
(* in that request only (PendingUnused), so a create never overwrites a    *)
(* row; and what is held together with what requests may still add stays   *)
(* within the quota (Reserved).                                            *)
UrlRecord == [state : {"unused", "active", "paused", "deleted"}, of : Competitor, snapshots : 0..MaxSnapshots]
UrlPost == [does : {"find competitor", "create url"}, id : MonitoredUrl, of : Competitor]
CompetitorPost == [does : {"create competitor"}, id : Competitor]

AddsUrl(p) == post[p].does \in {"find competitor", "create url"}
AddsCompetitor(p) == post[p].does = "create competitor"

PostInv ==
  /\ post = [p \in Posts |-> post[p]]
  /\ \A p \in Posts :
       /\ AddsUrl(p) => post[p] \in UrlPost
       /\ AddsCompetitor(p) => post[p] \in CompetitorPost

TypeInv ==
  /\ competitor \in [Competitor -> {"unused", "active", "inactive", "deleted"}]
  /\ url \in [MonitoredUrl -> UrlRecord]
  /\ scanning \subseteq MonitoredUrl
  /\ \A u \in MonitoredUrl : HasUrl(u) => HasRow(url[u].of)

(* The URL a request will create is unused and no other request's.         *)
PendingUnused ==
  \A p \in Posts : AddsUrl(p) =>
    /\ url[post[p].id].state = "unused"
    /\ \A q \in Posts \ {p} : AddsUrl(q) => post[q].id # post[p].id

RowInv == TypeInv /\ PostInv /\ PendingUnused

-----------------------------------------------------------------------------
LEMMA NothingAdds == NoPost.does = "nothing"
BY DEF NoPost

(* A request goes on to r: it adds nothing, what it already meant to add,  *)
(* or an unused URL that no other request adds.                            *)
LEMMA PostMoves ==
  ASSUME PostInv, PendingUnused, NEW p \in Posts, NEW r, UNCHANGED url,
         post' = [post EXCEPT ![p] = r],
         r.does \in {"find competitor", "create url"} =>
           /\ r \in UrlPost /\ url[r.id].state = "unused"
           /\ \A q \in Posts \ {p} : AddsUrl(q) => post[q].id # r.id,
         r.does = "create competitor" => r \in CompetitorPost
  PROVE  PostInv' /\ PendingUnused'
<1>1. post'[p] = r /\ \A q \in Posts \ {p} : post'[q] = post[q]
  BY DEF PostInv
<1>2. post' = [q \in Posts |-> post'[q]]
  BY DEF PostInv
<1>3. QED
  BY <1>1, <1>2 DEF PostInv, PendingUnused, AddsUrl, AddsCompetitor

(* A request ends while the URLs of all others stay unused.                *)
LEMMA PostEnds ==
  ASSUME PostInv, PendingUnused, NEW p \in Posts, post' = [post EXCEPT ![p] = NoPost],
         \A q \in Posts \ {p} : AddsUrl(q) => url'[post[q].id].state = "unused"
  PROVE  PostInv' /\ PendingUnused'
<1>1. post'[p] = NoPost /\ \A q \in Posts \ {p} : post'[q] = post[q]
  BY DEF PostInv
<1>2. post' = [q \in Posts |-> post'[q]]
  BY DEF PostInv
<1>3. QED
  BY <1>1, <1>2, NothingAdds DEF PostInv, PendingUnused, AddsUrl, AddsCompetitor

-----------------------------------------------------------------------------
LEMMA RowStep ==
  ASSUME RowInv, CatalogueNext
  PROVE  RowInv'
<1> USE DEF RowInv
<1>1. ASSUME NEW p \in Posts, NEW c \in Competitor, PostCompetitor(p, c)
      PROVE  RowInv'
  <2>1. [does |-> "create competitor", id |-> c] \in CompetitorPost
    BY DEF CompetitorPost
  <2>2. PostInv' /\ PendingUnused'
    BY <1>1, <2>1, PostMoves DEF PostCompetitor
  <2>3. QED
    BY <1>1, <2>2 DEF PostCompetitor, TypeInv, HasUrl, HasRow
<1>2. ASSUME NEW p \in Posts, NEW u \in MonitoredUrl, NEW c \in Competitor, PostUrl(p, u, c)
      PROVE  RowInv'
  <2>1. [does |-> "find competitor", id |-> u, of |-> c] \in UrlPost
    BY DEF UrlPost
  <2>2. PostInv' /\ PendingUnused'
    BY <1>2, <2>1, PostMoves DEF PostUrl
  <2>3. QED
    BY <1>2, <2>2 DEF PostUrl, TypeInv, HasUrl, HasRow
<1>3. ASSUME NEW p \in Posts, CreateCompetitor(p)
      PROVE  RowInv'
  <2>1. /\ competitor' = [competitor EXCEPT ![post[p].id] = "active"]
        /\ post' = [post EXCEPT ![p] = NoPost] /\ UNCHANGED <<url, scanning>>
    BY <1>3 DEF CreateCompetitor
  <2>2. PostInv' /\ PendingUnused'
    BY <2>1, PostEnds DEF PendingUnused
  <2>3. competitor' \in [Competitor -> {"unused", "active", "inactive", "deleted"}]
    BY <2>1 DEF TypeInv
  <2>4. \A c \in Competitor : HasRow(c) => HasRow(c)'
    BY <2>1 DEF TypeInv, HasRow
  <2>5. TypeInv'
    BY <2>1, <2>3, <2>4 DEF TypeInv, HasUrl, UrlRecord
  <2>6. QED
    BY <2>2, <2>5
<1>4. ASSUME NEW p \in Posts, CreateMonitoredUrl(p)
      PROVE  RowInv'
  <2>1. /\ post[p] \in UrlPost /\ AddsUrl(p)
        /\ post' = [post EXCEPT ![p] = NoPost] /\ UNCHANGED <<competitor, scanning>>
    BY <1>4 DEF CreateMonitoredUrl, PostInv, AddsUrl
  <2>2. CASE ~HasRow(post[p].of)
    <3>1. UNCHANGED url
      BY <1>4, <2>2 DEF CreateMonitoredUrl
    <3>2. PostInv' /\ PendingUnused'
      BY <2>1, <3>1, PostEnds DEF PendingUnused
    <3>3. QED
      BY <2>1, <3>1, <3>2 DEF TypeInv, HasUrl, HasRow
  <2>3. CASE HasRow(post[p].of)
    <3> DEFINE r == [state |-> "active", of |-> post[p].of, snapshots |-> 0]
               u == post[p].id
    <3>1. url' = [url EXCEPT ![u] = r] /\ u \in MonitoredUrl
      BY <1>4, <2>1, <2>3 DEF CreateMonitoredUrl, UrlPost
    <3>2. post[p].of \in Competitor
      BY <2>1 DEF UrlPost
    <3>3. r \in UrlRecord /\ r.of = post[p].of
      BY <3>2, CatalogueConstants DEF UrlRecord
    <3> HIDE DEF r, u
    <3>4. url' \in [MonitoredUrl -> UrlRecord] /\ url'[u] = r /\ \A v \in MonitoredUrl \ {u} : url'[v] = url[v]
      BY <3>1, <3>3 DEF TypeInv
    <3>5. \A q \in Posts \ {p} : AddsUrl(q) => post[q].id \in MonitoredUrl \ {u}
      BY <2>1 DEF PendingUnused, PostInv, UrlPost, u
    <3>6. \A q \in Posts \ {p} : AddsUrl(q) => url'[post[q].id].state = "unused"
      BY <3>4, <3>5 DEF PendingUnused
    <3>7. PostInv' /\ PendingUnused'
      BY <2>1, <3>6, PostEnds
    <3>8. TypeInv'
      BY <2>1, <2>3, <3>3, <3>4 DEF TypeInv, HasUrl, HasRow
    <3>9. QED
      BY <3>7, <3>8
  <2>4. QED
    BY <2>2, <2>3
<1>5. ASSUME NEW p \in Posts, NEW safe \in BOOLEAN, GetCompetitorForOrg(p, safe)
      PROVE  RowInv'
  <2>1. /\ post[p] \in UrlPost /\ AddsUrl(p) /\ UNCHANGED <<competitor, url, scanning>>
    BY <1>5 DEF GetCompetitorForOrg, PostInv, AddsUrl
  <2>2. TypeInv'
    BY <2>1 DEF TypeInv, HasUrl, HasRow
  <2>3. CASE safe /\ HasRow(post[p].of)
    <3> DEFINE r == [post[p] EXCEPT !.does = "create url"]
    <3>1. r \in UrlPost /\ r.id = post[p].id /\ r.does = "create url"
      BY <2>1 DEF UrlPost
    <3>2. post' = [post EXCEPT ![p] = r]
      BY <1>5, <2>3 DEF GetCompetitorForOrg
    <3> HIDE DEF r
    <3>3. /\ url[r.id].state = "unused"
          /\ \A q \in Posts \ {p} : AddsUrl(q) => post[q].id # r.id
      BY <2>1, <3>1 DEF PendingUnused
    <3>4. PostInv' /\ PendingUnused'
      BY <2>1, <3>1, <3>2, <3>3, PostMoves
    <3>5. QED
      BY <2>2, <3>4
  <2>4. CASE ~(safe /\ HasRow(post[p].of))
    <3>1. post' = [post EXCEPT ![p] = NoPost]
      BY <1>5, <2>4 DEF GetCompetitorForOrg
    <3>2. PostInv' /\ PendingUnused'
      BY <2>1, <3>1, PostEnds DEF PendingUnused
    <3>3. QED
      BY <2>2, <3>2
  <2>5. QED
    BY <2>3, <2>4
<1>6. ASSUME UNCHANGED post, TypeInv',
             \A u \in MonitoredUrl : url[u].state = "unused" => url'[u] = url[u]
      PROVE  RowInv'
  BY <1>6 DEF PostInv, PendingUnused, AddsUrl, AddsCompetitor, UrlPost
<1>7. ASSUME NEW c \in Competitor, NEW isActive \in BOOLEAN, UpdateCompetitor(c, isActive)
      PROVE  RowInv'
  <2>1. UNCHANGED <<url, post, scanning>>
    BY <1>7 DEF UpdateCompetitor
  <2>2. PICK s \in {"active", "inactive"} : competitor' = [competitor EXCEPT ![c] = s]
    BY <1>7 DEF UpdateCompetitor
  <2>3. competitor' \in [Competitor -> {"unused", "active", "inactive", "deleted"}]
    BY <2>2 DEF TypeInv
  <2>4. \A d \in Competitor : HasRow(d) => HasRow(d)'
    BY <2>2 DEF TypeInv, HasRow
  <2>5. TypeInv'
    BY <2>1, <2>3, <2>4 DEF TypeInv, HasUrl, UrlRecord
  <2>6. QED
    BY <1>6, <2>1, <2>5
<1>8. ASSUME NEW c \in Competitor, DeleteCompetitorIfSafe(c)
      PROVE  RowInv'
  <2>1. UrlsUnder(c) = {} /\ UNCHANGED <<post, scanning>> /\ competitor' = [competitor EXCEPT ![c] = "deleted"]
    BY <1>8 DEF DeleteCompetitorIfSafe, Deletable
  <2>2. url' = url
    BY <1>8, <2>1 DEF DeleteCompetitorIfSafe, TypeInv
  <2>3. competitor' \in [Competitor -> {"unused", "active", "inactive", "deleted"}]
    BY <2>1 DEF TypeInv
  <2>4. \A u \in MonitoredUrl : HasUrl(u) => url[u].of # c
    BY <2>1 DEF UrlsUnder
  <2>5. \A u \in MonitoredUrl : HasUrl(u) => HasRow(url[u].of)'
    BY <2>1, <2>2, <2>4 DEF TypeInv, HasRow, UrlRecord
  <2>6. TypeInv'
    BY <2>1, <2>2, <2>3, <2>5 DEF TypeInv, HasUrl
  <2>7. QED
    BY <1>6, <2>1, <2>2, <2>6
<1>9. ASSUME NEW u \in MonitoredUrl, NEW r \in UrlRecord, HasUrl(u), r.of = url[u].of,
             url' = [url EXCEPT ![u] = r], UNCHANGED <<competitor, post>>, scanning' \subseteq MonitoredUrl
      PROVE  RowInv'
  <2>1. url' \in [MonitoredUrl -> UrlRecord] /\ url'[u] = r /\ \A v \in MonitoredUrl \ {u} : url'[v] = url[v]
    BY <1>9 DEF TypeInv
  <2>2. TypeInv'
    BY <1>9, <2>1 DEF TypeInv, HasUrl, HasRow
  <2>3. \A v \in MonitoredUrl : url[v].state = "unused" => url'[v] = url[v]
    BY <1>9, <2>1 DEF HasUrl
  <2>4. QED
    BY <1>6, <1>9, <2>2, <2>3
<1>10. ASSUME NEW u \in MonitoredUrl, NEW isActive \in BOOLEAN, UpdateMonitoredUrl(u, isActive)
       PROVE  RowInv'
  <2>1. PICK s \in {"active", "paused"} : url' = [url EXCEPT ![u].state = s]
    BY <1>10 DEF UpdateMonitoredUrl
  <2>2. HasUrl(u) /\ UNCHANGED <<competitor, post, scanning>>
    BY <1>10 DEF UpdateMonitoredUrl
  <2>3. url[u] \in UrlRecord
    BY DEF TypeInv
  <2>4. [url[u] EXCEPT !.state = s] \in UrlRecord /\ [url[u] EXCEPT !.state = s].of = url[u].of
    BY <2>3 DEF UrlRecord
  <2>5. QED
    BY <1>9, <2>1, <2>2, <2>4 DEF TypeInv
<1>11. ASSUME NEW u \in MonitoredUrl, DeleteMonitoredUrlIfSafe(u)
       PROVE  RowInv'
  <2>1. HasUrl(u) /\ url' = [url EXCEPT ![u].state = "deleted"] /\ UNCHANGED <<competitor, post, scanning>>
    BY <1>11 DEF DeleteMonitoredUrlIfSafe
  <2>2. url[u] \in UrlRecord
    BY DEF TypeInv
  <2>3. [url[u] EXCEPT !.state = "deleted"] \in UrlRecord /\ [url[u] EXCEPT !.state = "deleted"].of = url[u].of
    BY <2>2 DEF UrlRecord
  <2>4. QED
    BY <1>9, <2>1, <2>3 DEF TypeInv
<1>12. ASSUME NEW u \in MonitoredUrl, CreateSnapshot(u)
       PROVE  RowInv'
  <2>1. UNCHANGED <<competitor, post>> /\ scanning' \subseteq MonitoredUrl
    BY <1>12 DEF CreateSnapshot, TypeInv
  <2>2. CASE ~HasUrl(u)
    <3>1. UNCHANGED url
      BY <1>12, <2>2 DEF CreateSnapshot
    <3>2. QED
      BY <2>1, <3>1 DEF TypeInv, HasUrl, HasRow, PostInv, PendingUnused, AddsUrl, AddsCompetitor
  <2>3. CASE HasUrl(u)
    <3>1. url' = [url EXCEPT ![u].snapshots = url[u].snapshots + 1] /\ url[u].snapshots < MaxSnapshots
      BY <1>12, <2>3 DEF CreateSnapshot
    <3>2. url[u] \in UrlRecord /\ url[u].snapshots + 1 \in 0..MaxSnapshots
      BY <3>1, CatalogueConstants DEF TypeInv, UrlRecord
    <3>3. /\ [url[u] EXCEPT !.snapshots = url[u].snapshots + 1] \in UrlRecord
          /\ [url[u] EXCEPT !.snapshots = url[u].snapshots + 1].of = url[u].of
      BY <3>2 DEF UrlRecord
    <3>4. QED
      BY <1>9, <2>1, <2>3, <3>1, <3>3 DEF TypeInv
  <2>4. QED
    BY <2>2, <2>3
<1>13. ASSUME NEW u \in MonitoredUrl, LoadForScan(u)
       PROVE  RowInv'
  BY <1>13 DEF LoadForScan, TypeInv, HasUrl, HasRow, PostInv, PendingUnused, AddsUrl, AddsCompetitor
<1>14. CASE UNCHANGED <<competitor, url, post, scanning>>
  BY <1>14 DEF TypeInv, HasUrl, HasRow, PostInv, PendingUnused, AddsUrl, AddsCompetitor
<1>15. QED
  BY <1>1, <1>2, <1>3, <1>4, <1>5, <1>7, <1>8, <1>10, <1>11, <1>12, <1>13, <1>14
    DEF CatalogueNext, ListCompetitors, ListUrls, ListRows, LeaveList

LEMMA RowInvariant == CatalogueSpec => []RowInv
<1>1. CatalogueInit => RowInv
  <2> SUFFICES ASSUME CatalogueInit PROVE RowInv
    OBVIOUS
  <2>1. PICK c \in Competitor : url = [u \in MonitoredUrl |-> [state |-> "unused", of |-> c, snapshots |-> 0]]
    BY DEF CatalogueInit
  <2>2. [state |-> "unused", of |-> c, snapshots |-> 0] \in UrlRecord
    BY CatalogueConstants DEF UrlRecord
  <2>3. url \in [MonitoredUrl -> UrlRecord] /\ \A u \in MonitoredUrl : ~HasUrl(u)
    BY <2>1, <2>2 DEF HasUrl
  <2>4. \A p \in Posts : ~AddsUrl(p) /\ ~AddsCompetitor(p)
    BY NothingAdds DEF CatalogueInit, AddsUrl, AddsCompetitor
  <2>5. QED
    BY <2>3, <2>4 DEF CatalogueInit, RowInv, TypeInv, PostInv, PendingUnused
<1>2. RowInv /\ [CatalogueNext]_gVars => RowInv'
  <2>1. CASE UNCHANGED gVars
    BY <2>1 DEF gVars, RowInv, TypeInv, HasUrl, HasRow, PostInv, PendingUnused, AddsUrl, AddsCompetitor
  <2>2. QED
    BY <2>1, RowStep
<1>3. QED
  BY <1>1, <1>2, PTL DEF CatalogueSpec
-----------------------------------------------------------------------------
(* Every variable keeps its type, and a URL that exists is of a competitor *)
(* that exists: neither a create that lost its competitor nor a delete     *)
(* that raced it leaves a URL without one.                                 *)
THEOREM CatalogueTypeCorrect == CatalogueSpec => []CatalogueTypeOK
<1>1. RowInv => CatalogueTypeOK
  BY DEF RowInv, TypeInv, CatalogueTypeOK, UrlRecord
<1>2. QED
  BY <1>1, RowInvariant, PTL

LEMMA DeletableIsEmpty ==
  ASSUME NEW n \in Nat, Deletable(1..n)
  PROVE  n = 0
<1>1. 1 \notin 1..n
  BY DEF Deletable
<1>2. QED
  BY <1>1

(* Any number of requests and scans may overlap: stored history grows, and *)
(* a deletion takes nothing with it, however it raced an added URL or a    *)
(* scan that was about to store a snapshot.                                *)
THEOREM HistoryCorrect == CatalogueSpec => HistoryIsKept
<1> DEFINE KeepsItsHistory(u) ==
             /\ url'[u].snapshots >= url[u].snapshots
             /\ url'[u].state = "deleted" => (url[u].snapshots = 0 /\ competitor' = competitor)
<1>1. ASSUME RowInv, CatalogueNext, NEW u \in MonitoredUrl, HasUrl(u)
      PROVE  KeepsItsHistory(u)
  <2> USE DEF RowInv
  <2>1. url[u] \in UrlRecord /\ url[u].snapshots \in Nat /\ url[u].state # "deleted" /\ url[u].state # "unused"
    BY <1>1, CatalogueConstants DEF TypeInv, HasUrl, UrlRecord
  <2>2. CASE url'[u] = url[u]
    BY <2>1, <2>2
  <2>3. ASSUME NEW p \in Posts, CreateMonitoredUrl(p)
        PROVE  url'[u] = url[u]
    <3>1. url[post[p].id].state = "unused"
      BY <1>1, <2>3 DEF PendingUnused, CreateMonitoredUrl, AddsUrl
    <3>2. QED
      BY <1>1, <2>1, <2>3, <3>1 DEF CreateMonitoredUrl, TypeInv
  <2>4. ASSUME NEW v \in MonitoredUrl, NEW isActive \in BOOLEAN, UpdateMonitoredUrl(v, isActive)
        PROVE  KeepsItsHistory(u)
    <3>1. PICK s \in {"active", "paused"} : url' = [url EXCEPT ![v].state = s]
      BY <2>4 DEF UpdateMonitoredUrl
    <3>2. url'[u].snapshots = url[u].snapshots /\ url'[u].state \in {url[u].state, "active", "paused"}
      BY <1>1, <3>1 DEF TypeInv, UrlRecord
    <3>3. QED
      BY <2>1, <3>2
  <2>5. ASSUME NEW v \in MonitoredUrl, DeleteMonitoredUrlIfSafe(v)
        PROVE  KeepsItsHistory(u)
    <3>1. Deletable(1..url[v].snapshots) /\ url' = [url EXCEPT ![v].state = "deleted"] /\ competitor' = competitor
      BY <2>5 DEF DeleteMonitoredUrlIfSafe
    <3>2. url[v].snapshots \in Nat
      BY <1>1, CatalogueConstants DEF TypeInv, UrlRecord
    <3>3. url[v].snapshots = 0
      BY <3>1, <3>2, DeletableIsEmpty
    <3>4. url'[u].snapshots = url[u].snapshots /\ (u # v => url'[u] = url[u])
      BY <1>1, <3>1 DEF TypeInv, UrlRecord
    <3>5. QED
      BY <2>1, <3>1, <3>3, <3>4
  <2>6. ASSUME NEW v \in MonitoredUrl, CreateSnapshot(v)
        PROVE  KeepsItsHistory(u)
    <3>1. CASE UNCHANGED url
      BY <2>2, <3>1
    <3>2. CASE url' = [url EXCEPT ![v].snapshots = url[v].snapshots + 1]
      <4>1. url'[u].state = url[u].state /\ url'[u].snapshots \in {url[u].snapshots, url[u].snapshots + 1}
        BY <1>1, <3>2 DEF TypeInv, UrlRecord
      <4>2. QED
        BY <2>1, <4>1
    <3>3. QED
      BY <2>6, <3>1, <3>2 DEF CreateSnapshot
  <2>7. ASSUME NEW c \in Competitor, DeleteCompetitorIfSafe(c)
        PROVE  url'[u] = url[u]
    BY <1>1, <2>7 DEF DeleteCompetitorIfSafe, Deletable, TypeInv
  <2>8. CASE UNCHANGED url
    BY <2>2, <2>8
  <2>9. QED
    BY <1>1, <2>2, <2>3, <2>4, <2>5, <2>6, <2>7, <2>8
      DEF CatalogueNext, PostCompetitor, PostUrl, CreateCompetitor, GetCompetitorForOrg, UpdateCompetitor,
          LoadForScan, ListCompetitors, ListUrls, ListRows, LeaveList
<1>2. RowInv /\ CatalogueNext => \A u \in MonitoredUrl : HasUrl(u) => KeepsItsHistory(u)
  BY <1>1
<1> HIDE DEF KeepsItsHistory
<1>3. RowInv /\ [CatalogueNext]_gVars => [\A u \in MonitoredUrl : HasUrl(u) => KeepsItsHistory(u)]_gVars
  BY <1>2
<1>4. QED
  BY <1>3, RowInvariant, PTL DEF CatalogueSpec, HistoryIsKept, KeepsItsHistory
-----------------------------------------------------------------------------
(* Rows and the requests that may still add one.                           *)
CompetitorRows == {c \in Competitor : HasRow(c)}
UrlRows == {u \in MonitoredUrl : HasUrl(u)}
AddingCompetitors == {p \in Posts : AddsCompetitor(p)}
AddingUrls == {p \in Posts : AddsUrl(p)}

Bounded(held, adding, quota) == Cardinality(held) + Cardinality(adding) <= quota + Cardinality(Posts) - 1

Reserved ==
  /\ Bounded(CompetitorRows, AddingCompetitors, CompetitorsPerOrg)
  /\ Bounded(UrlRows, AddingUrls, UrlsPerOrg)

(* A latest row shown is of a competitor with a URL in the second query.   *)
ListInv ==
  /\ summary.step = "rows" => summary.urls \subseteq MonitoredUrl
  /\ summary.step = "shown" => \A c \in summary.latest : summary.count[c] > 0

LEMMA SetsAreFinite ==
  /\ IsFiniteSet(Posts) /\ Cardinality(Posts) \in Nat
  /\ IsFiniteSet(CompetitorRows) /\ Cardinality(CompetitorRows) \in Nat
  /\ IsFiniteSet(UrlRows) /\ Cardinality(UrlRows) \in Nat
  /\ IsFiniteSet(AddingCompetitors) /\ Cardinality(AddingCompetitors) \in Nat
  /\ IsFiniteSet(AddingUrls) /\ Cardinality(AddingUrls) \in Nat
<1>1. /\ CompetitorRows \in SUBSET Competitor /\ UrlRows \in SUBSET MonitoredUrl
      /\ AddingCompetitors \in SUBSET Posts /\ AddingUrls \in SUBSET Posts
  BY DEF CompetitorRows, UrlRows, AddingCompetitors, AddingUrls
<1>2. IsFiniteSet(Competitor) /\ IsFiniteSet(MonitoredUrl) /\ IsFiniteSet(Posts)
  BY CatalogueConstants
<1>3. /\ IsFiniteSet(CompetitorRows) /\ IsFiniteSet(UrlRows)
      /\ IsFiniteSet(AddingCompetitors) /\ IsFiniteSet(AddingUrls)
  BY <1>1, <1>2, FS_Subset
<1>4. QED
  BY <1>2, <1>3, FS_CardinalityType

(* A request is let in below the quota, ...                                *)
LEMMA BoundedWhenLetIn ==
  ASSUME NEW held, NEW quota \in Nat, NEW adding \in SUBSET Posts,
         Cardinality(held) \in Nat, Cardinality(held) < quota
  PROVE  Bounded(held, adding, quota)
<1>1. Cardinality(adding) \in Nat /\ Cardinality(Posts) \in Nat /\ Cardinality(adding) <= Cardinality(Posts)
  BY FS_Subset, FS_CardinalityType, SetsAreFinite
<1>2. QED
  BY <1>1 DEF Bounded

(* ... a request that ends adds at most the row it stood for, ...          *)
LEMMA BoundedWhenAdded ==
  ASSUME NEW held, NEW adding, IsFiniteSet(held), IsFiniteSet(adding), NEW quota \in Nat,
         Bounded(held, adding, quota),
         NEW p \in adding, NEW x, NEW rows2 \in SUBSET (held \union {x}), NEW adding2 \in SUBSET (adding \ {p})
  PROVE  Bounded(rows2, adding2, quota)
<1>1. IsFiniteSet(held \union {x}) /\ Cardinality(held \union {x}) <= Cardinality(held) + 1
  <2>1. /\ IsFiniteSet(held \union {x})
        /\ Cardinality(held \union {x}) = IF x \in held THEN Cardinality(held) ELSE Cardinality(held) + 1
    BY FS_AddElement
  <2>2. Cardinality(held) \in Nat
    BY FS_CardinalityType
  <2>3. QED
    BY <2>1, <2>2
<1>2. IsFiniteSet(adding \ {p}) /\ Cardinality(adding \ {p}) = Cardinality(adding) - 1
  BY FS_RemoveElement
<1>3. IsFiniteSet(rows2) /\ Cardinality(rows2) <= Cardinality(held \union {x})
  BY <1>1, FS_Subset
<1>4. IsFiniteSet(adding2) /\ Cardinality(adding2) <= Cardinality(adding \ {p})
  BY <1>2, FS_Subset
<1>5. /\ Cardinality(held) \in Nat /\ Cardinality(adding) \in Nat /\ Cardinality(Posts) \in Nat
      /\ Cardinality(rows2) \in Nat /\ Cardinality(adding2) \in Nat
      /\ Cardinality(held \union {x}) \in Nat /\ Cardinality(adding \ {p}) \in Nat
  BY <1>1, <1>2, <1>3, <1>4, FS_CardinalityType, SetsAreFinite
<1>6. QED
  BY <1>1, <1>2, <1>3, <1>4, <1>5 DEF Bounded

(* ... and what leaves both no larger keeps the bound.                     *)
LEMMA BoundedWhenFewer ==
  ASSUME NEW held, NEW adding, IsFiniteSet(held), IsFiniteSet(adding), NEW quota \in Nat,
         Bounded(held, adding, quota), NEW rows2 \in SUBSET held, NEW adding2 \in SUBSET adding
  PROVE  Bounded(rows2, adding2, quota)
<1>1. /\ Cardinality(rows2) <= Cardinality(held) /\ IsFiniteSet(rows2)
      /\ Cardinality(adding2) <= Cardinality(adding) /\ IsFiniteSet(adding2)
  BY FS_Subset
<1>2. /\ Cardinality(held) \in Nat /\ Cardinality(adding) \in Nat /\ Cardinality(Posts) \in Nat
      /\ Cardinality(rows2) \in Nat /\ Cardinality(adding2) \in Nat
  BY <1>1, FS_CardinalityType, SetsAreFinite
<1>3. QED
  BY <1>1, <1>2 DEF Bounded

LEMMA CompetitorsReserved ==
  ASSUME RowInv, Reserved, CatalogueNext
  PROVE  Bounded(CompetitorRows', AddingCompetitors', CompetitorsPerOrg)
<1>0. Bounded(CompetitorRows, AddingCompetitors, CompetitorsPerOrg) /\ CompetitorsPerOrg \in Nat
  BY CatalogueConstants DEF Reserved
<1>1. ASSUME NEW p \in Posts, NEW c \in Competitor, PostCompetitor(p, c)
      PROVE  Bounded(CompetitorRows', AddingCompetitors', CompetitorsPerOrg)
  <2>1. Cardinality(CompetitorRows) < CompetitorsPerOrg /\ CompetitorRows' = CompetitorRows
    BY <1>1 DEF PostCompetitor, BelowQuota, CountCompetitorsForOrg, CompetitorRows, HasRow
  <2>2. AddingCompetitors' \in SUBSET Posts
    BY DEF AddingCompetitors
  <2>3. QED
    BY <1>0, <2>1, <2>2, SetsAreFinite, BoundedWhenLetIn
<1>2. ASSUME NEW p \in Posts, CreateCompetitor(p)
      PROVE  Bounded(CompetitorRows', AddingCompetitors', CompetitorsPerOrg)
  <2>1. /\ competitor' = [competitor EXCEPT ![post[p].id] = "active"] /\ post' = [post EXCEPT ![p] = NoPost]
        /\ p \in AddingCompetitors
    BY <1>2 DEF CreateCompetitor, AddingCompetitors, AddsCompetitor
  <2>2. CompetitorRows' \in SUBSET (CompetitorRows \union {post[p].id})
    BY <2>1 DEF CompetitorRows, HasRow, RowInv, TypeInv
  <2>3. AddingCompetitors' \in SUBSET (AddingCompetitors \ {p})
    BY <2>1, NothingAdds DEF AddingCompetitors, AddsCompetitor, RowInv, PostInv
  <2>4. QED
    BY <1>0, <2>1, <2>2, <2>3, SetsAreFinite, BoundedWhenAdded
<1>3. ASSUME CompetitorRows' \in SUBSET CompetitorRows, AddingCompetitors' \in SUBSET AddingCompetitors
      PROVE  Bounded(CompetitorRows', AddingCompetitors', CompetitorsPerOrg)
  BY <1>0, <1>3, SetsAreFinite, BoundedWhenFewer
<1>4. ASSUME NEW p \in Posts, NEW r, r.does # "create competitor", post' = [post EXCEPT ![p] = r]
      PROVE  AddingCompetitors' \in SUBSET AddingCompetitors
  BY <1>4 DEF AddingCompetitors, AddsCompetitor, RowInv, PostInv
<1>5. ASSUME NEW p \in Posts, NEW u \in MonitoredUrl, NEW c \in Competitor, PostUrl(p, u, c)
      PROVE  Bounded(CompetitorRows', AddingCompetitors', CompetitorsPerOrg)
  BY <1>3, <1>4, <1>5 DEF PostUrl, CompetitorRows, HasRow
<1>6. ASSUME NEW p \in Posts, NEW safe \in BOOLEAN, GetCompetitorForOrg(p, safe)
      PROVE  Bounded(CompetitorRows', AddingCompetitors', CompetitorsPerOrg)
  <2>1. post[p].does = "find competitor" /\ post[p] \in UrlPost /\ UNCHANGED competitor
    BY <1>6 DEF GetCompetitorForOrg, RowInv, PostInv, AddsUrl
  <2>2. [post[p] EXCEPT !.does = "create url"].does = "create url"
    BY <2>1 DEF UrlPost
  <2>3. AddingCompetitors' \in SUBSET AddingCompetitors
    BY <1>4, <1>6, <2>2, NothingAdds DEF GetCompetitorForOrg
  <2>4. QED
    BY <1>3, <2>1, <2>3 DEF CompetitorRows, HasRow
<1>7. ASSUME NEW p \in Posts, CreateMonitoredUrl(p)
      PROVE  Bounded(CompetitorRows', AddingCompetitors', CompetitorsPerOrg)
  BY <1>3, <1>4, <1>7, NothingAdds DEF CreateMonitoredUrl, CompetitorRows, HasRow
<1>8. ASSUME UNCHANGED post
      PROVE  AddingCompetitors' = AddingCompetitors
  BY <1>8 DEF AddingCompetitors, AddsCompetitor
<1>9. ASSUME NEW c \in Competitor, NEW isActive \in BOOLEAN, UpdateCompetitor(c, isActive)
      PROVE  Bounded(CompetitorRows', AddingCompetitors', CompetitorsPerOrg)
  <2>1. CompetitorRows' \in SUBSET CompetitorRows
    BY <1>9 DEF UpdateCompetitor, CompetitorRows, HasRow, RowInv, TypeInv
  <2>2. QED
    BY <1>3, <1>8, <1>9, <2>1 DEF UpdateCompetitor
<1>10. ASSUME NEW c \in Competitor, DeleteCompetitorIfSafe(c)
       PROVE  Bounded(CompetitorRows', AddingCompetitors', CompetitorsPerOrg)
  <2>1. CompetitorRows' \in SUBSET CompetitorRows
    BY <1>10 DEF DeleteCompetitorIfSafe, CompetitorRows, HasRow, RowInv, TypeInv
  <2>2. QED
    BY <1>3, <1>8, <1>10, <2>1 DEF DeleteCompetitorIfSafe
<1>11. CASE UNCHANGED <<competitor, post>>
  BY <1>3, <1>8, <1>11 DEF CompetitorRows, HasRow
<1>12. QED
  BY <1>1, <1>2, <1>5, <1>6, <1>7, <1>9, <1>10, <1>11
    DEF CatalogueNext, UpdateMonitoredUrl, DeleteMonitoredUrlIfSafe, LoadForScan, CreateSnapshot,
        ListCompetitors, ListUrls, ListRows, LeaveList

LEMMA UrlsReserved ==
  ASSUME RowInv, Reserved, CatalogueNext
  PROVE  Bounded(UrlRows', AddingUrls', UrlsPerOrg)
<1>0. Bounded(UrlRows, AddingUrls, UrlsPerOrg) /\ UrlsPerOrg \in Nat
  BY CatalogueConstants DEF Reserved
<1>1. ASSUME NEW p \in Posts, NEW u \in MonitoredUrl, NEW c \in Competitor, PostUrl(p, u, c)
      PROVE  Bounded(UrlRows', AddingUrls', UrlsPerOrg)
  <2>1. Cardinality(UrlRows) < UrlsPerOrg /\ UrlRows' = UrlRows
    BY <1>1 DEF PostUrl, BelowQuota, CountMonitoredUrlsForOrg, UrlRows, HasUrl
  <2>2. AddingUrls' \in SUBSET Posts
    BY DEF AddingUrls
  <2>3. QED
    BY <1>0, <2>1, <2>2, SetsAreFinite, BoundedWhenLetIn
<1>2. ASSUME UrlRows' \in SUBSET UrlRows, AddingUrls' \in SUBSET AddingUrls
      PROVE  Bounded(UrlRows', AddingUrls', UrlsPerOrg)
  BY <1>0, <1>2, SetsAreFinite, BoundedWhenFewer
<1>3. ASSUME NEW p \in Posts, post' = [post EXCEPT ![p] = NoPost]
      PROVE  AddingUrls' \in SUBSET (AddingUrls \ {p})
  BY <1>3, NothingAdds DEF AddingUrls, AddsUrl, RowInv, PostInv
<1>4. ASSUME NEW p \in Posts, CreateMonitoredUrl(p)
      PROVE  Bounded(UrlRows', AddingUrls', UrlsPerOrg)
  <2>1. post' = [post EXCEPT ![p] = NoPost] /\ p \in AddingUrls
    BY <1>4 DEF CreateMonitoredUrl, AddingUrls, AddsUrl
  <2>2. UrlRows' \in SUBSET (UrlRows \union {post[p].id})
    BY <1>4 DEF CreateMonitoredUrl, UrlRows, HasUrl, RowInv, TypeInv
  <2>3. AddingUrls' \in SUBSET (AddingUrls \ {p})
    BY <1>3, <2>1
  <2>4. QED
    BY <1>0, <2>1, <2>2, <2>3, SetsAreFinite, BoundedWhenAdded
<1>5. ASSUME NEW p \in Posts, NEW safe \in BOOLEAN, GetCompetitorForOrg(p, safe)
      PROVE  Bounded(UrlRows', AddingUrls', UrlsPerOrg)
  <2>1. p \in AddingUrls /\ UNCHANGED url
    BY <1>5 DEF GetCompetitorForOrg, AddingUrls, AddsUrl
  <2>2. \A q \in Posts \ {p} : post'[q] = post[q]
    BY <1>5 DEF GetCompetitorForOrg, RowInv, PostInv
  <2>3. AddingUrls' \in SUBSET AddingUrls
    BY <2>1, <2>2 DEF AddingUrls, AddsUrl
  <2>4. QED
    BY <1>2, <2>1, <2>3 DEF UrlRows, HasUrl
<1>6. ASSUME NEW p \in Posts, NEW c \in Competitor, PostCompetitor(p, c)
      PROVE  Bounded(UrlRows', AddingUrls', UrlsPerOrg)
  <2>1. post'[p].does = "create competitor" /\ \A q \in Posts \ {p} : post'[q] = post[q]
    BY <1>6 DEF PostCompetitor, RowInv, PostInv
  <2>2. AddingUrls' \in SUBSET AddingUrls
    BY <2>1 DEF AddingUrls, AddsUrl
  <2>3. QED
    BY <1>2, <1>6, <2>2 DEF PostCompetitor, UrlRows, HasUrl
<1>7. ASSUME NEW p \in Posts, CreateCompetitor(p)
      PROVE  Bounded(UrlRows', AddingUrls', UrlsPerOrg)
  BY <1>2, <1>3, <1>7 DEF CreateCompetitor, UrlRows, HasUrl
<1>8. ASSUME UNCHANGED post
      PROVE  AddingUrls' = AddingUrls
  BY <1>8 DEF AddingUrls, AddsUrl
<1>9. ASSUME NEW u \in MonitoredUrl, NEW isActive \in BOOLEAN, UpdateMonitoredUrl(u, isActive)
      PROVE  Bounded(UrlRows', AddingUrls', UrlsPerOrg)
  <2>1. UrlRows' \in SUBSET UrlRows
    BY <1>9 DEF UpdateMonitoredUrl, UrlRows, HasUrl, RowInv, TypeInv, UrlRecord
  <2>2. QED
    BY <1>2, <1>8, <1>9, <2>1 DEF UpdateMonitoredUrl
<1>10. ASSUME NEW u \in MonitoredUrl, DeleteMonitoredUrlIfSafe(u)
       PROVE  Bounded(UrlRows', AddingUrls', UrlsPerOrg)
  <2>1. UrlRows' \in SUBSET UrlRows
    BY <1>10 DEF DeleteMonitoredUrlIfSafe, UrlRows, HasUrl, RowInv, TypeInv, UrlRecord
  <2>2. QED
    BY <1>2, <1>8, <1>10, <2>1 DEF DeleteMonitoredUrlIfSafe
<1>11. ASSUME NEW u \in MonitoredUrl, CreateSnapshot(u)
       PROVE  Bounded(UrlRows', AddingUrls', UrlsPerOrg)
  <2>1. \A v \in MonitoredUrl : url'[v].state = url[v].state
    BY <1>11 DEF CreateSnapshot, RowInv, TypeInv, UrlRecord
  <2>2. QED
    BY <1>2, <1>8, <1>11, <2>1 DEF CreateSnapshot, UrlRows, HasUrl
<1>12. ASSUME NEW c \in Competitor, DeleteCompetitorIfSafe(c)
       PROVE  Bounded(UrlRows', AddingUrls', UrlsPerOrg)
  <2>1. UNCHANGED url
    BY <1>12 DEF DeleteCompetitorIfSafe, Deletable, RowInv, TypeInv
  <2>2. QED
    BY <1>2, <1>8, <1>12, <2>1 DEF DeleteCompetitorIfSafe, UrlRows, HasUrl
<1>13. CASE UNCHANGED <<url, post>>
  BY <1>2, <1>8, <1>13 DEF UrlRows, HasUrl
<1>14. QED
  BY <1>1, <1>4, <1>5, <1>6, <1>7, <1>9, <1>10, <1>11, <1>12, <1>13
    DEF CatalogueNext, UpdateCompetitor, LoadForScan, ListCompetitors, ListUrls, ListRows, LeaveList

LEMMA ListStep ==
  ASSUME ListInv, CatalogueNext
  PROVE  ListInv'
<1>1. CASE ListRows
  <2> DEFINE count == [c \in summary.of |-> Cardinality({u \in summary.urls : summary.owner[u] = c})]
             latest == {c \in summary.of : \E u \in LatestRows(summary.urls) : summary.owner[u] = c}
  <2>1. summary.step = "rows" /\ summary' = [step |-> "shown", of |-> summary.of, count |-> count, latest |-> latest]
    BY <1>1 DEF ListRows
  <2>2. ASSUME NEW c \in latest
        PROVE  count[c] > 0
    <3> DEFINE stored == {u \in summary.urls : summary.owner[u] = c}
    <3>1. IsFiniteSet(stored)
      <4>1. stored \in SUBSET MonitoredUrl /\ IsFiniteSet(MonitoredUrl)
        BY <2>1, CatalogueConstants DEF ListInv
      <4>2. QED
        BY <4>1, FS_Subset
    <3>2. stored # {} /\ count[c] = Cardinality(stored)
      BY <2>2 DEF LatestRows
    <3> HIDE DEF stored, count, latest
    <3>3. Cardinality(stored) # 0 /\ Cardinality(stored) \in Nat
      BY <3>1, <3>2, FS_EmptySet, FS_CardinalityType
    <3>4. QED
      BY <3>2, <3>3
  <2> HIDE DEF count, latest
  <2>3. QED
    BY <2>1, <2>2 DEF ListInv
<1>2. CASE ListUrls
  BY <1>2 DEF ListUrls, ListInv
<1>3. CASE ListCompetitors
  BY <1>3 DEF ListCompetitors, ListInv
<1>4. CASE LeaveList
  BY <1>4 DEF LeaveList, ListInv, NoSummary
<1>5. CASE UNCHANGED summary
  BY <1>5 DEF ListInv
<1>6. QED
  BY <1>1, <1>2, <1>3, <1>4, <1>5
    DEF CatalogueNext, PostCompetitor, PostUrl, CreateCompetitor, CreateMonitoredUrl, GetCompetitorForOrg,
        UpdateCompetitor, UpdateMonitoredUrl, DeleteCompetitorIfSafe, DeleteMonitoredUrlIfSafe, LoadForScan,
        CreateSnapshot

(* For any number of requests under way, the held of an organization pass  *)
(* a quota by fewer than the requests that can be under way, and the list  *)
(* shows no latest change of a competitor it counts no URL for.            *)
THEOREM QuotasAndListsCorrect == CatalogueSpec => []QuotasAndListsHold
<1>1. CatalogueInit => Reserved /\ ListInv
  <2> SUFFICES ASSUME CatalogueInit PROVE Reserved /\ ListInv
    OBVIOUS
  <2>1. CompetitorRows = {} /\ UrlRows = {} /\ AddingCompetitors = {} /\ AddingUrls = {}
    <3>1. CompetitorRows = {}
      BY DEF CatalogueInit, CompetitorRows, HasRow
    <3>2. UrlRows = {}
      <4>1. PICK c \in Competitor : url = [u \in MonitoredUrl |-> [state |-> "unused", of |-> c, snapshots |-> 0]]
        BY DEF CatalogueInit
      <4>2. QED
        BY <4>1 DEF UrlRows, HasUrl
    <3>3. AddingCompetitors = {} /\ AddingUrls = {}
      BY NothingAdds DEF CatalogueInit, AddingCompetitors, AddingUrls, AddsUrl, AddsCompetitor
    <3>4. QED
      BY <3>1, <3>2, <3>3
  <2>2. CompetitorsPerOrg \in Nat \ {0} /\ UrlsPerOrg \in Nat \ {0}
    BY CatalogueConstants
  <2>3. Reserved
    BY <2>1, <2>2, FS_EmptySet, SetsAreFinite DEF Reserved, Bounded
  <2>4. QED
    BY <2>3 DEF CatalogueInit, ListInv, NoSummary
<1>2. RowInv /\ Reserved /\ ListInv /\ [CatalogueNext]_gVars => (Reserved /\ ListInv)'
  <2> SUFFICES ASSUME RowInv, Reserved, ListInv, [CatalogueNext]_gVars PROVE Reserved' /\ ListInv'
    OBVIOUS
  <2>1. CASE CatalogueNext
    <3>1. ListInv'
      BY <2>1, ListStep
    <3>2. Bounded(CompetitorRows', AddingCompetitors', CompetitorsPerOrg)
      BY <2>1, CompetitorsReserved
    <3>3. Bounded(UrlRows', AddingUrls', UrlsPerOrg)
      BY <2>1, UrlsReserved
    <3>4. QED
      BY <3>1, <3>2, <3>3 DEF Reserved
  <2>2. CASE UNCHANGED gVars
    BY <2>2 DEF gVars, Reserved, ListInv, Bounded, CompetitorRows, UrlRows, AddingCompetitors, AddingUrls,
      HasRow, HasUrl, AddsUrl, AddsCompetitor
  <2>3. QED
    BY <2>1, <2>2
<1>3. Reserved /\ ListInv => QuotasAndListsHold
  <2> SUFFICES ASSUME Reserved, ListInv PROVE QuotasAndListsHold
    OBVIOUS
  <2>1. /\ CountCompetitorsForOrg = Cardinality(CompetitorRows)
        /\ CountMonitoredUrlsForOrg = Cardinality(UrlRows)
    BY DEF CountCompetitorsForOrg, CountMonitoredUrlsForOrg, CompetitorRows, UrlRows
  <2>2. CompetitorsPerOrg \in Nat /\ UrlsPerOrg \in Nat
    BY CatalogueConstants
  <2>3. QED
    BY <2>1, <2>2, SetsAreFinite DEF Reserved, Bounded, ListInv, QuotasAndListsHold
<1>4. QED
  BY <1>1, <1>2, <1>3, RowInvariant, PTL DEF CatalogueSpec

-----------------------------------------------------------------------------
(* The connections.  A request is of one of the kinds below; only a switch *)
(* is answered in two steps.                                               *)
Requests == [page : Screens, does : {"create", "toggle", "delete"}, id : Connection, enabled : BOOLEAN,
             at : {"sent", "written", "ok", "404"}]
ConnectionRow == [is : {"unused", "on", "off", "deleted"}, updatedAt : Nat]
Lists == [Connection -> {"absent", "on", "off"}]

PagesTyped ==
  /\ row \in [Connection -> ConnectionRow] /\ writes \in 0..MaxUpdates
  /\ \A c \in Connection : row[c].updatedAt <= writes
  /\ shown \in [Screens -> Lists] /\ strained \in [Screens -> BOOLEAN]
  /\ deleted \in [Screens -> SUBSET Connection]
  /\ pending \subseteq Requests
  /\ \A b \in Screens : IsFiniteSet(OfPage(b)) /\ Cardinality(OfPage(b)) <= MaxPending

(* Ids: what is shown, asked about or deleted was created; a create that   *)
(* is under way is the only request for its id of its page, which does not *)
(* list the id yet nor was erased of its deletion.                           *)
IdsAreKnown ==
  /\ \A b \in Screens, c \in Connection :
       /\ shown[b][c] # "absent" => row[c].is # "unused"
       /\ c \in deleted[b] => row[c].is = "deleted" /\ shown[b][c] = "absent"
  /\ \A r \in pending :
       /\ r.does = "create" =>
            /\ shown[r.page][r.id] = "absent" /\ r.id \notin deleted[r.page]
            /\ r.at = "sent" => row[r.id].is = "unused"
            /\ \A q \in pending : q.id = r.id /\ (q.page = r.page \/ r.at = "sent") => q = r
       /\ row[r.id].is = "unused" => r.does = "create" /\ r.at = "sent"
       /\ r.does = "delete" /\ r.at = "ok" => row[r.id].is = "deleted"
       /\ r.at = "written" => r.does = "toggle"

(* What a page will show when the answer on its way has arrived.           *)
Settling(list, r, is) ==
  CASE r.at = "ok" -> Applied(list, r)
    [] r.at = "written" -> [list EXCEPT ![r.id] = is]
    [] OTHER -> list

(* A page that is not strained has one request on its way, whose answer    *)
(* makes its list what is stored.                                          *)
Calm(b) ==
  /\ \A q, r \in pending : q.page = b /\ r.page = b => q = r
  /\ (\A r \in pending : r.page # b) => shown[b] = StoredRows
  /\ \A r \in pending : r.page = b =>
       /\ Settling(shown[b], r, row[r.id].is) = StoredRows
       /\ r.does # "create" => shown[b][r.id] # "absent"
       /\ r.at = "written" => Exists(r.id)
CalmInv == \A b \in Screens : ~strained[b] => Calm(b)

-----------------------------------------------------------------------------
LEMMA RequestFields ==
  ASSUME NEW r \in Requests
  PROVE  /\ r.page \in Screens /\ r.does \in {"create", "toggle", "delete"} /\ r.id \in Connection
         /\ r.enabled \in BOOLEAN /\ r.at \in {"sent", "written", "ok", "404"}
  BY DEF Requests

(* A request is what its fields say.                                       *)
LEMMA RequestMade ==
  ASSUME NEW b \in Screens, NEW does \in {"create", "toggle", "delete"}, NEW c \in Connection, NEW enabled \in BOOLEAN
  PROVE  /\ Call(b, does, c, enabled) \in Requests
         /\ Call(b, does, c, enabled).page = b /\ Call(b, does, c, enabled).does = does
         /\ Call(b, does, c, enabled).id = c /\ Call(b, does, c, enabled).at = "sent"
  BY DEF Call, Requests

LEMMA AnswerMade ==
  ASSUME NEW r \in Requests, NEW status \in {"written", "ok", "404"}, NEW is \in {"on", "off", "unused", "deleted"}
  PROVE  LET a == Replied(r, status, is)
         IN  /\ a \in Requests /\ a.page = r.page /\ a.does = r.does /\ a.id = r.id
             /\ a.at = status /\ (a.enabled <=> is = "on")
<1>1. (is = "on") \in BOOLEAN
  OBVIOUS
<1> QED BY <1>1, RequestFields DEF Replied, Call, Requests

LEMMA StoredLists ==
  ASSUME row \in [Connection -> ConnectionRow]
  PROVE  StoredRows \in Lists
  BY DEF StoredRows, Lists, Exists, ConnectionRow

LEMMA AppliedLists ==
  ASSUME NEW list \in Lists, NEW r \in Requests
  PROVE  Applied(list, r) \in Lists
  BY RequestFields DEF Applied, Lists

LEMMA OneMore ==
  ASSUME NEW S, IsFiniteSet(S), NEW x
  PROVE  IsFiniteSet(S \cup {x}) /\ Cardinality(S \cup {x}) <= Cardinality(S) + 1
<1>1. Cardinality(S) \in Nat
  BY FS_CardinalityType
<1>2. IsFiniteSet(S \cup {x}) /\ (Cardinality(S \cup {x}) = Cardinality(S) \/ Cardinality(S \cup {x}) = Cardinality(S) + 1)
  BY FS_AddElement
<1> QED BY <1>1, <1>2

LEMMA ReplyBounds ==
  ASSUME PagesTyped, NEW r \in pending, NEW a \in Requests, a.page = r.page, pending' = (pending \ {r}) \union {a}
  PROVE  /\ pending' \subseteq Requests
         /\ \A b \in Screens : IsFiniteSet(OfPage(b)') /\ Cardinality(OfPage(b)') <= MaxPending
<1>1. pending' \subseteq Requests
  BY DEF PagesTyped
<1>2. ASSUME NEW b \in Screens PROVE IsFiniteSet(OfPage(b)') /\ Cardinality(OfPage(b)') <= MaxPending
  <2>1. IsFiniteSet(OfPage(b)) /\ Cardinality(OfPage(b)) <= MaxPending /\ Cardinality(OfPage(b)) \in Nat
    BY FS_CardinalityType DEF PagesTyped
  <2>2. CASE b # r.page
    <3>1. OfPage(b)' = OfPage(b)
      BY <2>2 DEF OfPage
    <3> QED BY <2>1, <3>1
  <2>3. CASE b = r.page
    <3> DEFINE rest == OfPage(b) \ {r}
    <3>1. r \in OfPage(b) /\ OfPage(b)' = rest \cup {a}
      BY <2>3 DEF OfPage
    <3>2. IsFiniteSet(rest) /\ Cardinality(rest) = Cardinality(OfPage(b)) - 1 /\ Cardinality(rest) \in Nat
      BY <2>1, <3>1, FS_RemoveElement, FS_CardinalityType
    <3> HIDE DEF rest
    <3>3. IsFiniteSet(rest \cup {a}) /\ Cardinality(rest \cup {a}) <= Cardinality(rest) + 1
      BY <3>2, OneMore
    <3>4. Cardinality(rest \cup {a}) \in Nat /\ MaxPending \in Nat
      BY <3>3, FS_CardinalityType, ConnectionConstants
    <3> QED BY <2>1, <3>1, <3>2, <3>3, <3>4
  <2> QED BY <2>2, <2>3
<1> QED BY <1>1, <1>2

LEMMA SendBounds ==
  ASSUME PagesTyped, NEW r \in Requests, Send(r)
  PROVE  /\ pending' \subseteq Requests
         /\ \A b \in Screens : IsFiniteSet(OfPage(b)') /\ Cardinality(OfPage(b)') <= MaxPending
<1>1. pending' = pending \union {r} /\ r \notin pending /\ Cardinality(OfPage(r.page)) < MaxPending
  BY DEF Send
<1>2. ASSUME NEW b \in Screens PROVE IsFiniteSet(OfPage(b)') /\ Cardinality(OfPage(b)') <= MaxPending
  <2>1. IsFiniteSet(OfPage(b)) /\ Cardinality(OfPage(b)) <= MaxPending /\ Cardinality(OfPage(b)) \in Nat
    BY FS_CardinalityType DEF PagesTyped
  <2>2. CASE b # r.page
    <3>1. OfPage(b)' = OfPage(b)
      BY <1>1, <2>2 DEF OfPage
    <3> QED BY <2>1, <3>1
  <2>3. CASE b = r.page
    <3>1. OfPage(b)' = OfPage(b) \cup {r} /\ r \notin OfPage(b)
      BY <1>1, <2>3 DEF OfPage
    <3>2. IsFiniteSet(OfPage(b) \cup {r}) /\ Cardinality(OfPage(b) \cup {r}) = Cardinality(OfPage(b)) + 1
      BY <2>1, <3>1, FS_AddElement
    <3> QED BY <1>1, <2>1, <2>3, <3>1, <3>2, ConnectionConstants
  <2> QED BY <2>2, <2>3
<1> QED BY <1>1, <1>2 DEF PagesTyped

LEMMA DropBounds ==
  ASSUME PagesTyped, NEW r \in pending, pending' = pending \ {r}
  PROVE  /\ pending' \subseteq Requests
         /\ \A b \in Screens : IsFiniteSet(OfPage(b)') /\ Cardinality(OfPage(b)') <= MaxPending
<1>1. ASSUME NEW b \in Screens PROVE IsFiniteSet(OfPage(b)') /\ Cardinality(OfPage(b)') <= MaxPending
  <2>1. IsFiniteSet(OfPage(b)) /\ Cardinality(OfPage(b)) <= MaxPending /\ Cardinality(OfPage(b)) \in Nat
    BY FS_CardinalityType DEF PagesTyped
  <2>2. OfPage(b)' \subseteq OfPage(b)
    BY DEF OfPage
  <2>3. IsFiniteSet(OfPage(b)') /\ Cardinality(OfPage(b)') <= Cardinality(OfPage(b)) /\ Cardinality(OfPage(b)') \in Nat
    BY <2>1, <2>2, FS_Subset, FS_CardinalityType
  <2> QED BY <2>1, <2>3, ConnectionConstants
<1> QED BY <1>1 DEF PagesTyped

-----------------------------------------------------------------------------
ScreensInv == PagesTyped /\ IdsAreKnown /\ CalmInv

LEMMA ScreensStart == ConnectionsInit => ScreensInv
<1> SUFFICES ASSUME ConnectionsInit PROVE PagesTyped /\ IdsAreKnown /\ CalmInv
  BY DEF ScreensInv
<1>1. \A b \in Screens : OfPage(b) = {} /\ IsFiniteSet(OfPage(b)) /\ Cardinality(OfPage(b)) <= MaxPending
  BY FS_EmptySet, ConnectionConstants DEF ConnectionsInit, OfPage
<1>2. PagesTyped
  BY <1>1, ConnectionConstants DEF ConnectionsInit, PagesTyped, ConnectionRow, Lists, Requests
<1>3. IdsAreKnown /\ CalmInv
  BY DEF ConnectionsInit, IdsAreKnown, CalmInv
<1> QED BY <1>2, <1>3

(* A page sends a request.                                                 *)
LEMMA SendStep ==
  ASSUME ScreensInv, NEW b \in Screens, NEW c \in Connection, NEW does \in {"create", "toggle", "delete"},
         NEW enabled \in BOOLEAN, Send(Call(b, does, c, enabled)),
         does = "create" => row[c].is = "unused" /\ \A q \in pending : q.does = "create" => q.page # b /\ q.id # c,
         does # "create" => shown[b][c] # "absent"
  PROVE  ScreensInv'
<1> DEFINE r == Call(b, does, c, enabled)
<1>1. r \in Requests /\ r.page = b /\ r.does = does /\ r.id = c /\ r.at = "sent"
  BY RequestMade
<1> HIDE DEF r
<1>2. pending' = pending \cup {r} /\ UNCHANGED <<row, writes, shown, deleted, called>>
      /\ strained' = [strained EXCEPT ![b] = strained[b] \/ OfPage(b) # {}]
  BY <1>1 DEF Send, r
<1>3. PagesTyped /\ IdsAreKnown /\ CalmInv
  BY DEF ScreensInv
<1>4. PagesTyped'
  <2>1. Send(r)
    BY DEF r
  <2>2. strained' \in [Screens -> BOOLEAN]
    BY <1>2, <1>3 DEF PagesTyped
  <2> QED BY <1>1, <1>2, <1>3, <2>1, <2>2, SendBounds DEF PagesTyped
<1>5. IdsAreKnown'
  <2>1. ASSUME does = "create"
        PROVE  /\ shown[b][c] = "absent" /\ c \notin deleted[b]
               /\ \A q \in pending : q.id # c
    <3>1. \A q \in pending : q.does # "create" => row[q.id].is # "unused"
      BY <1>3 DEF IdsAreKnown
    <3> QED BY <1>3, <2>1, <3>1 DEF IdsAreKnown
  <2>2. does # "create" => row[c].is # "unused"
    BY <1>3 DEF IdsAreKnown
  <2>3. ASSUME NEW q \in pending, q.does = "create"
        PROVE  r.id = q.id /\ (r.page = q.page \/ q.at = "sent") => r = q
    <3>1. CASE does = "create"
      BY <1>1, <2>1, <3>1
    <3>2. CASE does # "create"
      BY <1>1, <1>3, <2>2, <2>3, <3>2 DEF IdsAreKnown
    <3> QED BY <3>1, <3>2
  <2> QED BY <1>1, <1>2, <1>3, <2>1, <2>2, <2>3 DEF IdsAreKnown
<1>6. CalmInv'
  <2> SUFFICES ASSUME NEW a \in Screens, ~strained'[a] PROVE Calm(a)'
    BY DEF CalmInv
  <2>1. ~strained[a] /\ (a = b => OfPage(b) = {}) /\ Calm(a)
    BY <1>2, <1>3 DEF CalmInv, PagesTyped
  <2>2. CASE a # b
    BY <1>1, <1>2, <2>1, <2>2 DEF Calm, Settling, StoredRows, Exists
  <2>3. CASE a = b
    <3>1. \A q \in pending : q.page # b
      BY <2>1, <2>3 DEF OfPage
    <3>2. shown[b] = StoredRows /\ StoredRows' = StoredRows /\ shown'[b] = shown[b]
      BY <1>1, <1>2, <2>1, <2>3, <3>1 DEF Calm, StoredRows, Exists
    <3>3. \A list, is : Settling(list, r, is) = list
      BY <1>1 DEF Settling
    <3>4. does # "create" => shown[b][c] # "absent"
      OBVIOUS
    <3>5. \A q \in pending' : q.page = b <=> q = r
      BY <1>1, <1>2, <3>1
    <3> QED BY <1>1, <1>2, <2>3, <3>2, <3>3, <3>4, <3>5 DEF Calm
  <2> QED BY <2>2, <2>3
<1> QED BY <1>4, <1>5, <1>6 DEF ScreensInv

(* A request is handled: rows other than its own stay, and pages other     *)
(* than its own are strained by a write.                                   *)
LEMMA WriteStep ==
  ASSUME ScreensInv, NEW r \in pending, r.at = "sent", UNCHANGED <<shown, deleted, called>>,
         NEW status \in {"ok", "written"}, NEW is \in {"on", "off", "deleted"},
         Written(r.page), pending' = (pending \ {r}) \cup {Replied(r, status, IF is = "deleted" THEN "off" ELSE is)},
         row' \in [Connection -> ConnectionRow], row'[r.id].is = is, row'[r.id].updatedAt <= writes',
         \A c \in Connection \ {r.id} : row'[c] = row[c],
         r.does = "create" <=> ~Exists(r.id),
         r.does = "create" => status = "ok" /\ is = "on",
         r.does = "toggle" => status = "written" /\ is # "deleted",
         r.does = "delete" => status = "ok" /\ is = "deleted"
  PROVE  ScreensInv'
<1> DEFINE a == Replied(r, status, IF is = "deleted" THEN "off" ELSE is)
<1>1. PagesTyped /\ IdsAreKnown /\ CalmInv /\ r \in Requests
  BY DEF ScreensInv, PagesTyped
<1>2. a \in Requests /\ a.page = r.page /\ a.does = r.does /\ a.id = r.id /\ a.at = status /\ (a.enabled <=> is = "on")
  BY <1>1, AnswerMade
<1>3. pending' = (pending \ {r}) \cup {a}
  OBVIOUS
<1>4. r.page \in Screens /\ r.id \in Connection /\ r.does \in {"create", "toggle", "delete"}
  BY <1>1, RequestFields
<1> HIDE DEF a
<1>5. writes' = writes + 1 /\ writes' \in 0..MaxUpdates /\ writes \in Nat
      /\ strained' = [q \in Screens |-> strained[q] \/ q # r.page]
  BY <1>1, ConnectionConstants DEF Written, PagesTyped
<1>6. PagesTyped'
  <2>1. \A c \in Connection : row'[c].updatedAt <= writes'
    <3> SUFFICES ASSUME NEW c \in Connection, c # r.id PROVE row'[c].updatedAt <= writes'
      OBVIOUS
    <3>1. row'[c].updatedAt <= writes /\ row'[c].updatedAt \in Nat
      BY <1>1 DEF PagesTyped, ConnectionRow
    <3> QED BY <1>5, <3>1
  <2>2. strained' \in [Screens -> BOOLEAN]
    BY <1>1, <1>5 DEF PagesTyped
  <2> QED BY <1>1, <1>2, <1>3, <1>5, <2>1, <2>2, ReplyBounds DEF PagesTyped
<1>7. \A c \in Connection : (row[c].is # "unused" => row'[c].is # "unused") /\ (row[c].is = "deleted" => row'[c].is = "deleted")
  BY <1>1, <1>4 DEF Exists, IdsAreKnown
<1>8. IdsAreKnown'
  <2>1. \A b \in Screens, c \in Connection :
          /\ shown'[b][c] # "absent" => row'[c].is # "unused"
          /\ c \in deleted'[b] => row'[c].is = "deleted" /\ shown'[b][c] = "absent"
    BY <1>1, <1>7 DEF IdsAreKnown
  <2>2. ASSUME NEW q \in pending, q # r
        PROVE  /\ q.does = "create" =>
                    /\ shown'[q.page][q.id] = "absent" /\ q.id \notin deleted'[q.page]
                    /\ q.at = "sent" => row'[q.id].is = "unused"
                    /\ \A p \in pending' : p.id = q.id /\ (p.page = q.page \/ q.at = "sent") => p = q
               /\ row'[q.id].is = "unused" => q.does = "create" /\ q.at = "sent"
               /\ q.does = "delete" /\ q.at = "ok" => row'[q.id].is = "deleted"
               /\ q.at = "written" => q.does = "toggle"
    <3>1. q \in Requests /\ q.id \in Connection
      BY <1>1, RequestFields DEF PagesTyped
    <3>2. ASSUME q.does = "create"
          PROVE  /\ shown'[q.page][q.id] = "absent" /\ q.id \notin deleted'[q.page]
                 /\ q.at = "sent" => row'[q.id].is = "unused"
                 /\ \A p \in pending' : p.id = q.id /\ (p.page = q.page \/ q.at = "sent") => p = q
      <4>1. ~(r.id = q.id /\ (r.page = q.page \/ q.at = "sent"))
        BY <1>1, <2>2, <3>2 DEF IdsAreKnown
      <4>2. q.at = "sent" => q.id # r.id /\ row[q.id].is = "unused"
        BY <1>1, <3>2, <4>1 DEF IdsAreKnown
      <4>3. \A p \in pending : p.id = q.id /\ (p.page = q.page \/ q.at = "sent") => p = q
        BY <1>1, <3>2 DEF IdsAreKnown
      <4>4. shown'[q.page][q.id] = "absent" /\ q.id \notin deleted'[q.page]
        BY <1>1, <3>2 DEF IdsAreKnown
      <4> QED BY <1>2, <1>3, <3>1, <4>1, <4>2, <4>3, <4>4
    <3>3. /\ row'[q.id].is = "unused" => q.does = "create" /\ q.at = "sent"
          /\ q.does = "delete" /\ q.at = "ok" => row'[q.id].is = "deleted"
          /\ q.at = "written" => q.does = "toggle"
      BY <1>1, <1>7, <3>1 DEF IdsAreKnown
    <3> QED BY <3>2, <3>3
  <2>3. /\ a.does = "create" =>
             /\ shown'[a.page][a.id] = "absent" /\ a.id \notin deleted'[a.page]
             /\ a.at # "sent"
             /\ \A p \in pending' : p.id = a.id /\ p.page = a.page => p = a
        /\ row'[a.id].is # "unused"
        /\ a.does = "delete" /\ a.at = "ok" => row'[a.id].is = "deleted"
        /\ a.at = "written" => a.does = "toggle"
    BY <1>1, <1>2, <1>3, <1>4 DEF IdsAreKnown
  <2> QED BY <1>3, <2>1, <2>2, <2>3 DEF IdsAreKnown
<1>9. CalmInv'
  <2> SUFFICES ASSUME NEW b \in Screens, ~strained'[b] PROVE Calm(b)'
    BY DEF CalmInv
  <2>1. b = r.page /\ Calm(b)
    BY <1>1, <1>5 DEF CalmInv
  <2>2. shown[b] = StoredRows /\ (r.does # "create" => shown[b][r.id] # "absent") /\ \A q \in pending : q.page = b => q = r
    BY <2>1 DEF Calm, Settling
  <2>3. \A q \in pending' : q.page = b => q = a
    BY <1>2, <1>3, <2>1, <2>2
  <2>4. StoredRows' = [shown[b] EXCEPT ![r.id] = IF is = "deleted" THEN "absent" ELSE is]
    BY <1>4, <2>2 DEF StoredRows, Exists
  <2>5. shown[b] \in Lists
    BY <1>1 DEF PagesTyped
  <2>6. Settling(shown[b], a, is) = StoredRows'
    <3>1. CASE r.does = "toggle"
      BY <1>2, <2>4, <3>1 DEF Settling
    <3>2. CASE r.does # "toggle"
      BY <1>2, <1>4, <2>4, <2>5, <3>2 DEF Settling, Applied, Lists
    <3> QED BY <3>1, <3>2
  <2>7. shown'[b] = shown[b] /\ row'[a.id].is = is /\ a \in pending' /\ (is # "deleted" => Exists(a.id)')
    BY <1>2, <1>3 DEF Exists
  <2>8. a.at = "written" => is # "deleted"
    BY <1>2, <1>4
  <2> QED BY <1>2, <2>1, <2>2, <2>3, <2>6, <2>7, <2>8 DEF Calm
<1> QED BY <1>6, <1>8, <1>9 DEF ScreensInv

(* A request is answered without a write.                                  *)
LEMMA QuietReplyStep ==
  ASSUME ScreensInv, NEW r \in pending, UNCHANGED <<row, writes, shown, deleted, strained, called>>,
         NEW status \in {"ok", "404"}, pending' = (pending \ {r}) \cup {Replied(r, status, row[r.id].is)},
         \/ r.at = "sent" /\ r.does # "create" /\ ~Exists(r.id) /\ status = "404"
         \/ r.at = "written" /\ status = IF Exists(r.id) THEN "ok" ELSE "404"
  PROVE  ScreensInv'
<1> DEFINE a == Replied(r, status, row[r.id].is)
<1>1. PagesTyped /\ IdsAreKnown /\ CalmInv /\ r \in Requests
  BY DEF ScreensInv, PagesTyped
<1>2. r.page \in Screens /\ r.id \in Connection /\ r.does \in {"toggle", "delete"} /\ row[r.id] \in ConnectionRow
      /\ (r.at = "written" => r.does = "toggle")
  BY <1>1, RequestFields DEF PagesTyped, IdsAreKnown
<1>3. a \in Requests /\ a.page = r.page /\ a.does = r.does /\ a.id = r.id /\ a.at = status
      /\ (a.enabled <=> row[r.id].is = "on")
  BY <1>1, <1>2, AnswerMade DEF ConnectionRow
<1>4. pending' = (pending \ {r}) \cup {a}
  OBVIOUS
<1> HIDE DEF a
<1>5. PagesTyped'
  BY <1>1, <1>3, <1>4, ReplyBounds DEF PagesTyped
<1>6. IdsAreKnown'
  <2>1. \A q \in pending : q.does = "create" => ~(a.id = q.id /\ (a.page = q.page \/ q.at = "sent"))
    BY <1>1, <1>2, <1>3 DEF IdsAreKnown
  <2>2. a.does # "create" /\ row[a.id].is # "unused" /\ (a.does = "delete" => a.at # "ok") /\ a.at # "written"
    BY <1>1, <1>2, <1>3 DEF IdsAreKnown
  <2> QED BY <1>1, <1>4, <2>1, <2>2 DEF IdsAreKnown
<1>7. CalmInv'
  <2> SUFFICES ASSUME NEW b \in Screens, ~strained'[b] PROVE Calm(b)'
    BY DEF CalmInv
  <2>0. StoredRows' = StoredRows
    BY DEF StoredRows, Exists
  <2>1. Calm(b)
    BY <1>1 DEF CalmInv
  <2>2. CASE b # r.page
    <3>1. \A q \in Requests : q.page = b => (q \in pending' <=> q \in pending)
      BY <1>3, <1>4, <2>2
    <3>2. pending' \subseteq Requests /\ pending \subseteq Requests
      BY <1>1, <1>5 DEF PagesTyped
    <3> QED BY <2>0, <2>1, <3>1, <3>2 DEF Calm, Exists
  <2>3. CASE b = r.page
    <3>1. \A q \in pending' : q.page = b => q = a
      BY <1>3, <1>4, <2>1, <2>3 DEF Calm
    <3>2. Settling(shown[b], r, row[r.id].is) = StoredRows /\ shown[b][r.id] # "absent" /\ shown[b] \in Lists
      BY <1>1, <1>2, <2>1, <2>3 DEF Calm, PagesTyped
    <3>3. Settling(shown[b], a, row[a.id].is) = StoredRows
      <4>1. CASE r.at = "sent"
        BY <1>3, <3>2, <4>1 DEF Settling
      <4>2. CASE r.at = "written"
        <5>1. Exists(r.id) /\ status = "ok" /\ r.does = "toggle"
          BY <1>2, <2>1, <2>3, <4>2 DEF Calm
        <5>2. StoredRows = [shown[b] EXCEPT ![r.id] = row[r.id].is]
          BY <3>2, <4>2 DEF Settling
        <5>3. Settling(shown[b], a, row[a.id].is) = Applied(shown[b], a)
          BY <1>3, <5>1 DEF Settling
        <5> QED BY <1>3, <3>2, <5>1, <5>2, <5>3 DEF Applied, Exists
      <4> QED BY <4>1, <4>2
    <3> QED BY <1>3, <1>4, <2>0, <2>3, <3>1, <3>2, <3>3 DEF Calm
  <2> QED BY <2>2, <2>3
<1> QED BY <1>5, <1>6, <1>7 DEF ScreensInv

LEMMA ReceiveStep ==
  ASSUME ScreensInv, NEW r \in pending, Receive(r)
  PROVE  ScreensInv'
<1> DEFINE list == IF r.at = "ok" THEN Applied(shown[r.page], r) ELSE shown[r.page]
           erased == IF r.at = "ok" /\ r.does = "delete" THEN deleted[r.page] \cup {r.id} ELSE deleted[r.page]
<1>1. PagesTyped /\ IdsAreKnown /\ CalmInv /\ r \in Requests /\ pending' = pending \ {r}
  BY DEF ScreensInv, PagesTyped, Receive
<1>2. r.page \in Screens /\ r.id \in Connection /\ r.does \in {"create", "toggle", "delete"} /\ r.at \in {"ok", "404"}
  BY <1>1, RequestFields DEF Receive
<1>3. /\ shown' = [shown EXCEPT ![r.page] = list] /\ deleted' = [deleted EXCEPT ![r.page] = erased]
      /\ UNCHANGED <<row, writes, strained, called>>
  BY DEF Receive
<1>4. list \in Lists /\ erased \in SUBSET Connection
  BY <1>1, <1>2, AppliedLists DEF PagesTyped
<1>5. /\ \A c \in Connection : list[c] # "absent" => row[c].is # "unused"
      /\ \A c \in erased : row[c].is = "deleted" /\ list[c] = "absent"
      /\ \A c \in Connection \ {r.id} : list[c] = shown[r.page][c] /\ (c \in erased <=> c \in deleted[r.page])
      /\ r.at = "ok" /\ r.does # "create" /\ shown[r.page][r.id] = "absent" => list[r.id] = "absent"
  <2>1. shown[r.page] \in Lists
    BY <1>1, <1>2 DEF PagesTyped
  <2>2. \A c \in Connection \ {r.id} : list[c] = shown[r.page][c] /\ (c \in erased <=> c \in deleted[r.page])
    BY <1>2, <2>1 DEF Applied, Lists
  <2>3. list[r.id] = IF r.at # "ok" THEN shown[r.page][r.id] ELSE IF r.does = "create" THEN "on"
                     ELSE IF r.does = "delete" \/ shown[r.page][r.id] = "absent" THEN "absent" ELSE IF r.enabled THEN "on" ELSE "off"
    BY <1>2, <2>1 DEF Applied, Lists
  <2>4. /\ r.at = "ok" /\ r.does = "create" => row[r.id].is # "unused" /\ r.id \notin deleted[r.page]
        /\ r.does # "create" => row[r.id].is # "unused"
        /\ r.does = "delete" /\ r.at = "ok" => row[r.id].is = "deleted"
        /\ r.id \in deleted[r.page] => row[r.id].is = "deleted" /\ shown[r.page][r.id] = "absent"
    BY <1>1, <1>2 DEF IdsAreKnown
  <2>5. list[r.id] # "absent" => row[r.id].is # "unused"
    BY <1>1, <1>2, <2>3, <2>4 DEF IdsAreKnown
  <2>6. r.id \in erased => row[r.id].is = "deleted" /\ list[r.id] = "absent"
    BY <1>2, <2>3, <2>4
  <2>7. \A c \in Connection \ {r.id} :
          /\ shown[r.page][c] # "absent" => row[c].is # "unused"
          /\ c \in deleted[r.page] => row[c].is = "deleted" /\ shown[r.page][c] = "absent"
    BY <1>1, <1>2 DEF IdsAreKnown
  <2> HIDE DEF list, erased
  <2> QED BY <1>2, <1>4, <2>2, <2>3, <2>5, <2>6, <2>7
<1> HIDE DEF list, erased
<1>6. PagesTyped'
  BY <1>1, <1>2, <1>3, <1>4, DropBounds DEF PagesTyped
<1>7. IdsAreKnown'
  <2>1. \A b \in Screens, c \in Connection :
          /\ shown'[b][c] # "absent" => row'[c].is # "unused"
          /\ c \in deleted'[b] => row'[c].is = "deleted" /\ shown'[b][c] = "absent"
    BY <1>1, <1>2, <1>3, <1>5 DEF IdsAreKnown, PagesTyped
  <2>2. ASSUME NEW q \in pending', q.does = "create"
        PROVE  shown'[q.page][q.id] = "absent" /\ q.id \notin deleted'[q.page]
    <3>1. q \in pending /\ q # r /\ q.page \in Screens /\ q.id \in Connection
      BY <1>1, RequestFields DEF PagesTyped
    <3>2. shown[q.page][q.id] = "absent" /\ q.id \notin deleted[q.page] /\ ~(r.id = q.id /\ r.page = q.page)
      BY <1>1, <2>2, <3>1 DEF IdsAreKnown
    <3> QED BY <1>1, <1>2, <1>3, <1>5, <3>1, <3>2 DEF PagesTyped
  <2> QED BY <1>1, <1>3, <2>1, <2>2 DEF IdsAreKnown
<1>8. CalmInv'
  <2> SUFFICES ASSUME NEW b \in Screens, ~strained'[b] PROVE Calm(b)'
    BY DEF CalmInv
  <2>0. StoredRows' = StoredRows
    BY <1>3 DEF StoredRows, Exists
  <2>1. Calm(b)
    BY <1>1, <1>3 DEF CalmInv
  <2>2. CASE b # r.page
    <3>1. shown'[b] = shown[b] /\ \A q \in pending : q.page = b => q \in pending'
      BY <1>1, <1>3, <2>2 DEF PagesTyped
    <3> QED BY <1>1, <1>3, <2>0, <2>1, <3>1 DEF Calm, Exists
  <2>3. CASE b = r.page
    <3>1. \A q \in pending' : q.page # b
      BY <1>1, <2>1, <2>3 DEF Calm
    <3>2. Settling(shown[b], r, row[r.id].is) = StoredRows
      BY <2>1, <2>3 DEF Calm
    <3>3. list = StoredRows
      BY <1>2, <2>3, <3>2 DEF Settling, list
    <3>4. shown'[b] = list
      BY <1>1, <1>3, <2>3 DEF PagesTyped
    <3> QED BY <2>0, <3>1, <3>3, <3>4 DEF Calm
  <2> QED BY <2>2, <2>3
<1> QED BY <1>6, <1>7, <1>8 DEF ScreensInv

LEMMA LoseStep ==
  ASSUME ScreensInv, NEW r \in pending, Lose(r)
  PROVE  ScreensInv'
<1>1. PagesTyped /\ IdsAreKnown /\ CalmInv /\ r \in Requests /\ pending' = pending \ {r}
  BY DEF ScreensInv, PagesTyped, Lose
<1>2. strained' = [strained EXCEPT ![r.page] = TRUE] /\ UNCHANGED <<row, writes, shown, deleted, called>> /\ r.page \in Screens
  BY <1>1, RequestFields DEF Lose
<1>3. PagesTyped'
  <2>1. strained' \in [Screens -> BOOLEAN]
    BY <1>1, <1>2 DEF PagesTyped
  <2> QED BY <1>1, <1>2, <2>1, DropBounds DEF PagesTyped
<1>4. IdsAreKnown'
  BY <1>1, <1>2 DEF IdsAreKnown
<1>5. ASSUME NEW b \in Screens, ~strained'[b] PROVE Calm(b)'
  <2>1. b # r.page /\ Calm(b)
    BY <1>1, <1>2, <1>5 DEF CalmInv, PagesTyped
  <2>2. \A q \in pending : q.page = b => q \in pending'
    BY <1>1, <2>1
  <2>3. StoredRows' = StoredRows
    BY <1>2 DEF StoredRows, Exists
  <2> QED BY <1>1, <1>2, <2>1, <2>2, <2>3 DEF Calm, Exists
<1> QED BY <1>3, <1>4, <1>5 DEF ScreensInv, CalmInv

LEMMA LoadStep ==
  ASSUME ScreensInv, NEW b \in Screens, LoadPage(b)
  PROVE  ScreensInv'
<1>1. PagesTyped /\ IdsAreKnown /\ CalmInv /\ \A r \in pending : r.page # b
  BY DEF ScreensInv, LoadPage, OfPage
<1>2. /\ shown' = [shown EXCEPT ![b] = StoredRows] /\ strained' = [strained EXCEPT ![b] = FALSE]
      /\ UNCHANGED <<row, writes, pending, deleted, called>>
  BY DEF LoadPage
<1>3. StoredRows \in Lists /\ StoredRows' = StoredRows
  BY <1>1, <1>2, StoredLists DEF PagesTyped, StoredRows, Exists
<1>4. PagesTyped'
  <2>1. strained' \in [Screens -> BOOLEAN]
    BY <1>1, <1>2 DEF PagesTyped
  <2>2. \A q \in Screens : OfPage(q)' = OfPage(q)
    BY <1>2 DEF OfPage
  <2> QED BY <1>1, <1>2, <1>3, <2>1, <2>2 DEF PagesTyped
<1>5. IdsAreKnown'
  <2>1. \A c \in Connection :
          /\ StoredRows[c] # "absent" => row[c].is # "unused"
          /\ row[c].is = "deleted" => StoredRows[c] = "absent"
    BY DEF StoredRows, Exists
  <2>2. \A q \in Screens : shown'[q] = IF q = b THEN StoredRows ELSE shown[q]
    BY <1>1, <1>2 DEF PagesTyped
  <2>3. \A r \in pending : r.page # b /\ r.page \in Screens
    BY <1>1, RequestFields DEF PagesTyped
  <2> QED BY <1>1, <1>2, <2>1, <2>2, <2>3 DEF IdsAreKnown
<1>6. ASSUME NEW q \in Screens, ~strained'[q] PROVE Calm(q)'
  <2>1. CASE q = b
    <3>1. shown'[b] = StoredRows
      BY <1>1, <1>2 DEF PagesTyped
    <3> QED BY <1>1, <1>2, <1>3, <2>1, <3>1 DEF Calm
  <2>2. CASE q # b
    <3>1. shown'[q] = shown[q] /\ Calm(q)
      BY <1>1, <1>2, <1>6, <2>2 DEF PagesTyped, CalmInv
    <3> QED BY <1>2, <1>3, <3>1 DEF Calm, Exists
  <2> QED BY <2>1, <2>2
<1> QED BY <1>4, <1>5, <1>6 DEF ScreensInv, CalmInv

LEMMA HandleStep ==
  ASSUME ScreensInv, NEW r \in pending, Handle(r)
  PROVE  ScreensInv'
<1>1. PagesTyped /\ IdsAreKnown /\ r \in Requests
  BY DEF ScreensInv, PagesTyped
<1>2. r.at = "sent" /\ UNCHANGED <<shown, deleted, called>> /\ r.page \in Screens /\ r.id \in Connection
      /\ row \in [Connection -> ConnectionRow] /\ row[r.id] \in ConnectionRow /\ writes \in Nat
      /\ r.enabled \in BOOLEAN
  BY <1>1, RequestFields DEF Handle, PagesTyped
<1>3. CASE Creates(r)
  <2>1. row' = [row EXCEPT ![r.id] = [is |-> "on", updatedAt |-> writes']] /\ Written(r.page) /\ writes' \in Nat
    BY <1>2, <1>3 DEF Creates, Written
  <2>2. row[r.id].is = "unused"
    BY <1>1, <1>2, <1>3 DEF Creates, IdsAreKnown
  <2>3. row' \in [Connection -> ConnectionRow] /\ row'[r.id].is = "on" /\ row'[r.id].updatedAt = writes'
    BY <1>2, <2>1 DEF ConnectionRow
  <2>4. pending' = (pending \ {r}) \cup {Replied(r, "ok", IF "on" = "deleted" THEN "off" ELSE "on")}
    BY <1>3 DEF Creates, Reply
  <2>5. r.does = "create" /\ ~Exists(r.id)
    BY <1>3, <2>2 DEF Creates, Exists
  <2>6. \A c \in Connection \ {r.id} : row'[c] = row[c]
    BY <1>2, <2>1
  <2> QED BY <1>2, <2>1, <2>3, <2>4, <2>5, <2>6, WriteStep
<1>4. CASE Updates(r)
  <2> DEFINE is == IF r.enabled THEN "on" ELSE "off"
  <2>1. row' = [row EXCEPT ![r.id] = [is |-> is, updatedAt |-> writes']] /\ Written(r.page) /\ writes' \in Nat
    BY <1>2, <1>4 DEF Updates, Written
  <2>2. row' \in [Connection -> ConnectionRow] /\ row'[r.id].is = is /\ row'[r.id].updatedAt = writes'
    BY <1>2, <2>1 DEF ConnectionRow
  <2>3. pending' = (pending \ {r}) \cup {Replied(r, "written", IF is = "deleted" THEN "off" ELSE is)}
    BY <1>4 DEF Updates, Reply
  <2>4. r.does = "toggle" /\ Exists(r.id) /\ is \in {"on", "off"}
    BY <1>4 DEF Updates
  <2>5. \A c \in Connection \ {r.id} : row'[c] = row[c]
    BY <1>2, <2>1
  <2> HIDE DEF is
  <2> QED BY <1>2, <2>1, <2>2, <2>3, <2>4, <2>5, WriteStep
<1>5. CASE Deletes(r)
  <2>1. row' = [row EXCEPT ![r.id].is = "deleted"] /\ Written(r.page) /\ writes' = writes + 1
    BY <1>2, <1>5 DEF Deletes, Written
  <2>2. row' \in [Connection -> ConnectionRow] /\ row'[r.id].is = "deleted" /\ row'[r.id].updatedAt = row[r.id].updatedAt
    BY <1>2, <2>1 DEF ConnectionRow
  <2>3. row'[r.id].updatedAt <= writes'
    <3>1. row[r.id].updatedAt <= writes /\ row[r.id].updatedAt \in Nat
      BY <1>1, <1>2 DEF PagesTyped, ConnectionRow
    <3> QED BY <1>2, <2>1, <2>2, <3>1
  <2>4. pending' = (pending \ {r}) \cup {Replied(r, "ok", IF "deleted" = "deleted" THEN "off" ELSE "deleted")}
    BY <1>5 DEF Deletes, Reply
  <2>5. r.does = "delete" /\ Exists(r.id)
    BY <1>5 DEF Deletes
  <2>6. \A c \in Connection \ {r.id} : row'[c] = row[c]
    BY <1>2, <2>1
  <2> QED BY <1>2, <2>1, <2>2, <2>3, <2>4, <2>5, <2>6, WriteStep
<1>6. CASE r.does # "create" /\ ~Exists(r.id) /\ Reply(r, "404", "off") /\ UNCHANGED <<row, writes, strained>>
  <2>1. Replied(r, "404", "off") = Replied(r, "404", row[r.id].is)
    BY <1>6 DEF Replied, Exists
  <2> QED BY <1>2, <1>6, <2>1, QuietReplyStep DEF Reply
<1> QED BY <1>3, <1>4, <1>5, <1>6 DEF Handle

LEMMA ScreensStep == ScreensInv /\ [ConnectionsNext]_nVars => ScreensInv'
<1> SUFFICES ASSUME ScreensInv, [ConnectionsNext]_nVars PROVE ScreensInv'
  OBVIOUS
<1>1. ASSUME NEW b \in Screens, NEW c \in Connection, OnCreate(b, c) \/ OnToggleEnabled(b, c) \/ OnDelete(b, c)
      PROVE  ScreensInv'
  <2>1. CASE OnCreate(b, c)
    <3>1. /\ Send(Call(b, "create", c, TRUE)) /\ row[c].is = "unused"
          /\ \A q \in pending : q.does = "create" => q.page # b /\ q.id # c
      BY <2>1 DEF OnCreate
    <3> QED BY <3>1, SendStep
  <2>2. CASE OnToggleEnabled(b, c)
    <3>1. Send(Call(b, "toggle", c, shown[b][c] = "off")) /\ shown[b][c] # "absent" /\ (shown[b][c] = "off") \in BOOLEAN
      BY <2>2 DEF OnToggleEnabled
    <3> QED BY <3>1, SendStep
  <2>3. CASE OnDelete(b, c)
    <3>1. Send(Call(b, "delete", c, FALSE)) /\ shown[b][c] # "absent"
      BY <2>3 DEF OnDelete
    <3> QED BY <3>1, SendStep
  <2> QED BY <1>1, <2>1, <2>2, <2>3
<1>2. ASSUME NEW r \in pending, ReadAgain(r) PROVE ScreensInv'
  <2>1. r.at = "written" /\ Reply(r, IF Exists(r.id) THEN "ok" ELSE "404", row[r.id].is)
    BY <1>2 DEF ReadAgain
  <2> QED BY <1>2, <2>1, QuietReplyStep DEF Reply, ReadAgain
<1>3. ASSUME ResolveAiProvider \/ RecordCall \/ UNCHANGED nVars PROVE ScreensInv'
  <2>1. UNCHANGED <<row, writes, shown, pending, deleted, strained>>
    BY <1>3 DEF ResolveAiProvider, RecordCall, nVars
  <2>2. StoredRows' = StoredRows /\ \A b \in Screens : OfPage(b)' = OfPage(b)
    BY <2>1 DEF StoredRows, Exists, OfPage
  <2>3. PagesTyped' /\ IdsAreKnown'
    BY <2>1, <2>2 DEF ScreensInv, PagesTyped, IdsAreKnown
  <2>4. CalmInv'
    BY <2>1, <2>2 DEF ScreensInv, CalmInv, Calm, Exists
  <2> QED BY <2>3, <2>4 DEF ScreensInv
<1> QED BY <1>1, <1>2, <1>3, HandleStep, ReceiveStep, LoseStep, LoadStep DEF ConnectionsNext

LEMMA ScreensHold == ConnectionsSpec => []ScreensInv
<1> QED BY ScreensStart, ScreensStep, PTL DEF ConnectionsSpec

(* Types of the connection pages: no page lists an id nobody created.      *)
THEOREM ConnectionsTypeCorrect == ConnectionsSpec => []ConnectionsTypeOK
<1>1. ASSUME ScreensInv PROVE ConnectionsTypeOK
  <2>1. PagesTyped /\ IdsAreKnown
    BY <1>1 DEF ScreensInv
  <2>2. \A c \in Connection : row[c] \in ConnectionRow /\ row[c].updatedAt <= writes /\ writes \in Nat
    BY <2>1, ConnectionConstants DEF PagesTyped
  <2>3. \A c \in Connection : row[c].is \in {"unused", "on", "off", "deleted"} /\ row[c].updatedAt \in 0..writes
    BY <2>2 DEF ConnectionRow
  <2> QED BY <2>1, <2>3 DEF PagesTyped, IdsAreKnown, ConnectionsTypeOK
<1> QED BY <1>1, ScreensHold, PTL

(* A deletion a page was erased of is never undone by an answer that comes   *)
(* late; a page whose requests came back one at a time, with nobody else   *)
(* writing, shows what is stored.                                          *)
THEOREM SettleCorrect == ConnectionsSpec => []ListsSettle
<1>1. ASSUME ScreensInv PROVE ListsSettle
  BY <1>1 DEF ScreensInv, PagesTyped, IdsAreKnown, CalmInv, Calm, OfPage, ListsSettle
<1> QED BY <1>1, ScreensHold, PTL

-----------------------------------------------------------------------------
(* The mail account.  A page has one request of a kind on its way.         *)
Accounts == [host : Hosts \cup {""}, secret : Secrets \cup {""}, enabled : BOOLEAN]
SafeAccounts == [host : Hosts \cup {""}, hasPassword : BOOLEAN, enabled : BOOLEAN]
Asks == {"put", "test", "delete"}
TestResults == [ok : BOOLEAN, of : Accounts]
Forms == [initial : SafeAccounts, host : Hosts \cup {""}, secret : Secrets \cup {""}, remove : BOOLEAN,
          enabled : BOOLEAN, busy : SUBSET Asks, stale : BOOLEAN, result : TestResults]
Bodies == [host : Hosts \cup {""}, enabled : BOOLEAN, secret : Secrets \cup {"keep", "remove"}]
Calls == [page : Admins, does : Asks, body : Bodies \cup {"none"},
          at : {"sent", "sending", "ok", "refused"}, with : Accounts]

MailTyped ==
  /\ account \in Accounts /\ env \in Settings /\ upserts \in 0..MaxUpserts /\ tests \in 0..MaxTests
  /\ form \in [Admins -> Forms] /\ calls \subseteq Calls
  /\ apart \in [Admins -> BOOLEAN]

OneOfAKind ==
  /\ \A c \in calls : c.does \in form[c.page].busy /\ (c.does = "put" => c.body \in Bodies)
  /\ \A c, d \in calls : c.page = d.page /\ c.does = d.does => c = d

(* What a page without disturbance knows: it was given the stored account, *)
(* or an answer is on its way after which it is read again; what a test    *)
(* found is of the stored account, unless the answer of a removal is on    *)
(* its way; a test that runs is its only request.                          *)
Tells(f, a, s, asked) ==
  /\ f.stale \/ f.initial = Safe(a) \/ \E c \in asked : c.page = s /\ c.does # "test" /\ c.at = "ok"
  /\ f.result.ok => \/ f.result.of = a /\ a.enabled
                    \/ \E c \in asked : c.page = s /\ c.does = "delete" /\ c.at = "ok"
  /\ \A c \in asked : c.page = s =>
       /\ c.does = "put" => ~f.result.ok
       /\ c.does = "test" =>
            /\ \A d \in asked : d.page = s => d = c
            /\ c.at \in {"sending", "ok"} => c.with = a /\ a.enabled
MailTells == \A s \in Admins : ~apart[s] => Tells(form[s], account, s, calls)

MailInv == MailTyped /\ OneOfAKind /\ MailTells

-----------------------------------------------------------------------------
LEMMA AccountFields ==
  ASSUME NEW a \in Accounts
  PROVE  /\ a.host \in Hosts \cup {""} /\ a.secret \in Secrets \cup {""} /\ a.enabled \in BOOLEAN
         /\ NoAccount \in Accounts /\ Safe(a) \in SafeAccounts /\ NoResult \in TestResults
  BY DEF Accounts, SafeAccounts, NoAccount, Safe, NoResult, TestResults

LEMMA NothingEnabled == ~NoAccount.enabled
  BY DEF NoAccount

LEMMA SafeFields ==
  ASSUME NEW a \in Accounts
  PROVE  Safe(a).host = a.host /\ (Safe(a).enabled <=> a.enabled)
  BY AccountFields DEF Safe

LEMMA FormFields ==
  ASSUME NEW f \in Forms
  PROVE  /\ f.initial \in SafeAccounts /\ f.host \in Hosts \cup {""} /\ f.secret \in Secrets \cup {""}
         /\ f.remove \in BOOLEAN /\ f.enabled \in BOOLEAN /\ f.busy \in SUBSET Asks /\ f.stale \in BOOLEAN
         /\ f.result \in TestResults /\ f.result.ok \in BOOLEAN /\ f.result.of \in Accounts
  BY DEF Forms, TestResults

LEMMA CallFields ==
  ASSUME NEW c \in Calls
  PROVE  /\ c.page \in Admins /\ c.does \in Asks /\ c.body \in Bodies \cup {"none"}
         /\ c.at \in {"sent", "sending", "ok", "refused"} /\ c.with \in Accounts
  BY DEF Calls

LEMMA EditedForm ==
  ASSUME NEW f \in Forms, NEW host \in Hosts \cup {""}, NEW secret \in Secrets \cup {""},
         NEW remove \in BOOLEAN, NEW enabled \in BOOLEAN
  PROVE  /\ Edited(f, host, secret, remove, enabled) \in Forms
         /\ Edited(f, host, secret, remove, enabled).initial = f.initial
         /\ Edited(f, host, secret, remove, enabled).busy = f.busy
         /\ Edited(f, host, secret, remove, enabled).stale = f.stale
         /\ Edited(f, host, secret, remove, enabled).result = f.result
  BY FormFields DEF Edited, Forms

LEMMA LoadedForm ==
  ASSUME NEW a \in Accounts
  PROVE  /\ Loaded(a) \in Forms /\ Loaded(a).initial = Safe(a) /\ ~Loaded(a).result.ok
         /\ Loaded(a).busy = {} /\ ~Loaded(a).stale
<1>1. (a = NoAccount \/ a.enabled) \in BOOLEAN /\ Safe(a) \in SafeAccounts /\ Safe(a).host = a.host /\ NoResult \in TestResults
  BY AccountFields DEF Safe
<1>2. a.host \in Hosts \cup {""}
  BY AccountFields
<1> QED BY <1>1, <1>2 DEF Loaded, Forms, NoResult

AnsweredCall(c, status, with) == [[c EXCEPT !.at = status] EXCEPT !.with = with]

LEMMA FoundByTest ==
  ASSUME NEW outcome, NEW c, outcome = [ok |-> c.at = "ok", of |-> c.with]
  PROVE  (outcome.ok <=> c.at = "ok") /\ outcome.of = c.with
  OBVIOUS

(* What an answer makes of the form.                                       *)
LEMMA SettledForm ==
  ASSUME NEW f \in Forms, NEW c \in Calls
  PROVE  LET g == Settled(f, c)
         IN  /\ g \in Forms /\ g.initial = f.initial /\ g.busy = f.busy \ {c.does}
             /\ g.stale <=> (f.stale \/ (c.does # "test" /\ c.at = "ok"))
             /\ g.result = IF c.does = "test" THEN [ok |-> c.at = "ok", of |-> c.with]
                           ELSE IF c.does = "delete" /\ c.at = "ok" THEN NoResult ELSE f.result
<1> DEFINE done == [f EXCEPT !.busy = f.busy \ {c.does}]
<1>1. done \in Forms /\ done.initial = f.initial /\ done.busy = f.busy \ {c.does} /\ done.stale = f.stale /\ done.result = f.result
  BY FormFields DEF Forms
<1>2. c.does \in Asks /\ c.with \in Accounts /\ NoResult \in TestResults /\ "" \in Hosts \cup {""} /\ "" \in Secrets \cup {""}
  BY CallFields, AccountFields
<1>3. Settled(f, c) =
    CASE c.does = "put" /\ c.at = "ok" -> [Edited(done, f.host, "", FALSE, f.enabled) EXCEPT !.stale = TRUE]
      [] c.does = "delete" /\ c.at = "ok" ->
           [[Edited(done, "", "", f.remove, f.enabled) EXCEPT !.result = NoResult] EXCEPT !.stale = TRUE]
      [] c.does = "test" -> [done EXCEPT !.result = [ok |-> c.at = "ok", of |-> c.with]]
      [] OTHER -> done
  BY DEF Settled
<1> HIDE DEF done
<1>4. CASE c.does = "put" /\ c.at = "ok"
  <2> DEFINE e == Edited(done, f.host, "", FALSE, f.enabled)
  <2>0. f.host \in Hosts \cup {""} /\ FALSE \in BOOLEAN /\ f.enabled \in BOOLEAN /\ f.remove \in BOOLEAN
    BY FormFields
  <2>1. e \in Forms /\ e.initial = f.initial /\ e.busy = f.busy \ {c.does} /\ e.result = f.result
    BY <1>1, <1>2, <2>0, FormFields DEF Edited, Forms
  <2>2. Settled(f, c) = [e EXCEPT !.stale = TRUE]
    BY <1>3, <1>4
  <2> HIDE DEF e
  <2>3. [e EXCEPT !.stale = TRUE] \in Forms
    BY <2>1 DEF Forms
  <2> QED BY <1>4, <2>1, <2>2, <2>3 DEF Forms
<1>5. CASE c.does = "delete" /\ c.at = "ok"
  <2> DEFINE e == Edited(done, "", "", f.remove, f.enabled)
             g == [e EXCEPT !.result = NoResult]
  <2>0. f.host \in Hosts \cup {""} /\ FALSE \in BOOLEAN /\ f.enabled \in BOOLEAN /\ f.remove \in BOOLEAN
    BY FormFields
  <2>1. e \in Forms /\ e.initial = f.initial /\ e.busy = f.busy \ {c.does}
    BY <1>1, <1>2, <2>0, FormFields DEF Edited, Forms
  <2>2. Settled(f, c) = [g EXCEPT !.stale = TRUE]
    BY <1>3, <1>5
  <2> HIDE DEF e
  <2>3. g \in Forms /\ g.initial = f.initial /\ g.busy = f.busy \ {c.does} /\ g.result = NoResult
    BY <1>2, <2>1 DEF Forms
  <2> HIDE DEF g
  <2>4. [g EXCEPT !.stale = TRUE] \in Forms
    BY <2>3 DEF Forms
  <2> QED BY <1>5, <2>2, <2>3, <2>4 DEF Forms
<1>6. CASE c.does = "test"
  <2> DEFINE outcome == [ok |-> c.at = "ok", of |-> c.with]
  <2>1. outcome \in TestResults
    BY <1>2 DEF TestResults
  <2>2. Settled(f, c) = [done EXCEPT !.result = outcome]
    BY <1>3, <1>6
  <2> HIDE DEF outcome
  <2>3. [done EXCEPT !.result = outcome] \in Forms
    BY <1>1, <2>1 DEF Forms
  <2>4. Settled(f, c).result = outcome
    BY <1>1, <2>2 DEF Forms
  <2>5. Settled(f, c) \in Forms /\ Settled(f, c).initial = f.initial /\ Settled(f, c).busy = f.busy \ {c.does}
        /\ Settled(f, c).stale = f.stale
    BY <1>1, <2>2, <2>3 DEF Forms
  <2> QED BY <1>6, <2>4, <2>5 DEF outcome
<1>7. CASE c.does # "test" /\ c.at # "ok"
  BY <1>1, <1>3, <1>7
<1> QED BY <1>2, <1>4, <1>5, <1>6, <1>7 DEF Asks

-----------------------------------------------------------------------------
LEMMA MailStarts == MailInit => MailInv
<1> SUFFICES ASSUME MailInit PROVE MailTyped /\ OneOfAKind /\ MailTells
  BY DEF MailInv
<1>1. NoAccount \in Accounts /\ Loaded(NoAccount) \in Forms /\ Loaded(NoAccount).initial = Safe(NoAccount)
      /\ ~Loaded(NoAccount).result.ok
  <2>1. NoAccount \in Accounts
    BY DEF NoAccount, Accounts
  <2> QED BY <2>1, LoadedForm
<1>2. \A s \in Admins : form[s] = Loaded(NoAccount)
  BY DEF MailInit
<1>3. MailTyped
  BY <1>1, MailAccountConstants DEF MailInit, MailTyped
<1> QED BY <1>1, <1>2, <1>3 DEF MailInit, OneOfAKind, MailTells, Tells

(* A page that opens, is edited or is read again.                          *)
LEMMA FormStep ==
  ASSUME MailInv, NEW s \in Admins, NEW f \in Forms, form' = [form EXCEPT ![s] = f],
         UNCHANGED <<account, env, calls, upserts, tests>>,
         apart' \in [Admins -> BOOLEAN], \A q \in Admins \ {s} : apart'[q] = apart[q],
         \/ ByPage(s) = {} /\ ~f.result.ok /\ f.initial = Safe(account)
         \/ f.busy = form[s].busy /\ f.result = form[s].result /\ apart' = apart
            /\ ((f.initial = form[s].initial /\ f.stale = form[s].stale) \/ f.initial = Safe(account))
  PROVE  MailInv'
<1>1. MailTyped /\ OneOfAKind /\ MailTells
  BY DEF MailInv
<1>2. \A q \in Admins : form'[q] = IF q = s THEN f ELSE form[q]
  BY <1>1 DEF MailTyped
<1>3. MailTyped'
  BY <1>1 DEF MailTyped
<1>4. OneOfAKind'
  <2>1. \A c \in calls : c.page \in Admins
    BY <1>1, CallFields DEF MailTyped
  <2> QED BY <1>1, <1>2, <2>1 DEF OneOfAKind, ByPage
<1>5. MailTells'
  <2> SUFFICES ASSUME NEW q \in Admins, ~apart'[q] PROVE Tells(form'[q], account', q, calls')
    BY DEF MailTells
  <2>1. CASE q # s
    BY <1>1, <1>2, <2>1 DEF MailTells
  <2>2. CASE q = s /\ ByPage(s) = {} /\ ~f.result.ok /\ f.initial = Safe(account)
    BY <1>2, <2>2 DEF Tells, ByPage
  <2>3. CASE q = s /\ apart' = apart /\ f.result = form[s].result
             /\ ((f.initial = form[s].initial /\ f.stale = form[s].stale) \/ f.initial = Safe(account))
    <3>1. Tells(form[s], account, s, calls)
      BY <1>1, <2>3 DEF MailTells
    <3> QED BY <1>2, <2>3, <3>1 DEF Tells
  <2> QED BY <2>1, <2>2, <2>3
<1> QED BY <1>3, <1>4, <1>5 DEF MailInv

(* A page sends a request.                                                 *)
LEMMA AskStep ==
  ASSUME MailInv, NEW s \in Admins, NEW does \in Asks, NEW body \in Bodies \cup {"none"}, NEW cleared \in BOOLEAN,
         AskServer(s, does, body, cleared), UNCHANGED <<account, env, upserts>>, tests' \in 0..MaxTests,
         does = "put" => body \in Bodies, does # "delete" => cleared
  PROVE  MailInv'
<1> DEFINE c == [page |-> s, does |-> does, body |-> body, at |-> "sent", with |-> NoAccount]
           asking == [form[s] EXCEPT !.busy = form[s].busy \cup {does}]
           f == IF cleared THEN [asking EXCEPT !.result = NoResult] ELSE asking
<1>1. MailTyped /\ OneOfAKind /\ MailTells /\ form[s] \in Forms
  BY DEF MailInv, MailTyped
<1>2. /\ does \notin form[s].busy /\ calls' = calls \cup {c} /\ form' = [form EXCEPT ![s] = f]
      /\ apart' = [apart EXCEPT ![s] = apart[s] \/ (form[s].busy # {} /\ "test" \in form[s].busy \cup {does})]
  BY DEF AskServer
<1>3. c \in Calls /\ c.page = s /\ c.does = does /\ c.body = body /\ c.at = "sent"
  <2>1. NoAccount \in Accounts
    BY DEF NoAccount, Accounts
  <2> QED BY <2>1 DEF Calls
<1>4. /\ f \in Forms /\ f.busy = form[s].busy \cup {does} /\ f.initial = form[s].initial /\ f.stale = form[s].stale
      /\ (IF cleared THEN ~f.result.ok ELSE f.result = form[s].result)
  <2>1. asking \in Forms /\ asking.busy = form[s].busy \cup {does} /\ asking.initial = form[s].initial
        /\ asking.stale = form[s].stale /\ asking.result = form[s].result
    BY <1>1, FormFields DEF Forms
  <2>2. NoResult \in TestResults /\ ~NoResult.ok
    BY DEF NoResult, TestResults, Accounts, NoAccount
  <2> HIDE DEF asking
  <2>3. CASE cleared
    BY <2>1, <2>2, <2>3 DEF Forms
  <2>4. CASE ~cleared
    BY <2>1, <2>4
  <2> QED BY <2>3, <2>4
<1> HIDE DEF c, f, asking
<1>5. \A q \in Admins : form'[q] = IF q = s THEN f ELSE form[q]
  BY <1>1, <1>2 DEF MailTyped
<1>6. \A d \in calls : d \in Calls /\ d.page \in Admins /\ d.does \in form[d.page].busy /\ (d.page = s => d.does # does)
  BY <1>1, <1>2, CallFields DEF MailTyped, OneOfAKind
<1>7. MailTyped'
  <2>1. apart' \in [Admins -> BOOLEAN]
    BY <1>1, <1>2 DEF MailTyped
  <2> QED BY <1>1, <1>2, <1>3, <1>4, <2>1 DEF MailTyped
<1>8. OneOfAKind'
  BY <1>1, <1>2, <1>3, <1>4, <1>5, <1>6 DEF OneOfAKind
<1>9. ASSUME NEW q \in Admins, ~apart'[q] PROVE Tells(form'[q], account', q, calls')
  <2>1. ~apart[q] /\ Tells(form[q], account, q, calls)
    BY <1>1, <1>2, <1>9 DEF MailTells, MailTyped
  <2>2. CASE q # s
    <3>1. \A d \in Calls : d.page = q => (d \in calls' <=> d \in calls)
      BY <1>2, <1>3, <2>2
    <3>2. calls' \subseteq Calls /\ calls \subseteq Calls /\ form'[q] = form[q] /\ account' = account
      BY <1>5, <1>6, <1>7, <2>2 DEF MailTyped
    <3> QED BY <2>1, <3>1, <3>2 DEF Tells
  <2>3. CASE q = s
    <3>1. form[s].busy = {} \/ ("test" \notin form[s].busy /\ does # "test")
      BY <1>1, <1>2, <1>9, <2>3 DEF MailTyped
    <3>2. \A d \in calls : d.page = s => d.does # "test" /\ does # "test"
      BY <1>6, <3>1
    <3>3. form'[s] = f /\ account' = account /\ calls \subseteq calls'
      BY <1>2, <1>5
    <3>4. f.stale \/ f.initial = Safe(account) \/ \E d \in calls' : d.page = s /\ d.does # "test" /\ d.at = "ok"
      BY <1>4, <2>1, <2>3, <3>3 DEF Tells
    <3>5. f.result.ok => \/ f.result.of = account /\ account.enabled
                         \/ \E d \in calls' : d.page = s /\ d.does = "delete" /\ d.at = "ok"
      BY <1>4, <2>1, <2>3, <3>3 DEF Tells
    <3>6. ASSUME NEW d \in calls', d.page = s
          PROVE  /\ d.does = "put" => ~f.result.ok
                 /\ d.does = "test" => (\A e \in calls' : e.page = s => e = d) /\ d.at = "sent"
      <4>1. CASE d \in calls
        BY <1>4, <2>1, <2>3, <3>2, <3>6, <4>1 DEF Tells
      <4>2. CASE d = c
        BY <1>2, <1>3, <1>4, <3>2, <4>2
      <4> QED BY <1>2, <4>1, <4>2
    <3> QED BY <2>3, <3>3, <3>4, <3>5, <3>6 DEF Tells
  <2> QED BY <2>2, <2>3
<1> QED BY <1>7, <1>8, <1>9 DEF MailInv, MailTells

(* The server answers, or goes on with a test; a write disturbs the other  *)
(* pages.                                                                  *)
LEMMA AnswerStep ==
  ASSUME MailInv, NEW c \in calls, NEW status \in {"sending", "ok", "refused"}, NEW with \in Accounts,
         calls' = (calls \ {c}) \cup {AnsweredCall(c, status, with)}, UNCHANGED <<env, form, tests>>,
         account' \in Accounts, upserts' \in 0..MaxUpserts, c.at \in {"sent", "sending"},
         \/ /\ UNCHANGED <<account, apart>>
            /\ c.does = "test" /\ status # "refused" =>
                 (with = account /\ account.enabled) \/ (with = c.with /\ c.at = "sending")
         \/ /\ c.does # "test" /\ status = "ok"
            /\ apart' = [q \in Admins |-> apart[q] \/ q # c.page]
  PROVE  MailInv'
<1> DEFINE d == AnsweredCall(c, status, with)
<1>1. MailTyped /\ OneOfAKind /\ MailTells /\ c \in Calls
  BY DEF MailInv, MailTyped
<1>2. d \in Calls /\ d.page = c.page /\ d.does = c.does /\ d.body = c.body /\ d.at = status /\ d.with = with
  BY <1>1, CallFields DEF AnsweredCall, Calls
<1>3. calls' = (calls \ {c}) \cup {d} /\ c.page \in Admins /\ c.does \in Asks
  BY <1>1, CallFields
<1> HIDE DEF d
<1>4. MailTyped'
  <2>1. apart' \in [Admins -> BOOLEAN]
    BY <1>1 DEF MailTyped
  <2> QED BY <1>1, <1>2, <1>3, <2>1 DEF MailTyped
<1>5. OneOfAKind'
  BY <1>1, <1>2, <1>3 DEF OneOfAKind
<1>6. ASSUME NEW q \in Admins, ~apart'[q] PROVE Tells(form'[q], account', q, calls')
  <2>1. ~apart[q] /\ Tells(form[q], account, q, calls) /\ form' = form
    BY <1>1, <1>6 DEF MailTells, MailTyped
  <2>2. CASE q # c.page
    <3>1. \A e \in Calls : e.page = q => (e \in calls' <=> e \in calls)
      BY <1>2, <1>3, <2>2
    <3>2. calls' \subseteq Calls /\ calls \subseteq Calls
      BY <1>1, <1>4 DEF MailTyped
    <3>3. account' = account
      BY <1>6, <2>2
    <3> QED BY <2>1, <3>1, <3>2, <3>3 DEF Tells
  <2>3. CASE q = c.page
    <3>1. \A e \in calls : e # c => e \in calls'
      BY <1>3
    <3>2. form[q].stale \/ form[q].initial = Safe(account') \/ \E e \in calls' : e.page = q /\ e.does # "test" /\ e.at = "ok"
      <4>1. CASE account' = account
        BY <2>1, <2>3, <3>1, <4>1 DEF Tells
      <4>2. CASE account' # account
        BY <1>2, <1>3, <2>3, <4>2
      <4> QED BY <4>1, <4>2
    <3>3. \A e \in calls : e.page = q /\ e.does = "put" => ~form[q].result.ok
      BY <2>1 DEF Tells
    <3>4. form[q].result.ok => \/ form[q].result.of = account' /\ account'.enabled
                               \/ \E e \in calls' : e.page = q /\ e.does = "delete" /\ e.at = "ok"
      <4>1. CASE account' = account
        BY <2>1, <2>3, <3>1, <4>1 DEF Tells
      <4>2. CASE account' # account
        BY <1>2, <1>3, <2>3, <3>3, <4>2 DEF Asks
      <4> QED BY <4>1, <4>2
    <3>5. ASSUME NEW e \in calls', e.page = q
          PROVE  /\ e.does = "put" => ~form[q].result.ok
                 /\ e.does = "test" => /\ \A x \in calls' : x.page = q => x = e
                                       /\ e.at \in {"sending", "ok"} => e.with = account' /\ account'.enabled
      <4>1. CASE e = d
        <5>1. e.does = "put" => ~form[q].result.ok
          BY <1>2, <2>3, <3>3, <4>1
        <5>2. ASSUME e.does = "test"
              PROVE  /\ \A x \in calls' : x.page = q => x = e
                     /\ e.at \in {"sending", "ok"} => e.with = account' /\ account'.enabled
          <6>1. /\ \A x \in calls : x.page = q => x = c
                /\ c.at = "sending" => c.with = account /\ account.enabled
            BY <1>2, <2>1, <2>3, <4>1, <5>2 DEF Tells
          <6>2. account' = account /\ (status # "refused" => with = account /\ account.enabled)
            BY <1>2, <4>1, <5>2, <6>1
          <6> QED BY <1>2, <1>3, <4>1, <6>1, <6>2
        <5> QED BY <5>1, <5>2
      <4>2. CASE e # d
        <5>1. e \in calls /\ e # c
          BY <1>3, <4>2
        <5>2. e.does # "test"
          BY <2>1, <2>3, <3>5, <5>1 DEF Tells
        <5> QED BY <3>3, <3>5, <5>1, <5>2
      <4> QED BY <4>1, <4>2
    <3> QED BY <2>1, <2>3, <3>2, <3>4, <3>5 DEF Tells
  <2> QED BY <2>2, <2>3
<1> QED BY <1>4, <1>5, <1>6 DEF MailInv, MailTells

LEMMA MailReceived ==
  ASSUME MailInv, NEW c \in calls, ReceiveMail(c)
  PROVE  MailInv'
<1> DEFINE g == Settled(form[c.page], c)
<1>1. MailTyped /\ OneOfAKind /\ MailTells /\ c \in Calls
  BY DEF MailInv, MailTyped
<1>2. c.page \in Admins /\ c.does \in Asks /\ c.with \in Accounts /\ form[c.page] \in Forms
  BY <1>1, CallFields DEF MailTyped
<1>3. /\ c.at \in {"ok", "refused"} /\ calls' = calls \ {c} /\ form' = [form EXCEPT ![c.page] = g]
      /\ UNCHANGED <<account, env, upserts, tests, apart>>
  BY DEF ReceiveMail
<1>4. /\ g \in Forms /\ g.initial = form[c.page].initial /\ g.busy = form[c.page].busy \ {c.does}
      /\ g.stale <=> (form[c.page].stale \/ (c.does # "test" /\ c.at = "ok"))
      /\ g.result = IF c.does = "test" THEN [ok |-> c.at = "ok", of |-> c.with]
                    ELSE IF c.does = "delete" /\ c.at = "ok" THEN NoResult ELSE form[c.page].result
  BY <1>1, <1>2, SettledForm
<1> HIDE DEF g
<1>5. \A q \in Admins : form'[q] = IF q = c.page THEN g ELSE form[q]
  BY <1>1, <1>3 DEF MailTyped
<1>6. MailTyped'
  BY <1>1, <1>2, <1>3, <1>4 DEF MailTyped
<1>7. OneOfAKind'
  <2>1. \A d \in calls : d.page \in Admins
    BY <1>1, CallFields DEF MailTyped
  <2> QED BY <1>1, <1>3, <1>4, <1>5, <2>1 DEF OneOfAKind
<1>8. ASSUME NEW q \in Admins, ~apart'[q] PROVE Tells(form'[q], account', q, calls')
  <2>1. Tells(form[q], account, q, calls) /\ account' = account
    BY <1>1, <1>3, <1>8 DEF MailTells
  <2>2. CASE q # c.page
    BY <1>3, <1>5, <2>1, <2>2 DEF Tells
  <2>3. CASE q = c.page
    <3>1. ~NoResult.ok
      BY DEF NoResult
    <3>2. g.stale \/ g.initial = Safe(account) \/ \E e \in calls' : e.page = q /\ e.does # "test" /\ e.at = "ok"
      BY <1>3, <1>4, <2>1, <2>3 DEF Tells
    <3>3. CASE c.does = "test"
      <4>1. (\A e \in calls' : e.page # q) /\ (c.at = "ok" => c.with = account /\ account.enabled)
        BY <1>3, <2>1, <2>3, <3>3 DEF Tells
      <4>2. g.result.ok => g.result.of = account /\ account.enabled
        <5>1. g.result = [ok |-> c.at = "ok", of |-> c.with]
          BY <1>4, <3>3
        <5>2. (g.result.ok <=> c.at = "ok") /\ g.result.of = c.with
          BY <5>1, FoundByTest
        <5> QED BY <4>1, <5>2
      <4> QED BY <1>5, <2>1, <2>3, <3>2, <4>1, <4>2 DEF Tells
    <3>4. CASE c.does # "test"
      <4>1. g.result.ok => g.result = form[q].result /\ ~(c.does = "delete" /\ c.at = "ok")
        BY <1>4, <2>3, <3>1, <3>4
      <4>2. g.result.ok => \/ g.result.of = account /\ account.enabled
                           \/ \E e \in calls' : e.page = q /\ e.does = "delete" /\ e.at = "ok"
        BY <1>3, <2>1, <2>3, <4>1 DEF Tells
      <4>3. \A e \in calls' : e.page = q =>
               /\ e.does = "put" => ~g.result.ok
               /\ e.does = "test" => /\ \A x \in calls' : x.page = q => x = e
                                     /\ e.at \in {"sending", "ok"} => e.with = account /\ account.enabled
        BY <1>3, <2>1, <2>3, <4>1 DEF Tells
      <4> QED BY <1>5, <2>1, <2>3, <3>2, <4>2, <4>3 DEF Tells
    <3> QED BY <3>3, <3>4
  <2> QED BY <2>2, <2>3
<1> QED BY <1>6, <1>7, <1>8 DEF MailInv, MailTells

LEMMA MailLost ==
  ASSUME MailInv, NEW c \in calls, LoseMail(c)
  PROVE  MailInv'
<1>1. MailTyped /\ OneOfAKind /\ MailTells /\ c \in Calls /\ c.page \in Admins /\ form[c.page] \in Forms
  BY CallFields DEF MailInv, MailTyped
<1>2. /\ calls' = calls \ {c} /\ form' = [form EXCEPT ![c.page].busy = form[c.page].busy \ {c.does}]
      /\ apart' = [apart EXCEPT ![c.page] = TRUE] /\ UNCHANGED <<account, env, upserts, tests>>
  BY DEF LoseMail
<1>3. /\ \A q \in Admins \ {c.page} : form'[q] = form[q] /\ apart'[q] = apart[q]
      /\ form'[c.page].busy = form[c.page].busy \ {c.does} /\ apart'[c.page]
  BY <1>1, <1>2 DEF MailTyped, Forms
<1>4. MailTyped'
  <2>1. form' \in [Admins -> Forms]
    BY <1>1, <1>2 DEF MailTyped, Forms
  <2>2. apart' \in [Admins -> BOOLEAN]
    BY <1>1, <1>2 DEF MailTyped
  <2> QED BY <1>1, <1>2, <2>1, <2>2 DEF MailTyped
<1>5. OneOfAKind'
  <2>1. \A d \in calls : d.page \in Admins
    BY <1>1, CallFields DEF MailTyped
  <2> QED BY <1>1, <1>2, <1>3, <2>1 DEF OneOfAKind
<1>6. ASSUME NEW q \in Admins, ~apart'[q] PROVE Tells(form'[q], account', q, calls')
  <2>1. q # c.page /\ form'[q] = form[q] /\ Tells(form[q], account, q, calls)
    BY <1>1, <1>3, <1>6 DEF MailTells
  <2> QED BY <1>2, <2>1 DEF Tells
<1> QED BY <1>4, <1>5, <1>6 DEF MailInv, MailTells

LEMMA UpsertedAccount ==
  ASSUME NEW a \in Accounts, NEW body \in Bodies
  PROVE  Upserted(a, body) \in Accounts
<1>1. body.host \in Hosts \cup {""} /\ body.enabled \in BOOLEAN /\ body.secret \in Secrets \cup {"keep", "remove"}
  BY DEF Bodies
<1> QED BY <1>1, AccountFields DEF Upserted, Accounts

LEMMA ServeStep ==
  ASSUME MailInv, NEW c \in calls, ServeMail(c)
  PROVE  MailInv'
<1>1. /\ MailTyped /\ OneOfAKind /\ c.at = "sent" /\ c \in Calls /\ account \in Accounts /\ NoAccount \in Accounts
      /\ upserts \in 0..MaxUpserts /\ MaxUpserts \in Nat
  BY AccountFields, MailAccountConstants DEF MailInv, MailTyped, ServeMail
<1>2. CASE Put(c)
  <2>1. c.body \in Bodies
    BY <1>1, <1>2 DEF Put, OneOfAKind
  <2>2. account' = Upserted(account, c.body) /\ account' \in Accounts
    BY <1>1, <1>2, <2>1, UpsertedAccount DEF Put
  <2>3. upserts' \in 0..MaxUpserts
    BY <1>1, <1>2 DEF Put, Writes
  <2>4. c.does = "put" /\ Respond(c, "ok", NoAccount) /\ apart' = [q \in Admins |-> apart[q] \/ q # c.page]
        /\ UNCHANGED <<env, form, tests>>
    BY <1>2 DEF Put, Writes
  <2> QED BY <1>1, <2>2, <2>3, <2>4, AnswerStep DEF Respond, AnsweredCall
<1>3. CASE Delete(c)
  <2>1. CASE account = NoAccount
    <3>1. c.does = "delete" /\ Respond(c, "refused", NoAccount) /\ UNCHANGED <<account, upserts, apart, env, form, tests>>
      BY <1>3, <2>1 DEF Delete
    <3> QED BY <1>1, <3>1, AnswerStep DEF Respond, AnsweredCall
  <2>2. CASE account # NoAccount
    <3>1. /\ c.does = "delete" /\ Respond(c, "ok", NoAccount) /\ apart' = [q \in Admins |-> apart[q] \/ q # c.page]
          /\ UNCHANGED <<env, form, tests>> /\ account' = NoAccount
      BY <1>3, <2>2 DEF Delete, Writes
    <3>2. upserts' \in 0..MaxUpserts
      BY <1>1, <1>3, <2>2 DEF Delete, Writes
    <3> QED BY <1>1, <3>1, <3>2, AnswerStep DEF Respond, AnsweredCall
  <2> QED BY <2>1, <2>2
<1>4. CASE ReadForTest(c)
  <2>1. c.does = "test" /\ UNCHANGED <<account, env, form, upserts, tests, apart>>
    BY <1>4 DEF ReadForTest
  <2>2. CASE account.enabled
    <3>1. account # NoAccount
      BY <2>2, NothingEnabled
    <3>2. Respond(c, "sending", account)
      BY <1>4, <2>2, <3>1 DEF ReadForTest
    <3> QED BY <1>1, <2>1, <2>2, <3>2, AnswerStep DEF Respond, AnsweredCall
  <2>3. CASE ~account.enabled
    <3>1. Respond(c, "refused", NoAccount)
      BY <1>4, <2>3 DEF ReadForTest
    <3> QED BY <1>1, <2>1, <3>1, AnswerStep DEF Respond, AnsweredCall
  <2> QED BY <2>2, <2>3
<1>5. CASE RefuseCall(c)
  <2>1. Respond(c, "refused", NoAccount) /\ UNCHANGED <<account, env, form, upserts, tests, apart>>
    BY <1>5 DEF RefuseCall
  <2> QED BY <1>1, <2>1, AnswerStep DEF Respond, AnsweredCall
<1> QED BY <1>2, <1>3, <1>4, <1>5 DEF ServeMail

LEMMA SendStepOfTest ==
  ASSUME MailInv, NEW c \in calls, SendTest(c)
  PROVE  MailInv'
<1>1. /\ MailTyped /\ c.at = "sending" /\ c \in Calls /\ account \in Accounts /\ c.with \in Accounts
      /\ upserts \in 0..MaxUpserts
  BY CallFields DEF MailInv, MailTyped, SendTest
<1>2. PICK status \in {"ok", "refused"} : Respond(c, status, c.with)
  BY DEF SendTest
<1>3. UNCHANGED <<account, env, form, upserts, tests, apart>>
  BY DEF SendTest
<1> QED BY <1>1, <1>2, <1>3, AnswerStep DEF Respond, AnsweredCall

LEMMA MailStep == MailInv /\ [MailNext]_eVars => MailInv'
<1> SUFFICES ASSUME MailInv, [MailNext]_eVars PROVE MailInv'
  OBVIOUS
<1>0. MailTyped /\ \A s \in Admins : form[s] \in Forms
  BY DEF MailInv, MailTyped
<1>1. ASSUME NEW s \in Admins, OpenSettings(s) PROVE MailInv'
  <2>1. /\ form' = [form EXCEPT ![s] = Loaded(account)] /\ ByPage(s) = {} /\ apart' = [apart EXCEPT ![s] = FALSE]
        /\ UNCHANGED <<account, env, calls, upserts, tests>>
    BY <1>1 DEF OpenSettings
  <2>2. apart' \in [Admins -> BOOLEAN] /\ \A q \in Admins \ {s} : apart'[q] = apart[q]
    BY <1>0, <2>1 DEF MailTyped
  <2>3. Loaded(account) \in Forms /\ ~Loaded(account).result.ok /\ Loaded(account).initial = Safe(account)
    BY <1>0, LoadedForm DEF MailTyped
  <2> QED BY <2>1, <2>2, <2>3, FormStep
<1>2. ASSUME NEW s \in Admins, NEW host \in Hosts \cup {""}, NEW secret \in Secrets \cup {""},
             NEW remove \in BOOLEAN, NEW enabled \in BOOLEAN, EditForm(s, host, secret, remove, enabled)
      PROVE  MailInv'
  <2> DEFINE f == Edited(form[s], host, secret, remove, enabled)
  <2>1. form' = [form EXCEPT ![s] = f] /\ UNCHANGED <<account, env, calls, upserts, tests, apart>>
    BY <1>2 DEF EditForm
  <2>2. f \in Forms /\ f.initial = form[s].initial /\ f.busy = form[s].busy /\ f.stale = form[s].stale
        /\ f.result = form[s].result
    BY <1>0, FormFields DEF Edited, Forms
  <2>3. apart' \in [Admins -> BOOLEAN] /\ apart' = apart
    BY <1>0, <2>1 DEF MailTyped
  <2> HIDE DEF f
  <2> QED BY <2>1, <2>2, <2>3, FormStep
<1>3. ASSUME NEW s \in Admins, RefreshSettings(s) PROVE MailInv'
  <2> DEFINE g == [form[s] EXCEPT !.initial = Safe(account)]
             f == [g EXCEPT !.stale = FALSE]
  <2>1. UNCHANGED <<account, env, calls, upserts, tests, apart>> /\ apart' \in [Admins -> BOOLEAN]
    BY <1>0, <1>3 DEF RefreshSettings, MailTyped
  <2>2. g \in Forms /\ g.initial = Safe(account) /\ g.busy = form[s].busy /\ g.result = form[s].result
    BY <1>0, AccountFields, FormFields DEF Forms, MailTyped
  <2>3. form' = [form EXCEPT ![s] = f]
    BY <1>0, <1>3 DEF RefreshSettings, MailTyped, Forms
  <2> HIDE DEF g
  <2>4. f \in Forms /\ f.initial = Safe(account) /\ f.busy = form[s].busy /\ f.result = form[s].result
    BY <2>2, FormFields DEF Forms
  <2> HIDE DEF f
  <2> QED BY <2>1, <2>3, <2>4, FormStep
<1>4. ASSUME NEW s \in Admins, OnSubmit(s) PROVE MailInv'
  <2> DEFINE body == [host |-> form[s].host, enabled |-> form[s].enabled,
                      secret |-> IF form[s].remove THEN "remove" ELSE IF form[s].secret # "" THEN form[s].secret ELSE "keep"]
  <2>1. AskServer(s, "put", body, TRUE) /\ UNCHANGED <<account, env, upserts, tests>>
    BY <1>4 DEF OnSubmit
  <2>2. body \in Bodies
    BY <1>0, FormFields DEF Bodies
  <2>3. tests' \in 0..MaxTests /\ "put" \in Asks
    BY <1>0, <2>1 DEF MailTyped, Asks
  <2> HIDE DEF body
  <2> QED BY <2>1, <2>2, <2>3, AskStep
<1>5. ASSUME NEW s \in Admins, OnTest(s) PROVE MailInv'
  <2>1. AskServer(s, "test", "none", TRUE) /\ UNCHANGED <<account, env, upserts>> /\ tests' = tests + 1 /\ tests < MaxTests
    BY <1>5 DEF OnTest
  <2>2. tests' \in 0..MaxTests /\ "test" \in Asks
    BY <1>0, <2>1, MailAccountConstants DEF MailTyped, Asks
  <2> QED BY <2>1, <2>2, AskStep
<1>6. ASSUME NEW s \in Admins, OnRemove(s) PROVE MailInv'
  <2>1. AskServer(s, "delete", "none", FALSE) /\ UNCHANGED <<account, env, upserts, tests>>
    BY <1>6 DEF OnRemove
  <2>2. tests' \in 0..MaxTests /\ "delete" \in Asks
    BY <1>0, <2>1 DEF MailTyped, Asks
  <2> QED BY <2>1, <2>2, AskStep
<1>7. ASSUME UNCHANGED eVars PROVE MailInv'
  BY <1>7 DEF eVars, MailInv, MailTyped, OneOfAKind, MailTells
<1> QED BY <1>1, <1>2, <1>3, <1>4, <1>5, <1>6, <1>7, ServeStep, SendStepOfTest, MailReceived, MailLost DEF MailNext

LEMMA MailHolds == MailSpec => []MailInv
<1> QED BY MailStarts, MailStep, PTL DEF MailSpec

(* Types of the mail account; a request is one the page waits for.         *)
THEOREM MailTypeCorrect == MailSpec => []MailTypeOK
<1>1. ASSUME MailInv PROVE MailTypeOK
  BY <1>1, AccountFields, CallFields DEF MailInv, MailTyped, OneOfAKind, MailTypeOK
<1> QED BY <1>1, MailHolds, PTL

(* A settings page that nothing disturbed names the channel the worker     *)
(* takes and vouches for the account that is stored; the operator's        *)
(* account counts only when its settings are whole.                        *)
THEOREM MailCorrect == MailSpec => []MailIsTruthful
<1>1. ASSUME MailInv PROVE MailIsTruthful
  <2>1. MailTyped /\ MailTells
    BY <1>1 DEF MailInv
  <2>2. ASSUME NEW s \in Admins, ~apart[s], ByPage(s) = {}, ~form[s].stale
        PROVE  /\ DeliverySummary(s) = Channel
               /\ form[s].result.ok => form[s].result.of = account /\ account.enabled
    <3>1. Tells(form[s], account, s, calls) /\ \A c \in calls : c.page # s
      BY <2>1, <2>2 DEF MailTells, ByPage
    <3>2. form[s].initial = Safe(account)
      BY <2>2, <3>1 DEF Tells
    <3>3. account.enabled => account # NoAccount
      BY NothingEnabled
    <3>4. DeliverySummary(s) = Channel
      <4>1. (form[s].initial.enabled <=> account.enabled) /\ form[s].initial.host = account.host
        BY <2>1, <3>2, SafeFields DEF MailTyped
      <4>2. CASE account.enabled
        BY <3>3, <4>1, <4>2 DEF DeliverySummary, Channel
      <4>3. CASE ~account.enabled
        BY <4>1, <4>3 DEF DeliverySummary, Channel
      <4> QED BY <4>2, <4>3
    <3> QED BY <3>1, <3>4 DEF Tells
  <2>3. ASSUME ServerDefault(env) = "server"
        PROVE  /\ env.host /\ env.from = "address" /\ (env.user => env.pass) /\ Port(env) \in {"465", "587"}
               /\ Security(env) = "none" => env.secure = "none"
               /\ env.port = "465" /\ env.secure = "unset" => Security(env) = "ssl"
    <3>1. Parsed(env) /\ env \in Settings
      BY <2>1, <2>3 DEF ServerDefault, MailTyped
    <3>2. Port(env) \in {"465", "587"}
      BY <3>1 DEF Parsed, Port, Settings
    <3> QED BY <3>1, <3>2 DEF Parsed, Security, ParseSecurity, Port, Settings
  <2> QED BY <2>2, <2>3 DEF MailIsTruthful
<1> QED BY <1>1, MailHolds, PTL
=============================================================================
