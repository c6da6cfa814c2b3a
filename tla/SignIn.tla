------------------------------- MODULE SignIn -------------------------------
(***************************************************************************)
(* Signing in to one account from several browsers: the throttle on failed *)
(* attempts, the server-side sessions and the requests that use them, and  *)
(* the redirects between the pages.  The counters are in Redis, which may  *)
(* be away.                                                                *)
(***************************************************************************)
EXTENDS Integers, FiniteSets

CONSTANTS
  Browsers,      \* browsers, each at an address of its own
  Checks,        \* sign-in requests that may be under way at once, of any address
  Sessions,      \* UserSession rows that may be created
  NoSession,     \* no cookie
  Attempts,      \* loginAttempts; an email may fail WiderBy times as often
  WiderBy,
  LoginWindow,   \* loginWindowMinutes, in units of time
  Absolute,      \* SESSION_ABSOLUTE_MS
  Idle,          \* SESSION_IDLE_MS
  TouchEvery,    \* TOUCH_EVERY_MS
  MaxHours       \* bound: the clock

ASSUME SignInConstants ==
  /\ NoSession \notin Sessions /\ {"email", "nobody"} \cap Browsers = {} /\ IsFiniteSet(Checks) /\ Checks # {}
  /\ Attempts \in Nat \ {0} /\ WiderBy \in Nat \ {0} /\ LoginWindow \in Nat \ {0}
  /\ Absolute \in Nat /\ Idle \in Nat /\ TouchEvery \in Nat /\ MaxHours \in Nat

VARIABLES
  session,  \* UserSession rows
  cookie,   \* the session each browser's cookie names
  browser,  \* the page load each browser is making
  trying,   \* the sign-in requests under way: whose they are, and whether they were let in uncounted
  counter,  \* Redis counters by address, and of the email
  redis,    \* whether Redis answers
  hour,     \* the clock
  used,     \* history: when each session was last accepted
  wrong,    \* history: wrong passwords let in by each counter since it started
  ended     \* history: sessions that were signed out

sVars == <<session, cookie, browser, trying, counter, redis, hour, used, wrong, ended>>

Email == "email"
Counters == Browsers \cup {Email}
NoRow == [state |-> "none", expires |-> 0, seen |-> -1]
Away == [at |-> "away", go |-> 0]
Free == [by |-> "nobody", unread |-> FALSE]

Allowance(k) == IF k = Email THEN WiderBy * Attempts ELSE Attempts
Running(k) == counter[k].until > hour
Count(k) == IF Running(k) THEN counter[k].count ELSE 0

-----------------------------------------------------------------------------
(* peek, which lets everybody through while Redis is away.                 *)
Within(k) == ~redis \/ Count(k) < Allowance(k)

(* The login route first looks at both counters; as it counts only what    *)
(* has failed, others may be let in meanwhile ...                          *)
TryLogin(b, c) ==
  /\ trying[c] = Free
  /\ Within(b) /\ Within(Email)
  /\ trying' = [trying EXCEPT ![c] = [by |-> b, unread |-> ~redis]]
  /\ UNCHANGED <<session, cookie, browser, counter, redis, hour, used, wrong, ended>>

(* ... counts a failure, in a window that starts with the first one ...    *)
Hit(k) ==
  IF Running(k) THEN [counter[k] EXCEPT !.count = @ + 1] ELSE [count |-> 1, until |-> hour + LoginWindow]

WrongPassword(c) ==
  LET keys == {trying[c].by, Email} IN
    /\ trying[c] # Free /\ trying' = [trying EXCEPT ![c] = Free]
    /\ counter' = IF redis THEN [k \in Counters |-> IF k \in keys THEN Hit(k) ELSE counter[k]] ELSE counter
    /\ wrong' = [k \in Counters |->
         IF redis /\ k \in keys THEN (IF Running(k) THEN wrong[k] ELSE 0) + (IF trying[c].unread THEN 0 ELSE 1) ELSE wrong[k]]
    /\ UNCHANGED <<session, cookie, browser, redis, hour, used, ended>>

(* createUserSession first deletes what expired; a revoked row, deleted a  *)
(* day later, is not told apart from one that is kept.                     *)
Kept == [s \in Sessions |-> IF session[s].expires < hour THEN [session[s] EXCEPT !.state = "none"] ELSE session[s]]

(* ... and a success clears the address's counter and opens a session,     *)
(* whatever page the browser is loading.                                   *)
RightPassword(c, s) ==
  LET b == trying[c].by IN
    /\ trying[c] # Free /\ trying' = [trying EXCEPT ![c] = Free]
    /\ session[s] = NoRow
    /\ session' = [Kept EXCEPT ![s] = [state |-> "active", expires |-> hour + Absolute, seen |-> hour]]
    /\ cookie' = [cookie EXCEPT ![b] = s] /\ browser' = [browser EXCEPT ![b].go = 0]
    /\ counter' = IF redis THEN [counter EXCEPT ![b] = [count |-> 0, until |-> 0]] ELSE counter
    /\ wrong' = IF redis THEN [wrong EXCEPT ![b] = 0] ELSE wrong
    /\ used' = [used EXCEPT ![s] = hour]
    /\ UNCHANGED <<redis, hour, ended>>

-----------------------------------------------------------------------------
(* Mutant: the token decides, with its lifetime and its idle time.         *)
AcceptsRevoked(s) ==
  s # NoSession /\ session[s].expires > hour /\ hour - session[s].seen <= Idle

(* getUserSessionAccess, as the row is now.                                *)
Accepts(s) ==
  /\ s # NoSession /\ session[s].state = "active"
  /\ session[s].expires > hour /\ hour - session[s].seen <= Idle

(* A session that is used is written at most once per interval.            *)
Touched(s) ==
  IF hour - session[s].seen > TouchEvery THEN [session EXCEPT ![s].seen = hour] ELSE session

(* One API request: the row decides, and is touched.                       *)
Request(b) ==
  LET s == cookie[b] IN
    /\ browser[b].at = "away" /\ Accepts(s)
    /\ session' = Touched(s) /\ used' = [used EXCEPT ![s] = hour]
    /\ UNCHANGED <<cookie, browser, trying, counter, redis, hour, wrong, ended>>

(* A request that is refused; the page it is for says why.                 *)
Refused(b) ==
  /\ browser[b].at = "away" /\ cookie[b] # NoSession /\ ~Accepts(cookie[b])
  /\ browser' = [browser EXCEPT ![b] = [at |-> "app", go |-> 0]]
  /\ UNCHANGED <<session, cookie, trying, counter, redis, hour, used, wrong, ended>>

(* The redirects of a page load: the proxy looks at the token, whose own   *)
(* lifetime is the session's, and the layout at the row.                   *)
Signed(b) == cookie[b] # NoSession /\ session[cookie[b]].expires > hour

Layout(b) == IF Accepts(cookie[b]) THEN "away" ELSE "expired"

Load(b) ==
  /\ browser[b].at \in {"app", "login", "expired"}
  /\ LET next == CASE browser[b].at = "app" -> IF Signed(b) THEN Layout(b) ELSE "login"
                   [] browser[b].at = "login" -> IF Signed(b) THEN "app" ELSE "away"
                   [] OTHER -> "login"
     IN browser' = [browser EXCEPT ![b].at = next, ![b].go = @ + 1]
  /\ cookie' = IF browser[b].at = "expired" THEN [cookie EXCEPT ![b] = NoSession] ELSE cookie
  /\ UNCHANGED <<session, trying, counter, redis, hour, used, wrong, ended>>

Others(s) == {t \in Sessions \ {s} : session[t].state = "active"}

SignOut(keys) ==
  /\ session' = [s \in Sessions |-> IF s \in keys THEN [session[s] EXCEPT !.state = "revoked"] ELSE session[s]]
  /\ ended' = ended \cup keys

(* Logging out revokes the row, unless that fails, and clears the cookie.  *)
Logout(b, fails) ==
  /\ browser[b].at = "away" /\ cookie[b] # NoSession
  /\ cookie' = [cookie EXCEPT ![b] = NoSession]
  /\ IF fails THEN UNCHANGED <<session, ended>>
     ELSE SignOut({cookie[b]} \cap {s \in Sessions : session[s].state = "active"})
  /\ UNCHANGED <<browser, trying, counter, redis, hour, used, wrong>>

(* "sign out everywhere else".                                             *)
LogoutElsewhere(b) ==
  /\ browser[b].at = "away" /\ Accepts(cookie[b])
  /\ session' = [s \in Sessions |-> IF s \in Others(cookie[b]) THEN [session[s] EXCEPT !.state = "revoked"]
                                    ELSE Touched(cookie[b])[s]]
  /\ ended' = ended \cup Others(cookie[b])
  /\ used' = [used EXCEPT ![cookie[b]] = hour]
  /\ UNCHANGED <<cookie, browser, trying, counter, redis, hour, wrong>>

RedisFails == redis' = ~redis /\ UNCHANGED <<session, cookie, browser, trying, counter, hour, used, wrong, ended>>

Hour == hour < MaxHours /\ hour' = hour + 1 /\ UNCHANGED <<session, cookie, browser, trying, counter, redis, used, wrong, ended>>

SignInInit ==
  /\ session = [s \in Sessions |-> NoRow] /\ cookie = [b \in Browsers |-> NoSession]
  /\ browser = [b \in Browsers |-> Away] /\ trying = [c \in Checks |-> Free] /\ counter = [k \in Counters |-> [count |-> 0, until |-> 0]]
  /\ redis = TRUE /\ hour = 0 /\ used = [s \in Sessions |-> -1] /\ wrong = [k \in Counters |-> 0] /\ ended = {}

SignInNext ==
  \/ \E b \in Browsers :
       \/ Request(b) \/ Refused(b) \/ Load(b) \/ LogoutElsewhere(b)
       \/ \E c \in Checks : TryLogin(b, c)
       \/ \E fails \in BOOLEAN : Logout(b, fails)
  \/ \E c \in Checks : WrongPassword(c) \/ \E s \in Sessions : RightPassword(c, s)
  \/ RedisFails \/ Hour

SignInSpec == SignInInit /\ [][SignInNext]_sVars
-----------------------------------------------------------------------------
(* "Failed-login throttling": since a counter started, wrong passwords     *)
(* were checked no more often than it allows and, for those that passed    *)
(* the same look at it, once more per request under way besides the first; *)
(* those let in while Redis was away are not counted.                      *)
GuessesAreBounded == \A k \in Counters : wrong[k] <= Allowance(k) + (Cardinality(Checks) - 1)

(* "a copy of the cookie stops working at once": no session that was       *)
(* signed out, here or from another browser, is accepted again.            *)
SignedOutStaysOut == \A s \in ended : ~Accepts(s)

(* The idle limit counts from the last use although only some uses are     *)
(* stored: a session is never accepted after that long without a use, and  *)
(* is not called idle much earlier.                                        *)
IdleMeansUnused ==
  \A s \in Sessions : session[s].state = "active" /\ session[s].expires > hour =>
    /\ Accepts(s) => hour - used[s] <= Idle
    /\ ~Accepts(s) => hour - used[s] >= Idle - TouchEvery

(* "so the two cannot bounce between each other": whatever became of its   *)
(* session meanwhile, a browser whose request was refused is shown a page  *)
(* after a few redirects, counted anew when it signs in on another tab.    *)
RedirectsEnd == \A b \in Browsers : browser[b].go <= 4

(* Types; a browser's cookie names a session that was opened.               *)
SignInTypeOK ==
  /\ \A s \in Sessions : session[s].state \in {"none", "active", "revoked"} /\ session[s].seen \in -1..hour
  /\ cookie \in [Browsers -> Sessions \cup {NoSession}]
  /\ \A b \in Browsers : browser[b].at \in {"away", "app", "login", "expired"}
  /\ \A c \in Checks : trying[c].by \in Browsers \cup {"nobody"}
  /\ \A k \in Counters : counter[k].count \in Nat /\ counter[k].until \in 0..(MaxHours + LoginWindow)
  /\ redis \in BOOLEAN /\ hour \in 0..MaxHours /\ wrong \in [Counters -> Nat] /\ ended \subseteq Sessions

(* Attempts are bounded, a session ends when it is ended or unused, and no *)
(* browser is sent round in circles.                                       *)
SignInHolds == GuessesAreBounded /\ SignedOutStaysOut /\ IdleMeansUnused /\ RedirectsEnd
=============================================================================
