---------------------------- MODULE MailAccount ----------------------------
(***************************************************************************)
(* Where emails leave from: the organization's own SMTP account, edited on *)
(* settings pages with a write-only password, or the account the operator  *)
(* configures in the environment; the worker and the page choose alike.    *)
(* A host stands for everything of the account but its password.           *)
(***************************************************************************)
EXTENDS Integers, FiniteSets

CONSTANTS
  Admins,      \* open settings pages
  Hosts,       \* accounts one may enter
  Secrets,     \* passwords one may type
  MaxUpserts,  \* bound: writes of the account
  MaxTests     \* bound: test emails

ASSUME MailAccountConstants == IsFiniteSet(Admins) /\ MaxUpserts \in Nat /\ MaxTests \in Nat

VARIABLES
  account,  \* the OrganizationSmtpConnection row, or NoAccount
  env,      \* the operator's CMA_EMAIL_* settings
  form,     \* SmtpSettingsForm of each page
  calls,    \* its requests on their way, and their answers on the way back
  upserts, tests,
  apart     \* history, per page: another page wrote, an answer was lost or a test overlapped a write

eVars == <<account, env, form, calls, upserts, tests, apart>>

NoAccount == [host |-> "", secret |-> "", enabled |-> FALSE]
Safe(a) == [host |-> a.host, hasPassword |-> a.secret # "", enabled |-> a.enabled]

-----------------------------------------------------------------------------
(* The operator's settings: a port and a security that are "unset" have    *)
(* defaults that depend on each other.                                     *)
Settings ==
  [console : BOOLEAN, host : BOOLEAN, port : {"unset", "465", "587", "70000"},
   secure : {"unset", "ssl", "starttls", "none", "odd"}, user : BOOLEAN, pass : BOOLEAN,
   from : {"unset", "address", "odd"}]

ParseSecurity(raw, port) ==
  CASE raw = "unset" -> IF port = "465" THEN "ssl" ELSE "starttls" [] raw = "odd" -> "invalid" [] OTHER -> raw

Port(e) == IF e.port # "unset" THEN e.port ELSE IF e.secure = "ssl" THEN "465" ELSE "587"
Security(e) == ParseSecurity(e.secure, Port(e))

(* parseSmtpConfig: a half-filled block is no configuration.               *)
Parsed(e) ==
  /\ e.host /\ Port(e) # "70000" /\ Security(e) # "invalid"
  /\ e.user <=> e.pass
  /\ e.from = "address"

(* createEmailProviderFromEnv.                                             *)
ServerDefault(e) == IF e.console THEN "console" ELSE IF Parsed(e) THEN "server" ELSE "none"

(* The reports' and alerts' channel: an enabled account of its own first.  *)
Channel == IF account # NoAccount /\ account.enabled THEN account.host ELSE ServerDefault(env)

-----------------------------------------------------------------------------
NoResult == [ok |-> FALSE, of |-> NoAccount]
Loaded(a) ==
  [initial |-> Safe(a), host |-> a.host, secret |-> "", remove |-> FALSE,
   enabled |-> (a = NoAccount \/ a.enabled), busy |-> {}, stale |-> FALSE, result |-> NoResult]

MailInit ==
  /\ account = NoAccount
  /\ env \in Settings
  /\ form = [s \in Admins |-> Loaded(NoAccount)]
  /\ calls = {}
  /\ upserts = 0 /\ tests = 0
  /\ apart = [s \in Admins |-> FALSE]

(* deliverySummary.                                                        *)
DeliverySummary(s) ==
  IF form[s].initial.enabled THEN form[s].initial.host ELSE ServerDefault(env)

InitialAccount(s) == form[s].initial.host # ""
ByPage(s) == {c \in calls : c.page = s}

(* The page is opened, or reloaded.                                        *)
OpenSettings(s) ==
  /\ ByPage(s) = {}
  /\ form' = [form EXCEPT ![s] = Loaded(account)]
  /\ apart' = [apart EXCEPT ![s] = FALSE]
  /\ UNCHANGED <<account, env, calls, upserts, tests>>

Edited(f, host, secret, remove, enabled) ==
  [initial |-> f.initial, host |-> host, secret |-> secret, remove |-> remove,
   enabled |-> enabled, busy |-> f.busy, stale |-> f.stale, result |-> f.result]

(* The fields are edited; a password marked for removal cannot be typed    *)
(* over, and only a stored one can be marked.                              *)
EditForm(s, host, secret, remove, enabled) ==
  /\ form[s].remove => secret = form[s].secret
  /\ remove # form[s].remove => form[s].initial.hasPassword
  /\ form' = [form EXCEPT ![s] = Edited(@, host, secret, remove, enabled)]
  /\ UNCHANGED <<account, env, calls, upserts, tests, apart>>

AskServer(s, does, body, cleared) ==
  /\ does \notin form[s].busy
  /\ calls' = calls \cup {[page |-> s, does |-> does, body |-> body, at |-> "sent", with |-> NoAccount]}
  /\ LET asking == [form[s] EXCEPT !.busy = @ \cup {does}]
     IN  form' = [form EXCEPT ![s] = IF cleared THEN [asking EXCEPT !.result = NoResult] ELSE asking]
  /\ apart' = [apart EXCEPT ![s] = @ \/ (form[s].busy # {} /\ "test" \in form[s].busy \cup {does})]

(* Save: undefined keeps the stored password, null removes it.             *)
OnSubmit(s) ==
  /\ form[s].host # ""
  /\ AskServer(s, "put", [host |-> form[s].host, enabled |-> form[s].enabled,
                    secret |-> IF form[s].remove THEN "remove" ELSE IF form[s].secret # "" THEN form[s].secret ELSE "keep"], TRUE)
  /\ UNCHANGED <<account, env, upserts, tests>>
OnTest(s) ==
  /\ InitialAccount(s) /\ tests < MaxTests /\ tests' = tests + 1 /\ AskServer(s, "test", "none", TRUE)
  /\ UNCHANGED <<account, env, upserts>>
OnRemove(s) ==
  /\ InitialAccount(s) /\ AskServer(s, "delete", "none", FALSE)
  /\ UNCHANGED <<account, env, upserts, tests>>

-----------------------------------------------------------------------------
Respond(c, status, with) == calls' = (calls \ {c}) \cup {[[c EXCEPT !.at = status] EXCEPT !.with = with]}
Writes(s) == upserts < MaxUpserts /\ upserts' = upserts + 1 /\ apart' = [q \in Admins |-> apart[q] \/ q # s]

(* upsertSmtpConnectionForOrg.                                             *)
Upserted(a, body) ==
  [host |-> body.host, enabled |-> body.enabled,
   secret |-> IF body.secret = "keep" THEN a.secret ELSE IF body.secret = "remove" THEN "" ELSE body.secret]

Put(c) ==
  /\ c.does = "put" /\ Writes(c.page)
  /\ account' = Upserted(account, c.body)
  /\ Respond(c, "ok", NoAccount)
  /\ UNCHANGED <<env, form, tests>>
Delete(c) ==
  /\ c.does = "delete"
  /\ IF account = NoAccount
       THEN Respond(c, "refused", NoAccount) /\ UNCHANGED <<account, upserts, apart>>
       ELSE Writes(c.page) /\ account' = NoAccount /\ Respond(c, "ok", NoAccount)
  /\ UNCHANGED <<env, form, tests>>

(* The test uses the stored account, read before the message is sent.      *)
ReadForTest(c) ==
  /\ c.does = "test"
  /\ IF account # NoAccount /\ account.enabled THEN Respond(c, "sending", account) ELSE Respond(c, "refused", NoAccount)
  /\ UNCHANGED <<account, env, form, upserts, tests, apart>>
SendTest(c) ==
  /\ c.at = "sending" /\ \E status \in {"ok", "refused"} : Respond(c, status, c.with)
  /\ UNCHANGED <<account, env, form, upserts, tests, apart>>

(* No permission, invalid values or too many tests.                        *)
RefuseCall(c) == Respond(c, "refused", NoAccount) /\ UNCHANGED <<account, env, form, upserts, tests, apart>>

ServeMail(c) == c.at = "sent" /\ (Put(c) \/ Delete(c) \/ ReadForTest(c) \/ RefuseCall(c))

(* What an answer makes of the form; after a write the page is read again. *)
Settled(f, c) ==
  LET done == [f EXCEPT !.busy = @ \ {c.does}] IN
    CASE c.does = "put" /\ c.at = "ok" -> [Edited(done, f.host, "", FALSE, f.enabled) EXCEPT !.stale = TRUE]
      [] c.does = "delete" /\ c.at = "ok" ->
           [[Edited(done, "", "", f.remove, f.enabled) EXCEPT !.result = NoResult] EXCEPT !.stale = TRUE]
      [] c.does = "test" -> [done EXCEPT !.result = [ok |-> c.at = "ok", of |-> c.with]]
      [] OTHER -> done

ReceiveMail(c) ==
  /\ c.at \in {"ok", "refused"}
  /\ calls' = calls \ {c}
  /\ form' = [form EXCEPT ![c.page] = Settled(@, c)]
  /\ UNCHANGED <<account, env, upserts, tests, apart>>

(* The connection broke, before or after the server did its part.          *)
LoseMail(c) ==
  /\ calls' = calls \ {c}
  /\ form' = [form EXCEPT ![c.page].busy = @ \ {c.does}]
  /\ apart' = [apart EXCEPT ![c.page] = TRUE]
  /\ UNCHANGED <<account, env, upserts, tests>>

(* router.refresh: what the page was given changes, the fields do not.     *)
RefreshSettings(s) ==
  /\ form[s].stale
  /\ form' = [form EXCEPT ![s].initial = Safe(account), ![s].stale = FALSE]
  /\ UNCHANGED <<account, env, calls, upserts, tests, apart>>

MailNext ==
  \/ \E s \in Admins : \/ OpenSettings(s) \/ OnSubmit(s) \/ OnTest(s) \/ OnRemove(s) \/ RefreshSettings(s)
                       \/ \E host \in Hosts \cup {""}, secret \in Secrets \cup {""}, remove, enabled \in BOOLEAN :
                            EditForm(s, host, secret, remove, enabled)
  \/ \E c \in calls : ServeMail(c) \/ SendTest(c) \/ ReceiveMail(c) \/ LoseMail(c)

MailSpec == MailInit /\ [][MailNext]_eVars

-----------------------------------------------------------------------------
MailTypeOK ==
  /\ account.host \in Hosts \cup {""} /\ account.secret \in Secrets \cup {""} /\ account.enabled \in BOOLEAN
  /\ env \in Settings /\ upserts \in 0..MaxUpserts /\ tests \in 0..MaxTests
  /\ \A c \in calls : c.page \in Admins /\ c.does \in form[c.page].busy

(* The page says where emails leave from and what was tested:              *)
(*   - a page whose requests have returned and that was read since, with   *)
(*     no other page writing and no answer lost, names the channel the     *)
(*     worker takes, however its own requests overlapped;                  *)
(*   - a test it shows as sent went through the account that is stored,    *)
(*     unless the test overlapped a write;                                 *)
(*   - the operator's account is used only when its settings are whole,    *)
(*     and without encryption only when they ask for none.                 *)
MailIsTruthful ==
  /\ \A s \in Admins :
       ~apart[s] /\ ByPage(s) = {} /\ ~form[s].stale =>
         /\ DeliverySummary(s) = Channel
         /\ form[s].result.ok => form[s].result.of = account /\ account.enabled
  /\ ServerDefault(env) = "server" =>
       /\ env.host /\ env.from = "address" /\ (env.user => env.pass) /\ Port(env) \in {"465", "587"}
       /\ Security(env) = "none" => env.secure = "none"
       /\ env.port = "465" /\ env.secure = "unset" => Security(env) = "ssl"
=============================================================================
