---------------------------- MODULE AdminSessions ----------------------------
(***************************************************************************)
(* Administrator sessions and alert acknowledgment.  The API keeps bearer  *)
(* sessions in the memory of its process (src/api/auth.py, main.py); every *)
(* browser runs the dashboard's script (dashboard/app.py, auth.py), which  *)
(* makes one API call after the other and drops its token when one of them *)
(* answers 401.  acknowledge_alert is a handler of several steps, so that  *)
(* calls of two browsers, or one the browser no longer waits for, overlap. *)
(***************************************************************************)
EXTENDS Naturals, FiniteSets, Functions

CONSTANTS
  Browser, User, Alert,
  Token,         \* the tokens ever issued: bounds the number of logins
  MaxTimeouts,   \* bound of the model: calls the browser gives up on
  MaxAcks,       \* bound of the model: clicks on Acknowledge
  None

ASSUME BoundAssumption == MaxTimeouts \in Nat /\ MaxAcks \in Nat
ASSUME NoneAssumption  == None \notin Token \cup User \cup Alert /\ "logout" \notin Alert

VARIABLES
  up,         \* the API process runs
  sessions,   \* app.state.auth_sessions: the user of each live token
  expired,    \* tokens whose expires_at has passed
  enabled,    \* users with is_active
  alert,      \* the acknowledgment of each alert
  handlers,   \* acknowledge_alert calls at work in the API
  token,      \* the token in each browser's session state
  run,        \* where each browser's script run is
  click,      \* the button that caused the run: "logout", an alert, or None
  shown,      \* what each browser shows between runs
  sidebar,    \* the page chosen in each browser, and its Auto Refresh toggle
  timeouts, acks,   \* counters of the model's bounds
  dropped     \* history: tokens answered 401, or logged out with an answer

apiVars == <<up, sessions, expired, enabled, alert, handlers>>
browserVars == <<token, run, click, shown, sidebar>>
adminVars == <<apiVars, browserVars, timeouts, acks, dropped>>

Active == [status |-> "ACTIVE", by |-> None, at |-> 0]

\* The pages that let a refused call through to app.py are one for the model.
Sidebar == [page : {"Models", "other"}, refresh : BOOLEAN]
Defaults == [page |-> "other", refresh |-> TRUE]

AdminInit ==
  /\ up = TRUE /\ sessions = <<>> /\ expired = {} /\ enabled = User
  /\ alert = [a \in Alert |-> Active] /\ handlers = {}
  /\ token = [b \in Browser |-> None] /\ run = [b \in Browser |-> "idle"]
  /\ click = [b \in Browser |-> None] /\ shown = [b \in Browser |-> "login"]
  /\ sidebar = [b \in Browser |-> Defaults]
  /\ timeouts = 0 /\ acks = 0 /\ dropped = {}

-----------------------------------------------------------------------------
(* The API: one call's check, and the life of a session.                   *)

\* Deviation: the expiry time is stored but not compared.
ValidForever(t) == t \in DOMAIN sessions /\ sessions[t] \in enabled

\* get_current_user: the digest is known, not expired, the user active.
Valid(t) == t \in DOMAIN sessions /\ t \notin expired /\ sessions[t] \in enabled

\* Deviation: only an expired session is removed, not an inactive user's.
ForgetExpired(t) ==
  sessions' = IF t \in expired THEN Restrict(sessions, DOMAIN sessions \ {t})
              ELSE sessions

\* auth_sessions.pop(digest, None)
Forget(t) == sessions' = Restrict(sessions, DOMAIN sessions \ {t})

Expire(t) ==
  /\ t \in DOMAIN sessions \ expired
  /\ expired' = expired \cup {t}
  /\ UNCHANGED <<up, sessions, enabled, alert, handlers, browserVars,
                 timeouts, acks, dropped>>

\* The column is_active is only ever changed in the database itself.
ToggleUser(u) ==
  /\ enabled' = IF u \in enabled THEN enabled \ {u} ELSE enabled \cup {u}
  /\ UNCHANGED <<up, sessions, expired, alert, handlers, browserVars,
                 timeouts, acks, dropped>>

\* A stop of the API: sessions are gone, open transactions rolled back.
Crash ==
  /\ up
  /\ up' = FALSE /\ sessions' = <<>> /\ handlers' = {}
  /\ UNCHANGED <<expired, enabled, alert, browserVars, timeouts, acks, dropped>>

Start ==
  /\ ~up /\ up' = TRUE
  /\ UNCHANGED <<sessions, expired, enabled, alert, handlers, browserVars,
                 timeouts, acks, dropped>>

-----------------------------------------------------------------------------
(* The browser's script.                                                   *)

Goto(b, stage) == run' = [run EXCEPT ![b] = stage]
Show(b, what) == shown' = [shown EXCEPT ![b] = what] /\ Goto(b, "idle")

\* The API is down, or answers too late.
Lost == \/ ~up /\ UNCHANGED timeouts
        \/ up /\ timeouts < MaxTimeouts /\ timeouts' = timeouts + 1

\* login: a new token for an active user; the script reruns with it, and with
\* a new sidebar.
Login(b, u, t) ==
  /\ run[b] = "idle" /\ shown[b] = "login" /\ up /\ u \in enabled
  /\ t \notin DOMAIN sessions \cup dropped \cup expired
  /\ \A c \in Browser : token[c] # t
  /\ sessions' = [s \in DOMAIN sessions \cup {t} |-> IF s = t THEN u ELSE sessions[s]]
  /\ token' = [token EXCEPT ![b] = t]
  /\ click' = [click EXCEPT ![b] = None]
  /\ sidebar' = [sidebar EXCEPT ![b] = Defaults]
  /\ Goto(b, "health")
  /\ UNCHANGED <<up, expired, enabled, alert, handlers, shown, timeouts, acks,
                 dropped>>

\* The user reruns the script; where the sidebar is drawn, with a choice of
\* page and auto refresh.
Rerun(b, choice) ==
  /\ run[b] = "idle" /\ shown[b] # "login"
  /\ choice # sidebar[b] => shown[b] = "page"
  /\ sidebar' = [sidebar EXCEPT ![b] = choice]
  /\ click' = [click EXCEPT ![b] = None]
  /\ Goto(b, "health")
  /\ UNCHANGED <<apiVars, token, shown, timeouts, acks, dropped>>

ClickLogout(b) ==
  /\ run[b] = "idle" /\ shown[b] = "page"
  /\ click' = [click EXCEPT ![b] = "logout"]
  /\ Goto(b, "health")
  /\ UNCHANGED <<apiVars, token, shown, sidebar, timeouts, acks, dropped>>

\* The button is in the page fragment, and only that is run again.
ClickAcknowledge(b, a) ==
  /\ run[b] = "idle" /\ shown[b] = "page" /\ sidebar[b].page # "Models"
  /\ acks < MaxAcks /\ acks' = acks + 1
  /\ click' = [click EXCEPT ![b] = a]
  /\ Goto(b, "page")
  /\ UNCHANGED <<apiVars, token, shown, sidebar, timeouts, dropped>>

\* Auto refresh: only the page fragment is run again.
Refresh(b) ==
  /\ run[b] = "idle" /\ shown[b] = "page" /\ sidebar[b].refresh
  /\ click' = [click EXCEPT ![b] = None]
  /\ Goto(b, "page")
  /\ UNCHANGED <<apiVars, token, shown, sidebar, timeouts, acks, dropped>>

HealthOk(b) ==
  /\ run[b] = "health" /\ up
  /\ Goto(b, "verify")
  /\ UNCHANGED <<apiVars, token, click, shown, sidebar, timeouts, acks, dropped>>

\* The script stops at once: "Your session has not been changed."
HealthFails(b) ==
  /\ run[b] = "health" /\ Lost
  /\ Show(b, "offline")
  /\ UNCHANGED <<apiVars, token, click, sidebar, acks, dropped>>

\* require_login, then model_info; a logout is asked for after both.  The
\* Models page goes on to its "rest" only with an active model.
Called == {"verify", "model", "page", "rest", "ack", "logout"}
Draws == {"page", "rest"}
After(b) ==
  CASE run[b] = "verify" -> {"model"}
    [] run[b] = "model" -> IF click[b] = "logout" THEN {"logout"} ELSE {"page"}
    [] run[b] = "page" -> IF sidebar[b].page = "Models" THEN {"rest", "idle"}
                          ELSE IF click[b] \in Alert /\ alert[click[b]].status = "ACTIVE"
                               THEN {"ack"} ELSE {"idle"}
    [] run[b] = "rest" -> {"idle"}

CallOk(b) ==
  /\ run[b] \in {"verify", "model"} \cup Draws /\ up /\ Valid(token[b])
  /\ \E stage \in After(b) : Goto(b, stage)
  /\ shown' = IF run[b] \in Draws THEN [shown EXCEPT ![b] = "page"] ELSE shown
  /\ UNCHANGED <<apiVars, token, click, sidebar, timeouts, acks, dropped>>

\* Deviation: the rerun is asked for with the token still in place.
KeepAuth(b) == UNCHANGED token

ClearAuth(b) == token' = [token EXCEPT ![b] = None]

\* get_current_user refuses the token of a call, and forgets its session.
Refused(b) ==
  /\ run[b] \in Called /\ up /\ ~Valid(token[b])
  /\ Forget(token[b])
  /\ dropped' = dropped \cup {token[b]}
  /\ UNCHANGED <<up, expired, enabled, alert, handlers, click, sidebar, timeouts, acks>>

\* The Models page takes any error of active_model for a missing model.
Swallows(b) == run[b] = "page" /\ sidebar[b].page = "Models"

RefusalSwallowed(b) ==
  /\ Swallows(b) /\ Refused(b)
  /\ Show(b, "page") /\ UNCHANGED token

\* handle_auth_failure: the browser forgets its token too; the rerun shows the
\* login form.
CallRefused(b) ==
  /\ ~Swallows(b) /\ Refused(b)
  /\ ClearAuth(b) /\ Show(b, "login")

\* No answer: the token stays.  A failed model_info goes on without a model,
\* a failed page shows the error in its place.
CallLost(b) ==
  /\ run[b] \in Called \ {"logout"} /\ Lost
  /\ CASE run[b] = "verify" -> Show(b, "unverified")
       [] run[b] = "model" -> (\E stage \in After(b) : Goto(b, stage)) /\ UNCHANGED shown
       [] run[b] \in Draws \cup {"ack"} -> Show(b, "page")
  /\ UNCHANGED <<apiVars, token, click, sidebar, acks, dropped>>

LogoutOk(b) ==
  /\ run[b] = "logout" /\ up /\ Valid(token[b])
  /\ Forget(token[b])
  /\ dropped' = dropped \cup {token[b]}
  /\ ClearAuth(b) /\ Show(b, "login")
  /\ UNCHANGED <<up, expired, enabled, alert, handlers, click, sidebar, timeouts, acks>>

\* The answer is lost, whether or not the API has revoked the session.
LogoutLost(b) ==
  /\ run[b] = "logout" /\ Lost
  /\ UNCHANGED sessions \/ (up /\ Forget(token[b]))
  /\ ClearAuth(b) /\ Show(b, "login")
  /\ UNCHANGED <<up, expired, enabled, alert, handlers, click, sidebar, acks, dropped>>

-----------------------------------------------------------------------------
(* acknowledge_alert: authorised, then the row is read, then written.      *)

AckStart(b) ==
  /\ run[b] = "ack" /\ up /\ Valid(token[b])
  /\ handlers' = handlers \cup
       {[n |-> acks, browser |-> b, alert |-> click[b],
         user |-> sessions[token[b]], seen |-> "unread"]}
  /\ Goto(b, "acked?")
  /\ UNCHANGED <<up, sessions, expired, enabled, alert, token, click, shown,
                 sidebar, timeouts, acks, dropped>>

AckRead(h) ==
  /\ h.seen = "unread"
  /\ handlers' = (handlers \ {h}) \cup {[h EXCEPT !.seen = alert[h.alert].status]}
  /\ UNCHANGED <<up, sessions, expired, enabled, alert, browserVars,
                 timeouts, acks, dropped>>

\* The browser that still waits for this call is told of its success, and the
\* script reruns.
Answer(h) ==
  /\ handlers' = handlers \ {h}
  /\ IF run[h.browser] = "acked?" /\ \A g \in handlers : g.browser = h.browser => g.n <= h.n
     THEN /\ click' = [click EXCEPT ![h.browser] = None]
          /\ Goto(h.browser, "health")
     ELSE UNCHANGED <<run, click>>
  /\ UNCHANGED <<up, sessions, expired, enabled, token, shown, sidebar, timeouts,
                 acks, dropped>>

\* Deviation: the status is not looked at before the write.
AckAgain(h) ==
  /\ h.seen = "ACKNOWLEDGED"
  /\ alert' = [alert EXCEPT ![h.alert].by = h.user, ![h.alert].at = @ + 1]
  /\ Answer(h)

AckKnown(h) ==
  /\ h.seen = "ACKNOWLEDGED"
  /\ Answer(h)
  /\ UNCHANGED alert

Commits == {alert[a].at : a \in Alert}

AckCommit(h) ==
  /\ h.seen = "ACTIVE"
  /\ alert' = [alert EXCEPT ![h.alert] =
       [status |-> "ACKNOWLEDGED", by |-> h.user,
        at |-> 1 + CHOOSE m \in Commits : \A k \in Commits : k <= m]]
  /\ Answer(h)

\* A database error: rolled back, the browser gets a 503.
AckFails(h) ==
  /\ handlers' = handlers \ {h}
  /\ UNCHANGED <<up, sessions, expired, enabled, alert, browserVars,
                 timeouts, acks, dropped>>

\* The browser gives up, or the API has gone; a handler still there goes on.
AckLost(b) ==
  /\ run[b] = "acked?" /\ Lost
  /\ Show(b, "page")
  /\ UNCHANGED <<apiVars, token, click, sidebar, acks, dropped>>

\* Nothing is left to wait for: a 503, or a connection reset by a restart.
AckReset(b) ==
  /\ run[b] = "acked?" /\ up /\ \A h \in handlers : h.browser # b
  /\ Show(b, "page")
  /\ UNCHANGED <<apiVars, token, click, sidebar, timeouts, acks, dropped>>

-----------------------------------------------------------------------------
Script(b) ==
  \/ HealthOk(b) \/ HealthFails(b) \/ CallOk(b) \/ CallRefused(b)
  \/ RefusalSwallowed(b) \/ CallLost(b) \/ LogoutOk(b) \/ LogoutLost(b)
  \/ AckStart(b) \/ AckLost(b) \/ AckReset(b)
Handler(h) == AckRead(h) \/ AckKnown(h) \/ AckCommit(h)

AdminNext ==
  \/ \E b \in Browser : \/ \E u \in User, t \in Token : Login(b, u, t)
                        \/ \E choice \in Sidebar : Rerun(b, choice)
                        \/ \E a \in Alert : ClickAcknowledge(b, a)
                        \/ ClickLogout(b) \/ Refresh(b) \/ Script(b)
  \/ \E h \in handlers : Handler(h) \/ AckFails(h)
  \/ \E t \in Token : Expire(t)
  \/ \E u \in User : ToggleUser(u)
  \/ Crash \/ Start

\* A script and a handler run to their end, calls have timeouts, and a page
\* with auto refresh on is run again every refresh_seconds.
Fairness ==
  /\ \A b \in Browser : WF_adminVars(Script(b)) /\ WF_adminVars(Refresh(b))
  /\ WF_adminVars(\E h \in handlers : Handler(h))

AdminSpec == AdminInit /\ [][AdminNext]_adminVars /\ Fairness
-----------------------------------------------------------------------------
AdminTypeOK ==
  /\ up \in BOOLEAN /\ expired \subseteq Token /\ enabled \subseteq User
  /\ DOMAIN sessions \subseteq Token /\ \A t \in DOMAIN sessions : sessions[t] \in User
  /\ alert \in [Alert -> [status : {"ACTIVE", "ACKNOWLEDGED"},
                          by : User \cup {None}, at : 0 .. MaxAcks]]
  /\ handlers \subseteq [n : 1 .. MaxAcks, browser : Browser, alert : Alert,
                         user : User, seen : {"unread", "ACTIVE", "ACKNOWLEDGED"}]
  /\ token \in [Browser -> Token \cup {None}]
  /\ run \in [Browser -> Called \cup {"idle", "health", "acked?"}]
  /\ click \in [Browser -> Alert \cup {"logout", None}]
  /\ shown \in [Browser -> {"login", "offline", "unverified", "page"}]
  /\ sidebar \in [Browser -> Sidebar]
  /\ \A b \in Browser : shown[b] = "login" /\ run[b] = "idle" <=> token[b] = None
  /\ timeouts \in 0 .. MaxTimeouts /\ acks \in 0 .. MaxAcks

\* A token that was answered 401, or whose logout was answered, is dead for
\* good: no reactivation of its user and no call still under way revives it
\* (get_current_user pops what it refuses, revoke_session what it ends).
DroppedStaysDead == \A t \in dropped : ~Valid(t)

\* An acknowledgment is final once no call is left that read the alert while
\* it was active: neither a call that comes later, nor one that lost its
\* browser, its session or its race, replaces user and time (acknowledge_alert
\* reads the status and writes the row in separate statements).
Settled(a) ==
  /\ alert[a].status = "ACKNOWLEDGED"
  /\ \A h \in handlers : h.alert = a => h.seen # "ACTIVE"
SettledIsFinal ==
  [][\A a \in Alert : Settled(a) => alert'[a] = alert[a] /\ Settled(a)']_adminVars

\* A page kept open with auto refresh does not outlive its session: once that
\* has expired, or is gone with the process that held it, the page is left for
\* the login form, unless the API is down or the page is Models, which swallows
\* the refusal.
Gone(t) == t \in expired \/ t \notin DOMAIN sessions
StalePageLeaves ==
  \A b \in Browser :
    (shown[b] = "page" /\ Gone(token[b])) ~>
      (shown[b] # "page" \/ ~up \/ sidebar[b].page = "Models" \/ ~sidebar[b].refresh)

\* docs/phase_5_alert_finalization.md:40 "Repeated acknowledgment is safe and
\* returns the original user and timestamp without replacing them."
FirstAckStands ==
  [][\A a \in Alert : alert[a].status = "ACKNOWLEDGED" => alert'[a] = alert[a]]_adminVars

\* docs/phase_6_authentication_ux.md:15 "then clears local state even if the
\* API is unavailable": a run caused by Logout leaves no token behind.
LogoutClears ==
  \A b \in Browser : click[b] = "logout" /\ run[b] = "idle" => token[b] = None
=============================================================================
