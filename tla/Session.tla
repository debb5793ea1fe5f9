------------------------------ MODULE Session ------------------------------
(***************************************************************************)
(* The shell of the browser application: signing in and out, the loading   *)
(* screen that hides every page until the data of the user has been asked  *)
(* for, the settings, and the work timer in the header.  A request carries *)
(* the token the HTTP client holds when it is sent; the service answers it *)
(* from what it has stored at that moment, and the answers arrive in any   *)
(* order.  The stores live as long as the page is not reloaded: signing    *)
(* out empties none of them.  The seven lists that are fetched at the      *)
(* start are one list of rows and the list of time entries, read together. *)
(* Theme, names, tags and the seconds on the timer are left out.           *)
(***************************************************************************)
EXTENDS Integers, Sequences, FiniteSets, SequencesExt

CONSTANTS
    Users, NoUser,
    Known,          \* users with an account and settings at the beginning
    Zones, Default, \* time zones, 'Asia/Tokyo'
    OldZones,       \* the zone each user has saved
    Visits,         \* pages the user goes to by a link
    MaxTokens,      \* tokens the service issues
    MaxTimers,      \* timers started
    MaxChoices,     \* forms switched, zones picked, dialogs opened, none once unsure
    MaxCalls,       \* requests in flight after the user has started one; one
                    \* more after signing in
    MaxTroubles     \* tokens that expire, answers that are lost, reloads

ASSUME UserAssumption == NoUser \notin Users /\ Known \subseteq Users
ASSUME ZoneAssumption == Default \in Zones /\ OldZones \in [Users -> Zones]
ASSUME BoundAssumption == MaxTokens \in Nat /\ MaxTimers \in Nat

VARIABLES
    session,    \* the token in the store, with its user
    client,     \* authToken of the HTTP client
    login,      \* the login page and the store's isLoading and error
    ready,      \* initialized of useInitializeData
    loading,    \* and its isLoading
    settings,   \* timezone and isConfigured
    data,       \* whose rows the stores hold, and their time entries
    timer,      \* useTimerStore
    dialog,     \* StartTimerDialog
    page,       \* the path in the address bar
    calls,      \* requests in flight
    server,     \* accounts, settings, timers and entries of the services
    choices, troubles,
    unsure      \* history: a request failed, two that touch the same state
                \* overlapped, or one outlived its session

sessionVars == <<session, client, login, ready, loading, settings, data, timer,
                 dialog, page, calls, server, choices, troubles, unsure>>
shellVars == <<session, client, ready, loading, settings>>
counters == <<choices, troubles>>

NoToken == [of |-> NoUser, no |-> 0]
NoTimer == [current |-> 0, ticking |-> FALSE, loading |-> FALSE]
NoDialog == [open |-> FALSE, mode |-> "existing", given |-> FALSE]
NoData == [of |-> NoUser, entries |-> <<>>]
EmptyPage == [mode |-> "login", persona |-> FALSE, busy |-> FALSE, error |-> FALSE]

Nothing == [token |-> NoToken, zone |-> Default, configured |-> FALSE, timer |-> 0,
            entries |-> <<>>]
\* a request of the session s with the token t in its header
Call(kind, job, s, t) ==
    [kind |-> kind, job |-> job, by |-> s, token |-> t, user |-> NoUser,
     zone |-> Default, stage |-> "sent", ret |-> Nothing]

Gated == session # NoToken /\ (~ready \/ loading)
Route(s, configured, p) ==
    CASE s = NoToken -> "login"
      [] s # NoToken /\ p = "initial" -> "initial"
      [] s # NoToken /\ p # "initial" /\ ~configured -> "initial"
      [] OTHER -> IF p = "login" THEN "daily" ELSE p
Open == session # NoToken /\ ~Gated
Mounted == Open /\ page \notin {"login", "initial"}

Reads == {"lists", "current"}
Writes == {"start", "stop"}
Clashing(cs) ==
    \E i, j \in 1..Len(cs) :
        i # j /\ cs[i].kind \in Writes /\ cs[j].kind \in Reads \cup Writes
FreshJob(cs) == CHOOSE j \in 1..(Len(cs) + 1) : \A i \in 1..Len(cs) : cs[i].job # j

(* The end of every step: the router, and what a layout that appears or     *)
(* disappears does.  TimerWidget asks for the timer when it is mounted.     *)
Finish(p, cs, t, d, risky) ==
    /\ page' = IF Gated' THEN p ELSE Route(session', settings'.configured, p)
    /\ LET up == Mounted' /\ ~Mounted IN
       /\ calls' = IF up THEN Append(cs, Call("current", 0, session', client')) ELSE cs
       /\ timer' = IF up THEN [t EXCEPT !.loading = TRUE] ELSE t
       /\ dialog' = CASE ~Mounted' -> NoDialog
                      [] Mounted' /\ t.current # 0 ->
                           [NoDialog EXCEPT !.open = d.open]
                      [] OTHER -> d
    /\ unsure' = (unsure \/ risky \/ Clashing(calls'))

\* the effect of useInitializeData, when somebody has signed in
Initialise(cs, s, c) == Append(cs, Call("settings", FreshJob(cs), s, c))

(***************************************************************************)
(* What the user does.                                                     *)
(***************************************************************************)
MayStart == Len(calls) < MaxCalls
MayChoose == ~unsure /\ choices < MaxChoices /\ choices' = choices + 1
Mishap == troubles < MaxTroubles /\ troubles' = troubles + 1

AtLogin == session = NoToken
Submit(kind, u) ==
    /\ AtLogin /\ Len(calls) <= MaxCalls /\ ~login.busy
    /\ login' = [login EXCEPT !.busy = TRUE, !.error = FALSE, !.persona = kind = "demo"]
    /\ UNCHANGED <<shellVars, data, server, counters>>
    /\ Finish(page, Append(calls, [Call(kind, 0, session, client) EXCEPT !.user = u]),
              timer, dialog, FALSE)
SubmitForm(u) == Submit(login.mode, u)
DemoLogin == server.accounts # Users /\ ~login.persona /\ Submit("demo", NoUser)

ToggleMode ==
    /\ AtLogin /\ MayChoose
    /\ login' = [login EXCEPT !.mode = IF @ = "login" THEN "register" ELSE "login",
                              !.error = FALSE]
    /\ UNCHANGED <<shellVars, data, timer, dialog, page, calls, server, troubles,
                   unsure>>

Logout ==
    /\ Mounted
    /\ session' = NoToken
    /\ client' = NoToken
    /\ login' = EmptyPage
    /\ ready' = FALSE
    /\ loading' = FALSE
    /\ UNCHANGED <<settings, data, server, counters>>
    /\ Finish("login", calls, timer, dialog, FALSE)

GoTo(p) ==
    /\ Mounted /\ p # page
    /\ UNCHANGED <<shellVars, login, data, server, counters>>
    /\ Finish(p, calls, timer, dialog, FALSE)

\* S01Settings
OnSettings == Open /\ page \in {"initial", "settings"}
\* a zone is not picked while the settings are being saved
PickZone(z) ==
    /\ OnSettings /\ MayStart /\ MayChoose /\ z # settings.zone
    /\ \A i \in 1..Len(calls) : calls[i].kind # "save"
    /\ settings' = [settings EXCEPT !.zone = z]
    /\ loading' = TRUE
    /\ UNCHANGED <<session, client, ready, login, data, server, troubles>>
    /\ Finish(page, Initialise(calls, session, client), timer, dialog, FALSE)

SaveSettings ==
    /\ OnSettings /\ MayStart
    /\ settings' = [settings EXCEPT !.configured = TRUE]
    /\ UNCHANGED <<session, client, ready, loading, login, data, server, counters>>
    /\ Finish(page, Append(calls, [Call("save", 0, session, client)
                                       EXCEPT !.zone = settings.zone]),
              timer, dialog, FALSE)
Cancel ==
    /\ OnSettings /\ settings.configured
    /\ UNCHANGED <<shellVars, login, data, server, counters>>
    /\ Finish("daily", calls, timer, dialog, FALSE)

\* TimerWidget and StartTimerDialog, whose form is empty when it is opened
OpenStart ==
    /\ Mounted /\ MayChoose
    /\ timer.current = 0 /\ ~timer.loading /\ ~dialog.open
    /\ dialog' = [NoDialog EXCEPT !.open = TRUE]
    /\ UNCHANGED <<shellVars, login, data, timer, page, calls, server, troubles,
                   unsure>>
InDialog == Mounted /\ timer.current = 0 /\ dialog.open
PickMode(m) ==
    /\ InDialog /\ m # dialog.mode
    /\ dialog' = [dialog EXCEPT !.mode = m, !.given = FALSE]
    /\ UNCHANGED <<shellVars, login, data, timer, page, calls, server, counters,
                   unsure>>
GiveTask ==
    /\ InDialog /\ ~dialog.given
    /\ dialog' = [dialog EXCEPT !.given = TRUE]
    /\ UNCHANGED <<shellVars, login, data, timer, page, calls, server, counters, unsure>>
CloseDialog ==
    /\ InDialog
    /\ dialog' = NoDialog
    /\ UNCHANGED <<shellVars, login, data, timer, page, calls, server, counters, unsure>>
StartTimer ==
    /\ InDialog /\ dialog.given /\ ~timer.loading /\ MayStart
    /\ UNCHANGED <<shellVars, login, data, server, counters>>
    /\ Finish(page, Append(calls, Call("start", 0, session, client)),
              [timer EXCEPT !.loading = TRUE], dialog, FALSE)
StopTimer ==
    /\ Mounted /\ timer.current # 0 /\ ~timer.loading /\ MayStart
    /\ UNCHANGED <<shellVars, login, data, server, counters>>
    /\ Finish(page, Append(calls, Call("stop", 0, session, client)),
              [timer EXCEPT !.loading = TRUE], dialog, FALSE)

(* The page is loaded again: what is kept in localStorage is the session    *)
(* and the settings; answers under way are lost.                            *)
\* Mutant: the client is not given the token that was kept.
Forgotten == NoToken
Rehydrated == session
Reload ==
    /\ Mishap
    /\ client' = Rehydrated
    /\ login' = EmptyPage
    /\ ready' = FALSE
    /\ loading' = (session # NoToken)
    /\ data' = NoData
    /\ unsure' = FALSE
    /\ timer' = NoTimer
    /\ dialog' = NoDialog
    /\ page' = page
    /\ calls' = IF session = NoToken THEN <<>> ELSE Initialise(<<>>, session, client')
    /\ UNCHANGED <<session, settings, server, choices>>

(***************************************************************************)
(* The services.  A token is refused when there is none or it has expired. *)
(***************************************************************************)
Admits(t) == t # NoToken /\ t.no \notin server.expired

Answer(i, stage, ret) == [calls EXCEPT ![i].stage = stage, ![i].ret = ret]

\* every demo login makes a new user; an unknown address or a wrong password
\* is refused like a bad token, an address that is taken is an error
ServeLogin(i) ==
    LET c == calls[i]
        u == IF c.kind = "demo" THEN CHOOSE v \in Users : v \notin server.accounts
                                ELSE c.user
        new == u \notin server.accounts
        token == [of |-> u, no |-> server.issued + 1]
    IN IF new = (c.kind # "login")
       THEN /\ server.issued < MaxTokens
            /\ server' = [server EXCEPT !.issued = @ + 1, !.accounts = @ \cup {u},
                 !.configured = IF c.kind = "demo" THEN @ \cup {u} ELSE @]
            /\ calls' = Answer(i, "ok", [Nothing EXCEPT !.token = token])
       ELSE /\ calls' = Answer(i, IF new THEN "refused" ELSE "failed", Nothing)
            /\ UNCHANGED server

ServeStart(i, u) ==
    IF server.running[u] # 0
    THEN calls' = Answer(i, "failed", Nothing) /\ UNCHANGED server
    ELSE /\ server.started < MaxTimers
         /\ server' = [server EXCEPT !.started = @ + 1, !.running[u] = server.started + 1]
         /\ calls' = Answer(i, "ok", [Nothing EXCEPT !.timer = server.started + 1])
ServeStop(i, u) ==
    IF server.running[u] = 0
    THEN calls' = Answer(i, "failed", Nothing) /\ UNCHANGED server
    ELSE /\ server' = [server EXCEPT !.running[u] = 0,
                                     !.ended[u] = Append(@, server.running[u])]
         /\ calls' = Answer(i, "ok", [Nothing EXCEPT !.timer = server.running[u]])

ServeRead(i, u) ==
    LET kind == calls[i].kind IN
    /\ UNCHANGED server
    /\ calls' = Answer(i, "ok",
           CASE kind = "settings" -> [Nothing EXCEPT !.zone = server.zone[u],
                                                     !.configured = u \in server.configured]
             [] kind = "lists" -> [Nothing EXCEPT !.entries = server.ended[u]]
             [] kind = "current" -> [Nothing EXCEPT !.timer = server.running[u]])

Serve ==
    \E i \in 1..Len(calls) : LET c == calls[i] IN
        /\ c.stage = "sent"
        /\ CASE c.kind \in {"login", "register", "demo"} -> ServeLogin(i)
             [] OTHER ->
                  IF ~Admits(c.token)
                  THEN calls' = Answer(i, "refused", Nothing) /\ UNCHANGED server
                  ELSE CASE c.kind = "start" -> ServeStart(i, c.token.of)
                         [] c.kind = "stop" -> ServeStop(i, c.token.of)
                         [] c.kind = "save" ->
                              /\ server' = [server EXCEPT !.zone[c.token.of] = c.zone,
                                                         !.configured = @ \cup {c.token.of}]
                              /\ calls' = Answer(i, "ok", Nothing)
                         [] OTHER -> ServeRead(i, c.token.of)
        /\ UNCHANGED <<shellVars, login, data, timer, dialog, page, counters, unsure>>

\* a lost answer to what changes nothing is the same as a lost request
Lose ==
    \E i \in 1..Len(calls) :
        /\ calls[i].stage \in IF calls[i].kind \in Writes \cup {"save"}
                              THEN {"sent", "ok"} ELSE {"sent"}
        /\ Mishap
        /\ calls' = Answer(i, "failed", Nothing)
        /\ unsure' = TRUE
        /\ UNCHANGED <<shellVars, login, data, timer, dialog, page, server, choices>>

\* it matters only to a request that is to be served
Lapse(n) ==
    /\ n \in 1..server.issued \ server.expired
    /\ \E i \in 1..Len(calls) : calls[i].stage = "sent" /\ calls[i].token.no = n
    /\ Mishap
    /\ server' = [server EXCEPT !.expired = @ \cup {n}]
    /\ UNCHANGED <<shellVars, login, data, timer, dialog, page, calls, choices, unsure>>

(***************************************************************************)
(* The answers.  A refused request signs the user out, whoever sent it.    *)
(***************************************************************************)
Answered(i, kinds) == calls[i].kind \in kinds /\ calls[i].stage # "sent"
Refused(i) == calls[i].stage = "refused"
Ok(i) == calls[i].stage = "ok"
Rest(i) == RemoveAt(calls, i)

\* onUnauthorized, logout, and the effect of useInitializeData when the
\* session was there until now
SignOut(i) ==
    /\ session' = IF Refused(i) THEN NoToken ELSE session
    /\ client' = IF Refused(i) THEN NoToken ELSE client
    /\ login' = CASE Refused(i) /\ session # NoToken -> EmptyPage
                  [] Refused(i) /\ session = NoToken -> [login EXCEPT !.error = FALSE]
                  [] OTHER -> login
StillReady(i) == ready /\ ~(Refused(i) /\ session # NoToken)
StillLoading(i) == loading /\ ~(Refused(i) /\ session # NoToken)

LoginDone(i) ==
    /\ Answered(i, {"login", "register", "demo"})
    /\ IF Ok(i)
       THEN LET t == calls[i].ret.token IN
            /\ session' = t
            /\ client' = t
            /\ login' = EmptyPage
            /\ loading' = TRUE
            /\ UNCHANGED <<ready, settings, data, server, counters>>
            /\ Finish("daily", Initialise(Rest(i), t, t), timer, dialog, Rest(i) # <<>>)
       ELSE /\ session' = IF Refused(i) THEN NoToken ELSE session
            /\ client' = IF Refused(i) THEN NoToken ELSE client
            /\ login' = [login EXCEPT !.busy = FALSE, !.persona = FALSE, !.error = TRUE]
            /\ UNCHANGED <<ready, loading, settings, data, server, counters>>
            /\ Finish(page, Rest(i), timer, dialog, FALSE)

(* An initialisation goes on after its settings, whatever became of them;   *)
(* a new zone starts another one.                                           *)
SettingsDone(i) ==
    LET zone == IF Ok(i) THEN calls[i].ret.zone ELSE settings.zone
        again == zone # settings.zone
        job == calls[i].job
        next == Rest(i) \o <<Call("lists", job, session', client'),
                             Call("current", job, session', client')>>
    IN
    /\ Answered(i, {"settings"})
    /\ SignOut(i)
    /\ settings' = IF Ok(i) THEN [zone |-> zone, configured |-> calls[i].ret.configured]
                            ELSE settings
    /\ ready' = (StillReady(i) /\ ~(again /\ session' = NoToken))
    /\ loading' = IF again THEN session' # NoToken ELSE StillLoading(i)
    /\ UNCHANGED <<data, server, counters>>
    /\ Finish(page,
              IF again /\ session' # NoToken THEN Initialise(next, session', client')
                                             ELSE next,
              [timer EXCEPT !.loading = TRUE], dialog, FALSE)

\* Mutant: the first answer ends it.
EndsAtOnce(i) == calls[i].job # 0
\* Promise.allSettled: the last answer ends the initialisation
Ends(i) ==
    /\ calls[i].job # 0
    /\ \A j \in 1..Len(calls) : j # i => calls[j].job # calls[i].job
InitDone(i) ==
    /\ ready' = (Ends(i) \/ StillReady(i))
    /\ loading' = (StillLoading(i) /\ ~Ends(i))

ListsDone(i) ==
    /\ Answered(i, {"lists"})
    /\ SignOut(i)
    /\ InitDone(i)
    /\ data' = IF Ok(i) THEN [of |-> calls[i].token.of, entries |-> calls[i].ret.entries]
                        ELSE data
    /\ UNCHANGED <<settings, server, counters>>
    /\ Finish(page, Rest(i), timer, dialog, FALSE)

Fetched(t) == [current |-> t, ticking |-> t # 0, loading |-> FALSE]
CurrentDone(i) ==
    /\ Answered(i, {"current"})
    /\ SignOut(i)
    /\ InitDone(i)
    /\ UNCHANGED <<settings, data, server, counters>>
    /\ Finish(page, Rest(i),
              IF Ok(i) THEN Fetched(calls[i].ret.timer) ELSE [timer EXCEPT !.loading = FALSE],
              dialog, FALSE)

\* the dialog closes, whatever became of the start
StartDone(i) ==
    /\ Answered(i, {"start"})
    /\ SignOut(i)
    /\ ready' = StillReady(i) /\ loading' = StillLoading(i)
    /\ UNCHANGED <<settings, data, server, counters>>
    /\ Finish(page, Rest(i),
              IF Ok(i) THEN Fetched(calls[i].ret.timer) ELSE [timer EXCEPT !.loading = FALSE],
              NoDialog, FALSE)

\* a stop that fails leaves the timer on the page
StopDone(i) ==
    /\ Answered(i, {"stop"})
    /\ SignOut(i)
    /\ ready' = StillReady(i) /\ loading' = StillLoading(i)
    /\ data' = IF Ok(i) THEN [data EXCEPT !.entries = Append(@, calls[i].ret.timer)] ELSE data
    /\ UNCHANGED <<settings, server, counters>>
    /\ Finish(page, Rest(i), IF Ok(i) THEN NoTimer ELSE [timer EXCEPT !.loading = FALSE],
              dialog, FALSE)

\* whatever became of the saving, the page leads on to the daily page
SaveDone(i) ==
    /\ Answered(i, {"save"})
    /\ SignOut(i)
    /\ ready' = StillReady(i) /\ loading' = StillLoading(i)
    /\ UNCHANGED <<settings, data, server, counters>>
    /\ Finish("daily", Rest(i), timer, dialog, FALSE)

-----------------------------------------------------------------------------
Init ==
    /\ session = NoToken
    /\ client = NoToken
    /\ login = EmptyPage
    /\ ready = FALSE
    /\ loading = FALSE
    /\ settings = [zone |-> Default, configured |-> FALSE]
    /\ data = NoData
    /\ timer = NoTimer
    /\ dialog = NoDialog
    /\ page = "daily"
    /\ calls = <<>>
    /\ server = [accounts |-> Known, configured |-> Known, zone |-> OldZones,
                 running |-> [u \in Users |-> 0], ended |-> [u \in Users |-> <<>>],
                 issued |-> 0, started |-> 0, expired |-> {}]
    /\ choices = 0 /\ troubles = 0
    /\ unsure = FALSE

UserStep ==
    \/ \E u \in Users : SubmitForm(u)
    \/ DemoLogin
    \/ ToggleMode
    \/ Logout
    \/ \E p \in Visits : GoTo(p)
    \/ \E z \in Zones : PickZone(z)
    \/ SaveSettings
    \/ Cancel
    \/ OpenStart
    \/ \E m \in {"manual", "existing"} : PickMode(m)
    \/ GiveTask
    \/ CloseDialog
    \/ StartTimer
    \/ StopTimer

Arrival ==
    \E i \in 1..Len(calls) :
        \/ LoginDone(i)
        \/ SettingsDone(i)
        \/ ListsDone(i)
        \/ CurrentDone(i)
        \/ StartDone(i)
        \/ StopDone(i)
        \/ SaveDone(i)

Trouble == Lose \/ \E n \in 1..MaxTokens : Lapse(n)

-----------------------------------------------------------------------------
SessionTypeOK ==
    /\ session \in [of : Users \cup {NoUser}, no : 0..MaxTokens]
    /\ client \in [of : Users \cup {NoUser}, no : 0..MaxTokens]
    /\ login \in [mode : {"login", "register"}, persona : BOOLEAN, busy : BOOLEAN,
                  error : BOOLEAN]
    /\ ready \in BOOLEAN /\ loading \in BOOLEAN
    /\ settings \in [zone : Zones, configured : BOOLEAN]
    /\ data.of \in Users \cup {NoUser}
    /\ timer \in [current : 0..MaxTimers, ticking : BOOLEAN, loading : BOOLEAN]
    /\ dialog \in [open : BOOLEAN, mode : {"manual", "existing"}, given : BOOLEAN]
    /\ \A i \in 1..Len(calls) :
         /\ calls[i].stage \in {"sent", "ok", "failed", "refused"}
         /\ calls[i].job \in Nat
    /\ \A u \in Users : server.running[u] \in 0..server.started
    /\ unsure \in BOOLEAN

(* DataIsUsers: as long as no request has failed, outlived its session or   *)
(* overlapped another one, a page that is shown has been preceded by the    *)
(* arrival of the data of the user who is signed in now: although signing   *)
(* out empties no store, nobody sees the rows of somebody else.  And when   *)
(* nothing is under way the time entries are those of the service, a timer  *)
(* that was stopped among them and only once.                               *)
Quiet == \A i \in 1..Len(calls) : calls[i].kind \notin Reads \cup Writes
DataIsUsers ==
    Open /\ ~unsure =>
        /\ data.of = session.of
        /\ Quiet => data.entries = server.ended[session.of]

(* TimerIsRunning: the seconds are counted exactly as long as a timer is    *)
(* shown, whatever arrives in whatever order; and on a page that is shown   *)
(* that timer is the one the service has running for the user, unless a     *)
(* request failed or two overlapped.                                        *)
TimerIsRunning ==
    /\ timer.ticking = (timer.current # 0)
    /\ Open /\ ~unsure /\ Quiet => timer.current = server.running[session.of]

(* ShownIsTheirs: what a page shows, rows and running timer, belongs to the *)
(* user who is signed in.                                                  *)
ShownIsTheirs == DataIsUsers /\ TimerIsRunning

(* SessionEndsForCause: a session ends when the user signs out, when its    *)
(* own token has expired, or (because the client does not look at whose     *)
(* request was refused) when a request of an earlier session is refused.    *)
SessionEndsForCause ==
    [][session # NoToken /\ session' = NoToken =>
          \/ Logout
          \/ session.no \in server.expired
          \/ \E i \in 1..Len(calls) : Refused(i) /\ calls[i].by # session]_sessionVars

(* LoadingEnds: the loading screen goes away, also when requests of the     *)
(* initialisation fail or are refused and when it is started again because  *)
(* the settings brought another time zone.                                  *)
LoadingEnds == Gated ~> ~Gated
=============================================================================
