---------------------------- MODULE LoginRuntime -----------------------------
(***************************************************************************)
(* How an account gets its worker and its login: the gateway's routes      *)
(* (app.py), the login-control service on the host (login_control.py), the *)
(* dedicated Chrome it starts (chrome_launcher.py) and the one-time        *)
(* sessions of the remote desktop (remote_browser_sessions.py and its      *)
(* broker).                                                                *)
(*                                                                         *)
(* A route is a script of stages.  A stage that calls the control service  *)
(* waits for its thread only as long as the client's timeout: the route    *)
(* then ends with an error and the thread runs on.  Only provision and     *)
(* rollback take the service's lock.                                       *)
(***************************************************************************)
EXTENDS Naturals, Sequences, FiniteSets

CONSTANTS
    Accounts,
    Claude,         \* accounts of a Claude pool: their window opens without CDP
    Manual,         \* accounts made by create_account, without a runtime
    Requests,       \* requests of administrators
    MaxLogins,      \* bound on the times a human signs in to an account
    MaxSessions     \* bound on the one-time sessions at a time

ASSUME LoginAssumption ==
    /\ Accounts # {} /\ Claude \subseteq Accounts /\ Manual \subseteq Accounts
    /\ MaxLogins \in Nat /\ MaxSessions \in Nat

VARIABLES
    account,    \* the pool's row of the account: its status
    runtime,    \* none, entry (in the manifest), running (its worker as well)
    loaded,     \* the credentials the worker runs with: a login's number
    stored,     \* the credentials in the account's auth directory
    profile,    \* the login in the Chrome profile
    chrome,     \* the Chrome that has the profile
    pidFile,    \* none, right, or dead: of a process that is no more
    session,    \* one-time sessions of the remote desktop
    verifying,  \* account_reauth_in_progress
    request,    \* a route: operation, account and stage
    control,    \* the control thread a route started, until it ends
    lock        \* the request whose thread has the service's lock, or none

hostVars == <<runtime, loaded, stored, profile, chrome, pidFile, session, lock>>
loginVars == <<account, hostVars, verifying, request, control>>

Script == [
    onboard |-> <<"provision", "create", "begin", "open">>,
    prepare |-> <<"provision", "update", "begin", "open">>,
    start   |-> <<"status", "begin", "open">>,
    cancel  |-> <<"begin", "cancel">>,
    verify  |-> <<"begin", "browser", "capture", "grab", "restart", "probe", "mark">>]

Calls == {"provision", "rollback", "open", "cancel", "capture", "restart"}
NoRequest == [op |-> "none", on |-> CHOOSE a \in Accounts : TRUE, stage |-> "none"]
NoThread == [act |-> "none", on |-> NoRequest.on, at |-> "none"]
Unused == [on |-> NoRequest.on, is |-> "unused"]

LoginTypeOK ==
    /\ account \in [Accounts -> {"none", "new", "disabled", "reauth_required", "ready"}]
    /\ runtime \in [Accounts -> {"none", "entry", "running"}]
    /\ loaded \in [Accounts -> 0 .. MaxLogins] /\ stored \in [Accounts -> 0 .. MaxLogins]
    /\ profile \in [Accounts -> 0 .. MaxLogins]
    /\ chrome \in [Accounts -> {"none", "starting", "manual", "ready"}]
    /\ pidFile \in [Accounts -> {"none", "right", "dead"}]
    /\ session \in [1 .. MaxSessions ->
                    [on : Accounts, is : {"unused", "pending", "connection"}]]
    /\ verifying \subseteq Accounts
    /\ request \in [Requests -> [op : DOMAIN Script \cup {"none"}, on : Accounts,
                                 stage : {"none", "create", "update", "begin", "status", "browser",
                                          "grab", "probe", "mark"} \cup Calls]]
    /\ control \in [Requests -> [act : Calls \cup {"none"}, on : Accounts,
                                 at : {"none", "lock", "boot", "look", "stop", "unlink", "launch",
                                       "spawn", "pid", "deadPid", "wait", "issue", "revoke",
                                       "service"}]]
    /\ lock \subseteq Requests

LoginInit ==
    /\ account = [a \in Accounts |-> IF a \in Manual THEN "ready" ELSE "none"]
    /\ runtime = [a \in Accounts |-> "none"]
    /\ loaded = [a \in Accounts |-> 0] /\ stored = [a \in Accounts |-> 0]
    /\ profile = [a \in Accounts |-> 0]
    /\ chrome = [a \in Accounts |-> "none"] /\ pidFile = [a \in Accounts |-> "none"]
    /\ session = [s \in 1 .. MaxSessions |-> Unused]
    /\ verifying = {} /\ lock = {}
    /\ request = [r \in Requests |-> NoRequest]
    /\ control = [r \in Requests |-> NoThread]

-----------------------------------------------------------------------------
(***************************************************************************)
(* The routes.                                                             *)
(***************************************************************************)
\* The end of a request, for good or ill: verify's finally.
Ended(r) == /\ request' = [request EXCEPT ![r] = NoRequest]
            /\ verifying' = IF request[r].op = "verify" THEN verifying \ {request[r].on}
                                                       ELSE verifying

\* A stage that is a call of the control service starts a thread there.
Thread(q) == IF q.stage \notin Calls THEN NoThread
             ELSE [act |-> q.stage, on |-> q.on,
                   at |-> IF q.stage \in {"provision", "rollback"} THEN "lock" ELSE "look"]

Enter(r, q) == /\ request' = [request EXCEPT ![r] = q]
               /\ control' = [control EXCEPT ![r] = Thread(q)]
               /\ UNCHANGED verifying

Position(q) == CHOOSE n \in 1 .. Len(Script[q.op]) : Script[q.op][n] = q.stage

\* capture is asked of a Claude window only.
Following(q) == LET next == Script[q.op][Position(q) + 1] IN
    IF next = "capture" /\ q.on \notin Claude THEN Script[q.op][Position(q) + 2] ELSE next

Advanced(r) == LET q == request[r] IN
    IF q.stage = "rollback" \/ Position(q) = Len(Script[q.op])
    THEN Ended(r) /\ control' = [control EXCEPT ![r] = NoThread]
    ELSE Enter(r, [q EXCEPT !.stage = Following(q)])

Abandoned(r) == Ended(r) /\ control' = [control EXCEPT ![r] = NoThread]

At(r, stage) == request[r].stage = stage

\* The id is made for the request.
Fresh(a) == /\ account[a] = "none" /\ runtime[a] = "none"
            /\ \A r \in Requests : request[r].op # "none" => request[r].on # a
            /\ \A r \in Requests : control[r].act # "none" => control[r].on # a

Begin(r, op, a) ==
    /\ request[r] = NoRequest /\ control[r] = NoThread
    /\ op = "onboard" => Fresh(a)
    /\ op # "onboard" => account[a] # "none"
    /\ op = "verify" => a \notin verifying
    /\ LET q == [op |-> op, on |-> a, stage |-> Script[op][1]] IN
          /\ request' = [request EXCEPT ![r] = q]
          /\ control' = [control EXCEPT ![r] = Thread(q)]
    /\ verifying' = IF op = "verify" THEN verifying \cup {a} ELSE verifying
    /\ UNCHANGED <<account, hostVars>>

\* The client's timeout, or a connection that breaks: the thread runs on.
GatewayGivesUp(r) ==
    /\ request[r].stage \in Calls /\ Ended(r)
    /\ UNCHANGED <<account, hostVars, control>>

\* create_account; an id or endpoint in use is a conflict, and only that is
\* followed by a rollback of the new runtime.
Create(r) == LET a == request[r].on IN
    /\ At(r, "create")
    /\ \/ account' = [account EXCEPT ![a] = "new"] /\ Advanced(r)
       \/ Enter(r, [request[r] EXCEPT !.stage = "rollback"]) /\ UNCHANGED account
       \/ Abandoned(r) /\ UNCHANGED account                   \* any other error
    /\ UNCHANGED hostVars

Update(r) ==
    /\ At(r, "update") /\ account' = [account EXCEPT ![request[r].on] = "disabled"]
    /\ Advanced(r) /\ UNCHANGED hostVars

\* begin_reauth; refused while the account still answers requests.
BeginReauth(r) ==
    /\ At(r, "begin")
    /\ \/ account' = [account EXCEPT ![request[r].on] = "reauth_required"] /\ Advanced(r)
       \/ Abandoned(r) /\ UNCHANGED account
    /\ UNCHANGED hostVars

\* _dedicated_chrome_state: what the pid file and the debug port tell.
Browser(a) == IF pidFile[a] = "right" THEN IF chrome[a] = "none" THEN "stopped" ELSE chrome[a]
              ELSE IF chrome[a] = "ready" THEN "occupied" ELSE "stopped"

Status(r) ==
    /\ At(r, "status")
    /\ IF runtime[request[r].on] = "none" THEN Abandoned(r) ELSE Advanced(r)
    /\ UNCHANGED <<account, hostVars>>

CheckBrowser(r) == LET a == request[r].on IN
    /\ At(r, "browser")
    /\ IF \/ runtime[a] = "none"
          \/ a \in Claude /\ Browser(a) \notin {"manual", "ready"}
          \/ a \notin Claude /\ Browser(a) # "ready"
       THEN Abandoned(r) ELSE Advanced(r)
    /\ UNCHANGED <<account, hostVars>>

\* The worker reads the login over the debug port into the auth directory.
Grab(r) == LET a == request[r].on IN
    /\ At(r, "grab")
    /\ \/ /\ runtime[a] = "running" /\ chrome[a] = "ready" /\ profile[a] # 0
          /\ stored' = [stored EXCEPT ![a] = profile[a]] /\ Advanced(r)
       \/ Abandoned(r) /\ UNCHANGED stored
    /\ UNCHANGED <<account, runtime, loaded, profile, chrome, pidFile, session, lock>>

\* Three probes; the result is recorded with allow_reauth either way.
Probe(r) == LET a == request[r].on IN
    /\ At(r, "probe")
    /\ \/ loaded[a] # 0 /\ Advanced(r)
       \/ Abandoned(r)
    /\ UNCHANGED <<account, hostVars>>

MarkProbe(r) ==
    /\ At(r, "mark") /\ account' = [account EXCEPT ![request[r].on] = "ready"]
    /\ Advanced(r) /\ UNCHANGED hostVars

-----------------------------------------------------------------------------
(***************************************************************************)
(* The control service.  A thread ends well or ill, and the request, if it *)
(* still waits, goes on accordingly.                                       *)
(***************************************************************************)
On(r, act, at) == control[r].act \in act /\ control[r].at = at
Goes(r, at) == control' = [control EXCEPT ![r].at = at] /\ UNCHANGED <<request, verifying>>

Orphan(r) == control' = [control EXCEPT ![r] = NoThread] /\ UNCHANGED <<request, verifying>>
Finish(r) == IF request[r].op = "none" THEN Orphan(r) ELSE Advanced(r)
\* Mutant: an onboarding whose window does not open takes its runtime back.
FailRollsBack(r) ==
    IF request[r].op = "none" THEN Orphan(r)
    ELSE IF request[r].op = "onboard" /\ request[r].stage = "open"
    THEN Enter(r, [request[r] EXCEPT !.stage = "rollback"]) ELSE Abandoned(r)
Fail(r) == IF request[r].op = "none" THEN Orphan(r) ELSE Abandoned(r)

\* An entry that exists is taken as it is.  What fails here is undone.
Provision(r) == LET a == control[r].on IN
    /\ On(r, {"provision"}, "lock") /\ lock = {}
    /\ IF runtime[a] # "none" THEN Finish(r) /\ UNCHANGED <<runtime, lock>>
       ELSE runtime' = [runtime EXCEPT ![a] = "entry"] /\ lock' = {r} /\ Goes(r, "boot")
    /\ UNCHANGED <<account, loaded, stored, profile, chrome, pidFile, session>>

Boot(r) == LET a == control[r].on IN
    /\ On(r, {"provision"}, "boot") /\ lock' = {}
    /\ \/ /\ runtime' = [runtime EXCEPT ![a] = "running"]
          /\ loaded' = [loaded EXCEPT ![a] = stored[a]] /\ Finish(r)
       \/ runtime' = [runtime EXCEPT ![a] = "none"] /\ Fail(r) /\ UNCHANGED loaded
    /\ UNCHANGED <<account, stored, profile, chrome, pidFile, session>>

Rollback(r) == LET a == control[r].on IN
    /\ On(r, {"rollback"}, "lock") /\ lock = {}
    /\ IF stored[a] # 0 THEN Fail(r) /\ UNCHANGED runtime
                        ELSE runtime' = [runtime EXCEPT ![a] = "none"] /\ Finish(r)
    /\ UNCHANGED <<account, loaded, stored, profile, chrome, pidFile, session, lock>>

\* Another account's window keeps the only desktop.
DesktopTaken(a) == \E b \in Accounts \ {a} : runtime[b] # "none" /\ Browser(b) # "stopped"

\* What a thread does with the browser it finds.
FirstStep(act, a) == LET b == Browser(a) IN
    IF runtime[a] = "none" THEN "fail"
    ELSE IF act = "cancel" THEN "stop"
    ELSE IF act = "restart" THEN IF b = "ready" THEN "stop" ELSE "fail"
    ELSE IF act = "capture"
         THEN IF b = "ready" THEN "done" ELSE IF b = "manual" THEN "stop" ELSE "fail"
    ELSE IF b \in {"occupied", "starting"} \/ DesktopTaken(a) THEN "fail"
    ELSE IF a \in Claude /\ b = "ready" THEN "stop"
    ELSE IF a \notin Claude /\ b = "manual" THEN "fail" ELSE "launch"

Look(r) == LET step == FirstStep(control[r].act, control[r].on) IN
    /\ control[r].at = "look"
    /\ CASE step = "fail" -> Fail(r) [] step = "done" -> Finish(r) [] OTHER -> Goes(r, step)
    /\ UNCHANGED <<account, hostVars>>

AfterStop(act) == IF act \in {"open", "capture"} THEN "launch" ELSE "revoke"

\* --stop: SIGTERM to the process of the pid file, and then the file goes.
StopChrome(r) == LET a == control[r].on IN
    /\ control[r].at = "stop"
    /\ \/ pidFile[a] = "none" /\ Goes(r, AfterStop(control[r].act)) /\ UNCHANGED chrome
       \/ pidFile[a] = "dead" /\ Goes(r, "unlink") /\ UNCHANGED chrome
       \/ /\ pidFile[a] = "right" /\ Goes(r, "unlink")
          /\ chrome' = [chrome EXCEPT ![a] = "none"]
       \/ pidFile[a] = "right" /\ chrome[a] # "none" /\ Fail(r) /\ UNCHANGED chrome
    /\ UNCHANGED <<account, runtime, loaded, stored, profile, pidFile, session, lock>>

Unlink(r) ==
    /\ control[r].at = "unlink" /\ Goes(r, AfterStop(control[r].act))
    /\ pidFile' = [pidFile EXCEPT ![control[r].on] = "none"]
    /\ UNCHANGED <<account, runtime, loaded, stored, profile, chrome, session, lock>>

Wanted(act, a) == IF act = "open" /\ a \in Claude THEN "manual" ELSE "ready"
Opened(r) == IF control[r].act = "open" THEN Goes(r, "issue") ELSE Finish(r)

Launch(r) == LET a == control[r].on IN
    /\ control[r].at = "launch"
    /\ \/ Browser(a) = Wanted(control[r].act, a) /\ Opened(r)
       \/ Browser(a) = "stopped" /\ Goes(r, "spawn")
       \/ Browser(a) \notin {"stopped", Wanted(control[r].act, a)} /\ Fail(r)
    /\ UNCHANGED <<account, hostVars>>

\* A second Chrome on a profile hands over to the first and exits.
Spawn(r) == LET a == control[r].on IN
    /\ control[r].at = "spawn"
    /\ IF chrome[a] = "none"
       THEN /\ Goes(r, "pid")
            /\ chrome' = [chrome EXCEPT ![a] = IF Wanted(control[r].act, a) = "manual"
                                               THEN "manual" ELSE "starting"]
       ELSE Goes(r, "deadPid") /\ UNCHANGED chrome
    /\ UNCHANGED <<account, runtime, loaded, stored, profile, pidFile, session, lock>>

WritePid(r) == LET a == control[r].on IN
    /\ control[r].at \in {"pid", "deadPid"}
    /\ IF control[r].at = "pid" THEN Goes(r, "wait") ELSE Fail(r)
    /\ pidFile' = [pidFile EXCEPT ![a] = IF control[r].at = "pid" THEN "right" ELSE "dead"]
    /\ UNCHANGED <<account, runtime, loaded, stored, profile, chrome, session, lock>>

AwaitChrome(r) == LET a == control[r].on IN
    /\ control[r].at = "wait"
    /\ \/ chrome[a] = Wanted(control[r].act, a) /\ Opened(r)
       \/ Fail(r)
    /\ UNCHANGED <<account, hostVars>>

Revoked(a) == [s \in DOMAIN session |->
    IF session[s].on = a /\ session[s].is \in {"pending", "connection"}
    THEN Unused ELSE session[s]]

IssueSession(r) == LET a == control[r].on  left == Revoked(a) IN
    /\ control[r].at = "issue"
    /\ \E s \in DOMAIN session :
          /\ left[s] = Unused /\ \A t \in 1 .. s - 1 : left[t] # Unused
          /\ session' = [left EXCEPT ![s] = [on |-> a, is |-> "pending"]]
    /\ Finish(r)
    /\ UNCHANGED <<account, runtime, loaded, stored, profile, chrome, pidFile, lock>>

Revoke(r) ==
    /\ control[r].at = "revoke" /\ session' = Revoked(control[r].on)
    /\ IF control[r].act = "restart" THEN Goes(r, "service") ELSE Finish(r)
    /\ UNCHANGED <<account, runtime, loaded, stored, profile, chrome, pidFile, lock>>

RestartService(r) == LET a == control[r].on IN
    /\ control[r].at = "service"
    /\ \/ /\ runtime[a] # "none" /\ runtime' = [runtime EXCEPT ![a] = "running"]
          /\ loaded' = [loaded EXCEPT ![a] = stored[a]] /\ (Finish(r) \/ Fail(r))
       \/ Fail(r) /\ UNCHANGED <<runtime, loaded>>
    /\ UNCHANGED <<account, stored, profile, chrome, pidFile, session, lock>>

\* The service dies: its threads and lock are gone, the files stay.
ControlCrash ==
    /\ \E r \in Requests : control[r] # NoThread
    /\ control' = [r \in Requests |-> NoThread] /\ lock' = {}
    /\ request' = [r \in Requests |-> IF control[r] # NoThread THEN NoRequest ELSE request[r]]
    /\ verifying' = verifying \ {request[r].on : r \in {x \in Requests :
                                      control[x] # NoThread /\ request[x].op = "verify"}}
    /\ UNCHANGED <<account, runtime, loaded, stored, profile, chrome, pidFile, session>>

-----------------------------------------------------------------------------
(***************************************************************************)
(* The browser, the human in front of it and the desktop's broker.         *)
(***************************************************************************)
ChromeReady(a) ==
    /\ chrome[a] = "starting" /\ chrome' = [chrome EXCEPT ![a] = "ready"]
    /\ UNCHANGED <<account, runtime, loaded, stored, profile, pidFile, session, lock,
                   verifying, request, control>>

SignIn(a) ==
    /\ chrome[a] \in {"manual", "ready"} /\ profile[a] < MaxLogins
    /\ profile' = [profile EXCEPT ![a] = @ + 1]
    /\ UNCHANGED <<account, runtime, loaded, stored, chrome, pidFile, session, lock,
                   verifying, request, control>>

CloseWindow(a) ==
    /\ chrome[a] # "none" /\ chrome' = [chrome EXCEPT ![a] = "none"]
    /\ UNCHANGED <<account, runtime, loaded, stored, profile, pidFile, session, lock,
                   verifying, request, control>>

\* The link is exchanged for a cookie, the cookie used for one connection;
\* both expire.
SessionStep(s) ==
    /\ \/ session[s].is = "pending" /\ session' = [session EXCEPT ![s].is = "connection"]
       \/ session[s] # Unused /\ session' = [session EXCEPT ![s] = Unused]
    /\ UNCHANGED <<account, runtime, loaded, stored, profile, chrome, pidFile, lock,
                   verifying, request, control>>

-----------------------------------------------------------------------------
RouteStep(r) ==
    \/ \E op \in DOMAIN Script, a \in Accounts : Begin(r, op, a)
    \/ GatewayGivesUp(r) \/ Create(r) \/ Update(r) \/ BeginReauth(r) \/ Status(r)
    \/ CheckBrowser(r) \/ Grab(r) \/ Probe(r) \/ MarkProbe(r)

ControlStep(r) ==
    \/ Provision(r) \/ Boot(r) \/ Rollback(r) \/ Look(r) \/ StopChrome(r) \/ Unlink(r)
    \/ Launch(r) \/ Spawn(r) \/ WritePid(r) \/ AwaitChrome(r) \/ IssueSession(r) \/ Revoke(r)
    \/ RestartService(r)

LoginNext ==
    \/ \E r \in Requests : RouteStep(r) \/ ControlStep(r)
    \/ ControlCrash
    \/ \E a \in Accounts : ChromeReady(a) \/ SignIn(a) \/ CloseWindow(a)
    \/ \E s \in DOMAIN session : SessionStep(s)

LoginSpec == LoginInit /\ [][LoginNext]_loginVars

-----------------------------------------------------------------------------
(***************************************************************************)
(* Properties.                                                             *)
(***************************************************************************)
\* An account goes back to work after a verification only with a worker that
\* runs with the login captured last, whatever threads of earlier requests
\* still restart workers and stop browsers.
ReadyIsLoaded == \A a \in Accounts : account[a] = "ready" =>
    loaded[a] = stored[a] /\ (stored[a] = 0 => a \in Manual)

\* A worker that was up is taken down again only for an account that never
\* came to be; neither a failed login nor a repeated provision does it.
RuntimeKept == [][\A a \in Accounts : runtime[a] = "running" /\ runtime'[a] = "none" =>
    account[a] = "none" /\ stored[a] = 0]_loginVars

\* At most one link or cookie of an account opens the desktop, however many
\* requests have opened its window.
OneSession == \A s, t \in DOMAIN session :
    /\ session[s].is \in {"pending", "connection"} /\ session[t].is \in {"pending", "connection"}
    /\ session[s].on = session[t].on
    => s = t

\* Requests that log accounts in at the same time, outlive their clients and
\* undo each other leave a ready account its worker and its login, and the
\* desktop to one visitor (app.py, login_control.py, remote_browser_sessions.py).
LoginSafety == [](LoginTypeOK /\ ReadyIsLoaded /\ OneSession) /\ RuntimeKept
=============================================================================
