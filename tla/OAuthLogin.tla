----------------------------- MODULE OAuthLogin -----------------------------
(* OauthService: one login in progress for the whole process, in a struct   *)
(* under oauth_mutex().  Three kinds of thread use it: the event loop that   *)
(* serves /api/oauth/*, the loop of the callback listener that serves        *)
(* /auth/callback, and a poll thread that asks the provider for the tokens   *)
(* of a device login.  The mutex is released around every call to the        *)
(* provider, around saving the account, and around joining the poll thread.  *)
(* A login is a number; its state token, verifier, device code and expiry    *)
(* carry that number, 0 where the code has nullopt.                          *)
EXTENDS Naturals, FiniteSets

CONSTANTS
    MaxLogins,  \* bound: logins started in one behaviour
    Pollers,    \* names for the poll threads that exist at one time
    NoPoller

ASSUME OAuthAssumption == MaxLogins \in Nat /\ NoPoller \notin Pollers

VARIABLES
    login,      \* oauth_state()
    logins,     \* logins started so far
    expired,    \* the logins whose expires_at has passed
    hasAccount, \* the accounts table has a row
    handle,     \* poll_thread_state(), NoPoller when it is not joinable
    poller,     \* the poll threads
    thread      \* where the two event loops are inside a handler

oauthVars == <<login, logins, expired, hasAccount, handle, poller, thread>>

LoginIds == 1..MaxLogins
LoopIdle == [pc |-> "idle", join |-> NoPoller]
NoThread == [pc |-> "none", stop |-> FALSE, expires |-> 0]

OAuthState == [status |-> "idle", method |-> "none", token |-> 0,
               device |-> 0, expires |-> 0, poll_active |-> FALSE]

OAuthInit ==
    /\ login = OAuthState
    /\ logins = 0
    /\ expired = {}
    /\ hasAccount \in BOOLEAN
    /\ handle = NoPoller
    /\ poller = [p \in Pollers |-> NoThread]
    /\ thread = [t \in {"loop", "callback"} |-> LoopIdle]

SetSuccess(l) == [l EXCEPT !.status = "success"]
SetError(l) == [l EXCEPT !.status = "error"]
ReportedStatus(l) == IF l.status = "idle" THEN "pending" ELSE l.status

-----------------------------------------------------------------------------
(* What the provider client makes of an HTTP answer.                         *)

Answers == [sent : BOOLEAN, status : {200, 403, 404, 400},
            body : {"pending", "code", "code_verifier", "tokens", "other"}]

ParseTokenResponse(a) == IF a.status < 400 /\ a.body = "tokens" THEN "tokens" ELSE "error"
ExchangeAuthorizationCode(a) == IF a.sent THEN ParseTokenResponse(a) ELSE "error"
RequestDeviceCode(a) == a.sent /\ a.status < 400 /\ a.body = "code"

ExchangeDeviceToken(a) ==
    CASE ~a.sent -> "error"
      [] a.sent /\ (a.status \in {403, 404} \/ a.body = "pending") -> "pending"
      [] a.sent /\ a.status = 200 /\ a.body = "code_verifier" -> "authorization_code"
      [] OTHER -> ParseTokenResponse(a)

-----------------------------------------------------------------------------
(* Handlers on the event loop.                                               *)

Idle(t) == thread[t].pc = "idle"
ThreadAt(t, pc) == thread' = [thread EXCEPT ![t].pc = pc]

(* start() without a method, when an account exists: an answer of success,   *)
(* and a fresh state under a poll thread that may still run.                 *)
StartFindsAccounts ==
    /\ Idle("loop") /\ hasAccount
    /\ login' = [OAuthState EXCEPT !.status = "success", !.method = "browser"]
    /\ UNCHANGED <<logins, expired, hasAccount, handle, poller, thread>>

StartDevice ==
    /\ Idle("loop") /\ logins < MaxLogins
    /\ \E a \in Answers : RequestDeviceCode(a)
    /\ logins' = logins + 1
    /\ login' = [OAuthState EXCEPT !.status = "pending", !.method = "device",
                                   !.device = logins', !.expires = logins']
    /\ UNCHANGED <<expired, hasAccount, handle, poller, thread>>

StopPollThread_NoStop(next) ==
    /\ handle' = NoPoller
    /\ poller' = poller
    /\ login' = [login EXCEPT !.poll_active = FALSE]
    /\ thread' = [thread EXCEPT !["loop"] = [LoopIdle EXCEPT !.pc = next, !.join = handle]]

StopPollThread_Detach(next) ==
    /\ handle' = NoPoller
    /\ poller' = [p \in Pollers |-> IF p = handle THEN [poller[p] EXCEPT !.stop = TRUE] ELSE poller[p]]
    /\ login' = [login EXCEPT !.poll_active = FALSE]
    /\ thread' = [thread EXCEPT !["loop"] = [LoopIdle EXCEPT !.pc = next]]

StopPollThread(next) ==
    /\ handle' = NoPoller
    /\ poller' = [p \in Pollers |-> IF p = handle THEN [poller[p] EXCEPT !.stop = TRUE] ELSE poller[p]]
    /\ login' = [login EXCEPT !.poll_active = FALSE]
    /\ thread' = [thread EXCEPT !["loop"] = [LoopIdle EXCEPT !.pc = next, !.join = handle]]

Joined == \A p \in Pollers : p = thread["loop"].join => poller[p].pc = "none"

(* start("browser") and restart(): the old poll thread is joined first.      *)
StartBrowser ==
    /\ Idle("loop") /\ logins < MaxLogins
    /\ StopPollThread("starting")
    /\ UNCHANGED <<logins, expired, hasAccount>>

BrowserStarted ==
    /\ thread["loop"].pc = "starting" /\ Joined
    /\ logins' = logins + 1
    /\ login' = [OAuthState EXCEPT !.status = "pending", !.method = "browser", !.token = logins']
    /\ thread' = [thread EXCEPT !["loop"] = LoopIdle]
    /\ UNCHANGED <<expired, hasAccount, handle, poller>>

OauthStop ==
    /\ Idle("loop")
    /\ StopPollThread("stopping")
    /\ UNCHANGED <<logins, expired, hasAccount>>

OauthStopped ==
    /\ thread["loop"].pc = "stopping" /\ Joined
    /\ login' = [login EXCEPT !.status = IF login.method = "none" THEN @ ELSE "stopped",
                              !.token = 0]
    /\ thread' = [thread EXCEPT !["loop"] = LoopIdle]
    /\ UNCHANGED <<logins, expired, hasAccount, handle, poller>>

(* complete(): the codes of the request, 0 when it names none, replace the   *)
(* stored ones before any of the checks.                                     *)
Complete(d) ==
    LET l == IF d = 0 THEN login ELSE [login EXCEPT !.device = d]
        answered == l.status = "success" \/ l.method # "device" \/ l.poll_active
        refused == l.device = 0 \/ l.expires = 0 \/ l.expires \in expired
    IN  /\ Idle("loop")
        /\ \/ answered /\ login' = l /\ thread' = thread
           \/ ~answered /\ refused /\ login' = SetError(l) /\ thread' = thread
           \/ /\ ~answered /\ ~refused
              /\ login' = [l EXCEPT !.poll_active = TRUE]
              /\ ThreadAt("loop", "completing")
        /\ UNCHANGED <<logins, expired, hasAccount, handle, poller>>

(* Outside the mutex: request_stop() and join() on the thread of an earlier  *)
(* complete(), then a new thread in its place.                               *)
CompleteStopsOld ==
    /\ thread["loop"].pc = "completing"
    /\ poller' = [p \in Pollers |-> IF p = handle THEN [poller[p] EXCEPT !.stop = TRUE] ELSE poller[p]]
    /\ thread' = [thread EXCEPT !["loop"] = [LoopIdle EXCEPT !.pc = "spawning", !.join = handle]]
    /\ UNCHANGED <<login, logins, expired, hasAccount, handle>>

CompleteSpawns ==
    /\ thread["loop"].pc = "spawning" /\ Joined
    /\ \E p \in Pollers :
         /\ poller[p].pc = "none"
         /\ poller' = [poller EXCEPT ![p] = [NoThread EXCEPT !.pc = "loop"]]
         /\ handle' = p
    /\ thread' = [thread EXCEPT !["loop"] = LoopIdle]
    /\ UNCHANGED <<login, logins, expired, hasAccount>>

-----------------------------------------------------------------------------
(* run_device_poll_loop.                                                     *)

PollerEnds(p) == poller' = [poller EXCEPT ![p] = NoThread]
PollerGoes(p, pc) == poller' = [poller EXCEPT ![p].pc = pc]

PollChecksStop(p) ==
    /\ poller[p].pc = "loop"
    /\ IF poller[p].stop THEN PollerEnds(p) ELSE PollerGoes(p, "read")
    /\ UNCHANGED <<login, logins, expired, hasAccount, handle, thread>>

PollReads(p) ==
    /\ poller[p].pc = "read"
    /\ \/ /\ login.device = 0 \/ login.expires = 0
          /\ login' = [SetError(login) EXCEPT !.poll_active = FALSE]
          /\ PollerEnds(p)
       \/ /\ login.device # 0 /\ login.expires # 0
          /\ poller' = [poller EXCEPT ![p].pc = "expiry", ![p].expires = login.expires]
          /\ UNCHANGED login
    /\ UNCHANGED <<logins, expired, hasAccount, handle, thread>>

PollChecksExpiry(p) ==
    /\ poller[p].pc = "expiry"
    /\ IF poller[p].expires \in expired
       THEN login' = [SetError(login) EXCEPT !.poll_active = FALSE] /\ PollerEnds(p)
       ELSE PollerGoes(p, "exchange") /\ UNCHANGED login
    /\ UNCHANGED <<logins, expired, hasAccount, handle, thread>>

(* A pending answer sleeps and loops; tokens, or a code exchanged for them,  *)
(* are saved; every other outcome, saving included, ends in an error.        *)
PollExchanges(p, kind, exchanged) ==
    /\ poller[p].pc = "exchange"
    /\ LET tokens == kind = "tokens" \/ (kind = "authorization_code" /\ exchanged = "tokens")
       IN  \/ kind = "pending" /\ PollerGoes(p, "loop") /\ UNCHANGED <<login, hasAccount>>
           \/ tokens /\ hasAccount' = TRUE /\ PollerGoes(p, "saved") /\ UNCHANGED login
           \/ /\ kind # "pending"
              /\ login' = [SetError(login) EXCEPT !.poll_active = FALSE]
              /\ PollerEnds(p) /\ UNCHANGED hasAccount
    /\ UNCHANGED <<logins, expired, handle, thread>>

PollSucceeds(p) ==
    /\ poller[p].pc = "saved"
    /\ login' = [SetSuccess(login) EXCEPT !.poll_active = FALSE]
    /\ PollerEnds(p)
    /\ UNCHANGED <<logins, expired, hasAccount, handle, thread>>

-----------------------------------------------------------------------------
(* manual_callback on the event loop, browser_callback on either loop: the   *)
(* parameters are an error, or a code with a state token (0 when missing).   *)

CallbackError(t) ==
    /\ Idle(t)
    /\ login' = SetError(login)
    /\ UNCHANGED <<logins, expired, hasAccount, handle, poller, thread>>

CallbackReads(t, code, state) ==
    /\ Idle(t)
    /\ LET valid == code /\ state # 0 /\ login.token # 0 /\ state = login.token
       IN  ThreadAt(t, IF valid THEN "exchange" ELSE "invalid")
    /\ UNCHANGED <<login, logins, expired, hasAccount, handle, poller>>

CallbackRejects(t) ==
    /\ thread[t].pc = "invalid"
    /\ login' = SetError(login)
    /\ thread' = [thread EXCEPT ![t] = LoopIdle]
    /\ UNCHANGED <<logins, expired, hasAccount, handle, poller>>

PersistTokens(t) == hasAccount' = TRUE /\ ThreadAt(t, "saved") /\ UNCHANGED login

CallbackExchanges(t, exchanged) ==
    /\ thread[t].pc = "exchange"
    /\ \/ exchanged = "tokens" /\ PersistTokens(t)
       \/ login' = SetError(login) /\ thread' = [thread EXCEPT ![t] = LoopIdle] /\ UNCHANGED hasAccount
    /\ UNCHANGED <<logins, expired, handle, poller>>

CallbackSucceeds(t) ==
    /\ thread[t].pc = "saved"
    /\ login' = SetSuccess(login)
    /\ thread' = [thread EXCEPT ![t] = LoopIdle]
    /\ UNCHANGED <<logins, expired, hasAccount, handle, poller>>

DeviceCodeExpires(i) ==
    /\ i <= logins /\ i \notin expired
    /\ expired' = expired \cup {i}
    /\ UNCHANGED <<login, logins, hasAccount, handle, poller, thread>>

-----------------------------------------------------------------------------
LoopContinues == BrowserStarted \/ OauthStopped \/ CompleteStopsOld \/ CompleteSpawns
CallbackContinues(t) ==
    \/ CallbackRejects(t) \/ CallbackSucceeds(t)
    \/ \E exchanged \in {ExchangeAuthorizationCode(a) : a \in Answers} : CallbackExchanges(t, exchanged)
PollerStep(p) ==
    \/ PollChecksStop(p) \/ PollReads(p) \/ PollChecksExpiry(p) \/ PollSucceeds(p)
    \/ \E kind \in {ExchangeDeviceToken(a) : a \in Answers},
         exchanged \in {ExchangeAuthorizationCode(a) : a \in Answers} : PollExchanges(p, kind, exchanged)

(* The routes of /api/oauth and /auth/callback.                              *)
OauthRoutes ==
    \/ StartFindsAccounts \/ StartDevice \/ StartBrowser \/ OauthStop
    \/ \E d \in 0..logins : Complete(d)
    \/ \E t \in {"loop", "callback"} :
         CallbackError(t) \/ \E code \in BOOLEAN, state \in 0..logins : CallbackReads(t, code, state)

OAuthNext ==
    \/ OauthRoutes \/ LoopContinues
    \/ \E t \in {"loop", "callback"} : CallbackContinues(t)
    \/ \E p \in Pollers : PollerStep(p)
    \/ \E i \in LoginIds : DeviceCodeExpires(i)

(* The provider answers or its client times out, threads are scheduled, and  *)
(* the clock runs.                                                           *)
OAuthFairness ==
    /\ WF_oauthVars(LoopContinues)
    /\ \A t \in {"loop", "callback"} : WF_oauthVars(CallbackContinues(t))
    /\ \A p \in Pollers : WF_oauthVars(PollerStep(p))
    /\ \A i \in LoginIds : WF_oauthVars(DeviceCodeExpires(i))

OAuthSpec == OAuthInit /\ [][OAuthNext]_oauthVars /\ OAuthFairness

-----------------------------------------------------------------------------
OAuthTypeOK ==
    /\ login \in [status : {"idle", "pending", "success", "error", "stopped"},
                  method : {"none", "browser", "device"}, token : 0..MaxLogins,
                  device : 0..MaxLogins, expires : 0..MaxLogins, poll_active : BOOLEAN]
    /\ logins \in 0..MaxLogins /\ expired \subseteq LoginIds /\ hasAccount \in BOOLEAN
    /\ handle \in Pollers \cup {NoPoller}
    /\ poller \in [Pollers -> [pc : {"none", "loop", "read", "expiry", "exchange", "saved"},
                               stop : BOOLEAN, expires : 0..MaxLogins]]
    /\ thread \in [{"loop", "callback"} ->
                     [pc : {"idle", "starting", "stopping", "completing", "spawning",
                            "invalid", "exchange", "saved"},
                      join : Pollers \cup {NoPoller}]]

(* A login reported as successful has left an account in the table, whoever  *)
(* reports it: the poll thread, a callback, or start() that finds one.       *)
SuccessHasAccount == login.status = "success" => hasAccount

(* Every running poll thread is the one the handle names or one that the     *)
(* event loop is joining: stop(), a new login and a second complete() never  *)
(* leave a thread that nobody can stop.                                      *)
NoOrphanPoller ==
    \A p \in Pollers : poller[p].pc # "none" =>
        p = handle \/ (p = thread["loop"].join /\ thread["loop"].pc # "idle")

(* poll_active, which makes complete() do nothing, is set only while a poll  *)
(* thread runs or complete() is about to start one: otherwise the login      *)
(* could never be completed.                                                 *)
PollActiveHasPoller ==
    login.poll_active =>
        \/ \E p \in Pollers : poller[p].pc # "none"
        \/ thread["loop"].pc \in {"completing", "spawning"}

(* The event loop, which serves every other route too, is released from      *)
(* joining a poll thread although the provider may answer pending for ever.  *)
LoopIsReleased == thread["loop"].pc # "idle" ~> thread["loop"].pc = "idle"

(* A device login that nobody authorises ends: polling stops at the expiry.  *)
DevicePollEnds == login.poll_active ~> ~login.poll_active

(* The login state, the accounts and the poll threads agree.                *)
LoginSafety == OAuthTypeOK /\ SuccessHasAccount /\ NoOrphanPoller /\ PollActiveHasPoller

(* Nothing waits for a login for ever: neither the event loop that joins a  *)
(* poll thread nor a poll that nobody answers.                              *)
LoginsEnd == LoopIsReleased /\ DevicePollEnds
=============================================================================
