----------------------------- MODULE MCServices -----------------------------
(***************************************************************************)
(* Small instances of four services of the server process that share no    *)
(* state: the persistent upstream sessions, the OAuth logins, the          *)
(* dashboard and the chat completions translation.  focus says whose steps *)
(* a behaviour takes.                                                      *)
(***************************************************************************)
EXTENDS UpstreamSessions, OAuthLogin, Dashboard, ChatCompletions

VARIABLE focus

vars == <<upstreamVars, oauthVars, dashVars, chatVars, focus>>

Init ==
    /\ focus \in {"sessions", "oauth", "dashboard", "chat"}
    /\ SessionsInit /\ ChatInit
    /\ OAuthInit /\ (focus # "oauth" => hasAccount = FALSE)
    /\ DashInit /\ (focus # "dashboard" => settings.number = 1 /\ settings.schema = 1)

Next ==
    \/ /\ focus = "sessions" /\ SessionsNext
       /\ UNCHANGED <<oauthVars, dashVars, chatVars, focus>>
    \/ /\ focus = "oauth" /\ OAuthNext
       /\ UNCHANGED <<upstreamVars, dashVars, chatVars, focus>>
    \/ /\ focus = "dashboard" /\ DashNext
       /\ UNCHANGED <<upstreamVars, oauthVars, chatVars, focus>>
    \/ /\ focus = "chat" /\ ChatNext
       /\ UNCHANGED <<upstreamVars, oauthVars, dashVars, focus>>

\* Codes expire while no thread is being joined: a join is released by the
\* request to stop and not by the minutes a code lives.
Joining == thread["loop"].pc \in {"starting", "stopping", "spawning"}

Fairness ==
    /\ \A r \in UReqs : WF_upstreamVars(focus = "sessions" /\ RequestStep(r))
    /\ WF_oauthVars(focus = "oauth" /\ LoopContinues)
    /\ \A t \in {"loop", "callback"} : WF_oauthVars(focus = "oauth" /\ CallbackContinues(t))
    /\ \A p \in Pollers : WF_oauthVars(focus = "oauth" /\ PollerStep(p))
    /\ \A i \in LoginIds : WF_oauthVars(focus = "oauth" /\ ~Joining /\ DeviceCodeExpires(i))

Spec == Init /\ [][Next]_vars /\ Fairness

=============================================================================
