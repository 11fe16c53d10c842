----------------------------- MODULE SshSession -----------------------------
(***************************************************************************)
(* SshSession, its SshSessionWorker (src/ssh/src/ssh_session.cpp) and the  *)
(* SshTunnelHost that owns it (src/app/src/sshtunnelhost.cpp).             *)
(*                                                                         *)
(* The worker has a thread of its own, owns every libssh object and is     *)
(* reached only through its event queue `jobs`; what it reports goes       *)
(* through the event queue `events` of the UI thread.  A libssh call that  *)
(* waits for the network is a phase of the worker, so that the UI thread   *)
(* runs on meanwhile.  Module SshTunnel adds the tunnels, whose channels   *)
(* (`channel`) belong to the libssh session and are freed with it.         *)
(***************************************************************************)
EXTENDS Naturals, Sequences, FiniteSets

CONSTANTS
    Tunnels,      \* the SshTunnel objects of one behaviour
    NoTunnel,
    Keys,         \* host keys the jump host may present
    Pinned,       \* trustedHostKeyFingerprints
    Profiles,     \* surroundings, one per behaviour
    MaxOpens      \* bound on SshTunnelHost::setConfig(enabled)

\* What the user of a session may do beyond opening it.
Events == {"Reopen", "Disable", "DisableSettled", "Destroy", "CloseTunnel",
           "DeleteTunnel", "Full"}

\* `opener`: the tunnels are those of ssh_tunnel_opener.cpp, deleted by their signals.
ProfileType == [tunnels : SUBSET Tunnels, opener : BOOLEAN, events : SUBSET Events]

ASSUME SshAssumption ==
    /\ IsFiniteSet(Tunnels) /\ NoTunnel \notin Tunnels
    /\ Pinned \subseteq Keys
    /\ Profiles \subseteq ProfileType
    /\ MaxOpens \in Nat

VARIABLES
    profile,
    \* UI thread
    ui,          \* where it is: in its event loop, inside close(), or joining a thread
    object,      \* the SshSession: alive, disabled (deleteLater posted), gone
    state,       \* SshSession::Private::state
    host,        \* SshTunnelHost: m_awaitingHostKeyTrust, m_pendingHostKeyFingerprint
    accepted,    \* the keys the user has been shown and has accepted
    opens,       \* calls of setConfig(enabled)
    events,      \* event queue of the UI thread
    \* worker thread
    jobs,        \* event queue of the worker
    worker,      \* what it is doing, and for which tunnel
    session,     \* m_session: null, fresh (not authenticated), authed
    key,         \* the host key the server presented on m_session
    awaiting,    \* m_awaitingHostKeyTrust
    pendingKey,  \* m_pendingHostKeyFingerprint
    stop,        \* m_stopRequested
    quit,        \* QThread::quit() was called
    channel,     \* each tunnel's ssh_channel: none, live, freed, or lost: open, and
                 \* known to nobody any more
    \* history
    overtaken,   \* setConfig() has begun an attempt under an unanswered prompt
    deadUse      \* kinds of objects used after they were freed, or while null

uiVars      == <<ui, object, state, host, accepted, opens>>
libssh      == <<session, key, awaiting, pendingKey, channel, overtaken>>
sessionVars == <<profile, uiVars, events, jobs, worker, libssh, stop, quit, deadUse>>

NoKey   == "NoKey"
States  == {"Disconnected", "Connecting", "NeedsHostKeyTrust", "Authenticating",
            "Connected", "Failed"}
Calls   == {"write", "poll", "read", "eof", "free"}    \* a pump's blocking calls
Job(op, t)   == [op |-> op, t |-> t]
Event(k, v)  == [kind |-> k, val |-> v]
Doing(p, t)  == [at |-> p, t |-> t]
NoPrompt     == [awaiting |-> FALSE, key |-> NoKey]
InLoop       == [at |-> "loop", todo |-> <<>>, dtor |-> FALSE]
Idle         == Doing("idle", NoTunnel)

SessionInit ==
    /\ profile \in Profiles
    /\ ui = InLoop /\ object = "alive" /\ state = "Disconnected"
    /\ host = NoPrompt /\ accepted = {} /\ opens = 0
    /\ events = <<>> /\ jobs = <<>> /\ worker = Idle
    /\ session = "null" /\ key = NoKey /\ awaiting = FALSE /\ pendingKey = NoKey
    /\ stop = FALSE /\ quit = FALSE
    /\ channel = [t \in Tunnels |-> "none"] /\ overtaken = FALSE /\ deadUse = {}

-----------------------------------------------------------------------------
(***************************************************************************)
(* UI thread: SshTunnelHost and SshSession.                                *)
(***************************************************************************)

Settled == jobs = <<>> /\ events = <<>> /\ worker = Idle

\* setConfig(enabled) and SshSession::open().  Unless the profile says otherwise the
\* user configures the tunnel again only after the last attempt has failed.
SetConfigEnabled ==
    /\ ui.at = "loop" /\ object = "alive"
    /\ opens < MaxOpens
    /\ "Reopen" \in profile.events \/ (Settled /\ state \in {"Disconnected", "Failed"})
    /\ opens' = opens + 1
    /\ jobs' = Append(jobs, Job("open", NoTunnel))
    /\ UNCHANGED <<profile, ui, object, state, host, accepted, events, worker, libssh,
                   stop, quit, deadUse>>

\* setConfig(disabled): close() and deleteLater() of the session, the prompt withdrawn.
SetConfigDisabled ==
    /\ ui.at = "loop" /\ object = "alive"
    /\ \/ "Disable" \in profile.events
       \/ "DisableSettled" \in profile.events /\ Settled /\ opens > 0
    /\ object' = "disabled"
    /\ host' = NoPrompt
    /\ jobs' = Append(jobs, Job("close", NoTunnel))
    /\ events' = Append(events, Event("delete", NoTunnel))
    /\ UNCHANGED <<profile, ui, state, accepted, opens, worker, libssh, stop, quit, deadUse>>

\* SshTunnelHost::trustPendingHostKey(), from the dialog's accept button.
TrustPendingHostKey ==
    /\ ui.at = "loop" /\ object = "alive"
    /\ host.awaiting
    /\ accepted' = accepted \cup {host.key}
    /\ host' = NoPrompt
    /\ jobs' = Append(jobs, Job("trust", NoTunnel))
    /\ UNCHANGED <<profile, ui, object, state, opens, events, worker, libssh, stop, quit,
                   deadUse>>

NextEvent(k) == ui.at = "loop" /\ events # <<>> /\ Head(events).kind = k

\* stateChanged reaches SshSession, then the host, which asks m_session for the error
\* text of a failure: a null pointer once setConfig(disabled) has run.
HandleState ==
    /\ NextEvent("state")
    /\ events' = Tail(events)
    /\ IF object = "gone" THEN UNCHANGED <<state, deadUse>>
       ELSE /\ state' = Head(events).val
            /\ deadUse' = IF Head(events).val = "Failed" /\ object = "disabled"
                          THEN deadUse \cup {"host"} ELSE deadUse
    /\ UNCHANGED <<profile, ui, object, host, accepted, opens, jobs, worker, libssh, stop, quit>>

HandlePrompt ==
    /\ NextEvent("prompt")
    /\ events' = Tail(events)
    /\ host' = IF object = "gone" THEN host
               ELSE [awaiting |-> TRUE, key |-> Head(events).val]
    /\ UNCHANGED <<profile, ui, object, state, accepted, opens, jobs, worker, libssh, stop,
                   quit, deadUse>>

\* ~SshSession() once every tunnel has been closed: cancel, queue close(), quit.
StopWorker ==
    /\ ui.at = "closing" /\ ui.dtor /\ ui.todo = <<>>
    /\ stop' = TRUE /\ quit' = TRUE
    /\ jobs' = Append(jobs, Job("close", NoTunnel))
    /\ ui' = [ui EXCEPT !.at = "wait"]
    /\ UNCHANGED <<profile, object, state, host, accepted, opens, events, worker, libssh,
                   deadUse>>

Destroyed ==
    /\ ui.at = "wait" /\ worker.at = "exited"
    /\ ui' = InLoop /\ object' = "gone"
    /\ UNCHANGED <<profile, state, host, accepted, opens, events, jobs, worker, libssh, stop, quit,
                   deadUse>>

-----------------------------------------------------------------------------
(***************************************************************************)
(* Worker thread.                                                          *)
(***************************************************************************)

Freed == [t \in Tunnels |-> IF channel[t] \in {"live", "lost"} THEN "freed" ELSE channel[t]]

\* ssh_disconnect() and ssh_free(), which frees the channels of the session too.
FreeSession == session' = "null" /\ key' = NoKey /\ channel' = Freed

Takes(op) == worker = Idle /\ jobs # <<>> /\ Head(jobs).op = op

\* fail(): the waiting flag and the pending key stay as they are.
FailSession ==
    /\ FreeSession
    /\ events' = Append(events, Event("state", "Failed"))
    /\ worker' = Idle
    /\ UNCHANGED <<profile, uiVars, jobs, awaiting, pendingKey, overtaken, stop, quit, deadUse>>

\* open() up to the name lookup.  It does not look at the waiting flag.
WorkerOpen ==
    /\ Takes("open")
    /\ jobs' = Tail(jobs)
    /\ events' = Append(events, Event("state", "Connecting"))
    /\ session' = "fresh" /\ key' = NoKey /\ channel' = Freed
    /\ worker' = Doing("connect", NoTunnel)
    /\ overtaken' = (overtaken \/ awaiting)
    /\ UNCHANGED <<profile, uiVars, awaiting, pendingKey, stop, quit, deadUse>>

\* Lookup and ssh_connect() end: cancelled, failed, or with the server's key.
ConnectAborted ==
    /\ worker.at \in {"connect", "auth"} /\ stop
    /\ worker' = Idle
    /\ UNCHANGED <<profile, uiVars, events, jobs, libssh, stop, quit, deadUse>>

ConnectFails == worker.at \in {"connect", "auth"} /\ FailSession

VerifyAny(k) == TRUE

\* The fingerprint is in trustedHostKeyFingerprints.
VerifyPinned(k) == k \in Pinned

\* verifyHostKey(): on to the authentication, or pause and ask.
Connected(k) ==
    /\ worker.at = "connect"
    /\ key' = k
    /\ IF VerifyPinned(k)
       THEN /\ events' = Append(events, Event("state", "Authenticating"))
            /\ worker' = Doing("auth", NoTunnel)
            /\ UNCHANGED <<awaiting, pendingKey>>
       ELSE /\ events' = events \o <<Event("state", "NeedsHostKeyTrust"), Event("prompt", k)>>
            /\ worker' = Idle
            /\ awaiting' = TRUE /\ pendingKey' = k
    /\ UNCHANGED <<profile, uiVars, jobs, session, channel, overtaken, stop, quit, deadUse>>

\* proceedWithAuth() enters libssh without looking at m_session.
ResumeUnguarded ==
    /\ Takes("trust")
    /\ jobs' = Tail(jobs)
    /\ awaiting' = FALSE /\ pendingKey' = NoKey
    /\ events' = Append(events, Event("state", "Authenticating"))
    /\ worker' = Doing("auth", NoTunnel)
    /\ deadUse' = IF session = "null" THEN deadUse \cup {"session"} ELSE deadUse
    /\ UNCHANGED <<profile, uiVars, session, key, channel, overtaken, stop, quit>>

ResumeNoop ==
    /\ Takes("trust") /\ ~awaiting
    /\ jobs' = Tail(jobs)
    /\ UNCHANGED <<profile, uiVars, events, worker, libssh, stop, quit, deadUse>>

ResumeAfterHostKeyTrust == (awaiting /\ ResumeUnguarded) \/ ResumeNoop

Authenticated ==
    /\ worker.at = "auth"
    /\ session' = IF session = "null" THEN "null" ELSE "authed"
    /\ events' = Append(events, Event("state", "Connected"))
    /\ worker' = Idle
    /\ UNCHANGED <<profile, uiVars, jobs, key, awaiting, pendingKey, channel, overtaken, stop,
                   quit, deadUse>>

WorkerClose ==
    /\ Takes("close")
    /\ jobs' = Tail(jobs)
    /\ FreeSession
    /\ awaiting' = FALSE /\ pendingKey' = NoKey
    /\ events' = Append(events, Event("state", "Disconnected"))
    /\ UNCHANGED <<profile, uiVars, worker, overtaken, stop, quit, deadUse>>

\* The event loop leaves on quit(), which may drop what is still queued; the worker
\* is deleted with its session before the thread ends.
WorkerExits ==
    /\ worker = Idle /\ quit
    /\ worker' = Doing("exited", NoTunnel)
    /\ jobs' = <<>>
    /\ FreeSession
    /\ UNCHANGED <<profile, uiVars, events, awaiting, pendingKey, overtaken, stop, quit, deadUse>>

UiSession == SetConfigEnabled \/ SetConfigDisabled \/ TrustPendingHostKey
UiReacts  == HandleState \/ HandlePrompt \/ StopWorker \/ Destroyed
WorkerSession ==
    \/ WorkerOpen \/ ConnectAborted \/ ConnectFails \/ (\E k \in Keys : Connected(k))
    \/ ResumeAfterHostKeyTrust \/ Authenticated \/ WorkerClose \/ WorkerExits
=============================================================================
