--------------------------- MODULE RedirController ---------------------------
(***************************************************************************)
(* SolController, KvmController and IderController: the controller a panel *)
(* binds to, which owns a RedirectionClient, one session on top of it and  *)
(* an SSH tunnel host.  The three are the same machine up to what their    *)
(* session does; `kind` says which one this is.                            *)
(*                                                                         *)
(* The client is the channel of RedirChannel.  Signals are direct calls:   *)
(* an action carries the whole cascade of slots that one event sets off.   *)
(* Each action here leaves the session's own variables to the module that  *)
(* composes it with the session (RedirSessions).                           *)
(***************************************************************************)
EXTENDS RedirChannel

Kinds == {"Sol", "Kvm", "Ider"}

\* Bounds, one for each kind of controller.
CONSTANTS
    MaxOpens,      \* presses of Connect
    MaxSshCalls,   \* calls of setSshConfig()
    MaxChatter     \* frames a device sends of its own accord on one link

ASSUME ControllerAssumption ==
    /\ MaxOpens \in [Kinds -> Nat]
    /\ MaxSshCalls \in [Kinds -> Nat]
    /\ MaxChatter \in [Kinds -> Nat]

VARIABLES
    kind,       \* which controller and session
    ctl,        \* m_state: Disconnected, Connecting, AwaitingTrust, Authenticating,
                \* Opening (KVM: Negotiating), Connected (IDE-R: Running) or Failed
    err,        \* m_lastError is not empty
    deferred,   \* m_openDeferred
    ssh,        \* the tunnel host: off, connecting, asking, up or broken
    toDev,      \* frames the session wrote on the current link, unread
    draining,   \* the session is inside drainInbox()
    opens, sshCalls, chatter

bounds  == <<opens, sshCalls, chatter>>
ctlVars == <<kind, ctl, err, deferred, ssh, toDev, draining, bounds>>

ControllerInit ==
    /\ ChannelInit
    /\ kind \in Kinds
    /\ ctl = "Disconnected"
    /\ err = FALSE
    /\ deferred = FALSE
    /\ ssh = "Off"
    /\ toDev = <<>>
    /\ draining = FALSE
    /\ opens = 0
    /\ sshCalls = 0
    /\ chatter = 0

Live == {"Dialling", "Asking", "Open"}

-----------------------------------------------------------------------------
(***************************************************************************)
(* open(), close() and the tunnel host.                                    *)
(***************************************************************************)

\* teardown(): client and session are cut off from the controller and deleted.
Teardown(newLink) ==
    /\ link' = newLink
    /\ wire' = <<>>
    /\ inbox' = <<>>
    /\ toDev' = <<>>

\* open() past the check of the tunnel: a new client dials, through the opener when
\* there is an SSH session; without a host or an ISO path nothing is dialled.
DialNew(viaSsh, complete) ==
    /\ deferred' = FALSE
    /\ IF complete
       THEN /\ Teardown("Dialling")
            /\ owed' = IF viaSsh THEN 1 ELSE 0
            /\ err' = FALSE
            /\ ctl' = "Connecting"
       ELSE /\ Teardown("Down")
            /\ owed' = 0
            /\ err' = TRUE
            /\ ctl' = "Failed"
    /\ chatter' = MaxChatter[kind]

\* The panel's button opens only from these states, and closes from all others.
MayOpen == ~draining /\ ctl \in {"Disconnected", "Failed"} /\ opens < MaxOpens[kind]

OpenNow(complete) ==
    /\ MayOpen
    /\ ssh \in {"Off", "Up"}
    /\ opens' = opens + 1
    /\ DialNew(ssh = "Up", complete)
    /\ UNCHANGED <<kind, ssh, draining, sshCalls>>

\* The tunnel is enabled and not connected: the dial waits for connectedChanged,
\* and whatever client there is stays.
OpenDeferred ==
    /\ MayOpen
    /\ ssh \notin {"Off", "Up"}
    /\ opens' = opens + 1
    /\ deferred' = TRUE
    /\ err' = FALSE
    /\ ctl' = "Connecting"
    /\ UNCHANGED <<chan, kind, ssh, toDev, draining, sshCalls, chatter>>

Close ==
    /\ ~draining
    /\ ctl \notin {"Disconnected", "Failed"}
    /\ Teardown("Down")
    /\ owed' = 0
    /\ ctl' = "Disconnected"
    /\ UNCHANGED <<kind, err, deferred, ssh, draining, bounds>>

\* setSshConfig(): on, the host's session (re)opens; off, it is closed.
SetSshConfig(enabled) ==
    /\ ~draining
    /\ sshCalls < MaxSshCalls[kind]
    /\ sshCalls' = sshCalls + 1
    /\ enabled \/ ssh # "Off"
    /\ ssh' = IF enabled THEN "Connecting" ELSE "Off"
    /\ UNCHANGED <<chan, kind, ctl, err, deferred, toDev, draining, opens, chatter>>

\* hostKeyPromptRequired and trustPendingSshHostKey().
SshHostKeyPrompt ==
    /\ ~draining
    /\ ssh = "Connecting"
    /\ ssh' = "Asking"
    /\ UNCHANGED <<chan, kind, ctl, err, deferred, toDev, draining, bounds>>

TrustPendingSshHostKey ==
    /\ ~draining
    /\ ssh = "Asking"
    /\ ssh' = "Connecting"
    /\ UNCHANGED <<chan, kind, ctl, err, deferred, toDev, draining, bounds>>

\* The SSH session fails or drops; no slot of the controller looks at that.
SshBroken(from) ==
    /\ ~draining
    /\ ssh = from
    /\ ssh' = "Broken"
    /\ UNCHANGED <<chan, kind, ctl, err, deferred, toDev, draining, bounds>>

\* Mutant: the slot compares with the old value and misses the change.
SshConnectedForgotten(complete) ==
    /\ ~draining
    /\ ssh = "Connecting"
    /\ ssh' = "Up"
    /\ complete
    /\ UNCHANGED <<chan, ctl, err, deferred, toDev, chatter>>
    /\ UNCHANGED <<kind, draining, opens, sshCalls>>

\* connectedChanged with the tunnel up: a deferred open is made now.
SshConnected(complete) ==
    /\ ~draining
    /\ ssh = "Connecting"
    /\ ssh' = "Up"
    /\ IF deferred
       THEN DialNew(TRUE, complete)
       ELSE complete /\ UNCHANGED <<chan, ctl, err, deferred, toDev, chatter>>
    /\ UNCHANGED <<kind, draining, opens, sshCalls>>

-----------------------------------------------------------------------------
(***************************************************************************)
(* The client's signals.                                                   *)
(***************************************************************************)

\* The tunnel opener's callback brings the socket; the handshake may start.
TunnelOpened ==
    /\ ~draining
    /\ owed = 1
    /\ Adopt
    /\ owed' = 0
    /\ ctl' = "Connecting"
    /\ UNCHANGED <<kind, err, deferred, ssh, toDev, draining, bounds>>

\* stateChanged while the client authenticates, also while a prompt is open.
AuthProgress ==
    /\ ~draining
    /\ link \in {"Dialling", "Asking"} /\ owed = 0
    /\ ctl \in {"Connecting", "AwaitingTrust"}
    /\ link' = "Dialling"
    /\ ctl' = "Authenticating"
    /\ UNCHANGED <<wire, inbox, owed, kind, err, deferred, ssh, toDev, draining, bounds>>

TrustPromptRequired ==
    /\ ~draining
    /\ owed = 0
    /\ ctl = "Connecting"
    /\ Ask
    /\ ctl' = "AwaitingTrust"
    /\ UNCHANGED <<kind, err, deferred, ssh, toDev, draining, bounds>>

TrustPendingCert ==
    /\ ~draining
    /\ ctl = "AwaitingTrust"
    /\ Proceed
    /\ ctl' = "Authenticating"
    /\ UNCHANGED <<kind, err, deferred, ssh, toDev, draining, bounds>>

\* authenticated: the session starts; `opened` says whether start() succeeds, with
\* `first` its first frame and `hello` the device's.
Authenticated(opened, first, hello) ==
    /\ ~draining
    /\ owed = 0
    /\ wire' = hello
    /\ inbox' = <<>>
    /\ Establish
    /\ toDev' = first
    /\ ctl' = IF opened THEN "Opening" ELSE "Failed"
    /\ err' = (err \/ ~opened)
    /\ UNCHANGED <<kind, deferred, ssh, draining, bounds>>

\* failed: the session hears it first and closes; KVM's closed slot hangs up too.
\* The controller's own slot comes last and sets Failed.
ClientFailed ==
    /\ ~draining
    /\ link \in Live
    /\ link' = IF kind = "Kvm" THEN "Down" ELSE "Failed"
    /\ wire' = <<>>
    /\ owed' = 0
    /\ inbox' = inbox
    /\ ctl' = "Failed"
    /\ err' = TRUE
    /\ UNCHANGED <<kind, deferred, ssh, toDev, draining, bounds>>

\* Mutant: a clean close of the peer leaves the panel connected.
RemoteClosedUnseen ==
    /\ ~draining
    /\ RemoteClose
    /\ ctl' = IF kind = "Kvm" /\ ~err THEN "Disconnected" ELSE ctl
    /\ UNCHANGED <<kind, err, deferred, ssh, toDev, draining, bounds>>

\* remoteClosed after stateChanged(Disconnected).
RemoteClosed ==
    /\ ~draining
    /\ RemoteClose
    /\ ctl' = "Disconnected"
    /\ UNCHANGED <<kind, err, deferred, ssh, toDev, draining, bounds>>

-----------------------------------------------------------------------------
(***************************************************************************)
(* What a session does to its client and its controller.                   *)
(***************************************************************************)

\* rawBytes(): the session appends the bytes and drains.
RawBytes ==
    /\ ~draining
    /\ Deliver
    /\ draining' = TRUE
    /\ UNCHANGED <<kind, ctl, err, deferred, ssh, toDev, bounds>>

\* closed(reason) of a session that fails by itself.  Only KVM drops the transport,
\* and a client that was not down already then reports Disconnected.
SessionClosed ==
    /\ err' = TRUE
    /\ IF kind = "Kvm" /\ link # "Down"
       THEN ctl' = "Disconnected" /\ link' = "Down" /\ wire' = <<>>
       ELSE ctl' = "Failed" /\ UNCHANGED <<link, wire>>

\* writeRaw() accepts bytes only on an open link.
CanSend == link = "Open"

\* A frame of the device: an answer to the first frame of toDev, or chatter.
Answer(ts) ==
    /\ ~draining
    /\ link = "Open"
    /\ toDev # <<>>
    /\ toDev' = Tail(toDev)
    /\ wire' = wire \o ts
    /\ UNCHANGED <<link, inbox, owed, kind, ctl, err, deferred, ssh, draining, bounds>>

Chatter(t) ==
    /\ ~draining
    /\ chatter > 0
    /\ chatter' = chatter - 1
    /\ Transmit(t)
    /\ UNCHANGED <<kind, ctl, err, deferred, ssh, toDev, draining, opens, sshCalls>>
=============================================================================
