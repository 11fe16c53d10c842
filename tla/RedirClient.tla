---------------------------- MODULE RedirClient ----------------------------
(***************************************************************************)
(* RedirectionClient (src/redir/src/redir_client.cpp): the state machine   *)
(* that takes a TCP, TLS or SSH-tunnelled socket to an Intel AMT device    *)
(* through the redirection selector, the session start and the digest      *)
(* authentication, and then hands the byte stream to SOL, IDE-R or KVM.    *)
(*                                                                         *)
(* Everything runs on the Qt event loop: an action is one slot or one      *)
(* public call, run to completion.  The loop of drainInbox() is unrolled:  *)
(* while `draining` holds, only Drain actions are enabled, one per         *)
(* iteration.                                                              *)
(*                                                                         *)
(* The device's side of the stream is a sequence of tokens fixed when the  *)
(* socket is created.  A frame is two tokens, its kind and "tail", so that *)
(* TCP may cut it in half or glue several together: a readyRead delivers   *)
(* any non-empty prefix of what the device has sent.                       *)
(***************************************************************************)
EXTENDS Naturals, Sequences

CONSTANTS
    Certs,        \* fingerprints a TLS peer may present
    Pinned,       \* fingerprints trusted before the connect
    Scripts,      \* token streams a device may send, from the n-th connectTo() on
    Configs,      \* the setter calls made before connectTo()
    MaxConnects   \* bound on the calls of connectTo()

(***************************************************************************)
(* Frames by what the parser tells apart: the tag byte, and for 0x14 the   *)
(* status, the advertised auth types and the presence of realm and nonce.  *)
(* "Malformed" is a 0x14 frame tryParseAuthReply() never accepts: a length *)
(* over 64 KB, or a length-prefixed string that overruns the body.         *)
(***************************************************************************)
StartFrames == {"StartOk", "StartRefused"}
AuthFrames  == {"Caps", "CapsNoDigest", "Challenge", "Accept", "Reject", "Malformed"}
Frames      == StartFrames \cup AuthFrames \cup {"KvmReply", "App"}
Tokens      == Frames \cup {"tail"}

\* reply.status of a 0x14 frame: a challenge says 1, success says 0, and so does
\* the answer to the auth-type query.
AuthStatus(f) == CASE f \in {"Caps", "CapsNoDigest", "Accept"} -> 0
                   [] f = "Challenge" -> 1
                   [] OTHER -> 2

HasDigestWithQop(f) == f = "Caps"
HasRealmAndNonce(f) == f = "Challenge"

ConfigType == [protocol : {"Sol", "Kvm", "Ider"}, tls : BOOLEAN, tunnel : BOOLEAN,
               user : BOOLEAN, eager : BOOLEAN]

NoCert == "NoCert"     \* QSslSocket::peerCertificate() is null

ASSUME RedirAssumption ==
    /\ Pinned \subseteq Certs
    /\ NoCert \notin Certs
    /\ MaxConnects \in Nat
    /\ \A n \in 1..MaxConnects : Scripts[n] \subseteq Seq(Tokens)
    /\ Configs \subseteq ConfigType

VARIABLES
    cfg,            \* protocol, TLS, tunnel opener, credentials; and whether the
                    \* device talks without waiting for the client (eager)
    state,          \* m_state
    sock,           \* m_socket and its QAbstractSocket state
    inbox,          \* m_inbox
    awaitingTrust,  \* m_awaitingTrust
    pendingCert,    \* m_pendingPeerCert
    trusted,        \* m_trustedFingerprints
    opening,        \* calls of m_tunnelOpener whose callback has not run
    queued,         \* queued invocations of handleConnected()
    draining,       \* drainInbox() is between two iterations
    connects,       \* connectTo() calls so far
    peerCert,       \* certificate of the peer of the current socket
    script,         \* all that the device sends on the current socket
    rest,           \* the part of it not yet read from the socket
    sent,           \* frames the client wrote on the current socket
    parsed,         \* tokens consumed as redirection frames on this socket
    raw             \* tokens handed over by rawBytes() on this socket

conn == <<peerCert, script>>
hist == <<sent, parsed, raw>>
vars == <<cfg, state, sock, inbox, awaitingTrust, pendingCert, trusted, opening,
          queued, draining, connects, peerCert, script, rest, sent, parsed, raw>>

States == {"Disconnected", "Connecting", "SelectorSent", "SessionOpened",
           "AuthQuerying", "AuthChallenging", "AuthResponding", "KvmStarting",
           "Authenticated", "Failed"}

SocketStates == {"None", "Connecting", "Connected", "Closed", "Aborted"}

ClientFrames == {"Selector", "AuthQuery", "DigestQuery", "DigestResponse", "KvmStart"}

TypeOK ==
    /\ cfg \in Configs
    /\ state \in States
    /\ sock \in SocketStates
    /\ inbox \in Seq(Tokens)
    /\ awaitingTrust \in BOOLEAN
    /\ pendingCert \in Certs \cup {NoCert}
    /\ trusted \subseteq Certs
    /\ opening \in 0..connects
    /\ queued \in Nat
    /\ draining \in BOOLEAN
    /\ connects \in 0..MaxConnects
    /\ peerCert \in Certs \cup {NoCert}
    /\ script \in Seq(Tokens)
    /\ rest \in Seq(Tokens)
    /\ sent \in Seq(ClientFrames)
    /\ parsed \in Seq(Tokens)
    /\ raw \in Seq(Tokens)

Init ==
    /\ cfg \in Configs
    /\ state = "Disconnected"
    /\ sock = "None"
    /\ inbox = <<>>
    /\ awaitingTrust = FALSE
    /\ pendingCert = NoCert
    /\ trusted = Pinned
    /\ opening = 0
    /\ queued = 0
    /\ draining = FALSE
    /\ connects = 0
    /\ peerCert = NoCert
    /\ script = <<>>
    /\ rest = <<>>
    /\ sent = <<>>
    /\ parsed = <<>>
    /\ raw = <<>>

-----------------------------------------------------------------------------
(***************************************************************************)
(* Pieces the slots share.                                                 *)
(***************************************************************************)

\* fail(): the transport is aborted before the failure is announced.
Fail ==
    /\ sock' = IF sock = "None" THEN "None" ELSE "Aborted"
    /\ state' = "Failed"
    /\ draining' = FALSE

\* Mutant: bytes of the previous socket stay in m_inbox.
ResetSessionKeepsInbox ==
    /\ inbox' = inbox
    /\ pendingCert' = NoCert
    /\ awaitingTrust' = FALSE
    /\ peerCert' \in Certs \cup {NoCert}
    /\ script' \in Scripts[connects']
    /\ rest' = script'
    /\ sent' = <<>>
    /\ parsed' = <<>>
    /\ raw' = <<>>

\* The fields connectTo() and connectViaSocketDescriptor() clear before they
\* replace the socket; the new socket meets a device chosen here.
ResetSession ==
    /\ inbox' = <<>>
    /\ pendingCert' = NoCert
    /\ awaitingTrust' = FALSE
    /\ peerCert' \in Certs \cup {NoCert}
    /\ script' \in Scripts[connects']
    /\ rest' = script'
    /\ sent' = <<>>
    /\ parsed' = <<>>
    /\ raw' = <<>>

\* QAbstractSocket::write() accepts bytes only on a connected socket.
CanWrite == sock = "Connected"

\* handleConnected(), with the socket state `s` it runs in.
HandleConnected(s) ==
    \/ /\ s = "Connected"
       /\ sock' = s
       /\ sent' = Append(sent, "Selector")
       /\ state' = "SelectorSent"
       /\ draining' = draining
    \/ /\ s # "Connected"
       /\ Fail
       /\ sent' = sent

-----------------------------------------------------------------------------
(***************************************************************************)
(* Public calls.                                                           *)
(***************************************************************************)

MayConnect == ~draining /\ state \in {"Disconnected", "Failed"} /\ connects < MaxConnects

ConnectTo ==
    /\ MayConnect
    /\ ~cfg.tunnel
    /\ connects' = connects + 1
    /\ ResetSession
    /\ sock' = "Connecting"
    /\ state' = "Connecting"
    /\ UNCHANGED <<cfg, trusted, opening, queued, draining>>

\* With a tunnel opener nothing but the state changes until the callback runs.
ConnectToViaTunnel ==
    /\ MayConnect
    /\ cfg.tunnel
    /\ connects' = connects + 1
    /\ opening' = opening + 1
    /\ state' = "Connecting"
    /\ UNCHANGED <<cfg, sock, inbox, awaitingTrust, pendingCert, trusted, queued,
                   draining, rest, conn, hist>>

DisconnectFromHost ==
    /\ ~draining
    /\ connects > 0
    /\ sock' = IF sock = "None" THEN "None" ELSE "Closed"
    /\ state' = "Disconnected"
    /\ UNCHANGED <<cfg, inbox, awaitingTrust, pendingCert, trusted, opening, queued,
                   draining, connects, rest, conn, hist>>

\* The controllers call it only in their AwaitingTrust state, which any later
\* stateChanged() of the client ends: the client is still Connecting.
TrustPendingPeerCert ==
    /\ ~draining
    /\ cfg.tls /\ sock # "None" /\ awaitingTrust
    /\ state = "Connecting"
    /\ trusted' = IF pendingCert # NoCert THEN trusted \cup {pendingCert} ELSE trusted
    /\ awaitingTrust' = FALSE
    /\ HandleConnected(sock)
    /\ UNCHANGED <<cfg, inbox, pendingCert, opening, queued, connects, rest, conn,
                   parsed, raw>>

-----------------------------------------------------------------------------
(***************************************************************************)
(* The tunnel opener's callback.                                           *)
(***************************************************************************)

\* Mutant: the opener runs its callback a second time.
TunnelFailedTwice ==
    /\ ~draining
    /\ cfg.tunnel
    /\ opening' = opening - 1
    /\ Fail
    /\ UNCHANGED <<cfg, inbox, awaitingTrust, pendingCert, trusted, queued, connects,
                   rest, conn, hist>>

TunnelFailed ==
    /\ ~draining
    /\ opening > 0
    /\ opening' = opening - 1
    /\ Fail
    /\ UNCHANGED <<cfg, inbox, awaitingTrust, pendingCert, trusted, queued, connects,
                   rest, conn, hist>>

\* Mutant: nobody drives handleConnected() for a plain tunnelled socket.
ConnectViaSocketDescriptorNotDriven ==
    /\ ~draining
    /\ opening > 0
    /\ opening' = opening - 1
    /\ connects' = connects
    /\ ResetSession
    /\ state' = "Connecting"
    /\ sock' = IF cfg.tls THEN "Connecting" ELSE "Connected"
    /\ UNCHANGED <<cfg, trusted, queued, draining>>

\* connectViaSocketDescriptor(): a plain socket is connected already and its
\* handleConnected() is queued; a TLS socket starts its handshake.
ConnectViaSocketDescriptor ==
    /\ ~draining
    /\ opening > 0
    /\ opening' = opening - 1
    /\ connects' = connects
    /\ ResetSession
    /\ state' = "Connecting"
    /\ sock' = IF cfg.tls THEN "Connecting" ELSE "Connected"
    /\ queued' = IF cfg.tls THEN queued ELSE queued + 1
    /\ UNCHANGED <<cfg, trusted, draining>>

\* setSocketDescriptor() refuses the descriptor.
ConnectViaSocketDescriptorRefused ==
    /\ ~draining
    /\ opening > 0
    /\ opening' = opening - 1
    /\ connects' = connects
    /\ ResetSession
    /\ state' = "Failed"
    /\ sock' = "Aborted"
    /\ UNCHANGED <<cfg, trusted, queued, draining>>

-----------------------------------------------------------------------------
(***************************************************************************)
(* Socket signals.                                                         *)
(***************************************************************************)

\* QTcpSocket::connected of a plain, direct socket.
TcpConnected ==
    /\ ~draining
    /\ ~cfg.tls /\ ~cfg.tunnel /\ sock = "Connecting"
    /\ HandleConnected("Connected")
    /\ UNCHANGED <<cfg, inbox, awaitingTrust, pendingCert, trusted, opening, queued,
                   connects, rest, conn, parsed, raw>>

QueuedConnected ==
    /\ ~draining
    /\ queued > 0
    /\ queued' = queued - 1
    /\ HandleConnected(sock)
    /\ UNCHANGED <<cfg, inbox, awaitingTrust, pendingCert, trusted, opening, connects,
                   rest, conn, parsed, raw>>

\* Mutant: any certificate is taken for a pinned one.
HandleEncryptedUnpinned ==
    /\ ~draining
    /\ cfg.tls /\ sock = "Connecting"
    /\ HandleConnected("Connected")
    /\ UNCHANGED <<cfg, inbox, awaitingTrust, pendingCert, trusted, opening, queued,
                   connects, rest, conn, parsed, raw>>

\* QSslSocket::encrypted: no certificate fails, a pinned one proceeds, any other
\* one holds the selector back for the user's decision.
HandleEncrypted ==
    /\ ~draining
    /\ cfg.tls /\ sock = "Connecting"
    /\ \/ /\ peerCert = NoCert
          /\ Fail
          /\ UNCHANGED <<awaitingTrust, pendingCert, sent>>
       \/ /\ peerCert # NoCert /\ peerCert \in trusted
          /\ HandleConnected("Connected")
          /\ UNCHANGED <<awaitingTrust, pendingCert>>
       \/ /\ peerCert # NoCert /\ peerCert \notin trusted
          /\ sock' = "Connected"
          /\ pendingCert' = peerCert
          /\ awaitingTrust' = TRUE
          /\ UNCHANGED <<state, draining, sent>>
    /\ UNCHANGED <<cfg, inbox, trusted, opening, queued, connects, rest, conn,
                   parsed, raw>>

\* Tokens the device has sent so far.  An eager device sends its whole script; any
\* other one answers each frame of the client with one frame of its own.
DeviceHasSent(n) ==
    \/ cfg.eager
    \/ state = "Authenticated"
    \/ n <= 2 * Len(sent)

\* A socket notifier: the event loop runs posted calls (queued) first.
HandleReadyRead ==
    /\ ~draining
    /\ queued = 0
    /\ sock = "Connected"
    /\ \E n \in 1..Len(rest) :
          /\ DeviceHasSent(Len(script) - Len(rest) + n)
          /\ rest' = SubSeq(rest, n + 1, Len(rest))
          /\ IF state = "Authenticated"
             THEN /\ raw' = raw \o SubSeq(rest, 1, n)
                  /\ UNCHANGED <<inbox, draining>>
             ELSE /\ inbox' = inbox \o SubSeq(rest, 1, n)
                  /\ draining' = TRUE
                  /\ raw' = raw
    /\ UNCHANGED <<cfg, state, sock, awaitingTrust, pendingCert, trusted, opening,
                   queued, connects, conn, sent, parsed>>

\* errorOccurred: a close by the peer after authentication is a normal end.
HandleSocketError(remoteHostClosed) ==
    /\ ~draining
    /\ sock \in {"Connecting", "Connected"}
    /\ IF remoteHostClosed /\ state = "Authenticated"
       THEN /\ state' = "Disconnected"
            /\ sock' = "Closed"
            /\ draining' = draining
       ELSE Fail
    /\ UNCHANGED <<cfg, inbox, awaitingTrust, pendingCert, trusted, opening, queued,
                   connects, rest, conn, hist>>

-----------------------------------------------------------------------------
(***************************************************************************)
(* drainInbox(), one action per outcome of an iteration.                   *)
(***************************************************************************)

Head1    == inbox[1]
Complete == Len(inbox) >= 2 /\ Head1 # "Malformed"
Leftover == SubSeq(inbox, 3, Len(inbox))
Consume  == parsed' = parsed \o SubSeq(inbox, 1, 2)

KvmReplyExpected == state = "KvmStarting" /\ Head1 = "KvmReply"

drainFrame == <<cfg, awaitingTrust, pendingCert, trusted, opening, queued, connects,
                rest, conn>>

\* The loop returns to wait for more bytes: a frame is still cut short.
DrainIncomplete ==
    /\ draining
    /\ inbox # <<>>
    /\ KvmReplyExpected \/ Head1 \in StartFrames \cup AuthFrames
    /\ ~Complete
    /\ draining' = FALSE
    /\ UNCHANGED <<drainFrame, state, sock, inbox, hist>>

\* The loop ends with the inbox empty.
DrainEnd ==
    /\ draining
    /\ inbox = <<>>
    /\ draining' = FALSE
    /\ UNCHANGED <<drainFrame, state, sock, inbox, hist>>

\* Neither an auth frame, nor a start reply, nor the 0x41 that is waited for.
DrainUnexpected ==
    /\ draining
    /\ inbox # <<>>
    /\ ~KvmReplyExpected /\ Head1 \notin StartFrames \cup AuthFrames
    /\ Fail
    /\ UNCHANGED <<drainFrame, inbox, hist>>

\* 0x11: a success opens the session whatever the state, and starts the
\* authentication when there is a user.
DrainStartReply ==
    /\ draining
    /\ inbox # <<>> /\ Head1 \in StartFrames /\ Complete
    /\ inbox' = Leftover
    /\ Consume
    /\ \/ /\ Head1 = "StartRefused"
          /\ Fail
          /\ sent' = sent
       \/ /\ Head1 = "StartOk" /\ ~cfg.user
          /\ state' = "SessionOpened"
          /\ UNCHANGED <<sock, draining, sent>>
       \/ /\ Head1 = "StartOk" /\ cfg.user /\ CanWrite
          /\ sent' = Append(sent, "AuthQuery")
          /\ state' = "AuthQuerying"
          /\ UNCHANGED <<sock, draining>>
    /\ UNCHANGED <<drainFrame, raw>>

\* 0x14 in AuthQuerying: the device lists its auth types.
DrainAuthCaps ==
    /\ state = "AuthQuerying"
    /\ IF HasDigestWithQop(Head1)
       THEN /\ sent' = Append(sent, "DigestQuery")
            /\ state' = "AuthChallenging"
            /\ UNCHANGED <<sock, draining>>
       ELSE Fail /\ sent' = sent
    /\ inbox' = Leftover
    /\ raw' = raw

\* 0x14 in AuthChallenging: the digest challenge.
DrainAuthChallenge ==
    /\ state = "AuthChallenging"
    /\ IF AuthStatus(Head1) = 1 /\ HasRealmAndNonce(Head1)
       THEN /\ sent' = Append(sent, "DigestResponse")
            /\ state' = "AuthResponding"
            /\ UNCHANGED <<sock, draining>>
       ELSE Fail /\ sent' = sent
    /\ inbox' = Leftover
    /\ raw' = raw

\* Mutant: a success status is believed before the digest response is sent.
DrainAuthVerdictAnyState ==
    /\ state \in {"AuthChallenging", "AuthResponding"}
    /\ AuthStatus(Head1) = 0 /\ cfg.protocol # "Kvm"
    /\ state' = "Authenticated"
    /\ raw' = raw \o Leftover
    /\ inbox' = <<>>
    /\ draining' = FALSE
    /\ UNCHANGED <<sock, sent>>

\* Mutant: bytes that came with the verdict are dropped.
DrainAuthVerdictDropsLeftover ==
    /\ state = "AuthResponding"
    /\ AuthStatus(Head1) = 0 /\ cfg.protocol # "Kvm"
    /\ state' = "Authenticated"
    /\ raw' = raw
    /\ inbox' = <<>>
    /\ draining' = FALSE
    /\ UNCHANGED <<sock, sent>>

\* 0x14 in AuthResponding: the verdict.  KVM still has its 0x40/0x41 exchange to
\* make; for the others the rest of the inbox belongs to the application.
DrainAuthVerdict ==
    /\ state = "AuthResponding"
    /\ \/ /\ AuthStatus(Head1) # 0
          /\ Fail
          /\ inbox' = Leftover
          /\ UNCHANGED <<sent, raw>>
       \/ /\ AuthStatus(Head1) = 0 /\ cfg.protocol = "Kvm"
          /\ sent' = Append(sent, "KvmStart")
          /\ state' = "KvmStarting"
          /\ inbox' = Leftover
          /\ UNCHANGED <<sock, draining, raw>>
       \/ /\ AuthStatus(Head1) = 0 /\ cfg.protocol # "Kvm"
          /\ state' = "Authenticated"
          /\ raw' = raw \o Leftover
          /\ inbox' = <<>>
          /\ draining' = FALSE
          /\ UNCHANGED <<sock, sent>>

\* 0x14 in any other state.
DrainAuthOutOfOrder ==
    /\ state \notin {"AuthQuerying", "AuthChallenging", "AuthResponding"}
    /\ Fail
    /\ inbox' = Leftover
    /\ UNCHANGED <<sent, raw>>

DrainAuthReply ==
    /\ draining
    /\ inbox # <<>> /\ Head1 \in AuthFrames /\ Complete
    /\ Consume
    /\ DrainAuthCaps \/ DrainAuthChallenge \/ DrainAuthVerdict \/ DrainAuthOutOfOrder
    /\ UNCHANGED drainFrame

\* 0x41: the KVM stream starts; what follows is RFB.
DrainKvmReply ==
    /\ draining
    /\ inbox # <<>> /\ KvmReplyExpected /\ Complete
    /\ Consume
    /\ raw' = raw \o Leftover
    /\ inbox' = <<>>
    /\ state' = "Authenticated"
    /\ draining' = FALSE
    /\ UNCHANGED <<drainFrame, sock, sent>>

Drain == \/ DrainIncomplete \/ DrainEnd \/ DrainUnexpected \/ DrainStartReply
         \/ DrainAuthReply \/ DrainKvmReply

-----------------------------------------------------------------------------
UserStep == ConnectTo \/ ConnectToViaTunnel \/ DisconnectFromHost \/ TrustPendingPeerCert
Tunnel   == TunnelFailed \/ ConnectViaSocketDescriptor \/ ConnectViaSocketDescriptorRefused
Connected == TcpConnected \/ QueuedConnected \/ HandleEncrypted
SocketError == \E remoteHostClosed \in BOOLEAN : HandleSocketError(remoteHostClosed)

Next == UserStep \/ Tunnel \/ Connected \/ HandleReadyRead \/ SocketError \/ Drain

(***************************************************************************)
(* The event loop delivers every event that stays pending, the opener runs *)
(* its callback exactly once and the device delivers what it sends; nobody *)
(* owes the client a user's click or a socket error.                       *)
(***************************************************************************)
Fairness ==
    /\ WF_vars(Drain)
    /\ WF_vars(Tunnel)
    /\ WF_vars(Connected)
    /\ WF_vars(HandleReadyRead)

Spec == Init /\ [][Next]_vars
FairSpec == Spec /\ Fairness

-----------------------------------------------------------------------------
(***************************************************************************)
(* Properties.                                                             *)
(***************************************************************************)

\* s ends with t.
EndsWith(s, t) ==
    /\ Len(s) >= Len(t)
    /\ \A i \in 1..Len(t) : s[Len(s) - Len(t) + i] = t[i]

\* What the client has written when it enters a state of the authentication.
Transcript(st, protocol) ==
    CASE st = "AuthQuerying"    -> <<"AuthQuery">>
      [] st = "AuthChallenging" -> <<"AuthQuery", "DigestQuery">>
      [] st = "AuthResponding"  -> <<"AuthQuery", "DigestQuery", "DigestResponse">>
      [] st = "KvmStarting"     -> <<"AuthQuery", "DigestQuery", "DigestResponse", "KvmStart">>
      [] st = "Authenticated"   -> IF protocol = "Kvm"
                                   THEN <<"AuthQuery", "DigestQuery", "DigestResponse", "KvmStart">>
                                   ELSE <<"AuthQuery", "DigestQuery", "DigestResponse">>
      [] OTHER                  -> <<>>

\* drainInbox() reaches a state of the authentication only right after the exact
\* run of frames that state stands for: no reply, however the stream is cut, glued
\* or repeated, and no reconnect lets it skip or repeat a step of the handshake.
AuthTranscript == EndsWith(sent, Transcript(state, cfg.protocol))

\* Every byte the device sends is, in its order, either parsed as a redirection
\* frame, still in m_inbox, handed over by rawBytes(), or unread: drainInbox() and
\* handleReadyRead() lose and repeat none, across the switch to rawBytes() too.
StreamIntegrity == parsed \o inbox \o raw \o rest = script

\* rawBytes() never fires for a stream whose authentication has not succeeded, and
\* nothing stays behind in m_inbox once it has.
RawOnlyAfterAuth ==
    /\ raw # <<>> => EndsWith(sent, Transcript("Authenticated", cfg.protocol))
    /\ state = "Authenticated" => inbox = <<>> /\ ~draining

\* A failed client holds no live transport (fail() aborts it first: a half-open
\* socket would make AMT answer the next connect with "busy").
FailedMeansClosed == state = "Failed" => sock \notin {"Connecting", "Connected"}

\* A TLS peer whose certificate is neither pinned nor accepted by the user is never
\* sent the selector, and is sent nothing at all unless it talks before it is asked:
\* whatever was trusted for an earlier socket, however the prompt, its answer, the
\* peer's bytes and a reconnect follow each other.  The exception is the code's.
\* handleEncrypted() holds back handleConnected() only; a start reply that arrives
\* under the prompt (a device that is `eager`) is parsed by drainInbox() and answered
\* with the authentication, where redir_client.h:155 calls the handshake paused.
UntrustedPeer == cfg.tls /\ peerCert \notin trusted
SilentToUntrusted ==
    UntrustedPeer => /\ \A i \in 1..Len(sent) : sent[i] # "Selector"
                     /\ sent # <<>> => cfg.eager

(***************************************************************************)
(* The invariant that carries the safety properties from step to step.     *)
(***************************************************************************)

\* The certificate the prompt is about is the one of the current socket.
PromptMatchesPeer == awaitingTrust => pendingCert = peerCert /\ peerCert # NoCert

\* A device that waits to be asked has sent nothing before the client has.
NothingUnasked == ~cfg.eager /\ sent = <<>> => rest = script /\ inbox = <<>>

\* Only KVM has the 0x40/0x41 exchange.
KvmStartsOnlyKvm == state = "KvmStarting" => cfg.protocol = "Kvm"

\* handleConnected() is queued only for plain sockets, before any byte is read.
QueuedBeforeRead == queued > 0 => ~cfg.tls /\ raw = <<>>

\* drainInbox() runs on a live socket before the hand-over, which leaves no byte
\* in the inbox; no byte was handed over on a live socket before it.
HandOver ==
    /\ draining => sock = "Connected" /\ state # "Authenticated" /\ queued = 0
    /\ state = "Authenticated" => sock = "Connected" /\ inbox = <<>>
    /\ sock \in {"Connecting", "Connected"} /\ state # "Authenticated" => raw = <<>>

IndInv ==
    /\ TypeOK
    /\ FailedMeansClosed
    /\ PromptMatchesPeer
    /\ SilentToUntrusted
    /\ NothingUnasked
    /\ QueuedBeforeRead
    /\ HandOver
    /\ KvmStartsOnlyKvm
    /\ AuthTranscript
    /\ RawOnlyAfterAuth
    /\ StreamIntegrity

\* A device that goes on answering is never left waiting by the client, whatever its
\* answers are and whatever the previous socket left: a connect ends authenticated,
\* opened without credentials, failed or closed, or waits for the user's decision
\* about the certificate.  The one frame it waits behind for ever is a 0x14 that
\* tryParseAuthReply() never accepts (redir_client.cpp:332).
Settled == \/ state \in {"Authenticated", "Failed", "Disconnected"}
           \/ state = "SessionOpened" /\ ~cfg.user
           \/ awaitingTrust
           \/ inbox # <<>> /\ Head1 = "Malformed"
ConnectSettles == (state = "Connecting") ~> Settled
=============================================================================
