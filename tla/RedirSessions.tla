---------------------------- MODULE RedirSessions ----------------------------
(***************************************************************************)
(* A redirection panel: one controller of RedirController with its session *)
(* (SolSession, KvmSession or IderSession) on the channel a                *)
(* RedirectionClient provides, against the firmware at the other end.      *)
(***************************************************************************)
EXTENDS SolSession, KvmSession, IderSession

vars == <<chan, ctlVars, solVars, kvmVars, kvmDevice, iderVars>>

sessionVars == <<solVars, kvmVars, kvmDevice, iderVars>>

SessionTokens == SolTokens \cup KvmTokens \cup IderTokens

Init ==
    /\ ControllerInit
    /\ solOpen = FALSE /\ settingsSent = FALSE
    /\ KvmInit
    /\ (kind # "Kvm" => preferred = "Auto")
    /\ IderInit

\* The session's part in a step of the controller.
SessionStays == UNCHANGED sessionVars
SessionNew   == SolNew /\ KvmNew /\ IderNew /\ UNCHANGED kvmDevice
SessionFails ==
    /\ IF kind = "Sol"  THEN SolFail  ELSE UNCHANGED solVars
    /\ IF kind = "Kvm"  THEN KvmFail  ELSE UNCHANGED kvmVars
    /\ IF kind = "Ider" THEN IderFail ELSE UNCHANGED iderVars
    /\ UNCHANGED kvmDevice

\* The user and the panel.
Open ==
    \/ (\E complete \in BOOLEAN : OpenNow(complete)) /\ SessionNew
    \/ OpenDeferred /\ SessionStays
Stop      == Close /\ SessionNew
SshConfig == (\E on \in BOOLEAN : SetSshConfig(on)) /\ SessionStays
Trust     == (TrustPendingCert \/ TrustPendingSshHostKey) /\ SessionStays

\* The tunnel.
SshEnds  == \/ (\E complete \in BOOLEAN : SshConnected(complete))
                 /\ (IF deferred THEN SessionNew ELSE SessionStays)
            \/ SshBroken("Connecting") /\ SessionStays
SshDrops == SshBroken("Up") /\ SessionStays
SshAsks  == SshHostKeyPrompt /\ SessionStays

\* The client on its way to the open link.
Progress == (TunnelOpened \/ AuthProgress) /\ SessionStays
Prompt   == TrustPromptRequired /\ SessionStays
LinkEnds == (ClientFailed /\ SessionFails) \/ (RemoteClosed /\ SessionStays)

\* A step of the session, the other two kinds being absent.
InSol(A)  == kind = "Sol"  /\ A /\ UNCHANGED <<kvmVars, kvmDevice, iderVars>>
InKvm(A)  == kind = "Kvm"  /\ A /\ UNCHANGED <<solVars, iderVars>>
InIder(A) == kind = "Ider" /\ A /\ UNCHANGED <<solVars, kvmVars, kvmDevice>>

Started  == InSol(SolStarted) \/ InKvm(KvmStarted) \/ InIder(IderStarted)
Received == InSol(SolRawBytes) \/ InKvm(KvmRawBytes) \/ InIder(IderRawBytes)
Draining == InSol(SolDrain) \/ InKvm(KvmDrain) \/ InIder(IderDrain)
Posted   == InKvm(QueuedDrain) \/ InIder(SendNextScsiChunk)
Input    == InSol(SendInput) \/ InKvm(SendPointer)
Device   == InSol(SolDevice) \/ InKvm(KvmDeviceReads) \/ InIder(IderDeviceReads)
Unasked  == \/ InSol(SolChatter)
            \/ InKvm(KvmDeviceUpdates \/ KvmDeviceResizes \/ KvmChatter)
            \/ InIder(IderDeviceSends)

EventLoop == SshEnds \/ Progress \/ Started \/ Received \/ Draining \/ Posted

Next == Open \/ Stop \/ SshConfig \/ Trust \/ SshAsks \/ SshDrops \/ Prompt \/ LinkEnds
          \/ EventLoop \/ Input \/ Device \/ Unasked

(***************************************************************************)
(* The event loop does not stand still while something is pending (an SSH  *)
(* attempt ends, a dial gets on: RedirClient's ConnectSettles), and the    *)
(* device reads what it is sent.  Nobody owes the panel a click, a failure *)
(* or a frame out of turn.                                                 *)
(***************************************************************************)
Fairness == WF_vars(EventLoop) /\ WF_vars(Device)

Spec == Init /\ [][Next]_vars /\ Fairness

-----------------------------------------------------------------------------
(***************************************************************************)
(* Properties.                                                             *)
(***************************************************************************)

SessionOpen == CASE kind = "Sol"  -> solOpen
                 [] kind = "Kvm"  -> kvm = "FrameLoop"
                 [] kind = "Ider" -> opened

\* A panel that shows Connected (IDE-R: Running) has an open session on an open
\* link: no order of closes, failures, refusals and late frames of the three layers
\* leaves the controller's state behind them.
LiveIsLinked == ctl = "Connected" => link = "Open" /\ SessionOpen

\* tryDecodeRect() is never asked to decode pixels in another format than the one
\* the firmware encoded them in: SetPixelFormat and the update requests go out in
\* such an order that no update can be under way when m_format changes.
FormatAgrees ==
    (kvm = "FrameLoop" /\ pending > 0 /\ inbox # <<>> /\ Head(inbox) \in Rects)
        => Head(inbox) = RectOf(format)

\* The frame loop keeps itself going: while it is live, an update request is with the
\* firmware or on its way, or an update is on its way back or in work, whatever is
\* resized, cut short by the drain's bound or chattered in between.  The exception is
\* the code's: kvm_session.cpp:236-242 takes an update of no rectangles and asks for
\* no other one, so after one (`blank`) the picture stands still for good.
UpdateComing ==
    \/ asked \/ queuedDrains > 0 \/ draining
    \/ \E i \in 1..Len(toDev) : toDev[i] = "Request"
    \/ wire # <<>>
OnlyBlankFreezes == (kvm = "FrameLoop" /\ link = "Open") => UpdateComing \/ blank

\* While a read is chunked, what the session will still send is exactly what it
\* still owes: the blocks of the accepted reads, in order, whatever other commands,
\* resets, failures and reopened sessions come between two chunks.
ReadInOrder == iso => owedBlocks = (IF inFlight THEN Blocks(position, remaining) ELSE <<>>)

\* An open() leads to a session, a failure, a close or a question to the user; one
\* deferred for the tunnel does when the tunnel comes up.  While the tunnel has failed,
\* is asking or is off, nothing in the code ends the wait of a deferred open (`close()`
\* and a failed tunnel leave m_openDeferred set): that is the second half.
Waiting == ctl \in {"Connecting", "Authenticating", "Opening"}
OpenSettles == Waiting ~> (~Waiting \/ (deferred /\ ssh \notin {"Connecting", "Up"}))

\* Every SCSI command of the firmware is completed as long as the session lasts: no
\* chunk is left without the timer that sends it.
CommandEnds == command ~> (~command \/ link # "Open" \/ ~iso)

=============================================================================
