----------------------------- MODULE KvmSession -----------------------------
(***************************************************************************)
(* KvmSession: RFB on an authenticated client, and the firmware it talks   *)
(* to.  One step of drainInbox() is one action.  A desktop is known by     *)
(* what fits the firmware's display buffer: "Small" at 16 and 8 bits,      *)
(* "Large" (4K) at 8 bits, "Huge" not at all.                              *)
(***************************************************************************)
EXTENDS RedirController

CONSTANT KvmSteps     \* kMaxStepsPerCall

ASSUME StepsAssumption == KvmSteps \in Nat \ {0}

VARIABLES
    kvm,         \* m_state
    format,      \* m_format
    preferred,   \* m_preferredFormat, "Auto" when there is none
    pending,     \* m_pendingRects
    steps,       \* iterations left in this call of drainInbox()
    queuedDrains,\* queued invocations of drainInbox()
    desktop,     \* the device: size of its desktop,
    deviceFmt,   \*   the pixel format it encodes in,
    asked,       \*   an update request it has not answered,
    resized,     \*   a size it has not reported,
    blank        \*   and whether it has answered with an update of no rectangles

kvmVars == <<kvm, format, preferred, pending, steps, queuedDrains>>
kvmDevice == <<desktop, deviceFmt, asked, resized, blank>>

Sizes   == {"Small", "Large", "Huge"}
Formats == {"Rgb565", "Rgb332"}
Fits(f, size) == size = "Small" \/ (size = "Large" /\ f = "Rgb332")

InitOf(size)   == CASE size = "Small" -> "InitSmall" [] size = "Large" -> "InitLarge"
                    [] OTHER -> "InitHuge"
ResizeOf(size) == CASE size = "Small" -> "SizeSmall" [] size = "Large" -> "SizeLarge"
                    [] OTHER -> "SizeHuge"
RectOf(f)      == IF f = "Rgb565" THEN "Rect565" ELSE "Rect332"
SetFormat(f)   == IF f = "Rgb565" THEN "SetRgb565" ELSE "SetRgb332"

Inits    == {"InitSmall", "InitLarge", "InitHuge"}
Resizes  == {"SizeSmall", "SizeLarge", "SizeHuge"}
Rects    == {"Rect565", "Rect332"}
Updates  == {"Update0", "Update1", "Update2"}
KvmNoise == {"Bell", "KvmUnknown"}   \* also ServerCutText, within its cap and over it
KvmTokens == Inits \cup Resizes \cup Rects \cup Updates \cup KvmNoise
               \cup {"Version", "Security", "AuthOk", "AuthFailed", "RectBad"}

SizeIn(t) == CHOOSE size \in Sizes : t \in {InitOf(size), ResizeOf(size)}

KvmInit ==
    /\ kvm = "Idle"
    /\ format = "Rgb565"
    /\ preferred \in Formats \cup {"Auto"}
    /\ pending = 0
    /\ steps = 0
    /\ queuedDrains = 0
    /\ desktop = "Small"
    /\ deviceFmt = "Rgb565"
    /\ asked = FALSE
    /\ resized = FALSE
    /\ blank = FALSE

\* open() builds a new session with the operator's colour depth.
KvmNew ==
    /\ kvm' = "Idle"
    /\ format' = "Rgb565"
    /\ pending' = 0
    /\ steps' = 0
    /\ queuedDrains' = 0
    /\ UNCHANGED preferred

\* The frame every start and every failure leaves alone.
KvmFail == kvm' = "Failed" /\ UNCHANGED <<format, preferred, pending, steps, queuedDrains>>

\* start(); the device greets with its version and a desktop of some size.
KvmStarted ==
    /\ Authenticated(TRUE, <<>>, <<"Version">>)
    /\ kvm' = "Version"
    /\ format' = "Rgb565"
    /\ desktop' \in Sizes
    /\ deviceFmt' \in Formats
    /\ asked' = FALSE
    /\ resized' = FALSE
    /\ blank' = FALSE
    /\ UNCHANGED <<preferred, pending, steps, queuedDrains>>

-----------------------------------------------------------------------------
(***************************************************************************)
(* drainInbox().                                                           *)
(***************************************************************************)

kvmFrame == <<kind, deferred, ssh, owed, bounds, preferred, kvmDevice>>

\* onRawBytes() and the queued continuation start a call of KvmSteps iterations.
KvmRawBytes ==
    /\ RawBytes
    /\ steps' = KvmSteps
    /\ UNCHANGED <<kvm, format, preferred, pending, queuedDrains, kvmDevice>>

QueuedDrain ==
    /\ ~draining
    /\ queuedDrains > 0
    /\ queuedDrains' = queuedDrains - 1
    /\ draining' = TRUE
    /\ steps' = KvmSteps
    /\ UNCHANGED <<kvmFrame, link, wire, inbox, toDev, ctl, err, kvm, format, pending>>

\* Mutant: what is left after the last iteration waits for the next chunk.
ContinueForgets ==
    /\ steps' = steps - 1
    /\ draining' = (steps > 1)
    /\ queuedDrains' = queuedDrains

\* The next iteration, or after the last one a queued call for what is left.
Continue ==
    /\ steps' = steps - 1
    /\ draining' = (steps > 1)
    /\ queuedDrains' = IF steps = 1 /\ inbox' # <<>> THEN queuedDrains + 1 ELSE queuedDrains

\* fail() inside an iteration: the loop ends with it.
StepFails ==
    /\ kvm' = "Failed"
    /\ SessionClosed
    /\ draining' = FALSE
    /\ steps' = 0
    /\ UNCHANGED <<toDev, queuedDrains>>

\* An iteration that writes nothing.
StepQuietly == Continue /\ UNCHANGED <<toDev, kvm, link, wire, ctl, err>>

\* An iteration that writes: on a link that is gone writeFrame() fails the session.
StepWrites(frames) ==
    \/ /\ CanSend
       /\ toDev' = toDev \o frames
       /\ Continue
       /\ UNCHANGED <<kvm, link, wire, ctl, err>>
    \/ ~CanSend /\ StepFails

\* The iteration returns false, or finds the session idle or failed.
KvmDrainStops ==
    /\ draining
    /\ inbox = <<>> \/ kvm \in {"Idle", "Failed"}
    /\ draining' = FALSE
    /\ steps' = 0
    /\ UNCHANGED <<kvmFrame, link, wire, inbox, toDev, ctl, err, kvm, format, pending,
                   queuedDrains>>

NextIs(st, ts) == draining /\ kvm = st /\ inbox # <<>> /\ Head(inbox) \in ts

\* stepHandshake() up to ServerInit: each message is answered and the state moves.
\* The link is open: this runs inside rawBytes().
StepHandshake(st, t, reply, next) ==
    /\ NextIs(st, {t})
    /\ inbox' = Tail(inbox)
    /\ toDev' = Append(toDev, reply)
    /\ kvm' = next
    /\ Continue
    /\ UNCHANGED <<kvmFrame, link, wire, ctl, err, format, pending>>

KvmAuthFailed ==
    /\ NextIs("AuthResult", {"AuthFailed"})
    /\ inbox' = inbox
    /\ StepFails
    /\ UNCHANGED <<kvmFrame, format, pending>>

\* negotiatePixelFormat(): the format for a desktop, which may not fit it.
Wanted(size) ==
    IF preferred # "Auto" THEN preferred
    ELSE IF Fits("Rgb565", size) THEN "Rgb565" ELSE "Rgb332"

\* ServerInit: the format is pinned before the encodings, the compression switch and
\* the first full request; then the session is live.
KvmServerInit ==
    /\ NextIs("ServerInit", Inits)
    /\ inbox' = Tail(inbox)
    /\ LET size == SizeIn(Head(inbox))
       IN \/ /\ Fits(Wanted(size), size)
             /\ format' = Wanted(size)
             /\ toDev' = toDev \o <<SetFormat(Wanted(size)), "Encodings", "Request">>
             /\ kvm' = "FrameLoop"
             /\ ctl' = "Connected"
             /\ Continue
             /\ UNCHANGED <<link, wire, err>>
          \/ /\ ~Fits(Wanted(size), size)
             /\ StepFails
             /\ UNCHANGED format
    /\ UNCHANGED <<kvmFrame, pending>>

RectsOf(update) == CASE update = "Update0" -> 0 [] update = "Update1" -> 1 [] OTHER -> 2

\* The header of an update says how many rectangles follow.  The next request comes
\* with the last of them: after an update of none there is none.
KvmUpdate ==
    /\ NextIs("FrameLoop", Updates) /\ pending = 0
    /\ inbox' = Tail(inbox)
    /\ pending' = RectsOf(Head(inbox))
    /\ StepQuietly
    /\ UNCHANGED <<kvmFrame, format>>

\* A rectangle of pixels; the last one of an update asks for the next update.
KvmRect ==
    /\ NextIs("FrameLoop", Rects) /\ pending > 0
    /\ inbox' = Tail(inbox)
    /\ pending' = pending - 1
    /\ IF pending = 1 THEN StepWrites(<<"Request">>) ELSE StepQuietly
    /\ UNCHANGED <<kvmFrame, format>>

\* An encoding that is not supported or does not parse.
KvmRectBad ==
    /\ NextIs("FrameLoop", {"RectBad"}) /\ pending > 0
    /\ inbox' = inbox
    /\ StepFails
    /\ UNCHANGED <<kvmFrame, format, pending>>

\* Mutant: the format of the decoder follows the new size, the device is not told.
KvmDesktopSizeUntold ==
    /\ NextIs("FrameLoop", Resizes) /\ pending > 0
    /\ LET size == SizeIn(Head(inbox))
       IN /\ Fits(Wanted(size), size)
          /\ inbox' = Tail(inbox)
          /\ format' = Wanted(size)
          /\ pending' = pending - 1
          /\ StepWrites(IF pending = 1 THEN <<"Request">> ELSE <<>>)
    /\ UNCHANGED kvmFrame

\* DesktopSize: the format is negotiated anew, then a full update is asked for.
KvmDesktopSize ==
    /\ NextIs("FrameLoop", Resizes) /\ pending > 0
    /\ LET size == SizeIn(Head(inbox))
       IN \/ /\ Fits(Wanted(size), size)
             /\ inbox' = Tail(inbox)
             /\ format' = Wanted(size)
             /\ pending' = pending - 1
             /\ StepWrites(<<SetFormat(Wanted(size))>>
                             \o (IF pending = 1 THEN <<"Request">> ELSE <<>>))
          \/ /\ ~Fits(Wanted(size), size)
             /\ StepFails
             /\ UNCHANGED <<inbox, format, pending>>
    /\ UNCHANGED kvmFrame

\* Bell and ServerCutText are consumed; a clipboard over the cap and an unknown tag
\* end the session.
KvmOther ==
    /\ NextIs("FrameLoop", KvmNoise) /\ pending = 0
    /\ IF Head(inbox) = "Bell"
       THEN inbox' = Tail(inbox) /\ StepQuietly
       ELSE inbox' = inbox /\ StepFails
    /\ UNCHANGED <<kvmFrame, format, pending>>

KvmDrain ==
    \/ KvmDrainStops \/ KvmAuthFailed \/ KvmServerInit
    \/ StepHandshake("Version", "Version", "VersionReply", "Security")
    \/ StepHandshake("Security", "Security", "SecurityChoice", "AuthResult")
    \/ StepHandshake("AuthResult", "AuthOk", "ClientInit", "ServerInit")
    \/ KvmUpdate \/ KvmRect \/ KvmRectBad \/ KvmDesktopSize \/ KvmOther

\* sendKey() and sendPointer(): the viewer sends whatever the controller shows; the
\* session writes in FrameLoop, and fails when it cannot.
SendPointer ==
    /\ ~draining
    /\ kvm = "FrameLoop"
    /\ ~CanSend                 \* on an open link the device just reads the frame
    /\ kvm' = "Failed"
    /\ SessionClosed
    /\ UNCHANGED <<kvmFrame, draining, inbox, toDev, format, pending, steps, queuedDrains>>

-----------------------------------------------------------------------------
(***************************************************************************)
(* The firmware: it reads the session's frames in order, applies a pixel   *)
(* format from the next update on, and sends an update only when it is     *)
(* asked; a new size is the last rectangle of the update that reports it.  *)
(***************************************************************************)

deviceFrame == <<kvm, format, preferred, pending, steps, queuedDrains>>

KvmDeviceReads ==
    /\ toDev # <<>>
    /\ \/ /\ Head(toDev) = "VersionReply" /\ Answer(<<"Security">>)
          /\ UNCHANGED kvmDevice
       \/ /\ Head(toDev) = "SecurityChoice" /\ \E t \in {"AuthOk", "AuthFailed"} : Answer(<<t>>)
          /\ UNCHANGED kvmDevice
       \/ /\ Head(toDev) = "ClientInit" /\ Answer(<<InitOf(desktop)>>)
          /\ UNCHANGED kvmDevice
       \/ /\ Head(toDev) = "Encodings" /\ Answer(<<>>)
          /\ UNCHANGED kvmDevice
       \/ \E f \in Formats :
             /\ Head(toDev) = SetFormat(f) /\ Answer(<<>>)
             /\ deviceFmt' = f
             /\ UNCHANGED <<desktop, asked, resized, blank>>
       \/ /\ Head(toDev) = "Request" /\ Answer(<<>>)
          /\ asked' = TRUE
          /\ UNCHANGED <<desktop, deviceFmt, resized, blank>>
    /\ UNCHANGED deviceFrame

\* An update of one or two rectangles, the last of them a size to report.  (RFB also
\* allows one of none.)
UpdateFrames ==
    IF resized
    THEN {<<"Update1", ResizeOf(desktop)>>, <<"Update2", RectOf(deviceFmt), ResizeOf(desktop)>>}
    ELSE {<<"Update1", RectOf(deviceFmt)>>, <<"Update2", RectOf(deviceFmt), RectOf(deviceFmt)>>,
          <<"Update1", "RectBad">>}

KvmDeviceUpdates ==
    /\ ~draining
    /\ link = "Open"
    /\ asked
    /\ chatter > 0
    /\ chatter' = chatter - 1
    /\ asked' = FALSE
    /\ \/ /\ \E u \in UpdateFrames : wire' = wire \o u
          /\ resized' = FALSE
          /\ blank' = blank
       \/ /\ wire' = Append(wire, "Update0")
          /\ resized' = resized
          /\ blank' = TRUE
    /\ UNCHANGED <<link, inbox, owed, kind, ctl, err, deferred, ssh, toDev, draining, opens,
                   sshCalls, desktop, deviceFmt, deviceFrame>>

KvmDeviceResizes ==
    /\ ~draining
    /\ link = "Open"
    /\ chatter > 0
    /\ chatter' = chatter - 1
    /\ desktop' \in Sizes \ {desktop}
    /\ resized' = TRUE
    /\ UNCHANGED <<chan, kind, ctl, err, deferred, ssh, toDev, draining, opens, sshCalls,
                   asked, deviceFmt, blank, deviceFrame>>

\* Out of turn only after the session is live: before that the device is asked.
KvmChatter ==
    /\ kvm = "FrameLoop"
    /\ \E t \in KvmNoise : Chatter(t)
    /\ UNCHANGED <<kvmDevice, deviceFrame>>

=============================================================================
