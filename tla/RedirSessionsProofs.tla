------------------------ MODULE RedirSessionsProofs ------------------------
(***************************************************************************)
(* Proofs about RedirSessions: a panel's controller and its session, for   *)
(* every number of opens, tunnel calls and frames, every size of the ISO   *)
(* file and every length of a drain.                                       *)
(***************************************************************************)
EXTENDS RedirSessions, SequenceTheorems, TLAPS

-----------------------------------------------------------------------------
(* The invariant.                                                          *)

ControllerStates == {"Disconnected", "Connecting", "AwaitingTrust", "Authenticating",
                     "Opening", "Connected", "Failed"}
Handshake == {"Version", "Security", "AuthResult", "ServerInit"}

\* The types of the channel and the controller, and of the three sessions.
ChannelTypes ==
    /\ link \in {"Down", "Dialling", "Asking", "Open", "Failed"}
    /\ wire \in Seq(SessionTokens) /\ inbox \in Seq(SessionTokens)
    /\ owed \in {0, 1}
    /\ kind \in Kinds /\ ctl \in ControllerStates
    /\ draining \in BOOLEAN
SolTypes == solOpen \in BOOLEAN
KvmTypes ==
    /\ kvm \in Handshake \cup {"Idle", "FrameLoop", "Failed"}
    /\ format \in Formats /\ preferred \in Formats \cup {"Auto"}
    /\ pending \in 0..2 /\ steps \in Int /\ queuedDrains \in Nat
    /\ desktop \in Sizes /\ deviceFmt \in Formats
    /\ asked \in BOOLEAN /\ resized \in BOOLEAN /\ blank \in BOOLEAN
IderTypes ==
    /\ opened \in BOOLEAN /\ iso \in BOOLEAN /\ inFlight \in BOOLEAN
    /\ position \in Nat /\ remaining \in Nat /\ timers \in Nat
TypeOK == ChannelTypes /\ SolTypes /\ KvmTypes /\ IderTypes

\* A link that is being dialled has a session nobody has started, and an opener owes
\* its callback only to such a link; a drain of SOL or IDE-R runs on an open link
\* (KVM's queued continuation may outlive it), and only a KVM panel has a KVM session.
LinkInv ==
    /\ owed = 1 => link = "Dialling"
    /\ link \in {"Dialling", "Asking"} =>
         /\ ~draining
         /\ kvm = "Idle" /\ pending = 0 /\ queuedDrains = 0
         /\ ~iso /\ ~inFlight /\ timers = 0 /\ owedBlocks = <<>>
    /\ kind # "Kvm" => kvm = "Idle" /\ (draining => link = "Open")

\* LiveIsLinked, kind by kind.
PanelInv ==
    ctl = "Connected" => /\ link = "Open"
                         /\ kind = "Sol"  => solOpen
                         /\ kind = "Kvm"  => kvm = "FrameLoop"
                         /\ kind = "Ider" => opened

\* IDE-R: while the file is open, a read in flight has one timer and blocks left to
\* send, and without one nothing is owed.
ReadInv ==
    /\ iso /\ inFlight => /\ timers = 1 /\ remaining > 0
                          /\ owedBlocks = Blocks(position, remaining)
    /\ iso /\ ~inFlight => timers = 0 /\ owedBlocks = <<>>

\* KVM: what is left in the inbox has a drain to take it.
AwakeInv ==
    /\ kind = "Kvm" /\ draining => steps > 0
    /\ kvm \notin {"Idle", "Failed"} /\ inbox # <<>> => draining \/ queuedDrains > 0

\* KVM: before ServerInit the two sides take turns, one message at a time.
Expected(st) == CASE st = "Version" -> {"Version"} [] st = "Security" -> {"Security"}
                  [] st = "AuthResult" -> {"AuthOk", "AuthFailed"} [] OTHER -> Inits
LastReply(st) == CASE st = "Security" -> "VersionReply" [] st = "AuthResult" -> "SecurityChoice"
                   [] OTHER -> "ClientInit"
DeviceTurn  == kvm # "Version" /\ toDev = <<LastReply(kvm)>> /\ inbox = <<>> /\ wire = <<>>
SessionTurn == /\ toDev = <<>>
               /\ \E t \in Expected(kvm) : \/ inbox = <<t>> /\ wire = <<>>
                                           \/ inbox = <<>> /\ wire = <<t>>
HandshakeInv ==
    kvm \in Handshake =>
      /\ queuedDrains = 0 /\ pending = 0 /\ ~asked
      /\ IF link = "Open" THEN DeviceTurn \/ SessionTurn ELSE inbox = <<>> /\ ~draining

\* KVM: the part of an update not taken yet, `p` of its rectangles being announced
\* (p = 0: none yet, the header is to come).
Ends(f)    == {<<RectOf(f)>>, <<"RectBad">>} \cup {<<t>> : t \in Resizes}
Body(p, f) == CASE p = 1 -> Ends(f)
                [] p = 2 -> {<<RectOf(f), RectOf(f)>>} \cup {<<RectOf(f), t>> : t \in Resizes}
                [] OTHER -> {<<"Update1", RectOf(f)>>, <<"Update1", "RectBad">>,
                             <<"Update2", RectOf(f), RectOf(f)>>}
                              \cup {<<"Update1", t>> : t \in Resizes}
                              \cup {<<"Update2", RectOf(f), t>> : t \in Resizes}

\* A stream without a rectangle, and one with the rest of one update in the format
\* `f`, noise and empty updates around it.
Filler == KvmNoise \cup {"Update0"}
Idle(s)        == s \in Seq(Filler)
Loaded(s, p, f) == \E a, b \in Seq(Filler), u \in Body(p, f) :
                      s = (a \o u) \o b /\ (p > 0 => a = <<>>)

\* What the session has written since the firmware last answered.
Untold == {<<SetFormat(format), "Encodings", "Request">>, <<SetFormat(format), "Request">>}
Told   == {<<>>, <<"Request">>, <<"Encodings", "Request">>}

\* KVM, live: the request goes to and fro.  It is with the session (and then its update
\* is under way in the session's format), on its way to the firmware behind every
\* change of the format, with the firmware, or gone with an empty update.  On a link that is gone the session
\* still takes what it has received.
StreamInv(rest) ==
    /\ link = "Open" => /\ rest = wire
                        /\ toDev \in Told \cup Untold
                        /\ toDev \in Told => deviceFmt = format
                        /\ asked => toDev = <<>>
    /\ \/ /\ Idle(inbox \o rest) /\ pending = 0
          /\ link = "Open" => asked \/ toDev # <<>> \/ blank
       \/ /\ Loaded(inbox \o rest, pending, format)
          /\ link = "Open" => ~asked /\ toDev = <<>>
FrameLoopInv == kvm = "FrameLoop" => \E rest \in Seq(SessionTokens) : StreamInv(rest)

KvmInv == AwakeInv /\ HandshakeInv /\ FrameLoopInv

IndInv == TypeOK /\ LinkInv /\ PanelInv /\ ReadInv /\ KvmInv

-----------------------------------------------------------------------------
(* Streams.                                                                *)

\* rawBytes() cuts the wire anywhere and hands the first part over: the stream of
\* inbox and wire stays what it is.
LEMMA DeliverKeeps ==
    ASSUME NEW S, NEW i \in Seq(S), NEW w \in Seq(S), NEW n \in 1..Len(w)
    PROVE  /\ i \o SubSeq(w, 1, n) \in Seq(S)
           /\ SubSeq(w, n + 1, Len(w)) \in Seq(S)
           /\ (i \o SubSeq(w, 1, n)) \o SubSeq(w, n + 1, Len(w)) = i \o w
  <1>1. Len(w) \in Nat
    BY LenProperties
  <1>2. SubSeq(w, 1, n) \in Seq(S) /\ SubSeq(w, n + 1, Len(w)) \in Seq(S)
    BY <1>1, SubSeqProperties
  <1>3. SubSeq(w, 1, n) \o SubSeq(w, n + 1, Len(w)) = SubSeq(w, 1, Len(w))
    <2>1. 1 \in 1..Len(w)+1 /\ n \in 1-1..Len(w) /\ Len(w) \in n..Len(w)
      BY <1>1
    <2> QED BY <2>1, <1>1, ConcatAdjacentSubSeq
  <1>4. SubSeq(w, 1, Len(w)) = w
    BY SubSeqFull
  <1>5. (i \o SubSeq(w, 1, n)) \o SubSeq(w, n + 1, Len(w))
          = i \o (SubSeq(w, 1, n) \o SubSeq(w, n + 1, Len(w)))
    <2>1. ASSUME NEW x \in Seq(S), NEW y \in Seq(S)
          PROVE  (i \o x) \o y = i \o (x \o y)
      BY ConcatAssociative, SMTT(30)
    <2> QED BY <1>2, <2>1
  <1>6. i \o SubSeq(w, 1, n) \in Seq(S)
    BY <1>2, ConcatProperties
  <1> QED BY <1>2, <1>3, <1>4, <1>5, <1>6

\* The same for the tokens of a session.
LEMMA StreamKept ==
    \A i, w \in Seq(SessionTokens) : \A n \in 1..Len(w) :
      (i \o SubSeq(w, 1, n)) \o SubSeq(w, n + 1, Len(w)) = i \o w
  BY DeliverKeeps, ZenonT(30)

\* Taking the first token of a stream takes it from the first part that has one.
LEMMA TakeFirst ==
    ASSUME NEW S, NEW s \in Seq(S), NEW t \in Seq(S), s # <<>>
    PROVE  /\ Head(s) \in S /\ Tail(s) \in Seq(S)
           /\ Head(s \o t) = Head(s)
           /\ Tail(s \o t) = Tail(s) \o t
           /\ s \o t # <<>>
  <1>1. Len(s) \in Nat /\ Len(t) \in Nat /\ Len(s) > 0
    BY LenProperties, EmptySeq
  <1>2. s \o t \in Seq(S) /\ Len(s \o t) = Len(s) + Len(t)
    BY ConcatProperties
  <1>3. s \o t # <<>>
    BY <1>1, <1>2, EmptySeq
  <1>4. Head(s) \in S /\ Tail(s) \in Seq(S) /\ Len(Tail(s)) = Len(s) - 1
    BY HeadTailProperties
  <1>5. Head(s \o t) = Head(s)
    BY <1>1, <1>2, <1>3, ConcatProperties
  <1>6. Tail(s \o t) = Tail(s) \o t
    <2>1. Tail(s \o t) \in Seq(S) /\ Len(Tail(s \o t)) = Len(s) + Len(t) - 1
      BY <1>2, <1>3, HeadTailProperties
    <2>2. Tail(s) \o t \in Seq(S) /\ Len(Tail(s) \o t) = Len(s) - 1 + Len(t)
      BY <1>4, ConcatProperties
    <2>3. ASSUME NEW k \in 1..Len(s) + Len(t) - 1
          PROVE  Tail(s \o t)[k] = (Tail(s) \o t)[k]
      <3>1. Tail(s \o t)[k] = (s \o t)[k + 1]
        BY <1>1, <1>2, <1>3, HeadTailProperties
      <3>2. CASE k + 1 <= Len(s)
        <4>1. (s \o t)[k + 1] = s[k + 1]
          BY <1>1, <3>2, ConcatProperties
        <4>2. (Tail(s) \o t)[k] = Tail(s)[k]
          BY <1>1, <1>4, <3>2, ConcatProperties
        <4>3. Tail(s)[k] = s[k + 1]
          BY <1>1, <3>2, HeadTailProperties
        <4> QED BY <3>1, <4>1, <4>2, <4>3
      <3>3. CASE k + 1 > Len(s)
        <4>1. (s \o t)[k + 1] = t[k + 1 - Len(s)]
          BY <1>1, <3>3, ConcatProperties
        <4>2. (Tail(s) \o t)[k] = t[k - (Len(s) - 1)]
          BY <1>1, <1>4, <3>3, ConcatProperties
        <4>3. k + 1 - Len(s) = k - (Len(s) - 1)
          BY <1>1
        <4> QED BY <3>1, <4>1, <4>2, <4>3
      <3> QED BY <1>1, <3>2, <3>3
    <2> QED BY <1>1, <2>1, <2>2, <2>3, SeqEqual
  <1> QED BY <1>3, <1>4, <1>5, <1>6

-----------------------------------------------------------------------------
(* Types.                                                                  *)

LEMMA InitTypes == Init => TypeOK
  <1>1. <<>> \in Seq(SessionTokens)
    BY EmptySeq
  <1>2. Init => /\ draining \in BOOLEAN /\ asked \in BOOLEAN /\ resized \in BOOLEAN /\ blank \in BOOLEAN
                /\ SolTypes /\ opened \in BOOLEAN /\ iso \in BOOLEAN /\ inFlight \in BOOLEAN
    BY Zenon DEF Init, ControllerInit, KvmInit, IderInit, SolTypes
  <1>3. Init => ChannelTypes
    BY <1>1, <1>2 DEF Init, ControllerInit, ChannelInit, ControllerStates, ChannelTypes
  <1>4. Init => KvmTypes /\ IderTypes
    BY <1>2 DEF Init, KvmInit, IderInit, Formats, Sizes, KvmTypes, IderTypes
  <1> QED BY <1>2, <1>3, <1>4 DEF TypeOK

\* A new session is typed, and so is one that stays or has failed.
LEMMA SessionTypes ==
    ASSUME TypeOK, SessionNew \/ SessionStays \/ SessionFails
    PROVE  SolTypes' /\ KvmTypes' /\ IderTypes'
  <1> USE DEF TypeOK, SolTypes, KvmTypes, IderTypes
  <1>1. CASE SessionNew
    <2>1. /\ solOpen' \in BOOLEAN /\ opened' \in BOOLEAN
          /\ iso' \in BOOLEAN /\ inFlight' \in BOOLEAN
      BY <1>1, Zenon DEF SessionNew, SolNew, IderNew
    <2> QED BY <1>1, <2>1 DEF SessionNew, KvmNew, IderNew, kvmDevice, Formats
  <1>2. CASE SessionStays
    BY <1>2 DEF SessionStays, sessionVars, solVars, kvmVars, kvmDevice, iderVars
  <1>3. CASE SessionFails
    <2>1. SolTypes'
      BY <1>3, Zenon DEF SessionFails, SolFail, solVars
    <2>2. KvmTypes'
      BY <1>3 DEF SessionFails, KvmFail, kvmVars, kvmDevice
    <2>3. opened' \in BOOLEAN /\ iso' \in BOOLEAN
      BY <1>3, Zenon DEF SessionFails, IderFail, iderVars
    <2> QED BY <1>3, <2>1, <2>2, <2>3 DEF SessionFails, IderFail, iderVars
  <1> QED BY <1>1, <1>2, <1>3

\* The steps of the controller alone.
ControllerStep == \/ Open \/ Stop \/ SshConfig \/ Trust \/ SshAsks \/ SshDrops \/ Prompt
                  \/ LinkEnds \/ SshEnds \/ Progress

LEMMA ControllerTypes ==
    ASSUME TypeOK, ControllerStep
    PROVE  TypeOK'
  <1>1. <<>> \in Seq(SessionTokens)
    BY EmptySeq
  <1>2. SessionNew \/ SessionStays \/ SessionFails
    BY DEF ControllerStep, Open, Stop, SshConfig, Trust, SshAsks, SshDrops, Prompt, LinkEnds,
           SshEnds, Progress
  <1>3. ChannelTypes'
    <2> USE DEF TypeOK, ChannelTypes, ControllerStates
    <2>1. CASE Open \/ Stop
      BY <1>1, <2>1 DEF Open, Stop, OpenNow, OpenDeferred, Close, DialNew, Teardown, chan
    <2>2. CASE SshConfig \/ SshAsks \/ SshDrops
      BY <2>2 DEF SshConfig, SshAsks, SshDrops, SetSshConfig, SshHostKeyPrompt, SshBroken, chan
    <2>3. CASE Trust \/ Prompt
      BY <2>3 DEF Trust, Prompt, TrustPendingCert, TrustPendingSshHostKey,
                  TrustPromptRequired, Ask, Proceed, chan
    <2>4. CASE LinkEnds
      BY <1>1, <2>4 DEF LinkEnds, ClientFailed, RemoteClosed, RemoteClose
    <2>5. CASE SshEnds
      BY <1>1, <2>5 DEF SshEnds, SshConnected, SshBroken, DialNew, Teardown, chan
    <2>6. CASE Progress
      BY <1>1, <2>6 DEF Progress, TunnelOpened, AuthProgress, Adopt
    <2> QED BY <2>1, <2>2, <2>3, <2>4, <2>5, <2>6 DEF ControllerStep
  <1> QED BY <1>2, <1>3, SessionTypes DEF TypeOK

\* What the sessions do to the channel keeps its types.
LEMMA RawBytesTypes ==
    ASSUME TypeOK, RawBytes
    PROVE  ChannelTypes'
  <1> USE DEF TypeOK, ChannelTypes
  <1>1. PICK n \in 1..Len(wire) : /\ inbox' = inbox \o SubSeq(wire, 1, n)
                                  /\ wire' = SubSeq(wire, n + 1, Len(wire))
    BY DEF RawBytes, Deliver
  <1>2. inbox' \in Seq(SessionTokens) /\ wire' \in Seq(SessionTokens)
    BY <1>1, DeliverKeeps
  <1>3. draining' \in BOOLEAN
    BY Zenon DEF RawBytes
  <1> QED BY <1>2, <1>3 DEF RawBytes, Deliver

LEMMA AuthenticatedTypes ==
    ASSUME TypeOK, NEW ok, NEW first, NEW hello \in Seq(SessionTokens),
           Authenticated(ok, first, hello)
    PROVE  ChannelTypes'
  BY EmptySeq DEF TypeOK, ChannelTypes, Authenticated, Establish, ControllerStates

LEMMA AnswerTypes ==
    ASSUME TypeOK, NEW ts \in Seq(SessionTokens), Answer(ts)
    PROVE  ChannelTypes'
  <1>1. wire \o ts \in Seq(SessionTokens)
    BY ConcatProperties DEF TypeOK, ChannelTypes
  <1> QED BY <1>1 DEF TypeOK, ChannelTypes, Answer

LEMMA ChatterTypes ==
    ASSUME TypeOK, NEW t \in SessionTokens, Chatter(t)
    PROVE  ChannelTypes'
  <1>1. Append(wire, t) \in Seq(SessionTokens)
    BY AppendProperties DEF TypeOK, ChannelTypes
  <1> QED BY <1>1 DEF TypeOK, ChannelTypes, Chatter, Transmit

LEMMA InboxTailTypes ==
    ASSUME TypeOK, inbox # <<>>
    PROVE  Tail(inbox) \in Seq(SessionTokens)
  BY HeadTailProperties DEF TypeOK, ChannelTypes

\* The steps of the three sessions keep the types.
SolStep  == SolStarted \/ SolRawBytes \/ SolDrain \/ SendInput \/ SolDevice \/ SolChatter
LEMMA SolStepTypes ==
    ASSUME TypeOK, SolStep
    PROVE  ChannelTypes' /\ SolTypes'
  <1> USE DEF TypeOK
  <1>1. \A t \in SolTokens : t \in SessionTokens /\ <<t>> \in Seq(SessionTokens)
    BY DEF SessionTokens
  <1>2. <<>> \in Seq(SessionTokens)
    BY EmptySeq
  <1>3. CASE SolStarted \/ SolRawBytes
    BY <1>2, <1>3, AuthenticatedTypes, RawBytesTypes DEF SolStarted, SolRawBytes, solVars, SolTypes
  <1>4. CASE SolDrain
    <2>1. draining' \in BOOLEAN /\ SolTypes'
      BY <1>4, Zenon DEF SolDrain, SolDrainEnd, SolOpenReply, SolRefused, SolData, SolFail,
                         solVars, SolTypes, ChannelTypes
    <2>2. inbox' \in Seq(SessionTokens)
      BY <1>4, InboxTailTypes DEF SolDrain, SolDrainEnd, SolOpenReply, SolRefused, SolData,
                                  ChannelTypes
    <2>3. wire' \in Seq(SessionTokens)
      BY <1>2, <1>4 DEF SolDrain, SolDrainEnd, SolOpenReply, SolRefused, SolData, SessionClosed,
                        ChannelTypes
    <2> QED BY <1>4, <2>1, <2>2, <2>3 DEF SolDrain, SolDrainEnd, SolOpenReply, SolRefused,
               SolData, SessionClosed, solFrame, ControllerStates, ChannelTypes
  <1>5. CASE SendInput
    BY <1>5 DEF SendInput, chan, solVars, ChannelTypes, SolTypes
  <1>6. CASE SolDevice
    BY <1>1, <1>2, <1>6, AnswerTypes DEF SolDevice, solVars, SolTypes, SolTokens, SolAnswers,
                                         SolConsumed
  <1>7. CASE SolChatter
    BY <1>1, <1>7, ChatterTypes DEF SolChatter, solVars, SolTypes
  <1> QED BY <1>3, <1>4, <1>5, <1>6, <1>7 DEF SolStep

IderStep == \/ IderStarted \/ IderRawBytes \/ IderDrain \/ SendNextScsiChunk
            \/ IderDeviceReads \/ IderDeviceSends
LEMMA IderStepTypes ==
    ASSUME TypeOK, IderStep
    PROVE  ChannelTypes' /\ IderTypes'
  <1> USE DEF TypeOK
  <1>1. \A t \in IderTokens : t \in SessionTokens /\ <<t>> \in Seq(SessionTokens)
    BY DEF SessionTokens
  <1>2. <<>> \in Seq(SessionTokens)
    BY EmptySeq
  <1>3. CASE IderStarted
    <2>1. ChannelTypes'
      BY <1>2, <1>3, AuthenticatedTypes DEF IderStarted
    <2>2. opened' \in BOOLEAN /\ iso' \in BOOLEAN /\ inFlight' \in BOOLEAN
      BY <1>3, Zenon DEF IderStarted, IderFail, IderTypes
    <2> QED BY <1>3, <2>1, <2>2 DEF IderStarted, IderFail, IderTypes
  <1>4. CASE IderRawBytes
    BY <1>4, RawBytesTypes DEF IderRawBytes, iderVars, IderTypes
  <1>5. CASE IderDrain
    <2> USE DEF IderDrain, IderDrainEnd, OnOpenSessionReply, IderFails, IderKeepAlive,
                OnStatusData, ScsiAtOnce, ScsiReadRefused, ScsiReadOverlaps, ScsiRead
    <2>1. draining' \in BOOLEAN /\ opened' \in BOOLEAN /\ iso' \in BOOLEAN /\ inFlight' \in BOOLEAN
      BY <1>5, Zenon DEF Reply, IderFail, iderVars, iderRead, ChannelTypes, IderTypes
    <2>2. inbox' \in Seq(SessionTokens)
      BY <1>5, InboxTailTypes DEF IderHead, Reply, ChannelTypes
    <2>3. wire' \in Seq(SessionTokens)
      BY <1>2, <1>5 DEF Reply, SessionClosed, ChannelTypes
    <2>4. /\ link' \in {"Down", "Dialling", "Asking", "Open", "Failed"}
          /\ owed' \in {0, 1} /\ kind' \in Kinds /\ ctl' \in ControllerStates
      BY <1>5 DEF Reply, SessionClosed, iderFrame, ChannelTypes, ControllerStates
    <2>5. position' \in Nat /\ remaining' \in Nat /\ timers' \in Nat
      BY <1>5, IsoAssumption DEF IderFail, iderVars, iderRead, IderTypes, Lba, Count
    <2> QED BY <2>1, <2>2, <2>3, <2>4, <2>5 DEF ChannelTypes, IderTypes
  <1>6. CASE SendNextScsiChunk
    <2> USE DEF SendNextScsiChunk, ChunkNone, ChunkShort, ChunkSent
    <2>1. /\ opened' \in BOOLEAN /\ iso' \in BOOLEAN
          /\ inFlight' \in BOOLEAN
      <3>1. opened' \in BOOLEAN /\ iso' \in BOOLEAN
        BY <1>6, Zenon DEF IderTypes
      <3>2. CASE ChunkSent
        <4>1. (remaining > 1) \in BOOLEAN
          OBVIOUS
        <4> QED BY <3>1, <3>2, <4>1, Zenon
      <3>3. CASE ChunkNone \/ ChunkShort
        BY <3>1, <3>3, Zenon
      <3> QED BY <1>6, <3>2, <3>3
    <2>2. position' \in Nat /\ remaining' \in Nat /\ timers' \in Nat
      BY <1>6 DEF IderTypes
    <2>3. ChannelTypes'
      BY <1>2, <1>6 DEF SessionClosed, iderFrame, chan, ctlVars, ControllerStates, ChannelTypes
    <2> QED BY <2>1, <2>2, <2>3 DEF IderTypes
  <1>7. CASE IderDeviceReads
    BY <1>1, <1>2, <1>7, AnswerTypes
       DEF IderDeviceReads, IderTokens, IderFatal, iderSession, iderRead, IderTypes
  <1>8. CASE IderDeviceSends
    BY <1>1, <1>8, ChatterTypes DEF IderDeviceSends, iderSession, iderRead, IderTypes
  <1> QED BY <1>3, <1>4, <1>5, <1>6, <1>7, <1>8 DEF IderStep

KvmStep == \/ KvmStarted \/ KvmRawBytes \/ KvmDrain \/ QueuedDrain \/ SendPointer
           \/ KvmDeviceReads \/ KvmDeviceUpdates \/ KvmDeviceResizes \/ KvmChatter
LEMMA KvmStepTypes ==
    ASSUME TypeOK, KvmStep
    PROVE  ChannelTypes' /\ KvmTypes'
  <1> USE DEF TypeOK
  <1>1. \A t \in KvmTokens : t \in SessionTokens /\ <<t>> \in Seq(SessionTokens)
    BY DEF SessionTokens
  <1>2. <<>> \in Seq(SessionTokens)
    BY EmptySeq
  <1>3. CASE KvmStarted
    <2>1. ChannelTypes'
      BY <1>1, <1>3, AuthenticatedTypes DEF KvmStarted, KvmTokens
    <2>2. asked' \in BOOLEAN /\ resized' \in BOOLEAN /\ blank' \in BOOLEAN
      BY <1>3, Zenon DEF KvmStarted
    <2> QED BY <1>3, <2>1, <2>2 DEF KvmStarted, KvmTypes, Handshake, Formats
  <1>4. CASE KvmRawBytes
    BY <1>4, RawBytesTypes, StepsAssumption DEF KvmRawBytes, kvmDevice, KvmTypes
  <1>5. CASE KvmDrain
    <2> USE DEF KvmDrain, KvmDrainStops, KvmAuthFailed, KvmServerInit, StepHandshake, KvmUpdate,
                KvmRect, KvmRectBad, KvmDesktopSize, KvmOther
    <2>1. draining' \in BOOLEAN
      <3>1. (steps > 1) \in BOOLEAN
        OBVIOUS
      <3> QED BY <1>5, <3>1, Zenon DEF StepFails, StepQuietly, StepWrites, Continue
    <2>2. inbox' \in Seq(SessionTokens)
      BY <1>5, InboxTailTypes DEF NextIs, ChannelTypes
    <2>3. wire' \in Seq(SessionTokens)
      BY <1>2, <1>5 DEF StepFails, StepQuietly, StepWrites, SessionClosed, ChannelTypes
    <2>4. /\ link' \in {"Down", "Dialling", "Asking", "Open", "Failed"}
          /\ ctl' \in ControllerStates
      BY <1>5 DEF StepFails, StepQuietly, StepWrites, SessionClosed, ChannelTypes,
                  ControllerStates
    <2>5. kvm' \in Handshake \cup {"Idle", "FrameLoop", "Failed"}
      BY <1>5 DEF StepFails, StepQuietly, StepWrites, Handshake, KvmTypes
    <2>6. format' \in Formats
      BY <1>5 DEF Wanted, Formats, KvmTypes
    <2>7. pending' \in 0..2 /\ queuedDrains' \in Nat
      BY <1>5 DEF RectsOf, StepFails, StepQuietly, StepWrites, Continue, KvmTypes
    <2>8. steps' \in Int
      BY <1>5 DEF StepFails, StepQuietly, StepWrites, Continue, KvmTypes
    <2>9. UNCHANGED kvmFrame
      BY <1>5
    <2> QED BY <2>1, <2>2, <2>3, <2>4, <2>5, <2>6, <2>7, <2>8, <2>9
               DEF kvmFrame, kvmDevice, ChannelTypes, KvmTypes
  <1>6. CASE QueuedDrain
    <2>1. draining' \in BOOLEAN
      BY <1>6, Zenon DEF QueuedDrain
    <2> QED BY <1>6, <2>1, StepsAssumption DEF QueuedDrain, kvmFrame, kvmDevice, ChannelTypes,
                                               KvmTypes
  <1>7. CASE SendPointer
    BY <1>2, <1>7 DEF SendPointer, SessionClosed, kvmFrame, kvmDevice, ChannelTypes, KvmTypes,
                      ControllerStates
  <1>8. CASE KvmDeviceReads
    <2>1. InitOf(desktop) \in KvmTokens
      BY DEF InitOf, KvmTokens, Inits
    <2>2. ChannelTypes'
      BY <1>1, <1>2, <1>8, <2>1, AnswerTypes DEF KvmDeviceReads, KvmTokens
    <2>3. asked' \in BOOLEAN
      BY <1>8, Zenon DEF KvmDeviceReads, kvmDevice, KvmTypes
    <2> QED BY <1>8, <2>2, <2>3 DEF KvmDeviceReads, kvmDevice, deviceFrame, KvmTypes
  <1>9. CASE KvmDeviceUpdates
    <2>1. \A u \in UpdateFrames : wire \o u \in Seq(SessionTokens)
      <3>1. ResizeOf(desktop) \in SessionTokens /\ RectOf(deviceFmt) \in SessionTokens
        BY <1>1 DEF ResizeOf, RectOf, KvmTokens, Resizes, Rects
      <3>2. "Update1" \in SessionTokens /\ "Update2" \in SessionTokens /\ "RectBad" \in SessionTokens
        BY <1>1 DEF KvmTokens, Updates
      <3>3. \A u \in UpdateFrames : u \in Seq(SessionTokens)
        <4>1. \A x, y, z \in SessionTokens : /\ <<x, y>> \in Seq(SessionTokens)
                                             /\ <<x, y, z>> \in Seq(SessionTokens)
          OBVIOUS
        <4> QED BY <3>1, <3>2, <4>1 DEF UpdateFrames
      <3> QED BY <3>3, ConcatProperties DEF ChannelTypes
    <2>2. asked' = FALSE /\ (resized' = resized \/ resized' = FALSE)
          /\ (blank' = blank \/ blank' = TRUE)
      BY <1>9 DEF KvmDeviceUpdates
    <2>3. Append(wire, "Update0") \in Seq(SessionTokens)
      <3>1. "Update0" \in SessionTokens
        BY <1>1 DEF KvmTokens, Updates
      <3> QED BY <3>1, AppendProperties DEF ChannelTypes
    <2>4. wire' \in Seq(SessionTokens)
      BY <1>9, <2>1, <2>3 DEF KvmDeviceUpdates
    <2>5. asked' \in BOOLEAN /\ resized' \in BOOLEAN /\ blank' \in BOOLEAN
      <3>1. resized \in BOOLEAN /\ blank \in BOOLEAN
        BY DEF KvmTypes
      <3> QED BY <2>2, <3>1
    <2> QED BY <1>9, <2>4, <2>5 DEF KvmDeviceUpdates, deviceFrame, ChannelTypes, KvmTypes
  <1>10. CASE KvmDeviceResizes
    <2>1. resized' \in BOOLEAN
      BY <1>10, Zenon DEF KvmDeviceResizes
    <2> QED BY <1>10, <2>1 DEF KvmDeviceResizes, chan, deviceFrame, ChannelTypes, KvmTypes
  <1>11. CASE KvmChatter
    BY <1>1, <1>11, ChatterTypes DEF KvmChatter, KvmTokens, kvmDevice, deviceFrame, KvmTypes
  <1> QED BY <1>3, <1>4, <1>5, <1>6, <1>7, <1>8, <1>9, <1>10, <1>11 DEF KvmStep

\* A step is the controller's or its session's.
LEMMA NextCases ==
    ASSUME Next
    PROVE  ControllerStep \/ InSol(SolStep) \/ InKvm(KvmStep) \/ InIder(IderStep)
  BY DEF Next, EventLoop, ControllerStep, Started, Received, Draining, Posted, Input, Device,
         Unasked, InSol, InKvm, InIder, SolStep, KvmStep, IderStep

LEMMA NextTypes == TypeOK /\ [Next]_vars => TypeOK'
  <1> SUFFICES ASSUME TypeOK, [Next]_vars
               PROVE  TypeOK'
    OBVIOUS
  <1>1. CASE ControllerStep
    BY <1>1, ControllerTypes
  <1>2. CASE InSol(SolStep)
    BY <1>2, SolStepTypes DEF InSol, kvmVars, kvmDevice, iderVars, TypeOK, KvmTypes, IderTypes
  <1>3. CASE InKvm(KvmStep)
    BY <1>3, KvmStepTypes DEF InKvm, solVars, iderVars, TypeOK, SolTypes, IderTypes
  <1>4. CASE InIder(IderStep)
    BY <1>4, IderStepTypes DEF InIder, solVars, kvmVars, kvmDevice, TypeOK, SolTypes, KvmTypes
  <1>5. CASE UNCHANGED vars
    BY <1>5 DEF vars, chan, ctlVars, solVars, kvmVars, kvmDevice, iderVars, TypeOK,
                ChannelTypes, SolTypes, KvmTypes, IderTypes
  <1> QED BY <1>1, <1>2, <1>3, <1>4, <1>5, NextCases

-----------------------------------------------------------------------------
(* The link and the panel.                                                 *)

\* The controller's steps come between the drains.
LEMMA ControllerOutside ==
    ASSUME ControllerStep
    PROVE  ~draining /\ ~draining' /\ kind' = kind
  <1>1. CASE Open \/ Stop
    BY <1>1 DEF Open, Stop, OpenNow, OpenDeferred, MayOpen, Close
  <1>2. CASE SshConfig \/ SshAsks \/ SshDrops \/ SshEnds
    <2>1. CASE SshConfig \/ SshAsks \/ SshDrops
      BY <2>1 DEF SshConfig, SshAsks, SshDrops, SetSshConfig, SshHostKeyPrompt, SshBroken
    <2>2. CASE SshEnds
      <3>1. ~draining /\ UNCHANGED <<kind, draining>>
        <4>1. ASSUME NEW c \in BOOLEAN, SshConnected(c)
              PROVE  ~draining /\ UNCHANGED <<kind, draining>>
          BY <4>1, Zenon DEF SshConnected
        <4>2. SshBroken("Connecting") => ~draining /\ UNCHANGED <<kind, draining>>
          BY Zenon DEF SshBroken
        <4> QED BY <2>2, <4>1, <4>2 DEF SshEnds
      <3> QED BY <3>1
    <2> QED BY <1>2, <2>1, <2>2
  <1>3. CASE Trust \/ Prompt
    BY <1>3 DEF Trust, Prompt, TrustPendingCert, TrustPendingSshHostKey, TrustPromptRequired
  <1>4. CASE LinkEnds \/ Progress
    BY <1>4 DEF LinkEnds, Progress, ClientFailed, RemoteClosed, TunnelOpened, AuthProgress
  <1> QED BY <1>1, <1>2, <1>3, <1>4 DEF ControllerStep

\* A step of the controller keeps the link and its session together, and leaves no
\* panel connected without them.
LEMMA ControllerLink ==
    ASSUME TypeOK, LinkInv, PanelInv, ControllerStep
    PROVE  LinkInv' /\ PanelInv'
  <1> USE DEF LinkInv, PanelInv, TypeOK, ChannelTypes, Kinds
  <1>1. ~draining /\ ~draining' /\ kind' = kind
    BY ControllerOutside
  <1>2. SessionNew => /\ kvm' = "Idle" /\ pending' = 0 /\ queuedDrains' = 0
                      /\ ~iso' /\ ~inFlight' /\ timers' = 0 /\ owedBlocks' = <<>>
    BY DEF SessionNew, KvmNew, IderNew
  <1>3. SessionStays => UNCHANGED <<kvm, pending, queuedDrains, iso, inFlight, timers, owedBlocks,
                                    solOpen, opened>>
    BY DEF SessionStays, sessionVars, solVars, kvmVars, iderVars
  <1>4. CASE Open \/ Stop
    BY <1>1, <1>2, <1>3, <1>4 DEF Open, Stop, OpenNow, OpenDeferred, Close, DialNew, Teardown, chan
  <1>5. CASE SshConfig \/ SshAsks \/ SshDrops
    BY <1>1, <1>3, <1>5 DEF SshConfig, SshAsks, SshDrops, SetSshConfig, SshHostKeyPrompt,
                            SshBroken, chan
  <1>6. CASE Trust \/ Prompt
    BY <1>1, <1>3, <1>6 DEF Trust, Prompt, TrustPendingCert, TrustPendingSshHostKey,
                            TrustPromptRequired, Ask, Proceed, chan
  <1>7. CASE LinkEnds
    BY <1>1, <1>3, <1>7 DEF LinkEnds, ClientFailed, RemoteClosed, RemoteClose, SessionFails,
                            KvmFail, kvmVars
  <1>8. CASE SshEnds
    BY <1>1, <1>2, <1>3, <1>8 DEF SshEnds, SshConnected, SshBroken, DialNew, Teardown, chan
  <1>9. CASE Progress
    BY <1>1, <1>3, <1>9 DEF Progress, TunnelOpened, AuthProgress, Adopt
  <1> QED BY <1>4, <1>5, <1>6, <1>7, <1>8, <1>9 DEF ControllerStep

LEMMA SolLink ==
    ASSUME TypeOK, LinkInv, PanelInv, InSol(SolStep)
    PROVE  LinkInv' /\ PanelInv'
  <1> USE DEF LinkInv, PanelInv, TypeOK, ChannelTypes, InSol
  <1>1. /\ UNCHANGED <<kvm, pending, queuedDrains, iso, inFlight, timers, owedBlocks>>
        /\ kind = "Sol" /\ kind' = kind
    BY DEF kvmVars, iderVars, SolStep, SolStarted, SolRawBytes, SolDrain, SendInput, SolDevice,
           SolChatter, Authenticated, RawBytes, SolDrainEnd, SolOpenReply, SolRefused, SolData,
           solFrame, Answer, Chatter
  <1>2. CASE SolStarted \/ SolRawBytes
    BY <1>1, <1>2 DEF SolStarted, SolRawBytes, Authenticated, Establish, RawBytes, Deliver, solVars
  <1>3. CASE SolDrain
    BY <1>1, <1>3 DEF SolDrain, SolDrainEnd, SolOpenReply, SolRefused, SolData, SessionClosed,
                      solFrame, solVars
  <1>4. CASE SendInput
    BY <1>1, <1>4 DEF SendInput, chan, solVars
  <1>5. CASE SolDevice \/ SolChatter
    BY <1>1, <1>5 DEF SolDevice, SolChatter, Answer, Chatter, Transmit, solVars
  <1> QED BY <1>2, <1>3, <1>4, <1>5 DEF SolStep

LEMMA IderLink ==
    ASSUME TypeOK, LinkInv, PanelInv, InIder(IderStep)
    PROVE  LinkInv' /\ PanelInv'
  <1> USE DEF LinkInv, PanelInv, TypeOK, ChannelTypes, InIder
  <1>1. UNCHANGED <<kvm, pending, queuedDrains>> /\ kind = "Ider" /\ kind' = kind
    BY DEF kvmVars, IderStep, IderStarted, IderRawBytes, IderDrain, SendNextScsiChunk,
           IderDeviceReads, IderDeviceSends, Authenticated, RawBytes, IderDrainEnd,
           OnOpenSessionReply, IderFails, IderKeepAlive, OnStatusData, ScsiAtOnce,
           ScsiReadRefused, ScsiReadOverlaps, ScsiRead, ChunkNone, ChunkShort, ChunkSent,
           Reply, iderFrame, ctlVars, Answer, Chatter
  <1>2. CASE IderStarted \/ IderRawBytes
    BY <1>1, <1>2 DEF IderStarted, IderRawBytes, Authenticated, Establish, RawBytes, Deliver,
                      IderFail, iderVars
  <1>3. CASE IderDrain
    BY <1>1, <1>3 DEF IderDrain, IderDrainEnd, OnOpenSessionReply, IderFails, IderKeepAlive,
                OnStatusData, ScsiAtOnce, ScsiReadRefused, ScsiReadOverlaps, ScsiRead, Reply,
                IderHead, IderFail, SessionClosed, iderFrame, iderVars, iderRead
  <1>4. CASE SendNextScsiChunk
    BY <1>1, <1>4 DEF SendNextScsiChunk, ChunkNone, ChunkShort, ChunkSent, CanSend,
                      SessionClosed, iderFrame, chan, ctlVars
  <1>5. CASE IderDeviceReads \/ IderDeviceSends
    BY <1>1, <1>5 DEF IderDeviceReads, IderDeviceSends, Answer, Chatter, Transmit,
                      iderSession, iderRead
  <1> QED BY <1>2, <1>3, <1>4, <1>5 DEF IderStep

-----------------------------------------------------------------------------
(* IDE-R: reads.                                                           *)

\* The next block is the first of those that are left.
LEMMA BlocksTail ==
    ASSUME NEW p \in Nat, NEW n \in Nat \ {0}
    PROVE  Tail(Blocks(p, n)) = Blocks(p + 1, n - 1)
  <1>1. Blocks(p, n) \in Seq(Nat) /\ Len(Blocks(p, n)) = n
    BY DEF Blocks
  <1>2. Blocks(p + 1, n - 1) \in Seq(Nat) /\ Len(Blocks(p + 1, n - 1)) = n - 1
    BY DEF Blocks
  <1>3. Blocks(p, n) # <<>>
    BY <1>1, EmptySeq
  <1>4. /\ Tail(Blocks(p, n)) \in Seq(Nat) /\ Len(Tail(Blocks(p, n))) = n - 1
        /\ \A i \in 1..n-1 : Tail(Blocks(p, n))[i] = Blocks(p, n)[i + 1]
    BY <1>1, <1>3, HeadTailProperties
  <1>5. \A i \in 1..n-1 : Blocks(p, n)[i + 1] = Blocks(p + 1, n - 1)[i]
    BY DEF Blocks
  <1> QED BY <1>2, <1>4, <1>5, SeqEqual

LEMMA ControllerRead ==
    ASSUME TypeOK, LinkInv, ReadInv, ControllerStep
    PROVE  ReadInv'
  <1>1. SessionNew \/ SessionStays \/ SessionFails
    BY DEF ControllerStep, Open, Stop, SshConfig, Trust, SshAsks, SshDrops, Prompt, LinkEnds,
           SshEnds, Progress
  <1>2. CASE SessionNew
    BY <1>2 DEF SessionNew, IderNew, ReadInv
  <1>3. CASE SessionStays
    BY <1>3 DEF SessionStays, sessionVars, iderVars, ReadInv
  <1>4. CASE SessionFails
    BY <1>4 DEF SessionFails, IderFail, iderVars, ReadInv
  <1> QED BY <1>1, <1>2, <1>3, <1>4

LEMMA IderRead ==
    ASSUME TypeOK, LinkInv, ReadInv, IderStep
    PROVE  ReadInv'
  <1> USE DEF TypeOK, IderTypes, ReadInv
  <1>1. CASE IderStarted
    BY <1>1 DEF IderStarted, Authenticated, Establish, IderFail, LinkInv
  <1>2. CASE IderRawBytes
    BY <1>2 DEF IderRawBytes, iderVars
  <1>3. CASE ScsiRead
    <2>1. Lba(Head(inbox)) \in Nat /\ Count(Head(inbox)) \in Nat \ {0}
      BY IsoAssumption DEF Lba, Count
    <2>2. Blocks(Lba(Head(inbox)), Count(Head(inbox))) \in Seq(Nat)
      BY <2>1 DEF Blocks
    <2>3. <<>> \o Blocks(Lba(Head(inbox)), Count(Head(inbox)))
            = Blocks(Lba(Head(inbox)), Count(Head(inbox)))
      BY <2>2, ConcatEmptySeq
    <2>4. iso /\ ~inFlight /\ iso' = iso /\ inFlight'
      BY <1>3 DEF ScsiRead
    <2>5. owedBlocks' = Blocks(position', remaining') /\ timers' = 1 /\ remaining' > 0
      <3>1. position' = Lba(Head(inbox)) /\ remaining' = Count(Head(inbox)) /\ timers' = timers + 1
        BY <1>3 DEF ScsiRead
      <3>2. timers = 0 /\ owedBlocks = <<>>
        BY <2>4
      <3>3. owedBlocks' = owedBlocks \o Blocks(Lba(Head(inbox)), Count(Head(inbox)))
        BY <1>3 DEF ScsiRead
      <3>4. owedBlocks' = Blocks(position', remaining')
        BY <2>3, <3>1, <3>2, <3>3
      <3> QED BY <2>1, <3>1, <3>2, <3>4
    <2> QED BY <2>4, <2>5
  <1>4. CASE IderDrain /\ ~ScsiRead
    BY <1>4 DEF IderDrain, IderDrainEnd, OnOpenSessionReply, IderFails, IderKeepAlive,
                OnStatusData, ScsiAtOnce, ScsiReadRefused, ScsiReadOverlaps, IderFail,
                iderVars, iderRead
  <1>5. CASE ChunkNone \/ ChunkShort
    BY <1>5 DEF ChunkNone, ChunkShort
  <1>6. CASE ChunkSent
    <2>1. iso /\ timers > 0 /\ remaining > 0 /\ inFlight
      BY <1>6 DEF ChunkSent
    <2>2. Tail(owedBlocks) = Blocks(position + 1, remaining - 1)
      BY <2>1, BlocksTail
    <2>3. /\ remaining' = remaining - 1 /\ position' = position + 1
          /\ inFlight' <=> remaining > 1
          /\ remaining > 1 => timers' = timers
          /\ ~(remaining > 1) => timers' = timers - 1
          /\ owedBlocks' = Tail(owedBlocks) \/ iso' = FALSE
      BY <1>6, Zenon DEF ChunkSent
    <2>4. CASE iso' = FALSE
      BY <2>4
    <2>5. CASE owedBlocks' = Tail(owedBlocks)
      <3>1. owedBlocks' = Blocks(position', remaining')
        BY <2>2, <2>3, <2>5
      <3>2. timers = 1
        BY <2>1
      <3>3. CASE remaining > 1
        BY <2>1, <2>3, <3>1, <3>2, <3>3
      <3>4. CASE ~(remaining > 1)
        <4>1. Blocks(position', 0) = <<>>
          BY DEF Blocks
        <4>2. remaining' = 0 /\ timers' = 0 /\ ~inFlight'
          BY <2>1, <2>3, <3>2, <3>4
        <4> QED BY <3>1, <4>1, <4>2
      <3> QED BY <3>3, <3>4
    <2> QED BY <2>3, <2>4, <2>5
  <1>7. CASE IderDeviceReads \/ IderDeviceSends
    <2>1. UNCHANGED iderSession
      BY <1>7, Zenon DEF IderDeviceReads, IderDeviceSends
    <2> QED BY <2>1 DEF iderSession, iderRead
  <1> QED BY <1>1, <1>2, <1>3, <1>4, <1>5, <1>6, <1>7 DEF IderStep, IderDrain, SendNextScsiChunk

-----------------------------------------------------------------------------
(* KVM: the stream of a live session.                                      *)

LEMMA NoiseIsTokens ==
    ASSUME NEW s \in Seq(Filler)
    PROVE  s \in Seq(KvmTokens)
  BY DEF Filler, KvmTokens, Updates

LEMMA ShortTuples ==
    \A x, y, z : /\ Head(<<x>>) = x /\ Tail(<<x>>) = <<>>
                 /\ Head(<<x, y>>) = x /\ Tail(<<x, y>>) = <<y>>
                 /\ Head(<<x, y, z>>) = x /\ Tail(<<x, y, z>>) = <<y, z>>
  OBVIOUS

LEMMA PairConcat ==
    ASSUME NEW x, NEW y
    PROVE  <<x>> \o <<y>> = <<x, y>>
  <1>1. <<x>> \in Seq({x, y}) /\ <<y>> \in Seq({x, y}) /\ <<x, y>> \in Seq({x, y})
    OBVIOUS
  <1>2. /\ <<x>> \o <<y>> \in Seq({x, y}) /\ Len(<<x>> \o <<y>>) = 2
        /\ (<<x>> \o <<y>>)[1] = x /\ (<<x>> \o <<y>>)[2] = y
    BY <1>1, ConcatProperties
  <1>3. Len(<<x, y>>) = 2 /\ <<x, y>>[1] = x /\ <<x, y>>[2] = y
    OBVIOUS
  <1>4. \A i \in 1..2 : (<<x>> \o <<y>>)[i] = <<x, y>>[i]
    BY <1>2, <1>3
  <1> QED BY <1>1, <1>2, <1>3, <1>4, SeqEqual

LEMMA BodyIsTokens ==
    ASSUME NEW p \in 0..2, NEW f \in Formats, NEW u \in Body(p, f)
    PROVE  /\ u \in Seq(KvmTokens) /\ u # <<>>
           /\ p = 0 => \/ Head(u) = "Update1" /\ Tail(u) \in Body(1, f)
                       \/ Head(u) = "Update2" /\ Tail(u) \in Body(2, f)
           /\ p = 1 => Head(u) \in {RectOf(f), "RectBad"} \cup Resizes /\ Tail(u) = <<>>
           /\ p = 2 => Head(u) = RectOf(f) /\ Tail(u) \in Body(1, f)
  <1> DEFINE Last == {RectOf(f), "RectBad"} \cup Resizes
  <1>1. RectOf(f) \in KvmTokens /\ Last \subseteq KvmTokens
        /\ "Update1" \in KvmTokens /\ "Update2" \in KvmTokens
    BY DEF RectOf, KvmTokens, Rects, Updates
  <1>2. \A x, y, z \in KvmTokens : /\ <<x>> \in Seq(KvmTokens) /\ <<x>> # <<>>
                                    /\ <<x, y>> \in Seq(KvmTokens) /\ <<x, y>> # <<>>
                                    /\ <<x, y, z>> \in Seq(KvmTokens) /\ <<x, y, z>> # <<>>
    OBVIOUS
  <1>3. \A x, y, z : /\ Head(<<x>>) = x /\ Tail(<<x>>) = <<>>
                     /\ Head(<<x, y>>) = x /\ Tail(<<x, y>>) = <<y>>
                     /\ Head(<<x, y, z>>) = x /\ Tail(<<x, y, z>>) = <<y, z>>
    BY ShortTuples, ZenonT(30)
  <1>4. Body(1, f) = {<<x>> : x \in Last}
    BY DEF Body, Ends
  <1>5. \A x \in {RectOf(f)} \cup Resizes : <<RectOf(f), x>> \in Body(2, f)
    BY DEF Body
  <1>6. CASE p = 0
    <2>1. \/ \E x \in Last : u = <<"Update1", x>>
          \/ \E x \in {RectOf(f)} \cup Resizes : u = <<"Update2", RectOf(f), x>>
      BY <1>6 DEF Body
    <2>2. ASSUME NEW x \in Last, u = <<"Update1", x>>
          PROVE  u \in Seq(KvmTokens) /\ u # <<>> /\ Head(u) = "Update1" /\ Tail(u) \in Body(1, f)
      <3>1. Head(u) = "Update1" /\ Tail(u) = <<x>>
        BY <1>3, <2>2
      <3>2. x \in KvmTokens
        BY <1>1
      <3> QED BY <1>1, <1>2, <1>4, <2>2, <3>1, <3>2
    <2>3. ASSUME NEW x \in {RectOf(f)} \cup Resizes, u = <<"Update2", RectOf(f), x>>
          PROVE  u \in Seq(KvmTokens) /\ u # <<>> /\ Head(u) = "Update2" /\ Tail(u) \in Body(2, f)
      <3>1. Head(u) = "Update2" /\ Tail(u) = <<RectOf(f), x>>
        BY <1>3, <2>3
      <3>2. x \in KvmTokens
        BY <1>1
      <3> QED BY <1>1, <1>2, <1>5, <2>3, <3>1, <3>2
    <2> QED BY <1>6, <2>1, <2>2, <2>3
  <1>7. CASE p = 1
    <2>1. PICK x \in Last : u = <<x>>
      BY <1>4, <1>7
    <2>2. Head(u) = x /\ Tail(u) = <<>>
      BY <1>3, <2>1
    <2>3. x \in KvmTokens
      BY <1>1
    <2> QED BY <1>2, <1>7, <2>1, <2>2, <2>3
  <1>8. CASE p = 2
    <2>1. PICK x \in {RectOf(f)} \cup Resizes : u = <<RectOf(f), x>>
      BY <1>8 DEF Body
    <2>2. Head(u) = RectOf(f) /\ Tail(u) = <<x>>
      BY <1>3, <2>1
    <2>3. x \in KvmTokens /\ x \in Last
      BY <1>1
    <2> QED BY <1>1, <1>2, <1>4, <1>8, <2>1, <2>2, <2>3
  <1> QED BY <1>6, <1>7, <1>8

LEMMA IsLoaded ==
    ASSUME NEW a \in Seq(Filler), NEW b \in Seq(Filler), NEW p, NEW f, NEW u \in Body(p, f),
           p > 0 => a = <<>>
    PROVE  Loaded((a \o u) \o b, p, f)
  BY Zenon DEF Loaded

\* Taking a token of a stream that carries an update: noise before the update, its
\* header, or its next rectangle.
LEMMA TakeLoaded ==
    ASSUME NEW s, NEW p \in 0..2, NEW f \in Formats, Loaded(s, p, f)
    PROVE  /\ s \in Seq(KvmTokens) /\ s # <<>>
           /\ p = 0 => \/ Head(s) \in Filler /\ Loaded(Tail(s), 0, f)
                       \/ Head(s) = "Update1" /\ Loaded(Tail(s), 1, f)
                       \/ Head(s) = "Update2" /\ Loaded(Tail(s), 2, f)
           /\ p = 1 => Head(s) \in {RectOf(f), "RectBad"} \cup Resizes /\ Idle(Tail(s))
           /\ p = 2 => Head(s) = RectOf(f) /\ Loaded(Tail(s), 1, f)
  <1>1. PICK a \in Seq(Filler), b \in Seq(Filler), u \in Body(p, f) :
          s = (a \o u) \o b /\ (p > 0 => a = <<>>)
    BY DEF Loaded
  <1>2. a \in Seq(KvmTokens) /\ b \in Seq(KvmTokens) /\ u \in Seq(KvmTokens) /\ u # <<>>
    BY NoiseIsTokens, BodyIsTokens
  <1>3. a \o u \in Seq(KvmTokens) /\ a \o u # <<>>
    BY <1>2, ConcatProperties, ConcatEqualIffEmpty
  <1>4. s \in Seq(KvmTokens) /\ s # <<>>
    BY <1>1, <1>2, <1>3, ConcatProperties, TakeFirst
  <1>5. Head(s) = Head(a \o u) /\ Tail(s) = Tail(a \o u) \o b
    BY <1>1, <1>2, <1>3, TakeFirst, SMTT(30)
  <1>6. CASE a # <<>>
    <2>1. Head(a \o u) = Head(a) /\ Tail(a \o u) = Tail(a) \o u
      BY <1>2, <1>6, TakeFirst
    <2>2. Head(a) \in Filler /\ Tail(a) \in Seq(Filler)
      BY <1>6, HeadTailProperties
    <2>3. p = 0
      BY <1>1, <1>6
    <2>4. Loaded(Tail(s), 0, f)
      <3>1. Tail(s) = (Tail(a) \o u) \o b
        BY <1>5, <2>1
      <3>2. u \in Body(0, f) /\ (0 > 0 => Tail(a) = <<>>)
        BY <2>3
      <3>3. Loaded((Tail(a) \o u) \o b, 0, f)
        BY <2>2, <3>2, IsLoaded, Zenon
      <3> QED BY <3>1, <3>3
    <2> QED BY <1>4, <1>5, <2>1, <2>2, <2>3, <2>4
  <1>7. CASE a = <<>>
    <2>1. a \o u = u
      BY <1>2, <1>7, ConcatEmptySeq
    <2>2. Head(s) = Head(u) /\ Tail(s) = Tail(u) \o b
      BY <1>5, <2>1
    <2>3. <<>> \in Seq(Filler)
      BY EmptySeq
    <2>4. ASSUME NEW q \in 0..2, Tail(u) \in Body(q, f)
          PROVE  Loaded(Tail(s), q, f)
      <3>1. Tail(u) \in Seq(KvmTokens)
        BY <2>4, BodyIsTokens
      <3>2. Tail(s) = (<<>> \o Tail(u)) \o b
        BY <2>2, <3>1, ConcatEmptySeq
      <3> QED BY <2>3, <2>4, <3>2, IsLoaded
    <2>5. Tail(u) = <<>> => Idle(Tail(s))
      <3>1. Tail(u) = <<>> => Tail(s) = b
        BY <2>2, ConcatEmptySeq
      <3> QED BY <3>1 DEF Idle
    <2> QED BY <1>4, <2>2, <2>4, <2>5, BodyIsTokens
  <1> QED BY <1>6, <1>7

LEMMA TakeIdle ==
    ASSUME NEW s, Idle(s), s # <<>>
    PROVE  Head(s) \in Filler /\ Idle(Tail(s))
  BY HeadTailProperties DEF Idle

\* The firmware adds noise, or an update to a stream without one.
LEMMA AddNoise ==
    ASSUME NEW s, NEW t \in Filler
    PROVE  /\ Idle(s) => Idle(Append(s, t))
           /\ \A p \in 0..2, f \in Formats : Loaded(s, p, f) => Loaded(Append(s, t), p, f)
  <1>1. Idle(s) => Idle(Append(s, t))
    BY AppendProperties DEF Idle
  <1>2. ASSUME NEW p \in 0..2, NEW f \in Formats, Loaded(s, p, f)
        PROVE  Loaded(Append(s, t), p, f)
    <2>1. PICK a \in Seq(Filler), b \in Seq(Filler), u \in Body(p, f) :
            s = (a \o u) \o b /\ (p > 0 => a = <<>>)
      BY <1>2 DEF Loaded
    <2>2. a \in Seq(KvmTokens) /\ b \in Seq(KvmTokens) /\ u \in Seq(KvmTokens) /\ t \in KvmTokens
      BY NoiseIsTokens, BodyIsTokens DEF Filler, KvmTokens, Updates
    <2>3. a \o u \in Seq(KvmTokens)
      BY <2>2, ConcatProperties
    <2>4. Append((a \o u) \o b, t) = (a \o u) \o Append(b, t)
      <3>1. ASSUME NEW x \in Seq(KvmTokens), NEW y \in Seq(KvmTokens)
            PROVE  Append(x \o y, t) = x \o Append(y, t)
        <4>1. x \o y \in Seq(KvmTokens) /\ <<t>> \in Seq(KvmTokens)
          BY <2>2, ConcatProperties
        <4>2. Append(x \o y, t) = (x \o y) \o <<t>> /\ Append(y, t) = y \o <<t>>
          BY <2>2, <4>1, AppendIsConcat
        <4>3. (x \o y) \o <<t>> = x \o (y \o <<t>>)
          BY <4>1, ConcatAssociative, SMTT(30)
        <4> QED BY <4>2, <4>3
      <3> QED BY <2>2, <2>3, <3>1
    <2>5. Append(b, t) \in Seq(Filler)
      BY AppendProperties
    <2> QED BY <2>1, <2>4, <2>5, IsLoaded
  <1> QED BY <1>1, <1>2

LEMMA AddUpdate ==
    ASSUME NEW s, Idle(s), NEW f \in Formats, NEW u \in Body(0, f)
    PROVE  Loaded(s \o u, 0, f)
  <1>1. s \in Seq(KvmTokens) /\ u \in Seq(KvmTokens) /\ s \in Seq(Filler)
    BY NoiseIsTokens, BodyIsTokens DEF Idle
  <1>2. s \o u = (s \o u) \o <<>>
    BY <1>1, ConcatProperties, ConcatEmptySeq
  <1>3. <<>> \in Seq(Filler)
    BY EmptySeq
  <1>4. 0 > 0 => s = <<>>
    OBVIOUS
  <1>5. Loaded((s \o u) \o <<>>, 0, f)
    BY <1>1, <1>3, <1>4, IsLoaded, Zenon
  <1> QED BY <1>2, <1>5

-----------------------------------------------------------------------------
(* KVM: steps.                                                             *)

\* A session that is not on its way owes nothing.
LEMMA KvmOff ==
    ASSUME kvm' \in {"Idle", "Failed"}, ~draining' \/ kind' # "Kvm" \/ steps' > 0
    PROVE  KvmInv'
  BY DEF KvmInv, AwakeInv, HandshakeInv, FrameLoopInv, Handshake

\* A step of the controller makes, fails or keeps the session; one it keeps may lose
\* its link, with everything the session had received still in its inbox.
LEMMA ControllerKvm ==
    ASSUME TypeOK, LinkInv, KvmInv, ControllerStep
    PROVE  KvmInv'
  <1> USE DEF TypeOK, ChannelTypes, KvmTypes, Kinds
  <1>1. ~draining /\ ~draining' /\ kind' = kind
    BY ControllerOutside
  <1>2. CASE SessionNew
    BY <1>1, <1>2, KvmOff DEF SessionNew, KvmNew
  <1>3. CASE SessionFails
    <2>1. kvm' \in {"Idle", "Failed"}
      BY <1>3 DEF SessionFails, KvmFail, kvmVars, LinkInv
    <2> QED BY <1>1, <2>1, KvmOff
  <1>4. CASE SessionStays
    <2>1. UNCHANGED <<kvm, format, pending, steps, queuedDrains, deviceFmt, asked, blank>>
      BY <1>4 DEF SessionStays, sessionVars, kvmVars, kvmDevice
    <2>2. CASE kvm \in {"Idle", "Failed"}
      BY <1>1, <2>1, <2>2, KvmOff
    <2>3. CASE kvm \notin {"Idle", "Failed"}
      <3>1. UNCHANGED <<inbox, toDev>> /\ (link' # "Open" \/ UNCHANGED <<link, wire>>)
        <4>1. ~SessionNew /\ ~SessionFails
          BY <2>1, <2>3 DEF SessionNew, KvmNew, SessionFails, KvmFail, LinkInv
        <4>2. link \notin {"Dialling", "Asking"} /\ owed # 1
          BY <2>3 DEF LinkInv
        <4>3. CASE Open \/ Stop
          BY <4>1, <4>3 DEF Open, Stop, OpenDeferred, chan
        <4>4. CASE SshConfig \/ SshAsks \/ SshDrops
          BY <4>4 DEF SshConfig, SshAsks, SshDrops, SetSshConfig, SshHostKeyPrompt, SshBroken, chan
        <4>5. CASE Trust \/ Prompt
          BY <4>2, <4>5 DEF Trust, Prompt, TrustPendingCert, TrustPendingSshHostKey,
                            TrustPromptRequired, Ask, Proceed, chan
        <4>6. CASE LinkEnds
          BY <4>1, <4>6 DEF LinkEnds, RemoteClosed, RemoteClose
        <4>7. CASE SshEnds
          BY <4>1, <4>7 DEF SshEnds, SshConnected, SshBroken, chan
        <4>8. CASE Progress
          BY <4>2, <4>8 DEF Progress, TunnelOpened, AuthProgress
        <4> QED BY <4>3, <4>4, <4>5, <4>6, <4>7, <4>8 DEF ControllerStep
      <3>2. AwakeInv'
        BY <1>1, <2>1, <3>1 DEF KvmInv, AwakeInv
      <3>3. HandshakeInv'
        <4>1. kvm \in Handshake => inbox = <<>>
          BY <1>1 DEF KvmInv, AwakeInv, HandshakeInv, Handshake
        <4> QED BY <1>1, <2>1, <3>1, <4>1 DEF KvmInv, HandshakeInv, DeviceTurn, SessionTurn
      <3>4. FrameLoopInv'
        <4> SUFFICES ASSUME kvm = "FrameLoop"
                     PROVE  \E rest \in Seq(SessionTokens) : StreamInv(rest)'
          BY <2>1 DEF FrameLoopInv
        <4>1. PICK rest \in Seq(SessionTokens) : StreamInv(rest)
          BY DEF KvmInv, FrameLoopInv
        <4>2. StreamInv(rest)'
          BY <2>1, <3>1, <4>1 DEF StreamInv, Told, Untold
        <4> QED BY <4>2
      <3> QED BY <3>2, <3>3, <3>4 DEF KvmInv
    <2> QED BY <2>2, <2>3
  <1>5. SessionNew \/ SessionStays \/ SessionFails
    BY DEF ControllerStep, Open, Stop, SshConfig, Trust, SshAsks, SshDrops, Prompt, LinkEnds,
           SshEnds, Progress
  <1> QED BY <1>2, <1>3, <1>4, <1>5

\* The handshake's drains run on the open link: only a live session is drained later.
LEMMA HandshakeOpen ==
    ASSUME TypeOK, HandshakeInv, kvm \in Handshake, draining
    PROVE  /\ link = "Open" /\ queuedDrains = 0 /\ pending = 0 /\ ~asked
           /\ inbox # <<>> => /\ toDev = <<>> /\ wire = <<>>
                              /\ Tail(inbox) = <<>> /\ Head(inbox) \in Expected(kvm)
  <1>1. link = "Open" /\ queuedDrains = 0 /\ pending = 0 /\ ~asked /\ (DeviceTurn \/ SessionTurn)
    BY DEF HandshakeInv
  <1>2. CASE DeviceTurn
    BY <1>1, <1>2 DEF DeviceTurn
  <1>3. CASE SessionTurn
    <2>1. PICK t \in Expected(kvm) : \/ inbox = <<t>> /\ wire = <<>>
                                     \/ inbox = <<>> /\ wire = <<t>>
      BY <1>3 DEF SessionTurn
    <2>2. Tail(<<t>>) = <<>> /\ Head(<<t>>) = t
      OBVIOUS
    <2>3. toDev = <<>>
      BY <1>3 DEF SessionTurn
    <2> QED BY <1>1, <2>1, <2>2, <2>3
  <1> QED BY <1>1, <1>2, <1>3

LEMMA KvmLink ==
    ASSUME TypeOK, LinkInv, PanelInv, HandshakeInv, InKvm(KvmStep)
    PROVE  LinkInv' /\ PanelInv'
  <1> USE DEF LinkInv, PanelInv, TypeOK, ChannelTypes, KvmTypes, InKvm
  <1>1. UNCHANGED <<iso, inFlight, timers, owedBlocks>> /\ kind = "Kvm"
    BY DEF iderVars
  <1>2. CASE KvmStarted \/ KvmRawBytes
    BY <1>1, <1>2 DEF KvmStarted, KvmRawBytes, Authenticated, Establish, RawBytes, Deliver
  <1>3. CASE KvmDrain
    <2>1. draining /\ link \notin {"Dialling", "Asking"} /\ owed # 1
      BY <1>3 DEF KvmDrain, KvmDrainStops, KvmAuthFailed, KvmServerInit, StepHandshake, KvmUpdate,
                  KvmRect, KvmRectBad, KvmDesktopSize, KvmOther, NextIs
    <2>2. UNCHANGED <<kind, owed>>
      BY <1>3 DEF KvmDrain, KvmDrainStops, KvmAuthFailed, KvmServerInit, StepHandshake, KvmUpdate,
                  KvmRect, KvmRectBad, KvmDesktopSize, KvmOther, kvmFrame
    <2>3. CASE KvmServerInit
      BY <1>1, <2>1, <2>2, <2>3, HandshakeOpen
         DEF KvmServerInit, NextIs, StepFails, SessionClosed, Handshake
    <2>4. CASE \/ StepHandshake("Version", "Version", "VersionReply", "Security")
               \/ StepHandshake("Security", "Security", "SecurityChoice", "AuthResult")
               \/ StepHandshake("AuthResult", "AuthOk", "ClientInit", "ServerInit")
      BY <1>1, <2>1, <2>2, <2>4 DEF StepHandshake, NextIs
    <2>5. CASE KvmDrainStops \/ KvmAuthFailed \/ KvmUpdate \/ KvmRect
      BY <1>1, <2>1, <2>2, <2>5 DEF KvmDrainStops, KvmAuthFailed, KvmUpdate, KvmRect, StepFails,
                                    StepQuietly, StepWrites, SessionClosed
    <2>6. CASE KvmRectBad \/ KvmDesktopSize \/ KvmOther
      BY <1>1, <2>1, <2>2, <2>6 DEF KvmRectBad, KvmDesktopSize, KvmOther, StepFails,
                                    StepQuietly, StepWrites, SessionClosed
    <2> QED BY <1>3, <2>3, <2>4, <2>5, <2>6 DEF KvmDrain
  <1>4. CASE QueuedDrain \/ SendPointer
    BY <1>1, <1>4 DEF QueuedDrain, SendPointer, SessionClosed, kvmFrame
  <1>5. CASE KvmDeviceReads
    BY <1>1, <1>5 DEF KvmDeviceReads, Answer, deviceFrame
  <1>6. CASE KvmDeviceUpdates \/ KvmDeviceResizes \/ KvmChatter
    BY <1>1, <1>6 DEF KvmDeviceUpdates, KvmDeviceResizes, KvmChatter, Chatter, Transmit, chan,
                      deviceFrame
  <1> QED BY <1>2, <1>3, <1>4, <1>5, <1>6 DEF KvmStep

\* A drain that runs out of iterations queues the next one for what is left.
LEMMA KvmAwake ==
    ASSUME TypeOK, LinkInv, AwakeInv, InKvm(KvmStep)
    PROVE  AwakeInv'
  <1> USE DEF AwakeInv, TypeOK, ChannelTypes, KvmTypes
  <1>1. CASE KvmStarted
    BY <1>1 DEF KvmStarted, Authenticated
  <1>2. CASE KvmRawBytes
    BY <1>2, StepsAssumption DEF KvmRawBytes, RawBytes
  <1>3. CASE KvmDrain
    <2> USE DEF KvmDrain, KvmDrainStops, KvmAuthFailed, KvmServerInit, StepHandshake, KvmUpdate,
                KvmRect, KvmRectBad, KvmDesktopSize, KvmOther
    <2>1. draining /\ steps > 0
      BY <1>3 DEF NextIs, InKvm
    <2>2. Continue => (draining' => steps' > 0) /\ (inbox' # <<>> => draining' \/ queuedDrains' > 0)
      <3> SUFFICES ASSUME Continue
                   PROVE  (draining' => steps' > 0) /\ (inbox' # <<>> => draining' \/ queuedDrains' > 0)
        OBVIOUS
      <3>1. steps' = steps - 1 /\ (draining' <=> steps > 1)
        BY Zenon DEF Continue
      <3>2. steps = 1 /\ inbox' # <<>> => queuedDrains' = queuedDrains + 1
        BY DEF Continue
      <3> QED BY <2>1, <3>1, <3>2
    <2>3. \/ Continue
          \/ kvm' = "Failed" /\ ~draining'
          \/ ~draining' /\ kvm' = kvm /\ (inbox' = <<>> \/ kvm \in {"Idle", "Failed"})
      BY <1>3 DEF StepFails, StepQuietly, StepWrites
    <2> QED BY <2>2, <2>3
  <1>4. CASE QueuedDrain
    BY <1>4, StepsAssumption DEF QueuedDrain
  <1>5. CASE SendPointer
    BY <1>5 DEF SendPointer
  <1>6. CASE KvmDeviceReads \/ KvmDeviceUpdates \/ KvmDeviceResizes \/ KvmChatter
    <2>1. UNCHANGED <<kind, draining, inbox, kvm, steps, queuedDrains>>
      <3>1. CASE KvmDeviceReads
        BY <3>1 DEF KvmDeviceReads, Answer, deviceFrame
      <3>2. CASE KvmDeviceUpdates \/ KvmDeviceResizes
        BY <3>2 DEF KvmDeviceUpdates, KvmDeviceResizes, chan, deviceFrame
      <3>3. CASE KvmChatter
        BY <3>3 DEF KvmChatter, Chatter, Transmit, deviceFrame
      <3> QED BY <1>6, <3>1, <3>2, <3>3
    <2> QED BY <2>1
  <1> QED BY <1>1, <1>2, <1>3, <1>4, <1>5, <1>6 DEF InKvm, KvmStep

\* Before ServerInit the two sides take turns.
LEMMA KvmHandshake ==
    ASSUME TypeOK, LinkInv, HandshakeInv, InKvm(KvmStep)
    PROVE  HandshakeInv'
  <1> USE DEF TypeOK, ChannelTypes, KvmTypes
  <1>1. CASE KvmStarted
    <2>1. SessionTurn' /\ link' = "Open"
      <3>1. toDev' = <<>> /\ inbox' = <<>> /\ wire' = <<"Version">> /\ link' = "Open" /\ kvm' = "Version"
        BY <1>1 DEF KvmStarted, Authenticated, Establish
      <3>2. "Version" \in Expected("Version")
        BY DEF Expected
      <3> QED BY <3>1, <3>2 DEF SessionTurn
    <2>2. queuedDrains' = 0 /\ pending' = 0 /\ ~asked'
      BY <1>1 DEF KvmStarted, Authenticated, Establish, LinkInv
    <2> QED BY <2>1, <2>2 DEF HandshakeInv
  <1>2. CASE KvmRawBytes
    <2> SUFFICES ASSUME kvm \in Handshake
                 PROVE  HandshakeInv'
      BY <1>2 DEF HandshakeInv, KvmRawBytes
    <2>1. PICK n \in 1..Len(wire) : /\ inbox' = inbox \o SubSeq(wire, 1, n)
                                    /\ wire' = SubSeq(wire, n + 1, Len(wire))
      BY <1>2 DEF KvmRawBytes, RawBytes, Deliver
    <2>2. link = "Open" /\ link' = "Open" /\ UNCHANGED <<toDev, kvm, pending, queuedDrains, asked>>
      BY <1>2 DEF KvmRawBytes, RawBytes, Deliver, kvmDevice
    <2>3. wire # <<>>
      BY <2>1
    <2>4. PICK t \in Expected(kvm) : inbox = <<>> /\ wire = <<t>> /\ toDev = <<>>
      BY <2>2, <2>3 DEF HandshakeInv, DeviceTurn, SessionTurn
    <2>5. Len(wire) = 1 /\ n = 1
      BY <2>1, <2>4
    <2>6. inbox' = <<t>> /\ wire' = <<>>
      <3>1. SubSeq(wire, 1, 1) = wire
        BY <2>5, SubSeqFull
      <3>2. SubSeq(wire, 2, 1) = <<>>
        <4>1. SubSeq(wire, 2, 1) \in Seq(SessionTokens) /\ Len(SubSeq(wire, 2, 1)) = 0
          BY <2>5, SubSeqProperties
        <4> QED BY <4>1, EmptySeq
      <3>3. <<>> \o wire = wire
        BY ConcatEmptySeq
      <3> QED BY <2>1, <2>4, <2>5, <3>1, <3>2, <3>3
    <2>7. SessionTurn'
      BY <2>2, <2>4, <2>6 DEF SessionTurn
    <2> QED BY <2>2, <2>7 DEF HandshakeInv
  <1>3. ASSUME NEW st \in Handshake, NEW t, NEW reply, NEW next \in Handshake \ {"Version"},
               StepHandshake(st, t, reply, next), reply = LastReply(next)
        PROVE  HandshakeInv'
    <2>1. kvm \in Handshake /\ draining /\ inbox # <<>>
      BY <1>3 DEF StepHandshake, NextIs
    <2>2. /\ link' = "Open" /\ toDev = <<>> /\ wire' = <<>> /\ queuedDrains = 0 /\ pending' = 0
          /\ ~asked' /\ inbox' = <<>>
      BY <1>3, <2>1, HandshakeOpen DEF StepHandshake, kvmFrame, kvmDevice
    <2>3. queuedDrains' = 0
      BY <1>3, <2>2 DEF StepHandshake, Continue
    <2>4. toDev' = <<LastReply(kvm')>> /\ kvm' # "Version"
      BY <1>3, <2>2 DEF StepHandshake
    <2> QED BY <2>2, <2>3, <2>4 DEF HandshakeInv, DeviceTurn
  <1>4. CASE KvmDrainStops
    BY <1>4 DEF KvmDrainStops, kvmFrame, kvmDevice, HandshakeInv, Handshake, DeviceTurn, SessionTurn
  <1>5. CASE KvmAuthFailed \/ KvmServerInit \/ KvmUpdate \/ KvmRect \/ KvmRectBad
               \/ KvmDesktopSize \/ KvmOther
    <2>1. kvm' \in {"FrameLoop", "Failed"}
      BY <1>5 DEF KvmAuthFailed, KvmServerInit, KvmUpdate, KvmRect, KvmRectBad, KvmDesktopSize,
                  KvmOther, NextIs, StepFails, StepQuietly, StepWrites
    <2> QED BY <2>1 DEF HandshakeInv, Handshake
  <1>6. CASE QueuedDrain
    BY <1>6 DEF QueuedDrain, HandshakeInv
  <1>7. CASE SendPointer
    BY <1>7 DEF SendPointer, HandshakeInv, Handshake
  <1>8. CASE KvmDeviceReads
    <2> SUFFICES ASSUME kvm \in Handshake
                 PROVE  HandshakeInv'
      BY <1>8 DEF HandshakeInv, KvmDeviceReads, deviceFrame
    <2>1. link = "Open" /\ toDev # <<>> /\ link' = "Open" /\ UNCHANGED <<inbox, kvm, pending, queuedDrains>>
      BY <1>8 DEF KvmDeviceReads, Answer, deviceFrame
    <2>2. toDev = <<LastReply(kvm)>> /\ inbox = <<>> /\ wire = <<>> /\ kvm # "Version"
      BY <2>1 DEF HandshakeInv, DeviceTurn, SessionTurn
    <2>3. Head(toDev) = LastReply(kvm) /\ Tail(toDev) = <<>>
      BY <2>2
    <2>4. \E t \in Expected(kvm) : Answer(<<t>>) /\ asked' = asked
      <3>1. Head(toDev) \notin {"Encodings", "Request", SetFormat("Rgb565"), SetFormat("Rgb332")}
        BY <2>3 DEF LastReply, SetFormat
      <3>2. \/ Head(toDev) = "VersionReply" /\ Answer(<<"Security">>) /\ asked' = asked
            \/ Head(toDev) = "SecurityChoice" /\ asked' = asked
                 /\ \E t \in {"AuthOk", "AuthFailed"} : Answer(<<t>>)
            \/ Head(toDev) = "ClientInit" /\ Answer(<<InitOf(desktop)>>) /\ asked' = asked
        BY <1>8, <3>1 DEF KvmDeviceReads, kvmDevice, Formats
      <3>3. InitOf(desktop) \in Inits
        BY DEF InitOf, Inits
      <3>4. CASE kvm = "Security"
        BY <2>3, <3>2, <3>4 DEF LastReply, Expected
      <3>5. CASE kvm = "AuthResult"
        BY <2>3, <3>2, <3>5 DEF LastReply, Expected
      <3>6. CASE kvm = "ServerInit"
        BY <2>3, <3>2, <3>3, <3>6 DEF LastReply, Expected
      <3> QED BY <2>2, <3>4, <3>5, <3>6 DEF Handshake
    <2>5. SessionTurn'
      BY <2>1, <2>2, <2>3, <2>4 DEF Answer, SessionTurn
    <2> QED BY <2>1, <2>4, <2>5 DEF HandshakeInv
  <1>9. CASE KvmDeviceUpdates \/ KvmDeviceResizes
    BY <1>9 DEF KvmDeviceUpdates, KvmDeviceResizes, chan, deviceFrame, HandshakeInv, DeviceTurn,
                SessionTurn
  <1>10. CASE KvmChatter
    BY <1>10 DEF KvmChatter, deviceFrame, HandshakeInv, Handshake
  <1> QED BY <1>1, <1>2, <1>3, <1>4, <1>5, <1>6, <1>7, <1>8, <1>9, <1>10
             DEF InKvm, KvmStep, KvmDrain, LastReply, Handshake

\* A drain of a live session takes one token of the stream.
LEMMA KvmTakes ==
    ASSUME TypeOK, kvm = "FrameLoop", NEW rest \in Seq(SessionTokens), StreamInv(rest), draining,
           inbox # <<>>, KvmUpdate \/ KvmRect \/ KvmDesktopSize \/ KvmOther
    PROVE  kvm' = "FrameLoop" => StreamInv(rest)'
  <1> USE DEF TypeOK, ChannelTypes, KvmTypes
  <1> DEFINE s == inbox \o rest
  <1>1. Head(s) = Head(inbox) /\ Tail(s) = Tail(inbox) \o rest /\ s # <<>>
    BY TakeFirst
  <1>0. /\ link = "Open" => /\ rest = wire
                            /\ toDev \in Told \cup Untold
                            /\ toDev \in Told => deviceFmt = format
                            /\ asked => toDev = <<>>
        /\ \/ Idle(s) /\ pending = 0 /\ (link = "Open" => asked \/ toDev # <<>> \/ blank)
           \/ Loaded(s, pending, format) /\ (link = "Open" => ~asked /\ toDev = <<>>)
    BY DEF StreamInv
  <1> HIDE DEF s
  <1>2. Idle(s) => Head(s) \in Filler /\ Idle(Tail(s))
    BY <1>1, TakeIdle
  <1>3. Loaded(s, 0, format) => \/ Head(s) \in Filler /\ Loaded(Tail(s), 0, format)
                                \/ Head(s) = "Update1" /\ Loaded(Tail(s), 1, format)
                                \/ Head(s) = "Update2" /\ Loaded(Tail(s), 2, format)
    BY TakeLoaded
  <1>4. Loaded(s, 1, format)
          => Head(s) \in {RectOf(format), "RectBad"} \cup Resizes /\ Idle(Tail(s))
    BY TakeLoaded
  <1>5. Loaded(s, 2, format) => Head(s) = RectOf(format) /\ Loaded(Tail(s), 1, format)
    BY TakeLoaded
  <1>6. pending > 0 => Loaded(s, pending, format) /\ (link = "Open" => ~asked /\ toDev = <<>>)
    BY <1>0
  <1>8. CASE KvmUpdate
    <2>1. /\ inbox' = Tail(inbox) /\ UNCHANGED <<toDev, kvm, link, wire, deviceFmt, asked, blank, format>>
          /\ pending = 0 /\ Head(inbox) \in Updates
          /\ pending' = RectsOf(Head(inbox))
      BY <1>8 DEF KvmUpdate, NextIs, StepQuietly, kvmFrame, kvmDevice
    <2>2. CASE Head(inbox) = "Update0"
      <3>1. pending' = 0 /\ UNCHANGED <<toDev, link, wire, deviceFmt, asked, blank, format>>
        BY <2>1, <2>2 DEF RectsOf
      <3>2. Idle(s) => Idle(inbox' \o rest)
        BY <1>1, <1>2, <2>1
      <3>3. Loaded(s, 0, format) => Loaded(inbox' \o rest, 0, format)
        BY <1>1, <1>3, <2>1, <2>2
      <3> QED BY <1>0, <2>1, <3>1, <3>2, <3>3 DEF StreamInv, Told, Untold
    <2>3. CASE Head(inbox) # "Update0"
      <3>1. Head(s) \notin Filler
        BY <1>1, <2>1, <2>3 DEF Updates, Filler, KvmNoise
      <3>2. Loaded(s, 0, format) /\ (link = "Open" => ~asked /\ toDev = <<>>)
        BY <1>0, <1>2, <2>1, <3>1
      <3>3. pending' = (IF Head(inbox) = "Update1" THEN 1 ELSE 2)
        BY <2>1, <2>3 DEF RectsOf
      <3>4. Loaded(inbox' \o rest, pending', format')
        BY <1>1, <1>3, <2>1, <3>1, <3>2, <3>3
      <3> QED BY <1>0, <2>1, <3>2, <3>4 DEF StreamInv, Told, Untold
    <2> QED BY <2>2, <2>3
  <1>9. CASE KvmRect
    <2>1. /\ inbox' = Tail(inbox) /\ UNCHANGED <<deviceFmt, asked, blank, format>>
          /\ pending > 0 /\ pending' = pending - 1
      BY <1>9 DEF KvmRect, NextIs, kvmFrame, kvmDevice
    <2>2. CASE pending = 1
      <3>1. Idle(inbox' \o rest) /\ pending' = 0
        <4>1. pending' = 0
          BY <2>1, <2>2
        <4>2. Loaded(s, 1, format)
          BY <1>6, <2>1, <2>2, Zenon
        <4> QED BY <1>1, <1>4, <2>1, <4>1, <4>2
      <3>2. CASE link = "Open"
        <4>1. UNCHANGED <<kvm, link, wire>> /\ toDev' = toDev \o <<"Request">> /\ toDev = <<>>
          BY <1>6, <1>9, <2>1, <2>2, <3>2 DEF KvmRect, StepWrites, CanSend
        <4>2. toDev' = <<"Request">>
          BY <4>1
        <4> QED BY <1>0, <1>6, <2>1, <3>1, <3>2, <4>1, <4>2 DEF StreamInv, Told, Untold
      <3>3. CASE link # "Open"
        BY <1>9, <2>2, <3>3 DEF KvmRect, StepWrites, CanSend, StepFails
      <3> QED BY <3>2, <3>3
    <2>3. CASE pending = 2
      <3>1. Loaded(inbox' \o rest, pending', format')
        <4>1. pending' = 1
          BY <2>1, <2>3
        <4>2. Loaded(s, 2, format)
          BY <1>6, <2>1, <2>3, Zenon
        <4>3. Loaded(inbox' \o rest, 1, format)
          BY <1>1, <1>5, <2>1, <4>2
        <4> QED BY <2>1, <4>1, <4>3, Zenon
      <3>2. UNCHANGED <<toDev, kvm, link, wire>>
        BY <1>9, <2>3 DEF KvmRect, StepQuietly
      <3> QED BY <1>0, <1>6, <2>1, <3>1, <3>2 DEF StreamInv, Told, Untold
    <2> QED BY <2>1, <2>2, <2>3
  <1>10. CASE KvmDesktopSize
    <2>1. UNCHANGED <<deviceFmt, asked, blank>> /\ pending > 0 /\ Head(inbox) \in Resizes
      BY <1>10 DEF KvmDesktopSize, NextIs, kvmFrame, kvmDevice
    <2>2. pending = 1
      <3>1. RectOf(format) \notin Resizes
        BY DEF RectOf, Resizes
      <3>2. ~Loaded(s, 2, format)
        BY <1>1, <1>5, <2>1, <3>1
      <3>3. pending # 2
        BY <1>6, <2>1, <3>2, Zenon
      <3> QED BY <2>1, <3>3
    <2>3. PICK f : \/ kvm' = "Failed"
                   \/ /\ inbox' = Tail(inbox) /\ pending' = pending - 1 /\ format' = f
                      /\ StepWrites(<<SetFormat(f)>> \o <<"Request">>)
      BY <1>10, <2>2 DEF KvmDesktopSize, StepFails
    <2>4. CASE kvm' = "Failed"
      BY <2>4
    <2>5. CASE /\ inbox' = Tail(inbox) /\ pending' = pending - 1 /\ format' = f
               /\ StepWrites(<<SetFormat(f)>> \o <<"Request">>)
      <3>1. Idle(inbox' \o rest) /\ pending' = 0
        <4>1. pending' = 0
          BY <2>2, <2>5
        <4>2. Loaded(s, 1, format)
          BY <1>6, <2>1, <2>2, Zenon
        <4> QED BY <1>1, <1>4, <2>5, <4>1, <4>2
      <3>2. CASE link = "Open"
        <4>1. UNCHANGED <<kvm, link, wire>> /\ toDev' = <<>> \o (<<SetFormat(f)>> \o <<"Request">>)
          BY <1>6, <2>1, <2>5, <3>2 DEF StepWrites, CanSend
        <4>2. toDev' = <<SetFormat(format'), "Request">>
          <5>1. <<SetFormat(f)>> \o <<"Request">> = <<SetFormat(f), "Request">>
            BY PairConcat
          <5>2. <<SetFormat(f), "Request">> \in Seq({SetFormat(f), "Request"})
            OBVIOUS
          <5>3. <<>> \o <<SetFormat(f), "Request">> = <<SetFormat(f), "Request">>
            BY <5>2, ConcatEmptySeq
          <5> QED BY <2>5, <4>1, <5>1, <5>3
        <4>3. toDev' \in Untold' /\ toDev' \notin Told' /\ toDev' # <<>>
          BY <4>2 DEF Told, Untold, SetFormat
        <4> QED BY <1>0, <1>6, <2>1, <3>1, <3>2, <4>1, <4>3 DEF StreamInv
      <3>3. CASE link # "Open"
        BY <2>5, <3>3 DEF StepWrites, CanSend, StepFails
      <3> QED BY <3>2, <3>3
    <2> QED BY <2>3, <2>4, <2>5
  <1>11. CASE KvmOther
    <2>1. CASE Head(inbox) = "Bell"
      <3>1. /\ inbox' = Tail(inbox) /\ pending = 0
            /\ UNCHANGED <<toDev, kvm, link, wire, deviceFmt, asked, blank, format, pending>>
        BY <1>11, <2>1 DEF KvmOther, NextIs, StepQuietly, kvmFrame, kvmDevice
      <3>2. Idle(s) => Idle(inbox' \o rest)
        BY <1>1, <1>2, <3>1
      <3>3. Loaded(s, 0, format) => Loaded(inbox' \o rest, 0, format)
        BY <1>1, <1>3, <2>1, <3>1
      <3> QED BY <1>0, <3>1, <3>2, <3>3 DEF StreamInv, Told, Untold
    <2>2. CASE Head(inbox) # "Bell"
      BY <1>11, <2>2 DEF KvmOther, StepFails
    <2> QED BY <2>1, <2>2
  <1> QED BY <1>8, <1>9, <1>10, <1>11

\* What the firmware sends joins the stream behind everything on its way.
LEMMA KvmSends ==
    ASSUME TypeOK, kvm = "FrameLoop", StreamInv(wire), link = "Open",
           KvmDeviceReads \/ KvmDeviceUpdates \/ KvmDeviceResizes \/ KvmChatter
    PROVE  StreamInv(wire)'
  <1> USE DEF TypeOK, ChannelTypes, KvmTypes
  <1> DEFINE s == inbox \o wire
  <1>1. /\ toDev \in Told \cup Untold
        /\ toDev \in Told => deviceFmt = format
        /\ asked => toDev = <<>>
        /\ \/ Idle(s) /\ pending = 0 /\ (asked \/ toDev # <<>> \/ blank)
           \/ Loaded(s, pending, format) /\ ~asked /\ toDev = <<>>
    BY DEF StreamInv
  <1>2. CASE KvmDeviceReads
    <2>1. /\ UNCHANGED <<link, inbox, pending, format, kvm>>
          /\ toDev' = Tail(toDev) /\ toDev # <<>>
      BY <1>2 DEF KvmDeviceReads, Answer, deviceFrame
    <2>2. Idle(s) /\ pending = 0 /\ ~asked
      BY <1>1, <2>1
    <2>3. \/ toDev = <<"Request">>
          \/ toDev = <<"Encodings", "Request">>
          \/ toDev = <<SetFormat(format), "Encodings", "Request">>
          \/ toDev = <<SetFormat(format), "Request">>
      BY <1>1, <2>1 DEF Told, Untold
    <2>4. \/ Head(toDev) = "Request" /\ toDev' = <<>> /\ toDev \in Told
          \/ Head(toDev) = "Encodings" /\ toDev' = <<"Request">> /\ toDev \in Told
          \/ Head(toDev) = SetFormat(format) /\ toDev' \in {<<"Encodings", "Request">>, <<"Request">>}
      <3>1. CASE toDev = <<"Request">>
        BY <2>1, <3>1, ShortTuples DEF Told
      <3>2. CASE toDev = <<"Encodings", "Request">>
        BY <2>1, <3>2, ShortTuples DEF Told
      <3>3. CASE toDev = <<SetFormat(format), "Encodings", "Request">>
        BY <2>1, <3>3, ShortTuples
      <3>4. CASE toDev = <<SetFormat(format), "Request">>
        BY <2>1, <3>4, ShortTuples
      <3> QED BY <2>3, <3>1, <3>2, <3>3, <3>4
    <2>5. /\ Answer(<<>>)
          /\ \/ Head(toDev) = "Encodings" /\ UNCHANGED <<asked, deviceFmt>>
             \/ \E f \in Formats : Head(toDev) = SetFormat(f) /\ deviceFmt' = f /\ asked' = asked
             \/ Head(toDev) = "Request" /\ asked' = TRUE /\ deviceFmt' = deviceFmt
      BY <1>2, <2>4 DEF KvmDeviceReads, kvmDevice, SetFormat
    <2>6. wire' = wire
      BY <2>5, ConcatEmptySeq DEF Answer
    <2>7. toDev' \in Told /\ deviceFmt' = format' /\ (asked' => toDev' = <<>>)
          /\ (asked' \/ toDev' # <<>>)
      <3>0. <<"Request">> # <<>> /\ <<"Encodings", "Request">> # <<>>
        OBVIOUS
      <3>1. CASE Head(toDev) \in {"Request", "Encodings"}
        <4>1. deviceFmt' = format'
          BY <1>1, <2>1, <2>4, <2>5, <3>1 DEF SetFormat
        <4>2. CASE Head(toDev) = "Request"
          <5>1. toDev' = <<>> /\ asked'
            BY <2>4, <2>5, <4>2 DEF SetFormat
          <5> QED BY <4>1, <5>1 DEF Told
        <4>3. CASE Head(toDev) = "Encodings"
          <5>1. toDev' = <<"Request">> /\ asked' = asked
            BY <2>4, <2>5, <4>3 DEF SetFormat
          <5> QED BY <2>2, <3>0, <4>1, <5>1 DEF Told
        <4> QED BY <3>1, <4>2, <4>3
      <3>2. CASE Head(toDev) = SetFormat(format)
        <4>1. \A f \in Formats : SetFormat(f) = SetFormat(format) => f = format
          BY DEF SetFormat, Formats
        <4>2. Head(toDev) \notin {"Request", "Encodings"}
          BY <3>2 DEF SetFormat
        <4>3. deviceFmt' = format /\ asked' = asked
          BY <2>5, <3>2, <4>1, <4>2
        <4>4. toDev' \in {<<"Encodings", "Request">>, <<"Request">>}
          BY <2>4, <4>2
        <4> QED BY <2>1, <2>2, <3>0, <4>3, <4>4 DEF Told
      <3> QED BY <2>4, <3>1, <3>2
    <2> QED BY <2>1, <2>2, <2>6, <2>7 DEF StreamInv, Told
  \* A token that carries no rectangle.
  <1>f. ASSUME NEW t \in Filler, wire' = Append(wire, t)
        PROVE  /\ Idle(s) => Idle(inbox' \o wire') \/ inbox' # inbox
               /\ Loaded(s, pending, format)
                    => Loaded(inbox' \o wire', pending, format) \/ inbox' # inbox
    <2>1. inbox \o Append(wire, t) = Append(s, t)
      <3>1. t \in SessionTokens /\ <<t>> \in Seq(SessionTokens)
        BY DEF SessionTokens, KvmTokens, Filler, Updates
      <3>2. s \in Seq(SessionTokens)
        BY ConcatProperties
      <3>3. Append(wire, t) = wire \o <<t>> /\ Append(s, t) = s \o <<t>>
        BY <3>1, <3>2, AppendIsConcat
      <3>4. inbox \o (wire \o <<t>>) = s \o <<t>>
        <4>1. ASSUME NEW x \in Seq(SessionTokens)
              PROVE  inbox \o (wire \o x) = (inbox \o wire) \o x
          BY ConcatAssociative
        <4> QED BY <3>1, <4>1
      <3> QED BY <3>3, <3>4
    <2> QED BY <1>f, <2>1, AddNoise
  <1>3. CASE KvmDeviceUpdates
    <2>1. /\ UNCHANGED <<link, inbox, pending, format, kvm, toDev, deviceFmt>>
          /\ asked /\ ~asked'
      BY <1>3 DEF KvmDeviceUpdates, deviceFrame
    <2>3. toDev = <<>> /\ deviceFmt = format /\ Idle(s) /\ pending = 0
      BY <1>1, <2>1 DEF Told
    <2>0. CASE wire' = Append(wire, "Update0") /\ blank'
      <3>1. Idle(inbox' \o wire')
        BY <1>f, <2>0, <2>1, <2>3 DEF Filler
      <3> QED BY <2>0, <2>1, <2>3, <3>1 DEF StreamInv, Told, Untold
    <2>2. ASSUME NEW u \in UpdateFrames, wire' = wire \o u
          PROVE  StreamInv(wire)'
      <3>4. u \in Body(0, format)
        <4>1. ResizeOf(desktop) \in Resizes
          BY DEF ResizeOf, Resizes
        <4>2. CASE resized
          BY <2>3, <4>1, <4>2 DEF UpdateFrames, Body
        <4>3. CASE ~resized
          BY <2>3, <4>3 DEF UpdateFrames, Body
        <4> QED BY <4>2, <4>3
      <3>5. inbox \o (wire \o u) = s \o u
        <4>1. u \in Seq(SessionTokens)
          <5>1. u \in Seq(KvmTokens)
            BY <3>4, BodyIsTokens
          <5> QED BY <5>1 DEF SessionTokens
        <4>2. ASSUME NEW x \in Seq(SessionTokens)
              PROVE  inbox \o (wire \o x) = (inbox \o wire) \o x
          BY ConcatAssociative
        <4> QED BY <4>1, <4>2
      <3>6. Loaded(inbox' \o wire', 0, format)
        BY <2>1, <2>2, <2>3, <3>4, <3>5, AddUpdate
      <3> QED BY <2>1, <2>3, <3>6 DEF StreamInv, Told, Untold
    <2> QED BY <1>3, <2>0, <2>2 DEF KvmDeviceUpdates
  <1>4. CASE KvmDeviceResizes
    <2>1. UNCHANGED <<link, wire, inbox, pending, format, toDev, deviceFmt, asked, blank>>
      BY <1>4 DEF KvmDeviceResizes, chan, deviceFrame
    <2> QED BY <1>1, <2>1 DEF StreamInv, Told, Untold
  <1>5. CASE KvmChatter
    <2>1. PICK t \in KvmNoise : wire' = Append(wire, t)
      BY <1>5 DEF KvmChatter, Chatter, Transmit
    <2>2. UNCHANGED <<link, inbox, pending, format, toDev, deviceFmt, asked, blank>>
      BY <1>5 DEF KvmChatter, Chatter, Transmit, deviceFrame, kvmDevice
    <2>4. /\ Idle(s) => Idle(inbox' \o wire')
          /\ Loaded(s, pending, format) => Loaded(inbox' \o wire', pending, format)
      BY <1>f, <2>1, <2>2 DEF Filler
    <2> QED BY <1>1, <2>2, <2>4 DEF StreamInv, Told, Untold
  <1> QED BY <1>2, <1>3, <1>4, <1>5

LEMMA KvmLive ==
    ASSUME TypeOK, TypeOK', LinkInv, HandshakeInv, FrameLoopInv, InKvm(KvmStep)
    PROVE  FrameLoopInv'
  <1> USE DEF TypeOK, ChannelTypes, KvmTypes
  <1>1. ASSUME kvm' # "FrameLoop"
        PROVE  FrameLoopInv'
    BY <1>1 DEF FrameLoopInv
  <1>2. ASSUME NEW rest \in Seq(SessionTokens), StreamInv(rest)'
        PROVE  FrameLoopInv'
    BY <1>2 DEF FrameLoopInv
  <1>3. ASSUME kvm = "FrameLoop"
        PROVE  /\ \E rest \in Seq(SessionTokens) : StreamInv(rest)
               /\ link = "Open" => StreamInv(wire)
    BY <1>3 DEF FrameLoopInv, StreamInv
  <1>4. CASE KvmStarted \/ KvmAuthFailed \/ KvmRectBad \/ SendPointer
    <2>1. kvm' # "FrameLoop"
      BY <1>4 DEF KvmStarted, KvmAuthFailed, KvmRectBad, SendPointer, StepFails
    <2> QED BY <1>1, <2>1
  <1>5. CASE \/ StepHandshake("Version", "Version", "VersionReply", "Security")
             \/ StepHandshake("Security", "Security", "SecurityChoice", "AuthResult")
             \/ StepHandshake("AuthResult", "AuthOk", "ClientInit", "ServerInit")
    <2>1. kvm' # "FrameLoop"
      BY <1>5 DEF StepHandshake
    <2> QED BY <1>1, <2>1
  <1>6. CASE KvmServerInit
    <2> SUFFICES ASSUME kvm' = "FrameLoop"
                 PROVE  FrameLoopInv'
      BY <1>1
    <2>1. kvm \in Handshake /\ draining /\ inbox # <<>>
      BY <1>6 DEF KvmServerInit, NextIs, Handshake
    <2>2. /\ link = "Open" /\ toDev = <<>> /\ wire = <<>> /\ pending = 0 /\ ~asked /\ Tail(inbox) = <<>>
      BY <2>1, HandshakeOpen
    <2>3. /\ UNCHANGED <<link, wire, pending, asked>> /\ inbox' = <<>>
          /\ toDev' = toDev \o <<SetFormat(format'), "Encodings", "Request">>
      BY <1>6, <2>2 DEF KvmServerInit, StepFails, kvmFrame, kvmDevice
    <2>4. toDev' = <<SetFormat(format'), "Encodings", "Request">>
      <3>1. <<SetFormat(format'), "Encodings", "Request">>
               \in Seq({SetFormat(format'), "Encodings", "Request"})
        OBVIOUS
      <3> QED BY <2>2, <2>3, <3>1, ConcatEmptySeq
    <2>5. toDev' \in Untold' /\ toDev' \notin Told' /\ toDev' # <<>>
      BY <2>4 DEF Told, Untold, SetFormat
    <2>6. Idle(inbox' \o wire')
      BY <2>2, <2>3, EmptySeq, ConcatEmptySeq DEF Idle
    <2>7. StreamInv(wire)'
      BY <2>2, <2>3, <2>5, <2>6 DEF StreamInv
    <2> QED BY <1>2, <2>7
  <1>7. CASE KvmUpdate \/ KvmRect \/ KvmDesktopSize \/ KvmOther
    <2>1. kvm = "FrameLoop" /\ draining /\ inbox # <<>>
      BY <1>7 DEF KvmUpdate, KvmRect, KvmDesktopSize, KvmOther, NextIs
    <2>2. PICK rest \in Seq(SessionTokens) : StreamInv(rest)
      BY <1>3, <2>1
    <2>3. kvm' = "FrameLoop" => StreamInv(rest)'
      BY <1>7, <2>1, <2>2, KvmTakes
    <2> QED BY <1>1, <1>2, <2>3
  <1>8. CASE KvmDrainStops \/ QueuedDrain
    <2>1. UNCHANGED <<kvm, link, wire, inbox, toDev, pending, format, deviceFmt, asked, blank>>
      BY <1>8 DEF KvmDrainStops, QueuedDrain, kvmFrame, kvmDevice
    <2>2. \A rest : StreamInv(rest) => StreamInv(rest)'
      BY <2>1 DEF StreamInv, Told, Untold
    <2> QED BY <1>1, <1>2, <1>3, <2>1, <2>2
  <1>9. CASE KvmRawBytes
    <2> SUFFICES ASSUME kvm = "FrameLoop"
                 PROVE  FrameLoopInv'
      BY <1>1, <1>9 DEF KvmRawBytes
    <2>1. link = "Open" /\ UNCHANGED <<link, toDev, pending, format, deviceFmt, asked, blank>>
      BY <1>9 DEF KvmRawBytes, RawBytes, Deliver, kvmDevice
    <2>2. inbox' \o wire' = inbox \o wire
      <3>1. PICK n \in 1..Len(wire) : /\ inbox' = inbox \o SubSeq(wire, 1, n)
                                      /\ wire' = SubSeq(wire, n + 1, Len(wire))
        BY <1>9 DEF KvmRawBytes, RawBytes, Deliver
      <3>2. (inbox \o SubSeq(wire, 1, n)) \o SubSeq(wire, n + 1, Len(wire)) = inbox \o wire
        BY <3>1, StreamKept
      <3> QED BY <3>1, <3>2
    <2>3. StreamInv(wire)'
      BY <1>3, <2>1, <2>2 DEF StreamInv, Told, Untold
    <2> QED BY <1>2, <2>3
  <1>10. CASE KvmDeviceReads \/ KvmDeviceUpdates \/ KvmDeviceResizes \/ KvmChatter
    <2>1. kvm' = kvm /\ link = "Open"
      BY <1>10 DEF KvmDeviceReads, KvmDeviceUpdates, KvmDeviceResizes, KvmChatter, Answer,
                   Chatter, Transmit, deviceFrame
    <2> SUFFICES ASSUME kvm = "FrameLoop"
                 PROVE  FrameLoopInv'
      BY <1>1, <2>1
    <2>2. StreamInv(wire)'
      BY <1>3, <1>10, <2>1, KvmSends
    <2> QED BY <1>2, <2>2
  <1> QED BY <1>4, <1>5, <1>6, <1>7, <1>8, <1>9, <1>10 DEF InKvm, KvmStep, KvmDrain

-----------------------------------------------------------------------------
(* The theorems.                                                           *)

\* The initial states satisfy the inductive invariant and every step keeps it.
LEMMA InitInv == Init => IndInv
  <1> SUFFICES ASSUME Init
               PROVE  IndInv
    OBVIOUS
  <1>1. TypeOK
    BY InitTypes
  <1>2. LinkInv /\ PanelInv /\ ReadInv
    BY DEF Init, ControllerInit, ChannelInit, KvmInit, IderInit, LinkInv, PanelInv, ReadInv
  <1>3. KvmInv
    BY DEF Init, ControllerInit, ChannelInit, KvmInit, KvmInv, AwakeInv, HandshakeInv,
           FrameLoopInv, Handshake
  <1> QED BY <1>1, <1>2, <1>3 DEF IndInv

LEMMA NextInv == IndInv /\ [Next]_vars => IndInv'
  <1> SUFFICES ASSUME IndInv, [Next]_vars
               PROVE  IndInv'
    OBVIOUS
  <1> USE DEF IndInv
  <1>1. TypeOK'
    BY NextTypes
  <1>2. CASE ControllerStep
    BY <1>1, <1>2, ControllerLink, ControllerRead, ControllerKvm
  <1>3. CASE InSol(SolStep)
    <2>1. LinkInv' /\ PanelInv'
      BY <1>3, SolLink
    <2>2. ReadInv'
      BY <1>3 DEF InSol, iderVars, ReadInv
    <2>3. kind' = kind /\ kvm' = "Idle" /\ kind # "Kvm"
      BY <1>3 DEF InSol, LinkInv, kvmVars, SolStep, SolStarted, SolRawBytes, SolDrain, SendInput,
           SolDevice, SolChatter, Authenticated, RawBytes, SolDrainEnd, SolOpenReply,
           SolRefused, SolData, solFrame, Answer, Chatter
    <2>4. KvmInv'
      BY <2>3, KvmOff
    <2> QED BY <1>1, <2>1, <2>2, <2>4
  <1>4. CASE InIder(IderStep)
    <2>1. LinkInv' /\ PanelInv'
      BY <1>4, IderLink
    <2>2. ReadInv'
      BY <1>4, IderRead DEF InIder
    <2>3. kvm' = "Idle" /\ kind # "Kvm"
      BY <1>4 DEF InIder, LinkInv, kvmVars
    <2>4. kind' = kind
      BY <1>4 DEF InIder, IderStep, IderStarted, IderRawBytes, IderDrain, SendNextScsiChunk,
           IderDeviceReads, IderDeviceSends, Authenticated, RawBytes, IderDrainEnd,
           OnOpenSessionReply, IderFails, IderKeepAlive, OnStatusData, ScsiAtOnce,
           ScsiReadRefused, ScsiReadOverlaps, ScsiRead, ChunkNone, ChunkShort, ChunkSent,
           Reply, iderFrame, ctlVars, Answer, Chatter
    <2>5. KvmInv'
      BY <2>3, <2>4, KvmOff
    <2> QED BY <1>1, <2>1, <2>2, <2>5
  <1>5. CASE InKvm(KvmStep)
    <2>1. LinkInv' /\ PanelInv'
      BY <1>5, KvmLink DEF KvmInv
    <2>2. ReadInv'
      BY <1>5 DEF InKvm, iderVars, ReadInv
    <2>3. KvmInv'
      BY <1>1, <1>5, KvmAwake, KvmHandshake, KvmLive DEF KvmInv
    <2> QED BY <1>1, <2>1, <2>2, <2>3
  <1>6. CASE UNCHANGED vars
    <2> USE <1>6 DEF vars, chan, ctlVars, solVars, kvmVars, kvmDevice, iderVars
    <2>1. LinkInv' /\ PanelInv' /\ ReadInv'
      BY DEF LinkInv, PanelInv, ReadInv
    <2>2. AwakeInv' /\ HandshakeInv'
      BY DEF KvmInv, AwakeInv, HandshakeInv, DeviceTurn, SessionTurn
    <2>3. \A rest : StreamInv(rest) => StreamInv(rest)'
      BY DEF StreamInv, Told, Untold
    <2>4. FrameLoopInv'
      BY <2>3 DEF KvmInv, FrameLoopInv
    <2> QED BY <1>1, <2>1, <2>2, <2>4 DEF KvmInv
  <1> QED BY <1>2, <1>3, <1>4, <1>5, <1>6, NextCases

\* The inductive invariant: the link, the panel's state, the chunked read and the KVM
\* stream stay together, whatever controller, session and firmware do.
THEOREM SessionsInductive == Spec => []IndInv
  BY InitInv, NextInv, PTL DEF Spec

\* The type invariant of the channel, the controller and the three sessions.
THEOREM SessionsTyped == Spec => []TypeOK
  <1>1. IndInv => TypeOK
    BY DEF IndInv
  <1> QED BY <1>1, SessionsInductive, PTL

\* The controller's state never runs ahead of link and session.
THEOREM ConnectedIsLive == Spec => []LiveIsLinked
  <1>1. IndInv => LiveIsLinked
    <2> SUFFICES ASSUME IndInv, ctl = "Connected"
                 PROVE  link = "Open" /\ SessionOpen
      BY DEF LiveIsLinked
    <2>1. PanelInv /\ kind \in Kinds
      BY DEF IndInv, TypeOK, ChannelTypes
    <2>2. CASE kind = "Sol"
      BY <2>1, <2>2 DEF PanelInv, SessionOpen
    <2>3. CASE kind = "Kvm"
      BY <2>1, <2>3 DEF PanelInv, SessionOpen
    <2>4. CASE kind = "Ider"
      BY <2>1, <2>4 DEF PanelInv, SessionOpen
    <2> QED BY <2>1, <2>2, <2>3, <2>4 DEF Kinds
  <1> QED BY <1>1, SessionsInductive, PTL

\* tryDecodeRect() decodes in the format the firmware encoded in.
THEOREM DecodesAsEncoded == Spec => []FormatAgrees
  <1>1. IndInv => FormatAgrees
    <2> SUFFICES ASSUME IndInv, kvm = "FrameLoop", pending > 0, inbox # <<>>, Head(inbox) \in Rects
                 PROVE  Head(inbox) = RectOf(format)
      BY DEF FormatAgrees
    <2> USE DEF IndInv, TypeOK, ChannelTypes, KvmTypes
    <2>1. PICK rest \in Seq(SessionTokens) : StreamInv(rest)
      BY DEF KvmInv, FrameLoopInv
    <2>2. Loaded(inbox \o rest, pending, format)
      BY <2>1 DEF StreamInv
    <2>3. Head(inbox \o rest) = Head(inbox)
      BY TakeFirst
    <2>4. Head(inbox \o rest) \in {RectOf(format), "RectBad"} \cup Resizes
      <3>1. ASSUME NEW s, NEW p \in 1..2, NEW f \in Formats, Loaded(s, p, f)
            PROVE  Head(s) \in {RectOf(f), "RectBad"} \cup Resizes
        BY <3>1, TakeLoaded
      <3>2. pending \in 1..2
        OBVIOUS
      <3> QED BY <2>2, <3>1, <3>2, Zenon
    <2> QED BY <2>3, <2>4 DEF Rects, Resizes
  <1> QED BY <1>1, SessionsInductive, PTL

\* The frame loop keeps itself going, unless the firmware answers a request with an
\* update of no rectangles.
THEOREM FrameLoopGoesOn == Spec => []OnlyBlankFreezes
  <1>1. IndInv => OnlyBlankFreezes
    <2> SUFFICES ASSUME IndInv, kvm = "FrameLoop", link = "Open", ~blank
                 PROVE  UpdateComing
      BY DEF OnlyBlankFreezes
    <2> USE DEF IndInv, TypeOK, ChannelTypes, KvmTypes
    <2>1. StreamInv(wire)
      BY DEF KvmInv, FrameLoopInv, StreamInv
    <2>2. CASE toDev # <<>>
      <3>1. toDev[Len(toDev)] = "Request" /\ Len(toDev) \in 1..Len(toDev)
        <4>1. \A x, y : /\ Len(<<"Request">>) = 1 /\ <<"Request">>[1] = "Request"
                        /\ Len(<<x, "Request">>) = 2 /\ <<x, "Request">>[2] = "Request"
                        /\ Len(<<x, y, "Request">>) = 3 /\ <<x, y, "Request">>[3] = "Request"
          OBVIOUS
        <4>2. \/ toDev = <<"Request">> \/ toDev = <<"Encodings", "Request">>
              \/ toDev = <<SetFormat(format), "Encodings", "Request">>
              \/ toDev = <<SetFormat(format), "Request">>
          BY <2>1, <2>2 DEF StreamInv, Told, Untold
        <4>3. Len(toDev) \in {1, 2, 3} /\ toDev[Len(toDev)] = "Request"
          <5>1. CASE toDev = <<"Request">>
            BY <4>1, <5>1
          <5>2. CASE toDev = <<"Encodings", "Request">>
            BY <4>1, <5>2
          <5>3. CASE toDev = <<SetFormat(format), "Encodings", "Request">>
            BY <4>1, <5>3
          <5>4. CASE toDev = <<SetFormat(format), "Request">>
            BY <4>1, <5>4
          <5> QED BY <4>2, <5>1, <5>2, <5>3, <5>4
        <4>4. \A k \in {1, 2, 3} : k \in 1..k
          OBVIOUS
        <4> QED BY <4>3, <4>4, Zenon
      <3> QED BY <3>1 DEF UpdateComing
    <2>3. CASE toDev = <<>> /\ ~asked
      <3>1. inbox \o wire # <<>>
        BY <2>1, <2>3, TakeLoaded DEF StreamInv
      <3>2. CASE wire # <<>>
        BY <3>2 DEF UpdateComing
      <3>3. CASE wire = <<>>
        <4>1. inbox # <<>>
          BY <3>1, <3>3, ConcatEmptySeq
        <4> QED BY <4>1 DEF KvmInv, AwakeInv, UpdateComing
      <3> QED BY <3>2, <3>3
    <2>4. CASE asked
      BY <2>4 DEF UpdateComing
    <2> QED BY <2>2, <2>3, <2>4
  <1> QED BY <1>1, SessionsInductive, PTL

\* A chunked read sends exactly the blocks it owes.
THEOREM ChunksInOrder == Spec => []ReadInOrder
  <1>1. IndInv => ReadInOrder
    BY DEF IndInv, ReadInv, ReadInOrder, TypeOK, IderTypes
  <1> QED BY <1>1, SessionsInductive, PTL
=============================================================================
