------------------------- MODULE RedirClientProofs -------------------------
(***************************************************************************)
(* Proofs about RedirClient, and that it implements RedirChannel, for      *)
(* every set of certificates, device scripts and configurations and every  *)
(* number of connects.                                                     *)
(***************************************************************************)
EXTENDS RedirClientChannel, SequenceTheorems, TLAPS

\* Cutting a stream of tokens anywhere leaves two streams of tokens that add up
\* to it; what drainInbox() and handleReadyRead() do to the inbox and the socket.
LEMMA CutTokens ==
    ASSUME NEW s \in Seq(Tokens), NEW n \in 0..Len(s)
    PROVE  /\ SubSeq(s, 1, n) \in Seq(Tokens)
           /\ SubSeq(s, n + 1, Len(s)) \in Seq(Tokens)
           /\ SubSeq(s, 1, n) \o SubSeq(s, n + 1, Len(s)) = s
  <1>1. Len(s) \in Nat
    BY LenProperties
  <1>2. SubSeq(s, 1, n) \in Seq(Tokens) /\ SubSeq(s, n + 1, Len(s)) \in Seq(Tokens)
    BY <1>1, SubSeqProperties
  <1>3. SubSeq(s, 1, n) \o SubSeq(s, n + 1, Len(s)) = SubSeq(s, 1, Len(s))
    <2>1. 1 \in 1..Len(s)+1 /\ n \in 1-1..Len(s) /\ Len(s) \in n..Len(s)
      BY <1>1
    <2> QED BY <2>1, <1>1, ConcatAdjacentSubSeq
  <1>4. SubSeq(s, 1, Len(s)) = s
    BY SubSeqFull
  <1> QED BY <1>2, <1>3, <1>4

\* A complete frame at the head of the inbox and what follows it are token streams.
LEMMA HeadAndLeftover ==
    ASSUME inbox \in Seq(Tokens), Len(inbox) >= 2
    PROVE  /\ SubSeq(inbox, 1, 2) \in Seq(Tokens)
           /\ Leftover \in Seq(Tokens)
           /\ SubSeq(inbox, 1, 2) \o Leftover = inbox
  <1>1. Len(inbox) \in Nat /\ 2 \in 0..Len(inbox)
    BY LenProperties
  <1> QED BY <1>1, CutTokens DEF Leftover

\* What HandleConnected leaves behind is typed.
LEMMA HandleConnectedType ==
    ASSUME TypeOK, NEW s \in SocketStates, HandleConnected(s)
    PROVE  /\ sock' \in SocketStates
           /\ state' \in States
           /\ draining' \in BOOLEAN
           /\ sent' \in Seq(ClientFrames)
  <1>1. CASE s = "Connected"
    <2>1. Append(sent, "Selector") \in Seq(ClientFrames)
      BY AppendProperties DEF TypeOK, ClientFrames
    <2> QED BY <1>1, <2>1 DEF HandleConnected, TypeOK, States, SocketStates
  <1>2. CASE s # "Connected"
    BY <1>2 DEF HandleConnected, Fail, TypeOK, States, SocketStates
  <1> QED BY <1>1, <1>2

LEMMA ResetSessionType ==
    ASSUME ResetSession, connects' \in 1..MaxConnects
    PROVE  /\ inbox' \in Seq(Tokens)
           /\ pendingCert' \in Certs \cup {NoCert}
           /\ awaitingTrust' \in BOOLEAN
           /\ peerCert' \in Certs \cup {NoCert}
           /\ script' \in Seq(Tokens)
           /\ rest' \in Seq(Tokens)
           /\ sent' \in Seq(ClientFrames)
           /\ parsed' \in Seq(Tokens)
           /\ raw' \in Seq(Tokens)
  <1>0. Scripts[connects'] \subseteq Seq(Tokens)
    BY RedirAssumption
  <1>1. << >> \in Seq(Tokens) /\ << >> \in Seq(ClientFrames)
    BY EmptySeq
  <1>2. script' \in Seq(Tokens)
    BY <1>0 DEF ResetSession
  <1> QED BY <1>1, <1>2 DEF ResetSession

\* The initial states are typed.
LEMMA InitType == Init => TypeOK
  <1>1. << >> \in Seq(Tokens) /\ << >> \in Seq(ClientFrames)
    BY EmptySeq
  <1>2. Init => trusted \subseteq Certs
    BY RedirAssumption DEF Init
  <1>3. Init => awaitingTrust \in BOOLEAN /\ draining \in BOOLEAN
    BY Zenon DEF Init
  <1>4. Init => cfg \in Configs /\ state \in States /\ sock \in SocketStates
    BY DEF Init, States, SocketStates
  <1>5. Init => opening \in 0..connects /\ queued \in Nat /\ connects \in 0..MaxConnects
    BY RedirAssumption DEF Init
  <1>6. Init => pendingCert \in Certs \cup {NoCert} /\ peerCert \in Certs \cup {NoCert}
    BY DEF Init
  <1> QED BY <1>1, <1>2, <1>3, <1>4, <1>5, <1>6 DEF Init, TypeOK

\* Every step keeps the types.
LEMMA NextType == TypeOK /\ [Next]_vars => TypeOK'
  <1> SUFFICES ASSUME TypeOK, [Next]_vars
               PROVE  TypeOK'
    OBVIOUS
  <1>1. CASE ConnectTo
    <2>1. connects' \in 1..MaxConnects /\ opening' \in 0..connects'
      BY <1>1, RedirAssumption DEF ConnectTo, MayConnect, TypeOK
    <2> QED BY <1>1, <2>1, ResetSessionType DEF ConnectTo, TypeOK, States, SocketStates
  <1>2. CASE ConnectToViaTunnel
    <2>1. connects' \in 0..MaxConnects /\ opening' \in 0..connects'
      BY <1>2, RedirAssumption DEF ConnectToViaTunnel, MayConnect, TypeOK
    <2> QED BY <1>2, <2>1 DEF ConnectToViaTunnel, conn, hist, TypeOK, States
  <1>3. CASE DisconnectFromHost
    BY <1>3 DEF DisconnectFromHost, conn, hist, TypeOK, States, SocketStates
  <1>4. CASE TrustPendingPeerCert
    <2>1. trusted' \subseteq Certs
      BY <1>4 DEF TrustPendingPeerCert, TypeOK
    <2> QED BY <1>4, <2>1, HandleConnectedType DEF TrustPendingPeerCert, conn, TypeOK
  <1>5. CASE TunnelFailed
    <2>1. opening' \in 0..connects'
      BY <1>5, RedirAssumption DEF TunnelFailed, TypeOK
    <2> QED BY <1>5, <2>1 DEF TunnelFailed, Fail, conn, hist, TypeOK, States, SocketStates
  <1>6. CASE ConnectViaSocketDescriptor
    <2>1. connects' \in 1..MaxConnects /\ opening' \in 0..connects'
      BY <1>6, RedirAssumption DEF ConnectViaSocketDescriptor, TypeOK
    <2> QED BY <1>6, <2>1, ResetSessionType
         DEF ConnectViaSocketDescriptor, TypeOK, States, SocketStates
  <1>7. CASE ConnectViaSocketDescriptorRefused
    <2>1. connects' \in 1..MaxConnects /\ opening' \in 0..connects'
      BY <1>7, RedirAssumption DEF ConnectViaSocketDescriptorRefused, TypeOK
    <2> QED BY <1>7, <2>1, ResetSessionType
         DEF ConnectViaSocketDescriptorRefused, TypeOK, States, SocketStates
  <1>8. CASE TcpConnected
    BY <1>8, HandleConnectedType DEF TcpConnected, conn, TypeOK, SocketStates
  <1>9. CASE QueuedConnected
    BY <1>9, HandleConnectedType DEF QueuedConnected, conn, TypeOK
  <1>10. CASE HandleEncrypted
    <2>1. CASE peerCert = NoCert
      BY <1>10, <2>1 DEF HandleEncrypted, Fail, conn, TypeOK, States, SocketStates
    <2>2. CASE peerCert # NoCert /\ peerCert \in trusted
      BY <1>10, <2>2, HandleConnectedType DEF HandleEncrypted, conn, TypeOK, SocketStates
    <2>3. CASE peerCert # NoCert /\ peerCert \notin trusted
      BY <1>10, <2>3 DEF HandleEncrypted, conn, TypeOK, SocketStates
    <2> QED BY <2>1, <2>2, <2>3
  <1>11. CASE HandleReadyRead
    <2>1. Len(rest) \in Nat
      BY LenProperties DEF TypeOK
    <2>2. PICK n \in 1..Len(rest) :
             /\ rest' = SubSeq(rest, n + 1, Len(rest))
             /\ IF state = "Authenticated"
                THEN /\ raw' = raw \o SubSeq(rest, 1, n)
                     /\ UNCHANGED <<inbox, draining>>
                ELSE /\ inbox' = inbox \o SubSeq(rest, 1, n)
                     /\ draining' = TRUE
                     /\ raw' = raw
      BY <1>11 DEF HandleReadyRead
    <2>3. n \in 0..Len(rest)
      BY <2>1
    <2>4. SubSeq(rest, 1, n) \in Seq(Tokens) /\ rest' \in Seq(Tokens)
      BY <2>2, <2>3, CutTokens DEF TypeOK
    <2>5. /\ raw \o SubSeq(rest, 1, n) \in Seq(Tokens)
          /\ inbox \o SubSeq(rest, 1, n) \in Seq(Tokens)
      BY <2>4, ConcatProperties DEF TypeOK
    <2>6. raw' \in Seq(Tokens) /\ inbox' \in Seq(Tokens) /\ draining' \in BOOLEAN
      BY <2>2, <2>5 DEF TypeOK
    <2> QED BY <1>11, <2>4, <2>6 DEF HandleReadyRead, conn, TypeOK
  <1>12. ASSUME NEW remoteHostClosed \in BOOLEAN, HandleSocketError(remoteHostClosed)
         PROVE  TypeOK'
    BY <1>12 DEF HandleSocketError, Fail, conn, hist, TypeOK, States, SocketStates
  <1>13. CASE DrainIncomplete
    BY <1>13 DEF DrainIncomplete, drainFrame, conn, hist, TypeOK
  <1>14. CASE DrainEnd
    BY <1>14 DEF DrainEnd, drainFrame, conn, hist, TypeOK
  <1>15. CASE DrainUnexpected
    BY <1>15 DEF DrainUnexpected, Fail, drainFrame, conn, hist, TypeOK, States, SocketStates
  <1>16. CASE DrainStartReply
    <2>1. SubSeq(inbox, 1, 2) \in Seq(Tokens) /\ Leftover \in Seq(Tokens)
      BY <1>16, HeadAndLeftover DEF DrainStartReply, Complete, TypeOK
    <2>2. parsed' \in Seq(Tokens)
      BY <1>16, <2>1, ConcatProperties DEF DrainStartReply, Consume, TypeOK
    <2>3. Append(sent, "AuthQuery") \in Seq(ClientFrames)
      BY AppendProperties DEF TypeOK, ClientFrames
    <2> QED BY <1>16, <2>1, <2>2, <2>3
         DEF DrainStartReply, Fail, drainFrame, conn, TypeOK, States, SocketStates
  <1>17. CASE DrainAuthReply
    <2>1. SubSeq(inbox, 1, 2) \in Seq(Tokens) /\ Leftover \in Seq(Tokens)
      BY <1>17, HeadAndLeftover DEF DrainAuthReply, Complete, TypeOK
    <2>2. parsed' \in Seq(Tokens)
      BY <1>17, <2>1, ConcatProperties DEF DrainAuthReply, Consume, TypeOK
    <2>3. /\ Append(sent, "DigestQuery") \in Seq(ClientFrames)
          /\ Append(sent, "DigestResponse") \in Seq(ClientFrames)
          /\ Append(sent, "KvmStart") \in Seq(ClientFrames)
      BY AppendProperties DEF TypeOK, ClientFrames
    <2>4. raw \o Leftover \in Seq(Tokens) /\ << >> \in Seq(Tokens)
      BY <2>1, ConcatProperties, EmptySeq DEF TypeOK
    <2>5. CASE DrainAuthCaps
      BY <1>17, <2>1, <2>2, <2>3, <2>5
         DEF DrainAuthReply, DrainAuthCaps, Fail, drainFrame, conn, TypeOK, States, SocketStates
    <2>6. CASE DrainAuthChallenge
      BY <1>17, <2>1, <2>2, <2>3, <2>6
         DEF DrainAuthReply, DrainAuthChallenge, Fail, drainFrame, conn, TypeOK, States, SocketStates
    <2>7. CASE DrainAuthVerdict
      BY <1>17, <2>1, <2>2, <2>3, <2>4, <2>7
         DEF DrainAuthReply, DrainAuthVerdict, Fail, drainFrame, conn, TypeOK, States, SocketStates
    <2>8. CASE DrainAuthOutOfOrder
      BY <1>17, <2>1, <2>2, <2>8
         DEF DrainAuthReply, DrainAuthOutOfOrder, Fail, drainFrame, conn, TypeOK, States, SocketStates
    <2> QED BY <1>17, <2>5, <2>6, <2>7, <2>8 DEF DrainAuthReply
  <1>18. CASE DrainKvmReply
    <2>1. SubSeq(inbox, 1, 2) \in Seq(Tokens) /\ Leftover \in Seq(Tokens)
      BY <1>18, HeadAndLeftover DEF DrainKvmReply, Complete, TypeOK
    <2>2. /\ parsed' \in Seq(Tokens) /\ raw' \in Seq(Tokens) /\ inbox' \in Seq(Tokens)
      BY <1>18, <2>1, ConcatProperties, EmptySeq DEF DrainKvmReply, Consume, TypeOK
    <2> QED BY <1>18, <2>2 DEF DrainKvmReply, drainFrame, conn, TypeOK, States
  <1>19. CASE UNCHANGED vars
    BY <1>19 DEF vars, TypeOK
  <1> QED
    BY <1>1, <1>2, <1>3, <1>4, <1>5, <1>6, <1>7, <1>8, <1>9, <1>10, <1>11, <1>12, <1>13,
       <1>14, <1>15, <1>16, <1>17, <1>18, <1>19
       DEF Next, UserStep, Tunnel, Connected, SocketError, Drain

\* TypeOK is an invariant of the redirection client.
THEOREM TypeCorrect == Spec => []TypeOK
  BY InitType, NextType, PTL DEF Spec

-----------------------------------------------------------------------------
(***************************************************************************)
(* The transcript of the authentication.                                   *)
(***************************************************************************)

\* Every sequence ends with the empty one.
LEMMA EndsWithEmpty ==
    ASSUME NEW s \in Seq(ClientFrames)
    PROVE  EndsWith(s, << >>)
  BY LenProperties, EmptySeq DEF EndsWith

\* u is t with x written after it.
OneMore(t, x, u) ==
    /\ Len(t) \in Nat
    /\ Len(u) = Len(t) + 1
    /\ \A i \in 1..Len(t) : u[i] = t[i]
    /\ u[Len(t) + 1] = x

\* Writing one more frame extends what the transcript ends with.
LEMMA EndsWithAppend ==
    ASSUME NEW s \in Seq(ClientFrames), NEW x \in ClientFrames, NEW t, NEW u,
           OneMore(t, x, u), EndsWith(s, t)
    PROVE  EndsWith(Append(s, x), u)
  <1> DEFINE s1 == Append(s, x)
  <1>1. /\ Len(s) \in Nat
        /\ Len(s1) = Len(s) + 1
        /\ \A i \in 1..Len(s) : s1[i] = s[i]
        /\ s1[Len(s) + 1] = x
    BY LenProperties, AppendProperties
  <1> HIDE DEF s1
  <1>2. ASSUME NEW i \in 1..Len(u)
        PROVE  s1[Len(s1) - Len(u) + i] = u[i]
    <2>1. CASE i = Len(t) + 1
      BY <1>1, <2>1 DEF EndsWith, OneMore
    <2>2. CASE i \in 1..Len(t)
      <3>1. s[Len(s) - Len(t) + i] = t[i] /\ Len(s) - Len(t) + i \in 1..Len(s)
        BY <1>1, <2>2 DEF EndsWith, OneMore
      <3> QED BY <1>1, <2>2, <3>1, SMTT(30) DEF OneMore
    <2> QED BY <1>1, <2>1, <2>2 DEF OneMore
  <1>3. Len(s1) >= Len(u)
    BY <1>1 DEF EndsWith, OneMore
  <1>4. EndsWith(s1, u)
    BY <1>2, <1>3 DEF EndsWith
  <1> QED BY <1>4 DEF s1

\* The transcripts of successive states differ by the frame written between them.
LEMMA TranscriptGrows ==
    /\ OneMore(<< >>, "AuthQuery", <<"AuthQuery">>)
    /\ OneMore(<<"AuthQuery">>, "DigestQuery", <<"AuthQuery", "DigestQuery">>)
    /\ OneMore(<<"AuthQuery", "DigestQuery">>, "DigestResponse",
               <<"AuthQuery", "DigestQuery", "DigestResponse">>)
    /\ OneMore(<<"AuthQuery", "DigestQuery", "DigestResponse">>, "KvmStart",
               <<"AuthQuery", "DigestQuery", "DigestResponse", "KvmStart">>)
  <1>1. OneMore(<< >>, "AuthQuery", <<"AuthQuery">>)
    BY DEF OneMore
  <1>2. OneMore(<<"AuthQuery">>, "DigestQuery", <<"AuthQuery", "DigestQuery">>)
    BY DEF OneMore
  <1>3. OneMore(<<"AuthQuery", "DigestQuery">>, "DigestResponse",
                <<"AuthQuery", "DigestQuery", "DigestResponse">>)
    BY DEF OneMore
  <1>4. OneMore(<<"AuthQuery", "DigestQuery", "DigestResponse">>, "KvmStart",
                <<"AuthQuery", "DigestQuery", "DigestResponse", "KvmStart">>)
    BY DEF OneMore
  <1> QED BY <1>1, <1>2, <1>3, <1>4

\* Transcript, state by state.
LEMMA TranscriptOf ==
    ASSUME NEW p
    PROVE  /\ Transcript("AuthQuerying", p) = <<"AuthQuery">>
           /\ Transcript("AuthChallenging", p) = <<"AuthQuery", "DigestQuery">>
           /\ Transcript("AuthResponding", p) = <<"AuthQuery", "DigestQuery", "DigestResponse">>
           /\ Transcript("KvmStarting", p)
                = <<"AuthQuery", "DigestQuery", "DigestResponse", "KvmStart">>
           /\ p = "Kvm" => Transcript("Authenticated", p) = Transcript("KvmStarting", p)
           /\ p # "Kvm" => Transcript("Authenticated", p) = Transcript("AuthResponding", p)
           /\ \A st \in {"Disconnected", "Connecting", "SelectorSent", "SessionOpened", "Failed"} :
                 Transcript(st, p) = << >>
  BY DEF Transcript

-----------------------------------------------------------------------------
(***************************************************************************)
(* The inductive invariant.                                                *)
(***************************************************************************)

\* The control part: what sock, state, draining, queued and the trust prompt say
\* about each other.
Control ==
    /\ FailedMeansClosed /\ PromptMatchesPeer /\ QueuedBeforeRead
    /\ HandOver /\ KvmStartsOnlyKvm

LEMMA ControlStep ==
    ASSUME IndInv, [Next]_vars
    PROVE  Control'
  <1> USE DEF Control, FailedMeansClosed, PromptMatchesPeer, QueuedBeforeRead, HandOver,
         KvmStartsOnlyKvm
  <1>0. TypeOK /\ Control
    BY DEF IndInv
  <1>1. CASE ConnectTo
    BY <1>0, <1>1 DEF ConnectTo, MayConnect, ResetSession, TypeOK
  <1>2. CASE ConnectToViaTunnel
    BY <1>0, <1>2 DEF ConnectToViaTunnel, MayConnect, conn, hist, TypeOK
  <1>3. CASE DisconnectFromHost
    BY <1>0, <1>3 DEF DisconnectFromHost, conn, hist, TypeOK
  <1>4. CASE TrustPendingPeerCert
    BY <1>0, <1>4 DEF TrustPendingPeerCert, HandleConnected, Fail, conn, TypeOK
  <1>5. CASE TunnelFailed
    BY <1>0, <1>5 DEF TunnelFailed, Fail, conn, hist, TypeOK
  <1>6. CASE ConnectViaSocketDescriptor
    BY <1>0, <1>6 DEF ConnectViaSocketDescriptor, ResetSession, TypeOK
  <1>7. CASE ConnectViaSocketDescriptorRefused
    BY <1>0, <1>7 DEF ConnectViaSocketDescriptorRefused, ResetSession, TypeOK
  <1>8. CASE TcpConnected
    BY <1>0, <1>8 DEF TcpConnected, HandleConnected, Fail, conn, TypeOK
  <1>9. CASE QueuedConnected
    BY <1>0, <1>9 DEF QueuedConnected, HandleConnected, Fail, conn, TypeOK
  <1>10. CASE HandleEncrypted
    BY <1>0, <1>10 DEF HandleEncrypted, HandleConnected, Fail, conn, TypeOK
  <1>11. CASE HandleReadyRead
    BY <1>0, <1>11 DEF HandleReadyRead, conn, TypeOK
  <1>12. ASSUME NEW remoteHostClosed \in BOOLEAN, HandleSocketError(remoteHostClosed)
         PROVE  Control'
    BY <1>0, <1>12 DEF HandleSocketError, Fail, conn, hist, TypeOK
  <1>13. CASE DrainIncomplete
    BY <1>0, <1>13 DEF DrainIncomplete, drainFrame, conn, hist, TypeOK
  <1>14. CASE DrainEnd
    BY <1>0, <1>14 DEF DrainEnd, drainFrame, conn, hist, TypeOK
  <1>15. CASE DrainUnexpected
    BY <1>0, <1>15 DEF DrainUnexpected, Fail, drainFrame, conn, hist, TypeOK
  <1>16. CASE DrainStartReply
    BY <1>0, <1>16 DEF DrainStartReply, Fail, drainFrame, conn, TypeOK
  <1>17. CASE DrainAuthReply
    <2>1. CASE DrainAuthCaps
      BY <1>0, <1>17, <2>1 DEF DrainAuthReply, DrainAuthCaps, Fail, drainFrame, conn, TypeOK
    <2>2. CASE DrainAuthChallenge
      BY <1>0, <1>17, <2>2 DEF DrainAuthReply, DrainAuthChallenge, Fail, drainFrame, conn, TypeOK
    <2>3. CASE DrainAuthVerdict
      <3>1. CASE AuthStatus(Head1) # 0
        BY <1>0, <1>17, <2>3, <3>1 DEF DrainAuthReply, DrainAuthVerdict, Fail, drainFrame, conn, TypeOK
      <3>2. CASE AuthStatus(Head1) = 0 /\ cfg.protocol = "Kvm"
        BY <1>0, <1>17, <2>3, <3>2 DEF DrainAuthReply, DrainAuthVerdict, drainFrame, conn, TypeOK
      <3>3. CASE AuthStatus(Head1) = 0 /\ cfg.protocol # "Kvm"
        <4>1. /\ state' = "Authenticated" /\ inbox' = << >> /\ draining' = FALSE
              /\ draining
              /\ UNCHANGED <<sock, queued, cfg, awaitingTrust, pendingCert, peerCert>>
          BY <1>17, <2>3, <3>3 DEF DrainAuthReply, DrainAuthVerdict, drainFrame, conn
        <4>2. sock = "Connected" /\ queued = 0
          BY <1>0, <4>1
        <4> QED BY <1>0, <4>1, <4>2
      <3> QED BY <3>1, <3>2, <3>3
    <2>4. CASE DrainAuthOutOfOrder
      BY <1>0, <1>17, <2>4 DEF DrainAuthReply, DrainAuthOutOfOrder, Fail, drainFrame, conn, TypeOK
    <2> QED BY <1>17, <2>1, <2>2, <2>3, <2>4 DEF DrainAuthReply
  <1>18. CASE DrainKvmReply
    BY <1>0, <1>18 DEF DrainKvmReply, drainFrame, conn, TypeOK
  <1>19. CASE UNCHANGED vars
    BY <1>0, <1>19 DEF vars
  <1> QED
    BY <1>1, <1>2, <1>3, <1>4, <1>5, <1>6, <1>7, <1>8, <1>9, <1>10, <1>11, <1>12, <1>13,
       <1>14, <1>15, <1>16, <1>17, <1>18, <1>19
       DEF Next, UserStep, Tunnel, Connected, SocketError, Drain

\* The transcript of the authentication: a step that leaves the state or enters it
\* through a write.
LEMMA TranscriptStep ==
    ASSUME IndInv, TypeOK', Control', [Next]_vars
    PROVE  AuthTranscript'
  <1> DEFINE p == cfg.protocol
             Idle == {"Disconnected", "Connecting", "SelectorSent", "SessionOpened", "Failed"}
  <1>0. TypeOK /\ AuthTranscript /\ cfg' \in Configs
    BY DEF IndInv, TypeOK
  <1>a. ASSUME state' \in Idle PROVE AuthTranscript'
    <2>1. Transcript(state', cfg'.protocol) = << >>
      BY <1>a, TranscriptOf
    <2>2. EndsWith(sent', << >>)
      BY EndsWithEmpty DEF TypeOK
    <2> QED BY <2>1, <2>2 DEF AuthTranscript
  <1>b. ASSUME UNCHANGED <<cfg, state, sent>> PROVE AuthTranscript'
    BY <1>0, <1>b DEF AuthTranscript
  <1>1. CASE UserStep \/ Tunnel \/ TcpConnected \/ QueuedConnected \/ SocketError
    <2>1. state' \in Idle
      BY <1>1 DEF UserStep, ConnectTo, ConnectToViaTunnel, DisconnectFromHost,
         TrustPendingPeerCert, Tunnel, TunnelFailed, ConnectViaSocketDescriptor,
         ConnectViaSocketDescriptorRefused, TcpConnected, QueuedConnected, SocketError,
         HandleSocketError, HandleConnected, Fail
    <2> QED BY <1>a, <2>1
  <1>2. CASE HandleEncrypted
    <2>1. state' \in Idle \/ UNCHANGED <<cfg, state, sent>>
      BY <1>2 DEF HandleEncrypted, HandleConnected, Fail
    <2> QED BY <1>a, <1>b, <2>1
  <1>3. CASE HandleReadyRead
    BY <1>b, <1>3 DEF HandleReadyRead
  <1>4. CASE DrainIncomplete \/ DrainEnd \/ DrainUnexpected
    <2>1. state' \in Idle \/ UNCHANGED <<cfg, state, sent>>
      BY <1>4 DEF DrainIncomplete, DrainEnd, DrainUnexpected, Fail, drainFrame, hist
    <2> QED BY <1>a, <1>b, <2>1
  <1>5. CASE DrainStartReply
    <2>1. CASE state' = "AuthQuerying" /\ sent' = Append(sent, "AuthQuery")
      <3>1. EndsWith(sent, << >>)
        BY <1>0, EndsWithEmpty DEF TypeOK
      <3>2. EndsWith(Append(sent, "AuthQuery"), <<"AuthQuery">>)
        BY <1>0, <3>1, EndsWithAppend, TranscriptGrows DEF TypeOK, ClientFrames
      <3> QED BY <2>1, <3>2, TranscriptOf DEF AuthTranscript
    <2>2. CASE state' \in Idle
      BY <1>a, <2>2
    <2> QED BY <1>5, <2>1, <2>2 DEF DrainStartReply, Fail
  <1>6. CASE DrainAuthReply
    <2>0. cfg' = cfg
      BY <1>6 DEF DrainAuthReply, drainFrame
    <2>1. CASE state' \in Idle
      BY <1>a, <2>1
    <2>2. CASE state = "AuthQuerying" /\ state' = "AuthChallenging"
               /\ sent' = Append(sent, "DigestQuery")
      <3>1. EndsWith(sent, <<"AuthQuery">>)
        BY <1>0, <2>2, TranscriptOf DEF AuthTranscript
      <3>2. EndsWith(Append(sent, "DigestQuery"), <<"AuthQuery", "DigestQuery">>)
        BY <1>0, <3>1, EndsWithAppend, TranscriptGrows DEF TypeOK, ClientFrames
      <3> QED BY <2>0, <2>2, <3>2, TranscriptOf DEF AuthTranscript
    <2>3. CASE state = "AuthChallenging" /\ state' = "AuthResponding"
               /\ sent' = Append(sent, "DigestResponse")
      <3>1. EndsWith(sent, <<"AuthQuery", "DigestQuery">>)
        BY <1>0, <2>3, TranscriptOf DEF AuthTranscript
      <3>2. EndsWith(Append(sent, "DigestResponse"),
                     <<"AuthQuery", "DigestQuery", "DigestResponse">>)
        BY <1>0, <3>1, EndsWithAppend, TranscriptGrows DEF TypeOK, ClientFrames
      <3> QED BY <2>0, <2>3, <3>2, TranscriptOf DEF AuthTranscript
    <2>4. CASE state = "AuthResponding" /\ state' = "KvmStarting"
               /\ sent' = Append(sent, "KvmStart")
      <3>1. EndsWith(sent, <<"AuthQuery", "DigestQuery", "DigestResponse">>)
        BY <1>0, <2>4, TranscriptOf DEF AuthTranscript
      <3>2. EndsWith(Append(sent, "KvmStart"),
                     <<"AuthQuery", "DigestQuery", "DigestResponse", "KvmStart">>)
        BY <1>0, <3>1, EndsWithAppend, TranscriptGrows DEF TypeOK, ClientFrames
      <3> QED BY <2>0, <2>4, <3>2, TranscriptOf DEF AuthTranscript
    <2>5. CASE state = "AuthResponding" /\ state' = "Authenticated" /\ sent' = sent
               /\ cfg.protocol # "Kvm"
      <3>1. Transcript(state', p) = Transcript(state, p)
        BY <2>5, TranscriptOf
      <3> QED BY <1>0, <2>0, <2>5, <3>1 DEF AuthTranscript
    <2> QED BY <1>6, <2>1, <2>2, <2>3, <2>4, <2>5
         DEF DrainAuthReply, DrainAuthCaps, DrainAuthChallenge, DrainAuthVerdict,
             DrainAuthOutOfOrder, Fail
  <1>7. CASE DrainKvmReply
    <2>1. /\ state = "KvmStarting" /\ state' = "Authenticated"
          /\ sent' = sent /\ cfg' = cfg /\ cfg.protocol = "Kvm"
      BY <1>7 DEF DrainKvmReply, KvmReplyExpected, drainFrame, IndInv, KvmStartsOnlyKvm
    <2>2. Transcript(state', p) = Transcript(state, p)
      BY <2>1, TranscriptOf
    <2> QED BY <1>0, <2>1, <2>2 DEF AuthTranscript
  <1>8. CASE UNCHANGED vars
    BY <1>b, <1>8 DEF vars
  <1> QED BY <1>1, <1>2, <1>3, <1>4, <1>5, <1>6, <1>7, <1>8 DEF Next, Connected, Drain

\* Nothing but a read brings the client bytes, and a read of a device that waits to
\* be asked comes after the client's first frame.
LEMMA UnaskedStep ==
    ASSUME IndInv, TypeOK', [Next]_vars
    PROVE  NothingUnasked'
  <1>0. TypeOK /\ NothingUnasked /\ AuthTranscript
    BY DEF IndInv
  <1>w. ASSUME NEW x \in ClientFrames, sent' = Append(sent, x)
        PROVE  NothingUnasked'
    <2>1. Len(sent') = Len(sent) + 1 /\ Len(sent) \in Nat
      BY <1>0, <1>w, LenProperties, AppendProperties DEF TypeOK
    <2>2. sent' # << >>
      BY <2>1, EmptySeq
    <2> QED BY <2>2 DEF NothingUnasked
  <1>b. ASSUME UNCHANGED <<cfg, sent, rest, conn, inbox>>
        PROVE  NothingUnasked'
    BY <1>0, <1>b DEF NothingUnasked, conn
  <1>h. ASSUME NEW s, HandleConnected(s), UNCHANGED <<cfg, rest, conn, inbox>>
        PROVE  NothingUnasked'
    BY <1>b, <1>h, <1>w DEF HandleConnected, ClientFrames
  \* A turn of the drain that takes a frame finds bytes in the inbox.
  <1>d. ASSUME inbox # << >>, UNCHANGED drainFrame,
               sent' = sent \/ \E x \in ClientFrames : sent' = Append(sent, x)
        PROVE  NothingUnasked'
    BY <1>0, <1>d, <1>w DEF NothingUnasked, drainFrame
  <1>1. CASE ConnectTo \/ ConnectViaSocketDescriptor \/ ConnectViaSocketDescriptorRefused
    BY <1>1 DEF ConnectTo, ConnectViaSocketDescriptor, ConnectViaSocketDescriptorRefused,
       ResetSession, NothingUnasked
  <1>2. CASE ConnectToViaTunnel \/ DisconnectFromHost \/ TunnelFailed \/ SocketError
    BY <1>2, <1>b DEF ConnectToViaTunnel, DisconnectFromHost, TunnelFailed, SocketError,
       HandleSocketError, conn, hist
  <1>3. CASE TrustPendingPeerCert \/ TcpConnected \/ QueuedConnected
    BY <1>3, <1>h DEF TrustPendingPeerCert, TcpConnected, QueuedConnected
  <1>4. CASE HandleEncrypted
    BY <1>4, <1>b, <1>h DEF HandleEncrypted
  <1>5. CASE HandleReadyRead
    <2>1. CASE sent = << >> /\ ~cfg.eager
      <3>1. rest = script /\ Len(sent) = 0
        BY <1>0, <2>1, EmptySeq DEF NothingUnasked
      <3>2. state # "Authenticated"
        <4>1. Len(Transcript("Authenticated", cfg.protocol)) > 0
          BY TranscriptOf
        <4> QED BY <1>0, <3>1, <4>1 DEF AuthTranscript, EndsWith
      <3>3. Len(rest) \in Nat
        BY <1>0, LenProperties DEF TypeOK
      <3>4. PICK n \in 1..Len(rest) : DeviceHasSent(Len(script) - Len(rest) + n)
        BY <1>5 DEF HandleReadyRead
      <3>5. Len(script) - Len(rest) + n <= 0
        BY <2>1, <3>1, <3>2, <3>4 DEF DeviceHasSent
      <3> QED BY <3>1, <3>3, <3>5
    <2>2. CASE sent # << >> \/ cfg.eager
      BY <1>5, <2>2 DEF HandleReadyRead, NothingUnasked
    <2> QED BY <2>1, <2>2
  <1>6. CASE DrainIncomplete \/ DrainEnd \/ DrainUnexpected
    BY <1>6, <1>b DEF DrainIncomplete, DrainEnd, DrainUnexpected, drainFrame, hist
  <1>7. CASE DrainStartReply
    BY <1>7, <1>d DEF DrainStartReply, ClientFrames
  <1>8. CASE DrainAuthReply
    BY <1>8, <1>d DEF DrainAuthReply, DrainAuthCaps, DrainAuthChallenge, DrainAuthVerdict,
       DrainAuthOutOfOrder, ClientFrames
  <1>9. CASE DrainKvmReply
    BY <1>9, <1>d DEF DrainKvmReply
  <1>10. CASE UNCHANGED vars
    BY <1>10, <1>b DEF vars, conn
  <1> QED BY <1>1, <1>2, <1>3, <1>4, <1>5, <1>6, <1>7, <1>8, <1>9, <1>10
       DEF Next, UserStep, Tunnel, Connected, Drain

\* What the client writes to an untrusted peer.
LEMMA TrustStep ==
    ASSUME IndInv, TypeOK', [Next]_vars
    PROVE  SilentToUntrusted'
  <1>0. /\ TypeOK /\ SilentToUntrusted /\ PromptMatchesPeer /\ QueuedBeforeRead
        /\ NothingUnasked
    BY DEF IndInv
  \* A frame other than the selector, written behind bytes of the device.
  <1>a. ASSUME NEW x \in ClientFrames \ {"Selector"}, sent' = Append(sent, x),
               UNCHANGED <<cfg, peerCert, trusted>>, inbox # << >>
        PROVE  SilentToUntrusted'
    <2>1. /\ Len(sent) \in Nat /\ Len(sent') = Len(sent) + 1
          /\ \A i \in 1..Len(sent) : sent'[i] = sent[i]
          /\ sent'[Len(sent) + 1] = x
      BY <1>0, <1>a, LenProperties, AppendProperties DEF TypeOK
    <2>2. UntrustedPeer => \A i \in 1..Len(sent') : sent'[i] # "Selector"
      BY <1>0, <2>1 DEF SilentToUntrusted
    <2>3. UntrustedPeer => cfg.eager
      BY <1>0, <1>a DEF SilentToUntrusted, NothingUnasked
    <2> QED BY <1>a, <2>2, <2>3 DEF SilentToUntrusted, UntrustedPeer
  <1>b. ASSUME UNCHANGED <<cfg, peerCert, trusted, sent>>
        PROVE  SilentToUntrusted'
    BY <1>0, <1>b DEF SilentToUntrusted, UntrustedPeer
  <1>c. ASSUME peerCert' \in trusted'
        PROVE  SilentToUntrusted'
    BY <1>c DEF SilentToUntrusted, UntrustedPeer
  <1>d. ASSUME ~cfg'.tls
        PROVE  SilentToUntrusted'
    BY <1>d DEF SilentToUntrusted, UntrustedPeer
  <1>e. ASSUME sent' = << >>
        PROVE  SilentToUntrusted'
    <2>1. Len(sent') = 0
      BY <1>e, EmptySeq
    <2> QED BY <1>e, <2>1 DEF SilentToUntrusted
  <1>1. CASE ConnectTo \/ ConnectViaSocketDescriptor \/ ConnectViaSocketDescriptorRefused
    BY <1>1, <1>e DEF ConnectTo, ConnectViaSocketDescriptor, ConnectViaSocketDescriptorRefused,
       ResetSession
  <1>2. CASE ConnectToViaTunnel \/ DisconnectFromHost \/ TunnelFailed \/ SocketError
    BY <1>2, <1>b DEF ConnectToViaTunnel, DisconnectFromHost, TunnelFailed, SocketError,
       HandleSocketError, conn, hist
  <1>3. CASE TrustPendingPeerCert
    BY <1>0, <1>3, <1>c DEF TrustPendingPeerCert, PromptMatchesPeer, conn
  <1>4. CASE TcpConnected
    BY <1>4, <1>d DEF TcpConnected
  <1>5. CASE QueuedConnected
    BY <1>0, <1>5, <1>d DEF QueuedConnected, QueuedBeforeRead, TypeOK
  <1>6. CASE HandleEncrypted
    BY <1>6, <1>b, <1>c DEF HandleEncrypted, conn
  <1>7. CASE HandleReadyRead
    BY <1>7, <1>b DEF HandleReadyRead, conn
  <1>8. CASE DrainIncomplete \/ DrainEnd \/ DrainUnexpected \/ DrainKvmReply
    BY <1>8, <1>b DEF DrainIncomplete, DrainEnd, DrainUnexpected, DrainKvmReply, drainFrame,
       conn, hist
  <1>9. CASE DrainStartReply
    <2>1. sent' = sent \/ sent' = Append(sent, "AuthQuery")
      BY <1>9 DEF DrainStartReply
    <2> QED BY <1>9, <2>1, <1>a, <1>b DEF DrainStartReply, drainFrame, conn, ClientFrames
  <1>10. CASE DrainAuthReply
    <2>1. \/ sent' = sent
          \/ sent' = Append(sent, "DigestQuery")
          \/ sent' = Append(sent, "DigestResponse")
          \/ sent' = Append(sent, "KvmStart")
      BY <1>10 DEF DrainAuthReply, DrainAuthCaps, DrainAuthChallenge, DrainAuthVerdict,
         DrainAuthOutOfOrder
    <2> QED BY <1>10, <2>1, <1>a, <1>b DEF DrainAuthReply, drainFrame, conn, ClientFrames
  <1>11. CASE UNCHANGED vars
    BY <1>11, <1>b DEF vars
  <1> QED BY <1>1, <1>2, <1>3, <1>4, <1>5, <1>6, <1>7, <1>8, <1>9, <1>10, <1>11
       DEF Next, UserStep, Tunnel, Connected, Drain

\* rawBytes() fires only behind a complete transcript.
LEMMA RawStep ==
    ASSUME IndInv, TypeOK', Control', AuthTranscript', [Next]_vars
    PROVE  RawOnlyAfterAuth'
  <1> DEFINE Behind == raw # << >> => EndsWith(sent, Transcript("Authenticated", cfg.protocol))
  <1>0. TypeOK /\ RawOnlyAfterAuth /\ HandOver /\ QueuedBeforeRead
    BY DEF IndInv
  <1>1. (state = "Authenticated" => inbox = << >> /\ ~draining)'
    BY DEF Control, HandOver
  <1>a. ASSUME raw' = << >> \/ UNCHANGED <<raw, sent, cfg>> \/ state' = "Authenticated"
        PROVE  Behind'
    <2>1. CASE raw' = << >>
      BY <2>1
    <2>2. CASE UNCHANGED <<raw, sent, cfg>>
      BY <1>0, <2>2 DEF RawOnlyAfterAuth
    <2>3. CASE state' = "Authenticated"
      BY <2>3 DEF AuthTranscript
    <2> QED BY <1>a, <2>1, <2>2, <2>3
  <1>2. raw' = << >> \/ UNCHANGED <<raw, sent, cfg>> \/ state' = "Authenticated"
    <2>1. CASE UserStep
      <3>1. CASE TrustPendingPeerCert
        <4>1. CASE sock = "Connected"
          BY <1>0, <3>1, <4>1 DEF TrustPendingPeerCert, HandOver
        <4>2. CASE sock # "Connected"
          BY <3>1, <4>2 DEF TrustPendingPeerCert, HandleConnected
        <4> QED BY <4>1, <4>2
      <3>2. CASE ConnectTo
        BY <3>2 DEF ConnectTo, ResetSession
      <3>3. CASE ConnectToViaTunnel \/ DisconnectFromHost
        BY <3>3 DEF ConnectToViaTunnel, DisconnectFromHost, hist
      <3> QED BY <2>1, <3>1, <3>2, <3>3 DEF UserStep
    <2>2. CASE Tunnel
      BY <2>2 DEF Tunnel, TunnelFailed, ConnectViaSocketDescriptor,
         ConnectViaSocketDescriptorRefused, ResetSession, hist
    <2>3. CASE TcpConnected
      BY <1>0, <2>3 DEF TcpConnected, HandOver
    <2>4. CASE QueuedConnected
      BY <1>0, <2>4 DEF QueuedConnected, QueuedBeforeRead
    <2>5. CASE HandleEncrypted
      BY <1>0, <2>5 DEF HandleEncrypted, HandOver
    <2>6. CASE HandleReadyRead
      BY <1>0, <2>6 DEF HandleReadyRead
    <2>7. CASE SocketError
      BY <2>7 DEF SocketError, HandleSocketError, hist
    <2>8. CASE Drain
      <3>1. draining => raw = << >>
        BY <1>0 DEF HandOver
      <3> QED BY <2>8, <3>1 DEF Drain, DrainIncomplete, DrainEnd, DrainUnexpected,
           DrainStartReply, DrainAuthReply, DrainAuthCaps, DrainAuthChallenge,
           DrainAuthVerdict, DrainAuthOutOfOrder, DrainKvmReply, hist
    <2>9. CASE UNCHANGED vars
      BY <2>9 DEF vars
    <2> QED BY <2>1, <2>2, <2>3, <2>4, <2>5, <2>6, <2>7, <2>8, <2>9 DEF Next, Connected
  <1> QED BY <1>1, <1>2, <1>a DEF RawOnlyAfterAuth

\* Concatenation of token streams, in the form the steps below rewrite with.
LEMMA TokenAssociative ==
    \A s, t, u \in Seq(Tokens) : (s \o t) \o u = s \o (t \o u)
  BY ConcatAssociative

LEMMA TokenConcat ==
    \A s, t \in Seq(Tokens) : s \o t \in Seq(Tokens)
  BY ConcatProperties

LEMMA TokenConcatEmpty ==
    /\ << >> \in Seq(Tokens)
    /\ \A s \in Seq(Tokens) : s \o << >> = s /\ << >> \o s = s
  BY EmptySeq, ConcatEmptySeq

\* The stream is cut and moved, never lost, repeated or reordered.
LEMMA StreamStep ==
    ASSUME IndInv, TypeOK', [Next]_vars
    PROVE  StreamIntegrity'
  <1>0. TypeOK /\ StreamIntegrity /\ HandOver
    BY DEF IndInv
  <1>t. /\ parsed \in Seq(Tokens) /\ inbox \in Seq(Tokens)
        /\ raw \in Seq(Tokens) /\ rest \in Seq(Tokens)
        /\ parsed' \in Seq(Tokens) /\ inbox' \in Seq(Tokens)
        /\ raw' \in Seq(Tokens) /\ rest' \in Seq(Tokens)
    BY <1>0 DEF TypeOK
  <1>a. ASSUME UNCHANGED <<parsed, inbox, raw, rest, script>>
        PROVE  StreamIntegrity'
    BY <1>0, <1>a DEF StreamIntegrity
  <1>b. ASSUME ResetSession
        PROVE  StreamIntegrity'
    <2>1. << >> \o << >> = << >> /\ << >> \o rest' = rest'
      BY <1>t, TokenConcatEmpty, Zenon
    <2> QED BY <1>b, <2>1 DEF ResetSession, StreamIntegrity
  \* A complete frame moves from the inbox to the parser.
  <1>m. ASSUME inbox # << >>, Complete, Consume
        PROVE  parsed' \o Leftover = parsed \o inbox /\ Leftover \in Seq(Tokens)
    <2> DEFINE frame == SubSeq(inbox, 1, 2)
    <2>1. frame \in Seq(Tokens) /\ Leftover \in Seq(Tokens) /\ frame \o Leftover = inbox
      BY <1>t, <1>m, HeadAndLeftover DEF Complete
    <2>2. parsed' = parsed \o frame
      BY <1>m DEF Consume
    <2> HIDE DEF frame
    <2>3. parsed \in Seq(Tokens)
      BY <1>t
    <2>4. (parsed \o frame) \o Leftover = parsed \o (frame \o Leftover)
      BY <2>1, <2>3, TokenAssociative, Zenon
    <2> QED BY <2>1, <2>2, <2>4, Zenon
  <1>c. ASSUME inbox # << >>, Complete, Consume, inbox' = Leftover,
               UNCHANGED <<raw, rest, script>>
        PROVE  StreamIntegrity'
    <2>1. parsed' \o inbox' = parsed \o inbox
      BY <1>c, <1>m
    <2> QED BY <1>0, <1>c, <2>1, Zenon DEF StreamIntegrity
  \* The last frame of the handshake moves, and the rest changes hands.
  <1>d. ASSUME inbox # << >>, Complete, Consume, inbox' = << >>, raw = << >>,
               raw' = raw \o Leftover, UNCHANGED <<rest, script>>
        PROVE  StreamIntegrity'
    <2>1. parsed' \o Leftover = parsed \o inbox /\ Leftover \in Seq(Tokens)
      BY <1>d, <1>m
    <2>2. raw' = Leftover
      BY <1>d, <2>1, TokenConcatEmpty, Zenon
    <2>3. parsed' \o << >> = parsed'
      BY <1>t, TokenConcatEmpty, Zenon
    <2>4. (parsed \o inbox) \o << >> = parsed \o inbox
      BY <1>t, TokenConcat, TokenConcatEmpty, Zenon
    <2>5. ((parsed' \o inbox') \o raw') = ((parsed \o inbox) \o raw)
      BY <1>d, <2>1, <2>2, <2>3, <2>4, Zenon
    <2> QED BY <1>0, <1>d, <2>5, Zenon DEF StreamIntegrity
  <1>1. CASE ConnectTo \/ ConnectViaSocketDescriptor \/ ConnectViaSocketDescriptorRefused
    BY <1>1, <1>b DEF ConnectTo, ConnectViaSocketDescriptor, ConnectViaSocketDescriptorRefused
  <1>2. CASE ConnectToViaTunnel \/ DisconnectFromHost \/ TunnelFailed \/ SocketError
    BY <1>2, <1>a DEF ConnectToViaTunnel, DisconnectFromHost, TunnelFailed, SocketError,
       HandleSocketError, conn, hist
  <1>3. CASE TrustPendingPeerCert \/ Connected
    BY <1>3, <1>a DEF TrustPendingPeerCert, Connected, TcpConnected, QueuedConnected,
       HandleEncrypted, conn
  <1>4. CASE HandleReadyRead
    <2>1. Len(rest) \in Nat
      BY <1>t, LenProperties
    <2>2. PICK n \in 1..Len(rest) :
             /\ rest' = SubSeq(rest, n + 1, Len(rest))
             /\ IF state = "Authenticated"
                THEN /\ raw' = raw \o SubSeq(rest, 1, n)
                     /\ UNCHANGED <<inbox, draining>>
                ELSE /\ inbox' = inbox \o SubSeq(rest, 1, n)
                     /\ draining' = TRUE
                     /\ raw' = raw
      BY <1>4 DEF HandleReadyRead
    <2> DEFINE chunk == SubSeq(rest, 1, n)
               done  == parsed \o inbox
    <2>3. chunk \in Seq(Tokens) /\ chunk \o rest' = rest
      BY <1>t, <2>1, <2>2, CutTokens
    <2>4. parsed' = parsed /\ script' = script /\ done \o raw \o rest = script
      BY <1>0, <1>4 DEF HandleReadyRead, conn, StreamIntegrity
    <2>5. done \in Seq(Tokens) /\ raw \in Seq(Tokens) /\ rest' \in Seq(Tokens)
      BY <1>t, TokenConcat, Zenon
    <2>6. CASE state = "Authenticated"
      <3> DEFINE done2 == done \o raw
      <3>1. raw' = raw \o chunk /\ inbox' = inbox
        BY <2>2, <2>6
      <3>2. done2 \in Seq(Tokens)
        BY <2>5, TokenConcat, Zenon
      <3> HIDE DEF chunk, done
      <3>3. done \o (raw \o chunk) = done2 \o chunk
        BY <2>3, <2>5, TokenAssociative, SMTT(30)
      <3> HIDE DEF done2
      <3>4. (done2 \o chunk) \o rest' = done2 \o (chunk \o rest')
        BY <2>3, <2>5, <3>2, TokenAssociative, Zenon
      <3>5. (done \o raw') \o rest' = script
        BY <2>3, <2>4, <3>1, <3>3, <3>4, Zenon DEF done2
      <3> QED BY <2>4, <3>1, <3>5, Zenon DEF StreamIntegrity, done
    <2>7. CASE state # "Authenticated"
      <3>1. raw = << >> /\ raw' = << >> /\ inbox' = inbox \o chunk
        BY <1>0, <1>4, <2>2, <2>7 DEF HandleReadyRead, HandOver
      <3> HIDE DEF chunk
      <3>2. parsed \o (inbox \o chunk) = done \o chunk
        <4>1. parsed \in Seq(Tokens) /\ inbox \in Seq(Tokens)
          BY <1>t
        <4>2. (parsed \o inbox) \o chunk = parsed \o (inbox \o chunk)
          BY <2>3, <4>1, TokenAssociative, Zenon
        <4> QED BY <4>2, Zenon
      <3> HIDE DEF done
      <3>3. done \o chunk \in Seq(Tokens)
        BY <2>3, <2>5, TokenConcat, Zenon
      <3>4. (done \o chunk) \o << >> = done \o chunk /\ done \o << >> = done
        BY <2>5, <3>3, TokenConcatEmpty, Zenon
      <3>5. (done \o chunk) \o rest' = done \o (chunk \o rest')
        BY <2>3, <2>5, TokenAssociative, Zenon
      <3>6. ((parsed' \o inbox') \o raw') \o rest' = script
        <4>1. parsed' \o inbox' = done \o chunk
          BY <2>4, <3>1, <3>2, Zenon
        <4>2. (parsed' \o inbox') \o raw' = done \o chunk
          BY <4>1, <3>1, <3>4, Zenon
        <4>3. done \o rest = script
          BY <2>4, <3>1, <3>4, Zenon
        <4> QED BY <2>3, <3>5, <4>2, <4>3, Zenon
      <3> QED BY <2>4, <3>6, Zenon DEF StreamIntegrity
    <2> QED BY <2>6, <2>7
  <1>5. CASE DrainIncomplete \/ DrainEnd \/ DrainUnexpected
    BY <1>5, <1>a DEF DrainIncomplete, DrainEnd, DrainUnexpected, drainFrame, conn, hist
  <1>6. CASE DrainStartReply
    BY <1>6, <1>c DEF DrainStartReply, drainFrame, conn
  <1>7. CASE DrainAuthReply
    <2>1. \/ inbox' = Leftover /\ raw' = raw
          \/ inbox' = << >> /\ raw' = raw \o Leftover
      BY <1>7 DEF DrainAuthReply, DrainAuthCaps, DrainAuthChallenge, DrainAuthVerdict,
         DrainAuthOutOfOrder
    <2>2. /\ inbox # << >> /\ Complete /\ Consume /\ UNCHANGED <<rest, script>>
          /\ raw = << >>
      BY <1>0, <1>7 DEF DrainAuthReply, drainFrame, conn, HandOver
    <2> QED BY <2>1, <2>2, <1>c, <1>d
  <1>8. CASE DrainKvmReply
    <2>1. raw = << >>
      BY <1>0, <1>8 DEF DrainKvmReply, HandOver
    <2> QED BY <1>8, <2>1, <1>d DEF DrainKvmReply, drainFrame, conn
  <1>9. CASE UNCHANGED vars
    BY <1>9, <1>a DEF vars
  <1> QED BY <1>1, <1>2, <1>3, <1>4, <1>5, <1>6, <1>7, <1>8, <1>9
       DEF Next, UserStep, Tunnel, Drain

\* The inductive invariant holds in every reachable state.
THEOREM Inductive == Spec => []IndInv
<1>1. Init => IndInv
  <2> SUFFICES ASSUME Init PROVE IndInv
    OBVIOUS
  <2>1. TypeOK
    BY InitType
  <2>2. Control
    BY DEF Init, Control, FailedMeansClosed, PromptMatchesPeer, QueuedBeforeRead, HandOver,
       KvmStartsOnlyKvm
  <2>3. SilentToUntrusted /\ NothingUnasked
    BY EmptySeq DEF Init, SilentToUntrusted, NothingUnasked
  <2>4. AuthTranscript
    BY <2>1, EndsWithEmpty, TranscriptOf DEF Init, AuthTranscript, TypeOK
  <2>5. RawOnlyAfterAuth
    BY DEF Init, RawOnlyAfterAuth
  <2>6. StreamIntegrity
    BY TokenConcatEmpty, Zenon DEF Init, StreamIntegrity
  <2> QED BY <2>1, <2>2, <2>3, <2>4, <2>5, <2>6 DEF IndInv, Control
<1>2. IndInv /\ [Next]_vars => IndInv'
  <2> SUFFICES ASSUME IndInv, [Next]_vars PROVE IndInv'
    OBVIOUS
  <2>1. TypeOK'
    BY NextType DEF IndInv
  <2>2. Control'
    BY ControlStep
  <2>3. AuthTranscript'
    BY <2>1, <2>2, TranscriptStep
  <2>4. SilentToUntrusted' /\ NothingUnasked'
    BY <2>1, TrustStep, UnaskedStep
  <2>5. RawOnlyAfterAuth'
    BY <2>1, <2>2, <2>3, RawStep
  <2>6. StreamIntegrity'
    BY <2>1, StreamStep
  <2> QED BY <2>1, <2>2, <2>3, <2>4, <2>5, <2>6 DEF IndInv, Control
<1> QED BY <1>1, <1>2, PTL DEF Spec

\* Every state of the authentication is entered behind its exact transcript.
THEOREM HandshakeOrder == Spec => []AuthTranscript
<1>1. IndInv => AuthTranscript
  BY DEF IndInv
<1> QED BY <1>1, Inductive, PTL

\* No byte of the device's stream is lost, repeated or reordered between the
\* parser, the inbox and rawBytes().
THEOREM StreamPreserved == Spec => []StreamIntegrity
<1>1. IndInv => StreamIntegrity
  BY DEF IndInv
<1> QED BY <1>1, Inductive, PTL

\* rawBytes() fires only after a completed authentication.
THEOREM RawGuarded == Spec => []RawOnlyAfterAuth
<1>1. IndInv => RawOnlyAfterAuth
  BY DEF IndInv
<1> QED BY <1>1, Inductive, PTL

\* A TLS peer that is neither pinned nor accepted by the user gets no selector, and
\* nothing at all unless it talks before it is asked.
THEOREM UntrustedUnanswered == Spec => []SilentToUntrusted
<1>1. IndInv => SilentToUntrusted
  BY DEF IndInv
<1> QED BY <1>1, Inductive, PTL

\* A failed client holds no live socket.
THEOREM FailureCloses == Spec => []FailedMeansClosed
<1>1. IndInv => FailedMeansClosed
  BY DEF IndInv
<1> QED BY <1>1, Inductive, PTL

-----------------------------------------------------------------------------
(* RedirClient implements RedirChannel.                                    *)

\* What the refinement needs beside IndInv: a client that was disconnected holds no
\* live socket, as a failed one; a handleConnected() is still queued only before
\* the first reply is read; only TLS sockets prompt.
DownMeansClosed == state = "Disconnected" => sock \notin {"Connecting", "Connected"}
QueuedIsEarly   == queued > 0 => state \in {"Disconnected", "Connecting", "SelectorSent", "Failed"}
PromptIsTls     == awaitingTrust => cfg.tls
ConnectingFirst == sock = "Connecting" => state = "Connecting"

LinkInv == DownMeansClosed /\ QueuedIsEarly /\ PromptIsTls /\ ConnectingFirst

\* LinkInv is kept by every step.
LEMMA LinkInvStep ==
    ASSUME IndInv, LinkInv, [Next]_vars
    PROVE  LinkInv'
  <1> USE DEF LinkInv, DownMeansClosed, QueuedIsEarly, PromptIsTls, ConnectingFirst
  <1>0. TypeOK /\ HandOver
    BY DEF IndInv
  <1>1. CASE ConnectTo
    BY <1>0, <1>1 DEF ConnectTo, MayConnect, ResetSession, TypeOK
  <1>2. CASE ConnectToViaTunnel
    BY <1>0, <1>2 DEF ConnectToViaTunnel, MayConnect, conn, hist, TypeOK
  <1>3. CASE DisconnectFromHost
    BY <1>0, <1>3 DEF DisconnectFromHost, conn, hist, TypeOK
  <1>4. CASE TrustPendingPeerCert
    BY <1>0, <1>4 DEF TrustPendingPeerCert, HandleConnected, Fail, conn, TypeOK
  <1>5. CASE TunnelFailed
    BY <1>0, <1>5 DEF TunnelFailed, Fail, conn, hist, TypeOK
  <1>6. CASE ConnectViaSocketDescriptor
    BY <1>0, <1>6 DEF ConnectViaSocketDescriptor, ResetSession, TypeOK
  <1>7. CASE ConnectViaSocketDescriptorRefused
    BY <1>0, <1>7 DEF ConnectViaSocketDescriptorRefused, ResetSession, TypeOK
  <1>8. CASE TcpConnected
    BY <1>0, <1>8 DEF TcpConnected, HandleConnected, Fail, conn, TypeOK
  <1>9. CASE QueuedConnected
    BY <1>0, <1>9 DEF QueuedConnected, HandleConnected, Fail, conn, TypeOK
  <1>10. CASE HandleEncrypted
    BY <1>0, <1>10 DEF HandleEncrypted, HandleConnected, Fail, conn, TypeOK
  <1>11. CASE HandleReadyRead
    BY <1>0, <1>11 DEF HandleReadyRead, conn, TypeOK
  <1>12. ASSUME NEW remoteHostClosed \in BOOLEAN, HandleSocketError(remoteHostClosed)
         PROVE  LinkInv'
    BY <1>0, <1>12 DEF HandleSocketError, Fail, conn, hist, TypeOK
  <1>13. CASE Drain
    BY <1>0, <1>13 DEF Drain, DrainIncomplete, DrainEnd, DrainUnexpected, DrainStartReply,
       DrainAuthReply, DrainAuthCaps, DrainAuthChallenge, DrainAuthVerdict,
       DrainAuthOutOfOrder, DrainKvmReply, Fail, drainFrame, conn, hist, HandOver, TypeOK
  <1>14. CASE UNCHANGED vars
    BY <1>14 DEF vars
  <1> QED
    BY <1>1, <1>2, <1>3, <1>4, <1>5, <1>6, <1>7, <1>8, <1>9, <1>10, <1>11, <1>12, <1>13,
       <1>14 DEF Next, UserStep, Tunnel, Connected, SocketError

\* What follows two pieces of a stream is the third.
LEMMA ThirdPiece ==
    ASSUME NEW p \in Seq(Tokens), NEW q \in Seq(Tokens), NEW t \in Seq(Tokens), NEW s,
           p \o << >> \o q \o t = s
    PROVE  SubSeq(s, Len(p) + Len(q) + 1, Len(s)) = t
  <1> DEFINE u == p \o q
  <1>1. u \in Seq(Tokens) /\ Len(u) = Len(p) + Len(q)
    BY ConcatProperties
  <1>2. u \o t = s
    BY ConcatEmptySeq
  <1> HIDE DEF u
  <1>3. SubSeq(u \o t, Len(u) + 1, Len(u \o t)) = t
    BY <1>1, LenProperties, ConcatProperties
  <1> QED BY <1>1, <1>2, <1>3

\* What is left on the wire of an open link is what the socket has not been read
\* of, before and after a step.
LEMMA WireIsRest ==
    ASSUME IndInv, IndInv'
    PROVE  /\ state = "Authenticated" => WireOf = rest
           /\ state' = "Authenticated" => WireOf' = rest'
  <1>1. ASSUME state = "Authenticated"
        PROVE  WireOf = rest
    <2>1. /\ parsed \in Seq(Tokens) /\ raw \in Seq(Tokens) /\ rest \in Seq(Tokens)
          /\ parsed \o << >> \o raw \o rest = script
      BY <1>1, Zenon DEF IndInv, TypeOK, HandOver, StreamIntegrity
    <2>2. SubSeq(script, Len(parsed) + Len(raw) + 1, Len(script)) = rest
      BY <2>1, ThirdPiece
    <2> QED BY <1>1, <2>2 DEF WireOf
  <1>2. ASSUME state' = "Authenticated"
        PROVE  WireOf' = rest'
    <2>1. /\ parsed' \in Seq(Tokens) /\ raw' \in Seq(Tokens) /\ rest' \in Seq(Tokens)
          /\ parsed' \o << >> \o raw' \o rest' = script'
      BY <1>2, Zenon DEF IndInv, TypeOK, HandOver, StreamIntegrity
    <2>2. SubSeq(script', Len(parsed') + Len(raw') + 1, Len(script')) = rest'
      BY <2>1, ThirdPiece
    <2> QED BY <1>2, <2>2 DEF WireOf
  <1> QED BY <1>1, <1>2

\* A step that leaves the client's state, prompt and socket alone, and hands over
\* nothing, is no step of the channel.
LEMMA Stutters ==
    ASSUME LinkOf' = LinkOf, state # "Authenticated", state' # "Authenticated",
           raw' = raw, opening' + queued' = opening + queued
    PROVE  UNCHANGED Channel!chan
  BY DEF Channel!chan, WireOf

\* An ending on which the stream is given up is a LinkFail of the channel.
LEMMA Fails ==
    ASSUME TypeOK, state' = "Failed", raw' \in {raw, << >>},
           LinkOf \in {"Dialling", "Asking", "Open"} \/ opening + queued > 0,
           \/ opening' = opening /\ queued' = queued
           \/ opening > 0 /\ opening' = opening - 1 /\ queued' = queued
           \/ queued > 0 /\ opening' = opening /\ queued' = queued - 1
    PROVE  Channel!LinkFail
  <1>1. LinkOf' = "Failed" /\ WireOf' = << >>
    BY DEF LinkOf, WireOf
  <1>2. opening' + queued' \in {opening + queued, opening + queued - 1} \cap Nat
    BY DEF TypeOK
  <1>3. LinkOf \in {"Dialling", "Asking", "Open"} \/ opening + queued > 0
    OBVIOUS
  <1> QED BY <1>1, <1>2, <1>3 DEF Channel!LinkFail, TypeOK

\* A live socket is a link that is dialling, asking or open.
LEMMA LiveLink ==
    ASSUME IndInv, LinkInv, sock \in {"Connecting", "Connected"}
    PROVE  LinkOf \in {"Dialling", "Asking", "Open"}
  BY DEF IndInv, LinkInv, DownMeansClosed, FailedMeansClosed, LinkOf

\* Every step of drainInbox() is one of the channel: it goes on dialling, passes the
\* prompt, opens the link or ends it.
LEMMA DrainRefines ==
    ASSUME IndInv, LinkInv, IndInv', Drain
    PROVE  Channel!ChannelNext \/ UNCHANGED Channel!chan
  <1>0. /\ TypeOK /\ TypeOK' /\ draining /\ sock = "Connected" /\ state # "Authenticated"
        /\ opening' = opening /\ queued' = queued /\ awaitingTrust' = awaitingTrust
    BY DEF IndInv, HandOver, Drain, DrainIncomplete, DrainEnd, DrainUnexpected, DrainStartReply,
       DrainAuthReply, DrainKvmReply, drainFrame
  <1>1. LinkOf \in {"Dialling", "Asking"}
    BY <1>0, LiveLink DEF LinkOf
  <1>2. ASSUME Fail, raw' = raw
        PROVE  Channel!ChannelNext
    <2>1. Channel!LinkFail
      BY <1>0, <1>1, <1>2, Fails DEF Fail
    <2> QED BY <2>1 DEF Channel!ChannelNext
  <1>3. ASSUME state' \in {"SessionOpened", "AuthQuerying", "AuthChallenging",
                           "AuthResponding", "KvmStarting"}, raw' = raw
        PROVE  Channel!ChannelNext \/ UNCHANGED Channel!chan
    <2>1. LinkOf' = "Dialling" /\ WireOf' = << >> /\ WireOf = << >>
      BY <1>0, <1>3 DEF LinkOf, WireOf
    <2>2. CASE LinkOf = "Dialling"
      BY <1>0, <1>3, <2>1, <2>2, Stutters
    <2>3. CASE LinkOf = "Asking"
      <3>1. Channel!Proceed
        BY <1>0, <1>3, <2>1, <2>3 DEF Channel!Proceed
      <3> QED BY <3>1 DEF Channel!ChannelNext
    <2> QED BY <1>1, <2>2, <2>3
  <1>4. ASSUME state \in {"AuthResponding", "KvmStarting"}, state' = "Authenticated"
        PROVE  Channel!ChannelNext
    <2>1. LinkOf = "Dialling" /\ LinkOf' = "Open"
      BY <1>4 DEF LinkOf
    <2>2. WireOf' = rest'
      BY <1>4, WireIsRest
    <2>3. WireOf' \in Seq(Tokens) /\ raw' \in Seq(Tokens)
      BY <1>0, <2>2 DEF TypeOK
    <2>4. Channel!Establish
      BY <1>0, <2>1, <2>3 DEF Channel!Establish
    <2> QED BY <2>4 DEF Channel!ChannelNext
  <1>5. CASE DrainIncomplete \/ DrainEnd
    <2>1. LinkOf' = LinkOf /\ raw' = raw /\ state' = state
      BY <1>5 DEF DrainIncomplete, DrainEnd, drainFrame, hist, LinkOf
    <2> QED BY <1>0, <2>1, Stutters
  <1>6. CASE DrainUnexpected
    BY <1>2, <1>6 DEF DrainUnexpected, hist
  <1>7. CASE DrainStartReply
    BY <1>2, <1>3, <1>7 DEF DrainStartReply
  <1>8. CASE DrainAuthReply
    BY <1>2, <1>3, <1>4, <1>8 DEF DrainAuthReply, DrainAuthCaps, DrainAuthChallenge,
       DrainAuthVerdict, DrainAuthOutOfOrder
  <1>9. CASE DrainKvmReply
    BY <1>4, <1>9 DEF DrainKvmReply, KvmReplyExpected
  <1> QED BY <1>5, <1>6, <1>7, <1>8, <1>9 DEF Drain

\* Every call, callback and socket signal is a step of the channel, or none.
LEMMA StepRefines ==
    ASSUME IndInv, LinkInv, IndInv', [Next]_vars
    PROVE  [Channel!ChannelNext]_Channel!chan
  <1>0. TypeOK /\ HandOver /\ QueuedBeforeRead
    BY DEF IndInv
  <1>a. TypeOK'
    BY DEF IndInv
  <1>1. CASE ConnectTo
    <2>1. Channel!Dial
      BY <1>0, <1>1 DEF ConnectTo, MayConnect, ResetSession, TypeOK, LinkOf, WireOf, Channel!Dial
    <2> QED BY <2>1 DEF Channel!ChannelNext
  <1>2. CASE ConnectToViaTunnel
    <2>1. LinkOf \in {"Down", "Failed"} /\ LinkOf' = "Dialling" /\ WireOf' = << >> /\ raw' = raw
      BY <1>0, <1>2 DEF ConnectToViaTunnel, MayConnect, hist, LinkInv, DownMeansClosed, IndInv,
         FailedMeansClosed, LinkOf, WireOf
    <2>2. opening' + queued' = opening + queued + 1
      BY <1>0, <1>2 DEF ConnectToViaTunnel, TypeOK
    <2>3. Channel!Dial
      BY <1>0, <2>1, <2>2 DEF Channel!Dial, TypeOK
    <2> QED BY <2>3 DEF Channel!ChannelNext
  <1>3. CASE DisconnectFromHost
    <2>1. Channel!Hangup
      BY <1>0, <1>3 DEF DisconnectFromHost, hist, LinkOf, WireOf, Channel!Hangup
    <2> QED BY <2>1 DEF Channel!ChannelNext
  <1>4. CASE TrustPendingPeerCert
    <2>1. CASE sock = "Connected"
      <3>1. Channel!Proceed
        BY <1>0, <1>4, <2>1 DEF TrustPendingPeerCert, HandleConnected, LinkOf, WireOf,
           Channel!Proceed
      <3> QED BY <3>1 DEF Channel!ChannelNext
    <2>2. CASE sock # "Connected"
      <3>1. state = "Connecting" /\ state' = "Failed" /\ UNCHANGED <<raw, opening, queued>>
        BY <1>4, <2>2 DEF TrustPendingPeerCert, HandleConnected, Fail
      <3>2. LinkOf = "Dialling"
        BY <2>2, <3>1 DEF LinkOf
      <3>3. Channel!LinkFail
        BY <1>0, <3>1, <3>2, Fails
      <3> QED BY <3>3 DEF Channel!ChannelNext
    <2> QED BY <2>1, <2>2
  <1>5. CASE TunnelFailed \/ ConnectViaSocketDescriptorRefused
    <2>1. /\ state' = "Failed" /\ raw' \in {raw, << >>}
          /\ opening > 0 /\ opening' = opening - 1 /\ queued' = queued
      BY <1>5 DEF TunnelFailed, ConnectViaSocketDescriptorRefused, Fail, ResetSession, hist
    <2>2. opening + queued > 0
      BY <1>0, <2>1 DEF TypeOK
    <2>3. Channel!LinkFail
      BY <1>0, <2>1, <2>2, Fails
    <2> QED BY <2>3 DEF Channel!ChannelNext
  <1>6. CASE ConnectViaSocketDescriptor
    <2>1. LinkOf' = "Dialling" /\ WireOf' = << >> /\ raw' = << >>
      BY <1>6 DEF ConnectViaSocketDescriptor, ResetSession, LinkOf, WireOf
    <2>2. /\ opening + queued > 0
          /\ opening' + queued' \in {opening + queued, opening + queued - 1}
      BY <1>0, <1>6 DEF ConnectViaSocketDescriptor, TypeOK
    <2>3. Channel!Adopt
      BY <1>0, <2>1, <2>2 DEF Channel!Adopt, TypeOK
    <2> QED BY <2>3 DEF Channel!ChannelNext
  <1>7. CASE TcpConnected
    <2>1. /\ state = "Connecting" /\ sock = "Connecting"
          /\ state' = "SelectorSent" /\ UNCHANGED <<raw, opening, queued>>
      BY <1>7 DEF TcpConnected, HandleConnected, LinkInv, ConnectingFirst
    <2>2. LinkOf' = LinkOf
      BY <2>1 DEF LinkOf
    <2> QED BY <2>1, <2>2, Stutters
  <1>8. CASE QueuedConnected
    <2>0. /\ queued > 0 /\ queued' = queued - 1 /\ opening' = opening /\ raw' = raw
          /\ opening + queued > 0 /\ opening' + queued' = opening + queued - 1
          /\ awaitingTrust' = awaitingTrust
      BY <1>0, <1>8 DEF QueuedConnected, TypeOK
    <2>1. CASE sock = "Connected"
      <3>1. state' = "SelectorSent" /\ state \in {"Connecting", "SelectorSent"} /\ ~awaitingTrust
        BY <1>0, <1>8, <2>0, <2>1 DEF QueuedConnected, HandleConnected, LinkInv, DownMeansClosed,
           QueuedIsEarly, PromptIsTls, QueuedBeforeRead, IndInv, FailedMeansClosed
      <3>2. LinkOf = "Dialling" /\ LinkOf' = "Dialling" /\ WireOf = << >> /\ WireOf' = << >>
        BY <3>1 DEF LinkOf, WireOf
      <3>3. Channel!StartQueued
        BY <1>0, <2>0, <3>2 DEF Channel!StartQueued, TypeOK
      <3> QED BY <3>3 DEF Channel!ChannelNext
    <2>2. CASE sock # "Connected"
      <3>1. state' = "Failed"
        BY <1>8, <2>2 DEF QueuedConnected, HandleConnected, Fail
      <3>2. Channel!LinkFail
        BY <1>0, <2>0, <3>1, Fails
      <3> QED BY <3>2 DEF Channel!ChannelNext
    <2> QED BY <2>1, <2>2
  <1>9. CASE HandleEncrypted
    <2>0. state = "Connecting" /\ sock = "Connecting" /\ UNCHANGED <<raw, opening, queued>>
      BY <1>9 DEF HandleEncrypted, LinkInv, ConnectingFirst
    <2>1. LinkOf = "Dialling" /\ WireOf = << >>
      BY <2>0 DEF LinkOf, WireOf
    <2>2. CASE state' = "Failed"
      <3>1. Channel!LinkFail
        BY <1>0, <2>0, <2>1, <2>2, Fails
      <3> QED BY <3>1 DEF Channel!ChannelNext
    <2>3. CASE state' = "SelectorSent"
      <3>1. LinkOf' = "Dialling"
        BY <2>3 DEF LinkOf
      <3> QED BY <2>0, <2>1, <2>3, <3>1, Stutters
    <2>4. CASE state' = "Connecting" /\ awaitingTrust' /\ sock' = "Connected"
      <3>1. LinkOf' = "Asking" /\ WireOf' = << >>
        BY <2>4 DEF LinkOf, WireOf
      <3>2. Channel!Ask
        BY <2>0, <2>1, <3>1 DEF Channel!Ask
      <3> QED BY <3>2 DEF Channel!ChannelNext
    <2>5. \/ state' = "Failed" \/ state' = "SelectorSent"
          \/ state' = "Connecting" /\ awaitingTrust' /\ sock' = "Connected"
      BY <1>9, <2>0 DEF HandleEncrypted, HandleConnected, Fail
    <2> QED BY <2>2, <2>3, <2>4, <2>5
  <1>10. CASE HandleReadyRead
    <2>1. UNCHANGED <<state, sock, awaitingTrust, opening, queued>> /\ sock = "Connected"
      BY <1>10 DEF HandleReadyRead
    <2>2. LinkOf' = LinkOf
      BY <2>1 DEF LinkOf
    <2>3. CASE state = "Authenticated"
      <3>1. LinkOf = "Open" /\ WireOf = rest /\ WireOf' = rest'
        BY <2>1, <2>3, WireIsRest DEF LinkOf
      <3>2. \E n \in 1..Len(rest) : /\ raw' = raw \o SubSeq(rest, 1, n)
                                    /\ rest' = SubSeq(rest, n + 1, Len(rest))
        BY <1>10, <2>3 DEF HandleReadyRead
      <3>3. Channel!Deliver
        BY <2>1, <2>2, <3>1, <3>2 DEF Channel!Deliver
      <3> QED BY <3>3 DEF Channel!ChannelNext
    <2>4. CASE state # "Authenticated"
      <3>1. raw' = raw
        BY <1>10, <2>4 DEF HandleReadyRead
      <3> QED BY <2>1, <2>2, <2>4, <3>1, Stutters
    <2> QED BY <2>3, <2>4
  <1>11. CASE SocketError
    <2>0. PICK remoteHostClosed \in BOOLEAN : HandleSocketError(remoteHostClosed)
      BY <1>11 DEF SocketError
    <2>1. UNCHANGED <<raw, opening, queued>> /\ LinkOf \in {"Dialling", "Asking", "Open"}
      BY <2>0, LiveLink DEF HandleSocketError, hist
    <2>2. CASE state = "Authenticated" /\ state' = "Disconnected"
      <3>1. Channel!RemoteClose
        BY <2>1, <2>2 DEF LinkOf, WireOf, Channel!RemoteClose
      <3> QED BY <3>1 DEF Channel!ChannelNext
    <2>3. CASE state' = "Failed"
      <3>1. Channel!LinkFail
        BY <1>0, <2>1, <2>3, Fails
      <3> QED BY <3>1 DEF Channel!ChannelNext
    <2> QED BY <2>0, <2>2, <2>3 DEF HandleSocketError, Fail
  <1>12. CASE Drain
    BY <1>12, DrainRefines
  <1>13. CASE UNCHANGED vars
    BY <1>13 DEF vars, Channel!chan, LinkOf, WireOf
  <1> QED
    BY <1>1, <1>2, <1>3, <1>4, <1>5, <1>6, <1>7, <1>8, <1>9, <1>10, <1>11, <1>12, <1>13
       DEF Next, UserStep, Tunnel, Connected

\* RedirectionClient keeps the promise its sessions and controllers are built on:
\* with the link, the wire and the calls still owed read off its state, everything
\* it does is something RedirChannel does.
THEOREM ClientImplementsChannel == Spec => ImplementsChannel
<1>1. Init => Channel!ChannelInit /\ LinkInv
  BY DEF Init, Channel!ChannelInit, LinkOf, WireOf, LinkInv, DownMeansClosed, QueuedIsEarly,
     PromptIsTls, ConnectingFirst
<1>2. IndInv /\ LinkInv /\ [Next]_vars => LinkInv'
  BY LinkInvStep
<1>3. IndInv /\ LinkInv /\ IndInv' /\ [Next]_vars => [Channel!ChannelNext]_Channel!chan
  BY StepRefines
<1> QED BY <1>1, <1>2, <1>3, Inductive, PTL DEF Spec, ImplementsChannel, Channel!ChannelSpec
=============================================================================
