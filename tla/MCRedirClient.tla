--------------------------- MODULE MCRedirClient ---------------------------
(***************************************************************************)
(* Model values and device scripts for RedirClient.                        *)
(***************************************************************************)
EXTENDS RedirClientChannel

\* To the client an IDE-R session is a SOL session with another selector.
AllConfigs == {c \in ConfigType : c.protocol # "Ider"}

\* A script given by its frames.
Stream(frames) == [i \in 1..2 * Len(frames) |->
                      IF i % 2 = 1 THEN frames[(i + 1) \div 2] ELSE "tail"]

Handshake    == <<"StartOk", "Caps", "Challenge", "Accept">>
KvmHandshake == Handshake \o <<"KvmReply">>

\* What well-behaved devices send.
GoodScripts == {Stream(Handshake \o <<"App">>), Stream(KvmHandshake \o <<"App">>)}

\* f without its i-th frame, or with x inserted before it.
Removed(f, i)     == SubSeq(f, 1, i - 1) \o SubSeq(f, i + 1, Len(f))
Inserted(f, i, x) == SubSeq(f, 1, i - 1) \o <<x>> \o SubSeq(f, i, Len(f))

\* The KVM script with one frame too few or too many.  (To the parser
\* "Accept" is "CapsNoDigest": a status 0 that lists no digest.)
OddScripts ==
    LET f == KvmHandshake \o <<"App">>
        OddFrames == Frames \ {"Accept"}
    IN GoodScripts
         \cup {Stream(Removed(f, i)) : i \in 1..Len(f)}
         \cup {Stream(Inserted(f, i, x)) : i \in 1..Len(f), x \in OddFrames}

\* The first device misbehaves, the one met by the second connect does not.
OddThenGood == <<OddScripts, GoodScripts>>
=============================================================================
