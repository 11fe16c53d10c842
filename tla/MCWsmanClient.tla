--------------------------- MODULE MCWsmanClient ---------------------------
(***************************************************************************)
(* Instances of WsmanClient and WsmanResponse for TLC: a behaviour has     *)
(* several requests whose responses are whole, or one response that is cut *)
(* in every way: every body of up to three bytes, one more than the cap,   *)
(* in every framing, and the framing errors the parser must stop at.       *)
(***************************************************************************)
EXTENDS WsmanClient, WsmanResponse, SequencesExt

CONSTANTS r1, r2, r3

Symmetry == Permutations(Requests)

\* Serialised requests over a tunnel that may go down.
Queued == [tls |-> FALSE, factory |-> TRUE, serialize |-> TRUE, sends |-> 3,
           kinds |-> {"Ok", "Challenge"}, events |-> {"SshDrops"}]

\* A device that rotates its nonce and calls old ones stale.
Rotating == [tls |-> FALSE, factory |-> FALSE, serialize |-> TRUE, sends |-> 3,
             kinds |-> {"Ok", "Challenge", "Stale"}, events |-> {"RotateNonce"}]

\* Parallel requests race for the nonce and its count while the device rotates it.
Racing == [tls |-> FALSE, factory |-> FALSE, serialize |-> FALSE, sends |-> 3,
           kinds |-> {"Ok", "Challenge"}, events |-> {"RotateNonce"}]

\* The SSH configuration is switched while requests are at work.
Switched == [tls |-> FALSE, factory |-> FALSE, serialize |-> TRUE, sends |-> 3,
             kinds |-> {"Ok", "Challenge"}, events |-> {"Serialize", "Factory"}]

\* Parallel requests with every response and every setter, direct and tunnelled.
Direct(f) == [tls |-> TRUE, factory |-> f, serialize |-> FALSE, sends |-> 2,
              kinds |-> {"Ok", "Challenge", "Stale", "NoHeader", "Unsupported"},
              events |-> {"Abort", "RotateCert", "Credentials"}]

\* First contact with a device nobody has pinned.
FirstContact(f, q) == [tls |-> TRUE, factory |-> f, serialize |-> q, sends |-> 2,
                       kinds |-> {"Ok", "Challenge"}, events |-> {"Credentials"}]

Pins == [tls |-> TRUE, factory |-> FALSE, serialize |-> FALSE, sends |-> 1,
         kinds |-> {"Ok", "Challenge"}, events |-> {"Fingerprints"}]

\* Nothing is sent: the one response is at work.
Quiet == [tls |-> FALSE, factory |-> FALSE, serialize |-> FALSE, sends |-> 0,
          kinds |-> {}, events |-> {}]

MCProfiles == {Queued, Rotating, Racing, Switched, Pins, Quiet} \cup {Direct(f) : f \in BOOLEAN}
                \cup {FirstContact(f, q) : f, q \in BOOLEAN}

\* The SSH session is down when a request is sent.
DownProfiles == {Queued}

MCMaxBody == 2

\* A body of n bytes; one of them may be a carriage return.
Bodies == {[i \in 1..n |-> Data(i)] : n \in 0..3} \cup {<<Cr, Lf>>, <<Data(1), Cr>>}

\* Ways to cut a body in chunks: the lengths of the pieces.
Cuts(b) == {c \in UNION {[1..n -> 1..3] : n \in 0..3} : FoldLeft(LAMBDA x, y : x + y, 0, c) = Len(b)}

ChunkStart(c, i) == FoldLeft(LAMBDA x, y : x + y, 0, SubSeq(c, 1, i - 1))

ChunkedWire(b, c) ==
    FlattenSeq([i \in 1..Len(c) |->
                  <<Size(c[i]), Cr, Lf>>
                  \o SubSeq(b, ChunkStart(c, i) + 1, ChunkStart(c, i) + c[i]) \o <<Cr, Lf>>])
    \o <<Size(0), Cr, Lf, Cr, Lf>>

\* Where the chunks and the last size line are.
Layout(c) ==
    [i \in 1..(Len(c) + 1) |->
        [at |-> ChunkStart(c, i) + 5 * (i - 1), from |-> ChunkStart(c, i),
         size |-> IF i <= Len(c) THEN c[i] ELSE 0]]

Message(mode, length, wire, b, chunks, valid) ==
    [mode |-> mode, length |-> length, wire |-> wire, body |-> b, valid |-> valid,
     chunks |-> chunks]

Framed ==
    {Message("Length", Len(b), b \o extra, b, <<>>, TRUE)
        : b \in Bodies, extra \in {<<>>, <<Data(9)>>}}
    \cup UNION {{Message("Chunked", 0, ChunkedWire(b, c), b, Layout(c), TRUE)
                    : c \in Cuts(b)} : b \in Bodies}

\* A negative length; a size line without a number, at once or behind a chunk.
BadLine(at, from) == [at |-> at, from |-> from, size |-> -1]
Bad == {Message("Length", -1, <<Data(1)>>, <<>>, <<>>, FALSE),
        Message("Chunked", 0, <<Size(-1), Cr, Lf>>, <<>>, <<BadLine(0, 0)>>, FALSE),
        Message("Chunked", 0, <<Cr, Lf, Size(0), Cr, Lf>>, <<>>, <<BadLine(0, 0)>>, FALSE),
        Message("Chunked", 0, <<Size(1), Cr, Lf, Data(1), Cr, Lf, Size(-1), Cr, Lf>>, <<Data(1)>>,
                <<[at |-> 0, from |-> 0, size |-> 1], BadLine(6, 1)>>, FALSE)}

ToClose == {Message("ToClose", 0, b, b, <<>>, TRUE) : b \in Bodies}

MCMessages == Framed \cup Bad \cup ToClose

-----------------------------------------------------------------------------
allVars == <<vars, responseVars>>

AllInit == /\ Init
           /\ IF profile = Quiet THEN ResponseInit ELSE NoResponseYet

AllNext == \/ Next /\ UNCHANGED responseVars
           \/ profile = Quiet /\ ResponseNext /\ UNCHANGED vars

AllSpec == AllInit /\ [][AllNext]_allVars
=============================================================================
