--------------------------- MODULE WsmanResponse ---------------------------
(***************************************************************************)
(* readMore() of src/wsman/src/wsman_client.cpp: the incremental parser of *)
(* one HTTP response that is not a 401.  A readyRead hands it any part of  *)
(* the stream; it keeps what it cannot use yet in responseBuffer and its   *)
(* place in the framing in currentChunkRemaining and readingChunkSize.     *)
(*                                                                         *)
(* A token stands for one byte, except "head" (the header block up to the  *)
(* last line) and "size" (the digits of a chunk size and its extensions),  *)
(* which the parser only looks at once the line end behind them is there.  *)
(* The chunk loop is unrolled: while `parsing` holds, one action is one    *)
(* turn of it.                                                             *)
(***************************************************************************)
EXTENDS Integers, Sequences

CONSTANTS
    Messages,   \* responses a device may send
    MaxBody     \* kWsmanMaxBodyBytes

\* A response: how its headers frame the body, the Content-Length they give, the
\* tokens behind the headers, the body the sender means, whether it is framed as HTTP
\* asks, and its chunks: where the size line is in the wire, where the data belongs in
\* the body, and the size.
Modes       == {"Length", "Chunked", "ToClose"}
Headers     == [t |-> "head", v |-> 0]
Blank       == [t |-> "blank", v |-> 0]        \* the empty line
Cr          == [t |-> "cr", v |-> 0]
Lf          == [t |-> "lf", v |-> 0]
Data(i)     == [t |-> "data", v |-> i]
Size(n)     == [t |-> "size", v |-> n]         \* n < 0: not a number
Token       == [t : {"head", "blank", "cr", "lf", "data", "size"}, v : Int]
ChunkType   == [at : Nat, from : Nat, size : Int]
MessageType == [mode : Modes, length : Int, wire : Seq(Token), body : Seq(Token),
                valid : BOOLEAN, chunks : Seq(ChunkType)]

(***************************************************************************)
(* What it is for a wire to carry a body, in each framing.                 *)
(***************************************************************************)
\* As many bytes as Content-Length says, or a length that is refused.
LengthFits(m) ==
    /\ m.length >= 0 => Len(m.body) = m.length
    /\ m.valid => 0 <= m.length /\ m.length <= Len(m.wire)
    /\ \A k \in 1..Len(m.body) : k <= Len(m.wire) => m.wire[k] = m.body[k]

SizeLine(m, c) ==
    /\ c.at + 3 <= Len(m.wire)
    /\ m.wire[c.at + 1] = Size(c.size) /\ m.wire[c.at + 2] = Cr /\ m.wire[c.at + 3] = Lf

\* A chunk, its data, the two bytes behind them, and the next size line.
ChunkFits(m, c, next) ==
    /\ SizeLine(m, c) /\ c.size > 0
    /\ \A k \in 1..c.size : m.wire[c.at + 3 + k] = m.body[c.from + k]
    /\ next.at = c.at + c.size + 5 /\ next.at <= Len(m.wire)
    /\ next.from = c.from + c.size

\* The last size line says 0 behind the whole body, or has no number to give.
LastFits(m, c) ==
    \/ SizeLine(m, c) /\ c.size = 0 /\ c.from = Len(m.body)
    \/ /\ ~m.valid
       /\ c.at < Len(m.wire) => m.wire[c.at + 1].t # "size" \/ m.wire[c.at + 1].v < 0

ChunksFit(m) ==
    LET n == Len(m.chunks)
    IN  /\ n > 0 /\ m.chunks[1].at = 0 /\ m.chunks[1].from = 0
        /\ \A i \in 1..n : m.chunks[i].from <= Len(m.body)
        /\ \A i \in 1..(n - 1) : ChunkFits(m, m.chunks[i], m.chunks[i + 1])
        /\ LastFits(m, m.chunks[n])

Fits(m) ==
    /\ m.mode = "Length" => LengthFits(m)
    /\ m.mode = "Chunked" => ChunksFit(m)
    /\ m.mode = "ToClose" => m.wire = m.body

ASSUME ResponseAssumption ==
    /\ Messages \subseteq MessageType
    /\ \A m \in Messages : Fits(m)
    /\ MaxBody \in Nat

VARIABLES
    msg,            \* the response being received
    rest,           \* the part of it not yet read from the socket
    st,             \* Private::state
    buffer,         \* responseBuffer
    body,
    expectedBody,   \* -2: read to close
    remaining,      \* currentChunkRemaining
    readingSize,    \* readingChunkSize
    parsing         \* readMore() is running

responseVars == <<msg, rest, st, buffer, body, expectedBody, remaining, readingSize, parsing>>

\* No response is being received.
NoMessage == [mode |-> "Length", length |-> 0, wire |-> <<>>, body |-> <<>>, valid |-> FALSE,
              chunks |-> <<>>]

NoResponseYet ==
    /\ msg = NoMessage /\ rest = <<>> /\ st = "Idle"
    /\ buffer = <<>> /\ body = <<>>
    /\ expectedBody = -1 /\ remaining = 0 /\ readingSize = TRUE /\ parsing = FALSE

ResponseInit ==
    /\ msg \in Messages
    /\ rest = <<Headers, Blank>> \o msg.wire
    /\ st = "ReadingHeaders" /\ buffer = <<>> /\ body = <<>>
    /\ expectedBody = -1 /\ remaining = 0 /\ readingSize = TRUE /\ parsing = FALSE

\* The response has begun and the reply is not finished.
Receiving == st \notin {"Idle", "Done", "Failed"}

\* finishReply().
EndReply(result) == st' = result /\ parsing' = FALSE

Smaller(a, b) == IF a <= b THEN a ELSE b
From(s, i)    == SubSeq(s, i, Len(s))

\* readyRead: some of the stream is appended to responseBuffer.
ReadyRead ==
    /\ ~parsing /\ Receiving
    /\ \E k \in 1..Len(rest) :
         /\ buffer' = buffer \o SubSeq(rest, 1, k)
         /\ rest' = From(rest, k + 1)
    /\ parsing' = TRUE
    /\ UNCHANGED <<msg, st, body, expectedBody, remaining, readingSize>>

\* The header block is not complete, or it is and says how the body is framed.
ParseHeaders ==
    /\ parsing /\ st = "ReadingHeaders"
    /\ \/ /\ Len(buffer) < 2
          /\ parsing' = FALSE
          /\ UNCHANGED <<st, buffer, expectedBody, remaining, readingSize>>
       \/ /\ Len(buffer) >= 2
          /\ buffer' = From(buffer, 3)
          /\ \/ /\ msg.mode = "Chunked"
                /\ st' = "BodyChunked" /\ readingSize' = TRUE /\ remaining' = 0
                /\ UNCHANGED <<expectedBody, parsing>>
             \/ /\ msg.mode = "Length"
                /\ expectedBody' = msg.length
                /\ IF msg.length < 0 \/ msg.length > MaxBody
                   THEN EndReply("Failed")
                   ELSE st' = "BodyContentLength" /\ UNCHANGED parsing
                /\ UNCHANGED <<remaining, readingSize>>
             \/ /\ msg.mode = "ToClose"
                /\ st' = "BodyContentLength" /\ expectedBody' = -2
                /\ UNCHANGED <<parsing, remaining, readingSize>>
    /\ UNCHANGED <<msg, rest, body>>

\* Content-Length body: take what is missing, finish when nothing is.
ParseLength ==
    LET need == expectedBody - Len(body)
        take == Smaller(need, Len(buffer))
    IN  /\ parsing /\ st = "BodyContentLength" /\ expectedBody # -2
        /\ body' = body \o SubSeq(buffer, 1, take)
        /\ buffer' = From(buffer, take + 1)
        /\ IF need <= 0 \/ Len(body) + take >= expectedBody
           THEN EndReply("Done") ELSE parsing' = FALSE /\ UNCHANGED st
        /\ UNCHANGED <<msg, rest, expectedBody, remaining, readingSize>>

\* Body without a length: everything, while readyRead comes from a socket that is
\* still connected, never the end.
ParseToClose ==
    /\ parsing /\ st = "BodyContentLength" /\ expectedBody = -2
    /\ IF Len(body) + Len(buffer) > MaxBody
       THEN EndReply("Failed") /\ UNCHANGED <<body, buffer>>
       ELSE /\ body' = body \o buffer /\ buffer' = <<>> /\ parsing' = FALSE
            /\ UNCHANGED st
    /\ UNCHANGED <<msg, rest, expectedBody, remaining, readingSize>>

\* Positions of a CRLF in responseBuffer.
LineEnds == {i \in 1..(Len(buffer) - 1) : buffer[i] = Cr /\ buffer[i + 1] = Lf}
FirstEnd == CHOOSE i \in LineEnds : \A j \in LineEnds : i <= j

\* The number a size line gives; a line that does not start with one is an error.
LineSize == IF FirstEnd > 1 /\ buffer[1].t = "size" THEN buffer[1].v ELSE -1

ParseChunkSize ==
    /\ parsing /\ st = "BodyChunked" /\ readingSize
    /\ \/ /\ LineEnds = {}
          /\ parsing' = FALSE
          /\ UNCHANGED <<st, buffer, remaining, readingSize>>
       \/ /\ LineEnds # {}
          /\ buffer' = From(buffer, FirstEnd + 2)
          /\ remaining' = IF LineSize < 0 THEN remaining ELSE LineSize
          /\ \/ LineSize < 0 /\ EndReply("Failed") /\ UNCHANGED readingSize
             \/ LineSize = 0 /\ EndReply("Done") /\ UNCHANGED readingSize
             \/ LineSize > 0 /\ readingSize' = FALSE /\ UNCHANGED <<st, parsing>>
    /\ UNCHANGED <<msg, rest, body, expectedBody>>

Take == Smaller(remaining, Len(buffer))

ParseChunkDataSkipsSplitEnd ==
    /\ parsing /\ st = "BodyChunked" /\ ~readingSize
    /\ body' = body \o SubSeq(buffer, 1, Take)
    /\ remaining' = remaining - Take
    /\ IF remaining = Take
       THEN /\ buffer' = From(buffer, Take + 3) /\ readingSize' = TRUE /\ UNCHANGED parsing
       ELSE /\ buffer' = From(buffer, Take + 1) /\ parsing' = FALSE /\ UNCHANGED readingSize
    /\ UNCHANGED <<msg, rest, st, expectedBody>>

\* Chunk data up to the end of the chunk, then the CRLF behind it; either may
\* still be missing.
ParseChunkData ==
    /\ parsing /\ st = "BodyChunked" /\ ~readingSize
    /\ \/ /\ buffer = <<>>
          /\ parsing' = FALSE /\ UNCHANGED <<st, buffer, body, remaining, readingSize>>
       \/ /\ buffer # <<>> /\ Len(body) + Take > MaxBody
          /\ EndReply("Failed") /\ UNCHANGED <<buffer, body, remaining, readingSize>>
       \/ /\ buffer # <<>> /\ Len(body) + Take <= MaxBody
          /\ body' = body \o SubSeq(buffer, 1, Take)
          /\ remaining' = remaining - Take
          /\ IF remaining = Take /\ Len(buffer) >= Take + 2
             THEN /\ buffer' = From(buffer, Take + 3)
                  /\ readingSize' = TRUE /\ UNCHANGED parsing
             ELSE /\ buffer' = From(buffer, Take + 1)
                  /\ parsing' = FALSE /\ UNCHANGED readingSize
          /\ UNCHANGED st
    /\ UNCHANGED <<msg, rest, expectedBody>>

\* The device closes, behind the response or before its end: Qt reports RemoteHostClosedError before
\* the socket leaves ConnectedState, and the slot on errorOccurred fails the reply.
RemoteClosed ==
    /\ ~parsing /\ Receiving
    /\ st' = "Failed"
    /\ UNCHANGED <<msg, rest, buffer, body, expectedBody, remaining, readingSize, parsing>>

ResponseNext ==
    \/ ReadyRead \/ ParseHeaders \/ ParseLength \/ ParseToClose
    \/ ParseChunkSize \/ ParseChunkData \/ RemoteClosed

ResponseSpec == ResponseInit /\ [][ResponseNext]_responseVars

-----------------------------------------------------------------------------
\* The parser never makes up, loses or repeats a byte of the body, however the
\* stream is cut: what it has is a prefix of what the sender means, within the cap
\* that guards the memory, and all of it when the reply is done.  And no cut, a
\* split line end least of all, makes it fail a well-framed response or wait for a
\* byte that never comes: once such a response has arrived, the reply is done.
BodyExact ==
    /\ Len(body) <= Len(msg.body)
    /\ body = SubSeq(msg.body, 1, Len(body))
    /\ Len(body) <= MaxBody
    /\ st = "Done" => body = msg.body
    /\ ( /\ msg.valid /\ msg.mode # "ToClose" /\ Len(msg.body) <= MaxBody
         /\ rest = <<>> /\ ~parsing ) => st = "Done"
=============================================================================
