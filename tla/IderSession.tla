----------------------------- MODULE IderSession -----------------------------
(***************************************************************************)
(* IderSession: a read-only CD-ROM served to the firmware over an          *)
(* authenticated client.  A SCSI read is answered in chunks, one per turn  *)
(* of the event loop, with every other frame of the device free to come in *)
(* between.  The file is a sequence of blocks; a chunk is one block.       *)
(***************************************************************************)
EXTENDS RedirController

CONSTANT IsoBlocks     \* blocks of the ISO file

ASSUME IsoAssumption == IsoBlocks \in Nat \ {0, 1}

VARIABLES
    opened,      \* m_opened
    enabled,     \* m_enabled
    iso,         \* m_isoFile is open
    cdReady,     \* m_cdReady: "media changed" was reported
    inFlight,    \* m_scsiReadInFlight
    position,    \* the file's read position
    remaining,   \* m_remainingReadBytes, in blocks
    timers,      \* pending QTimer::singleShot(0) of sendNextScsiChunk()
    owedBlocks,  \* history: blocks of accepted reads not yet sent, in order
    command      \* the device: it has a command outstanding

iderVars == <<opened, enabled, iso, cdReady, inFlight, position, remaining, timers,
              owedBlocks, command>>

\* Reads by what the handler tells apart: the blocks they name.
\* (A read of no block is answered like one beyond the end.)
Reads == {"ReadFirst", "ReadLast", "ReadBeyond"}
Lba(t) == CASE t = "ReadFirst" -> 0 [] t = "ReadLast" -> 1 [] OTHER -> IsoBlocks - 1
Count(t) == IF t = "ReadBeyond" THEN 2 ELSE IsoBlocks - 1

\* Every other command is answered at once: TEST UNIT READY reports the new medium
\* once, "Query" stands for the commands answered with a page or a sense code alone.
Commands   == Reads \cup {"TestUnitReady", "Query"}
Status     == {"StatusEnabled", "StatusDisabled"}
IderQuiet  == {"Heartbeat"}       \* also a pong and ErrorOccurred
IderAnswered == {"KeepAlive", "Reset"}    \* also the status "registers available"
IderFatal  == {"SessionRefused", "IderClose", "IderUnknown"}
IderTokens == Commands \cup Status \cup IderQuiet \cup IderFatal
                \cup IderAnswered \cup {"SessionReply"}

Blocks(first, n) == [i \in 1..n |-> first + i - 1]

IderInit ==
    /\ opened = FALSE /\ enabled = FALSE /\ iso = FALSE /\ cdReady = FALSE
    /\ inFlight = FALSE
    /\ position = 0 /\ remaining = 0 /\ timers = 0
    /\ owedBlocks = <<>>
    /\ command = FALSE

IderNew ==
    /\ opened' = FALSE /\ enabled' = FALSE /\ iso' = FALSE /\ cdReady' = FALSE
    /\ inFlight' = FALSE
    /\ position' = 0 /\ remaining' = 0 /\ timers' = 0
    /\ owedBlocks' = <<>>
    /\ command' = FALSE

\* fail(), without the closed() that the controller sees: the file is closed; the
\* chunk timer finds it closed and clears the read.
IderFail ==
    /\ opened' = FALSE
    /\ enabled' = FALSE
    /\ iso' = FALSE
    /\ owedBlocks' = <<>>
    /\ UNCHANGED <<cdReady, inFlight, position, remaining, timers, command>>

\* start(): the ISO is opened, or its absence fails the session.
IderStarted ==
    \/ /\ Authenticated(TRUE, <<"OpenSession">>, <<>>)
       /\ iso' = TRUE
       /\ UNCHANGED <<opened, enabled, cdReady, inFlight, position, remaining, timers,
                      owedBlocks, command>>
    \/ Authenticated(FALSE, <<>>, <<>>) /\ IderFail

-----------------------------------------------------------------------------
(***************************************************************************)
(* drainInbox().                                                           *)
(***************************************************************************)

iderFrame == <<kind, deferred, ssh, owed, bounds>>
iderRead  == <<inFlight, position, remaining, timers, owedBlocks>>

IderHead(ts) == draining /\ inbox # <<>> /\ Head(inbox) \in ts

\* The link is open here: the loop runs inside rawBytes().
Reply(frames) ==
    /\ inbox' = Tail(inbox)
    /\ toDev' = toDev \o frames
    /\ UNCHANGED <<iderFrame, link, wire, ctl, err, draining>>

IderRawBytes == RawBytes /\ UNCHANGED iderVars

IderDrainEnd ==
    /\ draining
    /\ inbox = <<>>
    /\ draining' = FALSE
    /\ UNCHANGED <<iderFrame, link, wire, inbox, toDev, ctl, err, iderVars>>

\* 0x41: the session is open and the device is armed.
OnOpenSessionReply ==
    /\ IderHead({"SessionReply"})
    /\ inbox' = Tail(inbox)
    /\ opened' = TRUE
    /\ ctl' = "Connected"
    /\ toDev' = Append(toDev, "Answer")
    /\ UNCHANGED <<iderFrame, link, wire, err, draining, enabled, iso, cdReady, iderRead,
                   command>>

\* A reply that names another protocol or a buffer over the cap, an explicit close
\* (these two are consumed) or an unknown tag.
IderFails ==
    /\ IderHead(IderFatal)
    /\ inbox' = IF Head(inbox) = "IderUnknown" THEN inbox ELSE Tail(inbox)
    /\ draining' = (Head(inbox) = "SessionRefused")
    /\ IderFail
    /\ SessionClosed
    /\ UNCHANGED <<iderFrame, toDev>>

\* Frames that are consumed, or answered whatever goes on.
IderKeepAlive ==
    /\ IderHead(IderQuiet \cup IderAnswered)
    /\ Reply(IF Head(inbox) \in IderAnswered THEN <<"Answer">> ELSE <<>>)
    /\ UNCHANGED iderVars

OnStatusData ==
    /\ IderHead(Status)
    /\ Reply(<<>>)
    /\ enabled' = (Head(inbox) = "StatusEnabled")
    /\ UNCHANGED <<opened, iso, cdReady, iderRead, command>>

\* Commands answered within the handler.
ScsiAtOnce ==
    /\ IderHead({"TestUnitReady", "Query"})
    /\ Reply(<<"End">>)
    /\ cdReady' = (cdReady \/ (Head(inbox) = "TestUnitReady" /\ iso))
    /\ UNCHANGED <<opened, enabled, iso, iderRead, command>>

\* A read of a medium that is gone, outside the file, or of nothing.
InRange(t) == Lba(t) + Count(t) <= IsoBlocks
ScsiReadRefused ==
    /\ IderHead(Reads)
    /\ ~iso \/ ~InRange(Head(inbox))
    /\ Reply(<<"End">>)
    /\ UNCHANGED iderVars

\* A second read while one is chunking is a protocol violation.
ScsiReadOverlaps ==
    /\ IderHead(Reads)
    /\ iso /\ InRange(Head(inbox))
    /\ inFlight
    /\ inbox' = Tail(inbox)
    /\ IderFail
    /\ SessionClosed
    /\ UNCHANGED <<iderFrame, toDev, draining>>

\* Mutant: the second read is not refused.
ScsiReadUnguarded ==
    /\ IderHead(Reads)
    /\ iso /\ InRange(Head(inbox))
    /\ Reply(<<>>)
    /\ position' = Lba(Head(inbox))
    /\ remaining' = Count(Head(inbox))
    /\ inFlight' = TRUE
    /\ timers' = timers + 1
    /\ owedBlocks' = owedBlocks \o Blocks(Lba(Head(inbox)), Count(Head(inbox)))
    /\ UNCHANGED <<opened, enabled, iso, cdReady, command>>

\* Mutant: the continuation is armed once too seldom.
ScsiReadUnarmed ==
    /\ IderHead(Reads)
    /\ iso /\ InRange(Head(inbox))
    /\ ~inFlight
    /\ Reply(<<>>)
    /\ position' = Lba(Head(inbox))
    /\ remaining' = Count(Head(inbox))
    /\ inFlight' = TRUE
    /\ owedBlocks' = Blocks(Lba(Head(inbox)), Count(Head(inbox)))
    /\ UNCHANGED <<opened, enabled, iso, cdReady, timers, command>>

\* scsiRead(): seek, and one chunk per turn of the event loop from here on.
ScsiRead ==
    /\ IderHead(Reads)
    /\ iso /\ InRange(Head(inbox))
    /\ ~inFlight
    /\ Reply(<<>>)
    /\ position' = Lba(Head(inbox))
    /\ remaining' = Count(Head(inbox))
    /\ inFlight' = TRUE
    /\ timers' = timers + 1
    /\ owedBlocks' = owedBlocks \o Blocks(Lba(Head(inbox)), Count(Head(inbox)))
    /\ UNCHANGED <<opened, enabled, iso, cdReady, command>>

IderDrain ==
    \/ IderDrainEnd \/ OnOpenSessionReply \/ IderFails \/ IderKeepAlive \/ OnStatusData
    \/ ScsiAtOnce \/ ScsiReadRefused \/ ScsiReadOverlaps \/ ScsiRead

-----------------------------------------------------------------------------
(***************************************************************************)
(* sendNextScsiChunk().                                                    *)
(***************************************************************************)

\* The file was closed meanwhile.
ChunkNone ==
    /\ ~draining
    /\ timers > 0
    /\ ~iso \/ remaining = 0
    /\ timers' = timers - 1
    /\ inFlight' = FALSE
    /\ UNCHANGED <<chan, ctlVars, opened, enabled, iso, cdReady, position, remaining,
                   owedBlocks, command>>

\* A short read ends the command with a sense code; a link that is gone fails the
\* session on the write.
ChunkShort ==
    /\ ~draining
    /\ timers > 0
    /\ iso /\ remaining > 0
    /\ timers' = timers - 1
    /\ remaining' = 0
    /\ inFlight' = FALSE
    /\ owedBlocks' = <<>>
    /\ \/ /\ CanSend
          /\ toDev' = Append(toDev, "End")
          /\ UNCHANGED <<link, wire, ctl, err, opened, enabled, iso>>
       \/ /\ ~CanSend
          /\ opened' = FALSE /\ enabled' = FALSE /\ iso' = FALSE
          /\ SessionClosed
          /\ toDev' = toDev
    /\ UNCHANGED <<iderFrame, draining, inbox, cdReady, position, command>>

\* One chunk; the last one says that the command is complete.
ChunkSent ==
    /\ ~draining
    /\ timers > 0
    /\ iso /\ remaining > 0
    /\ remaining' = remaining - 1
    /\ position' = position + 1
    /\ inFlight' = (remaining > 1)
    /\ timers' = IF remaining > 1 THEN timers ELSE timers - 1
    /\ \/ /\ CanSend
          /\ toDev' = Append(toDev, IF remaining > 1 THEN "Chunk" ELSE "LastChunk")
          /\ owedBlocks' = Tail(owedBlocks)
          /\ UNCHANGED <<link, wire, ctl, err, opened, enabled, iso>>
       \/ /\ ~CanSend
          /\ opened' = FALSE /\ enabled' = FALSE /\ iso' = FALSE
          /\ owedBlocks' = <<>>
          /\ SessionClosed
          /\ toDev' = toDev
    /\ UNCHANGED <<iderFrame, draining, inbox, cdReady, command>>

SendNextScsiChunk == ChunkNone \/ ChunkShort \/ ChunkSent

-----------------------------------------------------------------------------
(***************************************************************************)
(* The firmware.                                                           *)
(***************************************************************************)

iderSession == <<opened, enabled, iso, cdReady, iderRead>>

\* It answers OpenSession, and a command is complete with End or the last chunk.
IderDeviceReads ==
    /\ toDev # <<>>
    /\ \/ /\ Head(toDev) = "OpenSession"
          /\ \E t \in {"SessionReply", "SessionRefused"} : Answer(<<t>>)
          /\ UNCHANGED command
       \/ /\ Head(toDev) \in {"End", "LastChunk"}
          /\ Answer(<<>>)
          /\ command' = FALSE
       \/ /\ Head(toDev) \in {"Answer", "Chunk"}
          /\ Answer(<<>>)
          /\ UNCHANGED command
    /\ UNCHANGED iderSession

\* Commands come one at a time; a reset of the host drops the one under way.
IderDeviceSends ==
    /\ \E t \in IderTokens \ {"SessionRefused"} :
          /\ t \in Commands => opened /\ ~command
          /\ t = "Reset" => opened
          /\ Chatter(t)
          /\ command' = IF t \in Commands THEN TRUE ELSE IF t = "Reset" THEN FALSE ELSE command
    /\ UNCHANGED iderSession

=============================================================================
