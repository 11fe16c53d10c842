# A TLA+ model of QuMesh

QuMesh is a native Qt 6 console for Intel AMT (vPro) machines: WS-Management over
HTTP digest, the Intel redirection protocol (serial over LAN, IDE-R, KVM), an SSH
jump-host tunnel under all of them, an RMCP scanner and a small store of machines,
certificates and secrets. These modules model the parts of it that hold state
between events, the TLC runs check them on small instances, and the proof modules
prove the main invariants for every instance.

## The system

Almost everything runs on the Qt event loop of the UI thread: a slot or a public
call runs to completion, then the loop picks the next event. Two kinds of thread
exist beside it: the SSH worker (one per `SshSession`, owns every libssh object)
and one pump thread per `SshTunnel`.

| Component (source) | State it keeps | Operations | Interacts with |
|---|---|---|---|
| Redirection client (`redir/src/redir_client.cpp`, `redir_codec.cpp`) | `m_state`, socket, inbox, pending certificate, pinned fingerprints | connect, tunnel callback, trust, disconnect, socket slots, frame parser | controllers above, tunnel opener below |
| SOL session (`redir/src/sol_session.cpp`) | open and settings-sent flags, inbox, sequence, keep-alive timer | start, input, frame parser, keep-alive | redirection client (`rawBytes`, `writeRaw`) |
| IDE-R session (`ider/src`) | session and device flags, ISO file, position and rest of the read under way | start, open/feature/SCSI handlers, chunked reads by zero timers | redirection client, the ISO on disk |
| KVM session (`kvm/src`) | handshake state, inbox, rectangles outstanding, pixel format, desktop size | handshake steps, frame loop, bounded drain, input | redirection client, framebuffer |
| SOL, KVM, IDE-R controllers (`app/src/*controller.cpp`) | UI state, deferred-open flag, pending certificate | open, close, trust, slots on client and session | client, session, tunnel host |
| SSH session and tunnel (`ssh/src`) | session state, worker queue, channel, pump thread, socket pair | open, trust host key, close, tunnel open/close, destructor | worker thread, pump threads, tunnel opener |
| Tunnel host and opener (`app/src/sshtunnelhost.cpp`, `ssh_tunnel_opener.cpp`) | enabled flag, pending host key | set configuration, trust, open a tunnel for a callback | controllers, SSH session |
| WSMAN client (`wsman/src/wsman_client.cpp`) | cached digest challenge and nonce count, request queue, current request, per-reply HTTP state | send, dequeue, connect, read, retry with digest, trust, abort, time out | socket factory, operations |
| WSMAN operations (`wsman/src/operations.cpp`) | per-call shared state of multi-request operations | enumerate/pull loops, fan-out reads, read-modify-write, boot chains | WSMAN client |
| Machine details (`app/src/machinedetailscontroller.cpp`) | busy counter, connection and trust state, opt-in round, SSH gate, cached sections | refreshes, settings, power, opt-in, polling | WSMAN client and operations, SSH session |
| Batch runner (`app/src/batchrunner.cpp`, `batchcontroller.cpp`) | job list, in-flight count, running flag | start, retry, re-entrant pump, completion | WSMAN operations, machine list (by row) |
| Scanner (`rmcp/src`, `app/src/scannercontroller.cpp`) | targets, send cursor, tag, timers, result rows | start, stop, burst, answer, look-up, add | UDP, DNS, machine list |
| Stores (`computermodel`, `configstore`, `keystore`, `secret_codec`, `backup_codec`, `certs`) | machine list, certificates, key, plan of an import, files on disk | load, edit, save, import, export | disk, key ring |
| Legacy migration (`migrate/src`, `app/src/migrationcontroller.cpp`) | four files written in order | run once at a first launch | the stores' files |
| Terminal (`terminal/src`) | VT100 parser state, screen, scrollback | feed, resize | SOL controller |
| Recorders, viewer, updater, Setup.bin, QML | files, pixels, forms | | user |

What is hard in it: several events race for one state machine (user, socket,
timer, trust dialog, tunnel callback); the byte streams are cut anywhere; the SSH
layer spans three threads with blocking hand-offs; digest authentication shares
one counter between concurrent replies; multi-request operations fail half way;
nothing above a socket may be left waiting for ever; edits are made in memory
before they are saved, and disks, key rings and launches may fail at any step.

## What makes each part correct

* Redirection client: the handshake is never skipped or replayed into a wrong
  state, the stream changes hands without losing a byte, a failed client holds no
  socket, a peer whose certificate the user has not accepted is sent nothing of
  the session (only a device that talks before it is asked gets an answer under
  the prompt, see below).
* Sessions: pixels are decoded in the format they were encoded in, the frame loop
  never waits for an update it has not asked for (unless an update of no
  rectangles has stopped it), a chunked read sends the blocks it owes in their
  order and ends.
* Controllers: what the panel shows is what the client and the session are doing,
  and an open ends in something the user can see.
* SSH: a tunnel reports exactly one outcome, no channel is left without a pump
  (but that of a deleted tunnel), a key is used only when it was accepted,
  shutdown never deadlocks.
* WSMAN client: a nonce count is never used twice with one nonce, in parallel too,
  until a late challenge takes the client back to an older nonce; one request at a
  time where serialised, every reply finishes exactly once.
* Operations: one callback per call, writes in the order of the chain and none
  after a failure, success only when the device has done all of it, no list that
  is silently short but in the two cases named below.
* Machine details: one status read at a time, what a section shows follows the
  last change that was reported done, held-back reads are run or dropped, no
  session is dialled before the consent the device asks for.
* Stores: the list on screen is the list on disk, a password is the one that was
  typed until a later launch does harm to the key store or to the file, an import
  touches only the machines it showed.
* Batch runner and scanner: every job is in one state and counted once, a batch
  ends once, a scan ends.

## Modules and the code

| Module | Models | State and actions |
|---|---|---|
| `RedirClient` | `redir_client.cpp`, the framing of `redir_codec.cpp` | `state`, `sock`, `inbox`, `awaitingTrust` are the members; one action per public call and socket slot; `Drain` is one turn of `drainInbox()`. The stream is a script of frames, each cut in two tokens so that every chunk boundary occurs; ghost variables record what was written (`sent`) and handed over (`raw`) |
| `RedirClientProofs` | the proofs about it and of the refinement below | |
| `RedirChannel` | what `RedirectionClient` promises to its users | an abstract link (down, dialling, asking, open, failed) and, while it is open, the device's bytes handed over in order, each once; `RedirClientChannel` has the refinement mapping from `RedirClient` |
| `RedirController` | `solcontroller.cpp`, `kvmcontroller.cpp`, `idercontroller.cpp` | the parts the three have in common, `kind` where they differ: open at once or deferred, close, trust, tunnel host, the slots on client and session. A direct signal is a call, so a cascade of slots is one step |
| `SolSession`, `KvmSession`, `IderSession` | `sol_session.cpp`, `kvm_session.cpp`, `ider_session.cpp` and their codecs | one action per frame the drain loop takes and per timer or queued call; the firmware is an environment that answers what it reads. KVM pixels are the format they are encoded in, a SCSI command is how it ends |
| `RedirSessions` | the composition | a controller, the session of its kind and the firmware on `RedirChannel`; proofs in `RedirSessionsProofs` |
| `WsmanClient` | `WsmanClient` and its replies: queue, attempts, digest cache, trust, timer | one record per reply; sockets and the device's verdicts are chosen by the environment; `profile` limits what can happen in a behaviour; proofs in `WsmanClientProofs` |
| `WsmanResponse` | the HTTP response parser of a reply | the wire as tokens, fed in any cut; one action per parser state. `Fits` says what it is for a wire to carry a body. Part of run `wsman_client`; proofs in `WsmanClientProofs` |
| `SshSession`, `SshTunnel` | `ssh_session.cpp`, `ssh_tunnel.cpp`, `sshtunnelhost.cpp`, `ssh_tunnel_opener.cpp` | UI thread, worker thread and one pump per tunnel, with their event queues; a blocking call is a state of its thread; proofs in `SshTunnelProofs` |
| `WsmanCatalogue`, `WsmanOperations` | `operations.cpp` | the catalogue gives each operation as data (branches, requests, what is accepted, how the verdict is formed); the machine runs one of them against a device that may answer, refuse, lose replies or die |
| `WsmanPaging` | event log, audit log, account list | one action per request of the loops, with cursors and counters. Part of run `wsman_operations`; proofs, about both, in `WsmanOperationsProofs` |
| `Subsequences` | loops that keep some of the elements they pass | `Among(q, S)`, a recursive function; `SubsequencesProofs` has the lemmas about it |
| `DetailsCatalogue`, `OptInConsent`, `MachineDetails` | `machinedetailscontroller.cpp`, consent in `SessionWindow.qml` and `OptInPrompt.qml` | the catalogue gives every refresh and change as data; `OptInConsent` has the consent functions (a Qt signal is a direct call, so the slot's effect is part of the caller's step); `MachineDetails` has the gate, the requests, the prompts and the firmware; proofs in `MachineDetailsProofs` |
| `ComputerStore` | `computermodel.cpp`, `configstore.cpp`, `keystore*.cpp`, `secret_codec.cpp`, `backupcontroller.cpp`, `certmodel.cpp`, `cert_store.cpp`, `migrate.cpp`, `migrationcontroller.cpp`, start of `main.cpp` | memory and files side by side; every call with its save and take-back; a launch loads, may migrate and may stop between two writes. A secret is the word and the form it is stored in (plain, v2, v3 under a key); a ghost field `meant` is the word the user typed and the launch it was typed in; proofs, about `Fleet` as a whole, in `FleetProofs` |
| `BatchRunner` | `batchrunner.cpp`, the dispatcher of `batchcontroller.cpp` | jobs by row, in the order they were selected; `stack` holds the re-entered frames of `pumpQueue()`; proofs, about `Fleet` as a whole, in `FleetProofs` |
| `Scanner` | `scanner.cpp`, `scannercontroller.cpp` | cursor, timers, packets and look-ups under way, rows found |
| `Fleet` | the composition | the one event loop: a call that has begun goes on before anything else, `Quit` ends a launch anywhere |

The `MC` modules give the constants. `SshTunnel` composes session and tunnels,
`RedirSessions` and `Fleet` are described above. The redirection stack is joined
by refinement: `RedirClient` implements `RedirChannel` (`ImplementsChannel`, run
`redir_client`), and the controllers and sessions run on `RedirChannel`. The wire
of the mapping is computed from the device's whole script, not from the client's
buffers, so a byte the client drops, repeats or reorders is no step of the
channel. `WsmanClient` stands below `WsmanOperations`, and both below
`MachineDetails`, by assumption and not by refinement: what the lower module
guarantees about a reply (it finishes once, in queue order when serialised,
unheard in the case of run `wsman_unheard`) is what the upper one's environment
does.

## Runs

| Run | Question | What it shows |
|---|---|---|
| `redir_client` | two connects, the first to a device whose KVM script has one frame too few or too many, every configuration, cuts and events anywhere | the handshake keeps its order, no byte is lost or repeated, nothing of the first session is left in the second, an untrusted peer is sent nothing unasked; every connect ends authenticated, failed, closed by the user or waiting for the trust answer; every step is one of the abstract channel |
| `redir_sessions` | each controller with its session, against firmware that refuses, resizes, resets, chatters and closes, and a tunnel that comes, asks and drops | a panel shows Connected only over an open session and link; pixels are decoded in their own format; the frame loop keeps itself going unless the firmware answers with an update of no rectangles; chunked reads stay in order; opens settle, SCSI commands end |
| `wsman_client` | up to three requests, serialised or parallel, direct or tunnelled, with rotating nonces and certificates, aborts and changed settings; or one response, in three framings and every cut | single flight, queue order, no reply without a timer or a socket, nonce counts unique, in parallel too, until a challenge brings back a nonce the client had left (and always, while requests are serialised), final outcomes; the body that is reported is the one that was sent |
| `wsman_unheard` (violation) | does the sender always hear the end of a reply? | no: with the tunnel down the reply finishes inside `sendEnvelope()`, before the caller can connect |
| `ssh_tunnel` | no, one or two tunnels; closes, deletes, retries, new configurations and destruction at any point of the three threads | one outcome; no channel without a pump, but that of a tunnel deleted under its open; only accepted keys and live objects, until an attempt overtakes an open prompt; close and destroy return, tunnels settle |
| `ssh_deleted` (violation) | is the channel of a deleted tunnel cleaned up, as the comment at `ssh_tunnel.cpp:473` says? | no: the result of the open is posted to the tunnel and dropped with it, and the channel stays open |
| `ssh_switched_off` (violation) | does a pump always have a live channel? | no: switching the tunnel off frees the session, and with it the channels of running pumps |
| `wsman_operations` | every operation, every class of reply, every order, loss, null and dying client, requests that end before anyone listens; the paged logs and accounts at every length, with empty pages and pages that do not say how to go on | at most one callback, writes in order, honest verdicts; complete lists, but for the two cases the property names; an end to every call whose requests are all heard, on a device that ends its log |
| `machine_details` | every refresh and every change, a few at a time, under the menus of `MCMachineDetails` | at most one status read, sections that follow the last change (what the code leaves behind is named, case by case), held-back reads that end, a busy indicator that goes out, no gated session without consent |
| `details_resume` (violation) | is the operation that raised the certificate prompt retried? | no: an overview refresh resumes only as an opt-in status read |
| `fleet` | edits, secrets, imports, migration, certificates, batches and scans, with full disks, unreadable files, a key store that comes and goes, and launches cut short | memory and files agree; a password is lost only to a later launch that replaced the key or saved without the key store; an import changes only what its plan showed, in a list without double identities; a batch is accounted for at every level of re-entry; batches and scans end |
| `batch_wrong_machine` (violation) | does a batch act on the machines that were selected? | no: a pending job names a row, and removing a machine while the dialog is hidden gives that row to another machine |

The findings in `PROJECT.json` quote the line that each violation run contradicts.

## Bounds, and why they are enough

* Redirection: six frames, one of them missing or one odd one among them, reach
  every parser branch in every state; the parser keeps no counter, so a longer
  stream repeats them. An IDE-R session is to the client a SOL session with
  another selector, and has no script of its own. Two connects are needed, and
  enough, for leaks from one session to the next; the second is to a good device,
  so that what disturbs it comes from the first. The proofs have no such bound.
* WSMAN client: three requests give a current one, the head of the queue and a
  second in it; two nonces a fresh and a stale one (`MaxNonce`); one change of
  settings per behaviour (`MaxSettings`). Three parallel requests (`Racing`) are
  what it takes to go back to a nonce: a challenge under the old one is taken,
  then one under the new, then another under the old that comes late.
* Response parser: the cap is two bytes, bodies have up to three, cut into up to
  three chunks: below, at and over the cap in each framing.
* Sessions: `MCRedirSessions` gives each kind its own bounds. SOL has the short
  protocol and gets two opens and two changes of the tunnel, so that reconnects
  and deferred opens meet each other; KVM gets four frames of the firmware's own
  accord, enough for a resize between two updates, and a drain of two steps
  (`KvmSteps`, 16 in the code), enough to be cut; IDE-R gets three, a read and two
  frames between its chunks, on a disc of three blocks.
* SSH: two tunnels share one worker; `MaxOpens` 2 gives one retry. `Restless` sets
  the configuration anew under an attempt or a prompt; it has no tunnels, since
  doing so under open ones is the dead use of `ssh_switched_off` again.
* Operations: `Kept` leaves two or three branches of the widest fan-outs, whose
  others are alike; `MaxPulls` 2 is the number of pages that announce another, in
  one call, so that an enumeration has a first, a middle and a last page. A
  branch's state is independent of how many others there are except for the join.
* Paging: `PageSize` 2 and `MaxRecords` 5 give empty, short, exactly full and
  full-with-remainder lists; `MaxEntries` 4 puts the cap inside.
* Machine details: a menu names what the user does in one behaviour and how often
  (`asks`, two or three; `ssh`, tunnel attempts, one or two). `KeptSections` keeps
  one of the eight parallel requests of the overview besides the opt-in status.
  Three asks through the tunnel are a connect, a wrong code and a right one; with
  all requests in flight at once two asks remain, and one where another console's
  code is already up.
* Fleet: a menu of `MCFleet` names the calls, faults and launches of one behaviour
  around one question: two launches for edits, four for the key store's life
  (there, gone, back), three for a migration cut short and run on; a backup of
  four machines that match by identity, by host and name, and not at all; one
  backup imported twice, which leaves two rows with one identity; a backup written
  and read in launches with and without the key store; three jobs with two at a
  time, so that one is always pending; bursts of one of two targets, so that a
  scan has a first, a last and a quiet phase.

Deadlock is not checked: every one of these systems may come to rest when the user
asks for nothing more.

## Fairness

* `RedirClient`: the event loop delivers pending events, the opener calls back
  exactly once (its code does, see `ssh_tunnel_opener.cpp`), the device delivers
  what it sends. The user and socket errors owe nothing.
* `SshTunnel`: each thread runs on; a libssh call ends because `waitForLibssh()`
  polls with a deadline.
* `RedirSessions`: the event loop delivers what is posted to it, zero timers
  included, and the firmware reads what it is sent. It owes no update without a
  request and no frame of its own accord; the user and the tunnel owe nothing.
* `Fleet`: a call that has begun goes on, timers fire, and every command that was
  sent is answered (`Settles` of run `wsman_operations`; its exception for unheard
  requests needs a tunnel, and tunnelled machines are skipped,
  `batchcontroller.cpp:106`). Nothing of the user, the network or the DNS.
* `WsmanOperations`, `WsmanPaging`, `MachineDetails`: every request ends, heard or
  not (run `wsman_unheard`), since `WsmanClient` arms its timer on every way into
  an attempt (`NoReplyStranded` of run `wsman_client`). In `MachineDetails` that
  is weak fairness of the oldest request that can be heard, and of the SSH
  attempt, which has its own timeout. Nothing is assumed of the user, of polls or
  of the firmware.

## Proved

Eight modules hold the proofs, one of them lemmas only. Each proves `Init => Inv`,
`Inv /\ [Next]_vars => Inv'` with one case per action, and the properties from
`Inv`; each invariant was checked with TLC on its run first. The bounds of the
runs are gone: the theorems are about every value of the constants.

### The redirection client and its channel

`RedirClientProofs` proves, for every set of certificates, pins, scripts and
configurations and any number of connects (assumption `RedirAssumption`, which
only types the constants): `TypeCorrect`, and from the inductive invariant
`IndInv` the theorems `HandshakeOrder`, `StreamPreserved`, `RawGuarded`,
`UntrustedUnanswered` (`SilentToUntrusted`) and `FailureCloses`. (`RawGuarded` and
`FailureCloses` are no longer checked by a run of their own: being proved, they
need none.)

None of the invariants is inductive alone. `StreamIntegrity` (what was handed
over, what is in the inbox and what the socket holds are together the device's
script) needs to know that nothing is handed over while the parser still holds
bytes (`HandOver`) and that a `handleConnected()` still queued finds nothing
handed over yet (`QueuedBeforeRead`). `AuthTranscript` (the frames written are a
prefix of one handshake, in step with `state`) needs `KvmStartsOnlyKvm`.
`SilentToUntrusted` needs that the certificate under the prompt is the peer's
(`PromptMatchesPeer`) and that a device which waits to be asked has sent nothing
before the client has (`NothingUnasked`). `Inductive` has one lemma per group
(`ControlStep`, `TranscriptStep`, `TrustStep`, `RawStep`, `StreamStep`), each with
one case per action; the lemmas before them are facts about cutting and joining
sequences.

The same module proves `ClientImplementsChannel`: under the mapping of
`RedirClientChannel` every step of the client is a step of `RedirChannel` or
leaves it alone. Beside `IndInv` this takes `LinkInv` (a disconnected client has
no live socket, a `handleConnected()` is queued only before the first reply, only
TLS prompts).

### The sessions

`RedirSessionsProofs` is about a controller, its session and the firmware, for any
number of opens, tunnel calls and frames, any disc and any length of a drain:
`ConnectedIsLive`, `DecodesAsEncoded`, `FrameLoopGoesOn`, `ChunksInOrder`. The
heart is `StreamInv`: the update request goes to and fro like a token. Either the
session has it, and then the rest of exactly one update, in the session's pixel
format and with noise around it, is in inbox and wire; or it is on its way to the
firmware behind every change of the format; or the firmware has it; or an update
of no rectangles has swallowed it (`blank`), the one way for the token to be lost
(`OnlyBlankFreezes`). `AwakeInv` says that what is in the inbox has a drain to
take it; without it a resize in the middle of an update could leave the token
nowhere. The handshake before it is a strict taking of turns (`HandshakeInv`).

### The WSMAN client

`WsmanClientProofs`, for any set of requests, certificates and profiles:
`OneAtATime`, `WaitingIsServed`, `NoneStranded`, `CountsAreUnique` and the action
property `OutcomeStays`. `FlightInv` ties queue, current request and replies
together: the queue holds exactly the idle replies, once each, and the current
request is the one reply sent through the queue that is at work. `NonceInv` holds
for parallel replies as well: a pair about to be written has a nonce that was
taken from a challenge, no other reply has the same pair, and it is behind the
count of the cached nonce. That is so until a challenge brings back a nonce the
client had left (`rewound`), because the count then starts again; `SteadyInv` says
that a client that serialises throughout, with usable challenges, never gets
there. `AbortAssumption` leaves `abort()` to clients that never serialise: nothing
in the application calls it, and with a queue it does break single flight (see
below).

`BodyIsExact` is about the response parser on its own (`ResponseSpec`), for
messages of any length, any number and size of chunks, any cap and every cut.
`ResponseInv` says where in the wire the parser stands: `Flow(m, b, r, p)` holds
when the first p bytes are used up and buffer and unread part together are the
rest, and each state of the parser has its place (`HeadPlace`, `LengthPlace`,
`ClosePlace`, `SizePlace`, `DataPlace`): at which chunk, how much of its data is
to come, and what the buffer can still hold when the parser waits. The last is
what shows that a split line end costs nothing: where the parser waits, a
well-framed response has more bytes to come (`MoreToCome`). `Fits`, assumed of the
messages, says that a wire carries its body as its framing prescribes, or breaks
it at a length or a size line; what a device sends behind such a break is
arbitrary.

### The SSH session and its tunnels

`SshTunnelProofs`, for any number of tunnels, keys, opens and any profile of
events: `SshTyped`, `TunnelsReportOnce`, `NoChannelLost`, `OnlyTrustedKeys`, and
under a condition `NothingDeadUsed`. The theorems have to account for what is in
three kinds of queues at once, so the invariant is about places: an open is in
exactly one of job queue, worker and event queue, a channel is on its way to its
tunnel, in its pump or on its way back, or was lost with a deleted tunnel
(`TunnelInv`; what is lost is counted apart, and the run `ssh_deleted` shows that
it happens). `SessionInv` says the same of the attempt to connect: it is a job,
the worker's, a prompt on its way or a prompt shown, and the key asked about is
the session's. That fails once `setConfig()` starts a second attempt under the
first: the answer to the first prompt, queued behind the second open, is taken for
an answer about the second key. The ghost `overtaken` is set when an attempt
begins under an unanswered prompt, and `TrustInv` carries the theorem through
every other call of `setConfig()`: until then a prompt on its way or shown, or an
accept in the queue, is about the key the worker has asked about, and no attempt
waits behind a close. `SessionInv` itself, which is about all the jobs of the
worker, is for profiles without such calls, and is used for `NothingDeadUsed`.
`CalmInv` has the order in which a session goes: tunnels closed and pumps joined
before the worker frees it. `Calm` leaves out the switching off or setting up anew
of a session that carries tunnels, which does use freed channels (run
`ssh_switched_off`).

### The WSMAN operations

`WsmanOperationsProofs`, for every set of operations of the catalogue, any list on
the device, any page size, record count and cap: `EveryCallReportsOnce`,
`ListsAreWhole`, `ChainsWriteInOrder`, `SuccessIsPerformed` and
`ReadsAreComplete`, from `CallsKeepInvariant`. `JoinOk` says that a branch that
waits has not ended, `PagesOk` that an enumeration under way has only pages that
are followed by another, `ChainOk` that the writes performed are those before the
request the chain waits for, and `ReaderOk` that a paged loop has every record
before the one it asks for next, and knows what is outstanding by its flags and
its counter. `ReadsAreComplete` promises what the loops can keep: of an audit log
with an undecodable record or without a length, and of an event log whose device
leaves out the IterationIdentifier, a success has less, and the property says
what. `SuccessIsPerformed` exempts the operations that take a reply without
`ReturnValue` for success (`ReturnZeroLoose`). They need facts about the catalogue
itself (`CatalogueFine`: in a chain, a write is followed by another only if its
reply was checked), proved for each entry, and about `Among`, which gives the
writes and the readable records.

### Machine details

`MachineDetailsProofs`, for every menu of reads, changes, tabs and tunnel
attempts: `StatusReadAlone`, `SectionsShowLatest` and the action property
`ConsentComesFirst`, from `DetailsKeepInvariant`. `StatusFits` makes the flag and
the request two views of one thing. `BehindOk` is the argument for what is shown:
a section that is behind the device is excused or will be fetched by something
that is deferred, under way or still owed by a change, and a section that a reply
under way would set back is excused. The excuses are the four that `LatestShown`
lists: a read that failed or was dropped, an outdated read on its way back, a
change that failed after the device had performed it, and
`generateKeyPairAndCsr()`; `Owed` and `Accounted` follow that debt through one
callback, and need of the catalogue that every change shows again what it wrote
(`ChangesFine`), with `KeptAssumption`. The replay of the deferred reads is a fold
over their order, followed step by step (`RunExists`). For consent, every request
that has seen a consented state, and every state of the round that believes in
one, comes after the user's grant (`CallsOk`, `Honest`).

### Stores and batches

`FleetProofs` proves about `Fleet`, so every interleaving with batches, scans and
the end of a launch is in the theorems. `MenuAssumption` says that the files found
at first hold what the program writes: entries with a machine's fields, the
password as it was typed and under no key of an empty key store.

Stores: `FilesDecode`, `PasswordsSurvive` and the action property
`ImportsKeepOthers`, each with its exceptions in its statement: a list that could
not be read (`failed`), a password typed before a launch that did harm, a list
with one identity twice. `Durable` is not inductive because the key store is asked
late: an edit may ask it and get a key while the file was read without one. What
saves it is `NoneUnderKey`: as long as the store has not been asked, nothing in
the file needs its key. `SecretsKept` is per password and launch. Harm is done
when a new key is stored over the platform's, or the list is written by a launch
without the key store; `keys.lost` is the last launch that did any. A password
typed since is whole wherever it is (`Sound` in the file, typed or under the
platform's key; `Safe` in backup and plan; `Fine` on screen, where a launch
without the key store may show those of earlier launches empty). For imports,
`Foretold` says of a plan that an entry takes no row whose identity an earlier
entry's machine has, unless that one took such a row too; with it, and no row
named twice, no later entry overwrites an earlier one (`ApplyOne`). `planImport()`
and `applyImport()` are folds over a list. Induction is not in the provers' reach
as a rule, but a least counterexample is: `Induct` and `FoldClosed` derive what is
needed from the well-foundedness of the numbers, over sets in place of predicates.

Batches: `BooksAgree`, for every list, selection and cap. `pumpQueue()` is
re-entered from its own loop, and the books are right only when the outermost
frame returns. `BatchInv` carries them through: running jobs and sent commands
correspond one to one, the counter counts both, and no frame has passed over a
pending job (`Passed`), so that the frame that ends last has left none.

### Only model-checked

The liveness properties (the prover has no fairness and no `ENABLED`):
`ConnectSettles`, `OpenSettles`, `CommandEnds`, `TunnelSettles`, `UiReturns`,
`Settles`, `BusyEnds`, `DeferredEnds` and `JobsEnd`; and the five violations,
which are facts about an instance. Every safety property of a passing run has a
theorem.

## Seen while modelling, without a run of its own

* `redir_client.cpp:262`: a device that answers early is parsed while the
  certificate prompt is open, and the client answers and goes on to authenticate,
  where `redir_client.h:155` calls the handshake paused. `SilentToUntrusted`
  excepts exactly this (`eager`). `:332`: a 0x14 frame the parser never accepts
  leaves the handshake waiting for bytes for ever.
* KVM: after a clean close by the peer the session stays in its frame loop; input
  or the queued drain then writes, fails, and the panel turns from Disconnected to
  Failed (`kvmcontroller.cpp:259`). A failure of the KVM session itself is shown
  as Disconnected. An update of no rectangles is accepted (`kvm_session.cpp:236`)
  and never followed by a request: the picture stands still (`OnlyBlankFreezes`).
  `kvm_session.h:87` promises `pixelFormatChanged`, which a start in Rgb565 does
  not emit. `requestFullRefresh()` has no caller.
* Controllers: `close()` leaves `m_openDeferred` set, and a failed tunnel or a
  cancelled host-key prompt leaves a deferred open in Connecting (hence the second
  half of `OpenSettles`). SOL and IDE-R do not disconnect the old client's signals
  before a new dial. SOL and IDE-R sessions take further frames after their own
  failure; a reset does not cancel a chunked read.
* Stores: a key ring that is not there for one launch decodes v3 secrets to
  nothing, and any edit then saves the list without them; a failed
  `platformLoad()` is taken for no key, and a fresh one is stored over it
  (`keystore.cpp:51`), where `keystore.h:18` promises that secrets stay readable;
  a `computers.json` that cannot be read is an empty list that the next save
  writes back; a migration cut short after its first file is not run again, and
  leaves certificates and settings behind; a backup exported in a launch without
  the key store holds empty passwords; a write of the migration that fails only
  when the buffer is flushed, by an unchecked `close()`, goes unnoticed and is
  stamped as done (`migrate.cpp:42`). `SecretsKept` and `Durable` are stated for
  what the code does keep.
* `computermodel.cpp:391`: `planImport()` claims rows so that none is updated
  twice, but the plan names identities and `applyImport()` looks them up again. A
  machine that is appended keeps its identity from the backup, though a row that
  was matched by host and name may bear it: importing one machine by host and
  another by its identity leaves two rows with one identity, and importing the
  same backup again updates the first of them twice and loses a machine.
  `ImportKeepsOthers` therefore speaks of plans that name no row twice, and says
  that a list of distinct identities has no other plans; the first attempt to
  prove it without this found the case.
* Scanner: a look-up that comes late adds its row to the next scan's;
  `addSelected()` twice adds the machines twice.
* `wsman_client.cpp:772`: a 401 that arrives late resets the nonce count of a
  nonce already in use, so that a pair is written twice, against the comment at
  `:763` (`rewound` in `NonceCountUnique`); requests that are serialised do not
  get there as long as their challenges can be used. `:668`: with a cached
  challenge, `retryWithDigest()` does not prompt for a changed certificate.
  `:954`: `abort()` of a queued reply would break single flight (the application
  never aborts). `:840`: a body that ends with the connection is always an error.
* `ssh_session.cpp:295`: `m_awaitingHostKeyTrust` outlives `fail()` and `open()`:
  a new attempt under an open prompt takes the answer to the old prompt for its
  own, and may authenticate with a key nobody was shown, or on a null session
  (`overtaken` in `TrustedKeyOnly` and `NoDeadUse`). `ssh_tunnel.cpp:326`: a full
  socket buffer counts as a closed consumer.
* `operations.cpp:5822`: the audit log's next index comes from the entries kept,
  so that a record that cannot be decoded makes it fetch others twice or stop
  early, as a success, against the comment at `:5818`. `:4489`: a page without
  IterationIdentifier ends the event log early, as a success. `:256`: a request
  that ends inside `sendEnvelope()` is never heard by its operation (`missed`).
  `:4829` and `:6247`: a missing `ReturnValue` counts as success. `:4428`:
  `kMaxRecords` counts entries, so empty pages may follow each other for ever
  (`PagesForEver`). `:5163`, `:5227`: the read-modify-write of the KVM settings
  puts back a fixed list of keys.
* `machinedetailscontroller.cpp:66`: switching SSH off while it connects leaves
  `m_sshConnecting` set, and all refreshes held back, unless the old session still
  reports; a late `Failed` then uses the null session (`:111`). `:1003`, `:3942`:
  a clock sync or power scheme asked for while the tunnel connects is replaced by
  a refresh. `:608`: a status read in flight when a code is accepted puts the
  older state back. `:594`: one in flight when the KVM settings are changed
  swallows the one meant to show the change. A change that reports an error, its
  reply lost or a later request refused, is not read again, though the device has
  performed it. `SessionWindow.qml:183`: Cancel at the host-key prompt switches
  SSH off, with the effect of `:66`. `getOptInStatus()` reports success with
  default settings when its second request fails. `:839`: cancelling while
  StartOptIn is under way ends in polling without a round. After a session has
  ended the state stays Received, and the next connect does not ask.
  `OptInPrompt.qml:43`: a timeout of 0, said to hide the countdown, cancels after
  a second. `:751`: the error of `setKvmServiceEnabled()` is cleared at once by
  the refresh after it. `:2769`: `generateKeyPairAndCsr()` never re-reads the key
  store.

## Not modelled

`PROJECT.json` lists every part. The terminal is a pure screen machine whose
behaviour is a table of sequences; Setup.bin, the recorders and the codecs of the
backup are file formats; the framebuffer, the viewer and the shell have pixels and
forms; certificate requests and the local AMT probe are single library calls; the
updater is an external library. Partly modelled are the SOAP envelopes (what a
reply says, not its XML), the session window (consent and start), the key store
(its answers), backup, certificates and migration (their control, not their
formats and cryptography).

## Plan

Done: the models of all parts above, and the proofs about the redirection client,
its channel, the sessions, the WSMAN client and its response parser, the SSH
session and its tunnels, the WSMAN operations, machine details, the stores and the
batch runner.

Left: a model of the terminal; refinements in place of the assumptions that join
`WsmanClient`, `WsmanOperations` and `MachineDetails`; and the liveness
properties, when the prover has the means.
