# A TLA+ development of HiRodrop

HiRodrop is a desktop client of Quick Share: it receives files from, and sends
files to, other devices on the local network.  This directory holds TLA+ models
of its protocol and concurrency core, the TLC configurations that check them,
and proofs that TLAPS checks.  Paths below are relative to the repository's
root; `receiver.rs` stands for `src/quick_share_receiver.rs`, `sender.rs` for
`src/quick_share_sender.rs` and `gui.rs` for `src/bin/hirodrop-gui.rs`.

## 1. The system

### Components, their state and their operations

| component | code | state it keeps | operations |
|---|---|---|---|
| Download directory of a transfer | `PendingTransfer` and the end of `receive_connection`, receiver.rs 279-376, 739-1185 | the table of open files and texts, bytes received, part files and final files on disk | `prepare`, `receive_all` (`receive_file_chunk`, `receive_file_bytes`, `receive_text`), `cleanup_parts` |
| Receive service | gui.rs 415-626, 825-913, 1160-1217, 2580-2703 | `running`, `pending`, the stop flag, the event channel, the reply channels, the vector of workers | start, stop, accept loop, workers, `poll_events`, accept and decline buttons, quit |
| Transfer session | `send_prepared_files` (sender.rs 148-264), `finalize_transfer`, `acknowledge_pending_peer_frames`; `receive_connection` | where each side is in the protocol, the TCP connection between them | connect, handshake, consent with keep-alives, chunks, final disconnection, retry |
| Send panel | gui.rs 628-805, 915-1008 | selected files, `qr_code`, the cancel flag, queued Finder files | QR send, direct send, cancel, retry, automatic QR |
| UKEY2 and the secure channel | `src/quick_share_crypto.rs`, and its use in sender.rs 161-227, 715-857 and receiver.rs 289-316, 481-661 | the commitment, keys, the two sequence numbers, the payloads being assembled | client and server handshake, encode, decode, chunk and assemble a sharing frame |
| Wire framing | `src/quick_share_transport.rs` | none | read and write a length-prefixed frame |
| QR session | `src/quick_share_qr.rs` | keys and token of one QR code | create, discover the receiver that scanned it |
| mDNS advertisement and browsing | `src/quick_share.rs`, `src/quick_share_discovery.rs`, gui.rs 807-823 | what this computer advertises, the table of nearby devices | advertise, withdraw, found, removed |
| Settings | `src/settings.rs`, gui.rs 492-603, 1665-1780 | `settings.json`, the fields of the settings page | load, save, edit |
| Finder service, share extension | `src/bin/hirodrop-gui/macos_service.rs`, `src/macos_service.m`, `packaging/macos/share-extension` | file lists handed over | receive, take |
| Wire schema; painting and translation; build | `src/quick_share_wire.rs`; rest of gui.rs; `build.rs` | none that matters to the others | |

### How they interact

* The GUI thread and one `receive_service` thread share a stop flag and an mpsc
  channel of `ServiceEvent`s; every start makes new ones.
* The service thread spawns one worker thread per connection (at most
  `MAX_CONNECTION_WORKERS`).  A worker runs `receive_connection`; its consent
  closure sends an `Offer` with a one-shot reply channel to the GUI and polls
  the reply between keep-alives.
* All workers, of this service and of the ones before it, write to one download
  directory.  Nothing but the file system's own operations orders them.
* The sending side is one thread per send.  It talks to a worker of the other
  device over one TCP connection per attempt and reports to the GUI over a
  channel of `SendEvent`s.

### What is hard

Interleaving of workers in one directory, and of the GUI with threads that
outlive the service that started them; decisions sent to workers that are gone;
a look at the disk that is used much later; a close of a TCP connection that is
at once the confirmation of success, the sign of a failure and, with unread
input, a reset that loses data; retries of something that may have been
delivered; a network that replays or reorders what the channel carries; a
settings file that is truncated before it is written; news of a device that is
already gone; exits in the middle of it all.  `PROJECT.json` lists each hazard with
its line and the properties aimed at it.

### What makes each component correct

* Directory: what appears under a final name is whole; a file of the user's that
  is there before a transfer chooses its path stays; part files are accounted for
  and go away.
* Receive service: nothing is received without the user's consent to that very
  offer; every offer is answered, once; stop and restart work; no worker waits
  for ever for an answer.
* Transfer session: both programs follow the same protocol whatever the
  interleaving; success is reported only when the receiver is done; each
  connection needs its own consent; nobody waits for ever.
* Send panel: one send at a time; cancel and retry do what the buttons say; the
  state on display is the state of the worker.
* Secure channel: both ends derive the same keys; a frame is decoded at most
  once and in order.
* Settings, discovery, Finder: what is shown or stored is what was last said,
  also after a crash.

## 2. Modules

| module | models | checked by | proved in |
|---|---|---|---|
| `PendingTransfer` | the download directory with several workers | `MCPendingTransfer` | `PendingTransferProofs`, with `Sums` |
| `ReceiveService` | GUI, service thread and workers of the receive side | `MCReceiveService` | `ReceiveServiceProofs` |
| `FileDelivery` | what a direct send promises to both users (abstract) | by `TransferSession` | |
| `TransferSession` | a sender and a receiver over TCP, with a retry; implements `FileDelivery` | `MCTransferSession` | `TransferSessionProofs` |
| `SendPanel` | the window's sending side and the worker of each send | `MCSendPanel` | `SendPanelProofs` |
| `OrderedDelivery` | items in order, each at most once, in both directions (abstract) | by the next two | |
| `SecureChannel` | the UKEY2 handshake, the PIN and the encrypted channel; implements `OrderedDelivery` for frames | `MCSharingFrames` | `SecureChannelProofs` |
| `SharingFrames` | composes `SecureChannel` with the sharing frames it carries in chunks; implements `OrderedDelivery` for sharing frames | `MCSharingFrames` | `SharingFramesProofs` |
| `Desktop` | settings file, service name, advertisement and table of nearby devices from launch to launch | `MCDesktop` | `DesktopProofs` |

Each `MC` module only adds the data of small instances.  `PROJECT.json` maps
every definition to the lines it stands for.  Operators whose name ends in
`Mutant`, and a few named for what they break, are deliberately wrong versions
of the definition after them; they show that the properties can fail.

### PendingTransfer

One worker per element of `Transfers`; `phase[t]` is the place in
`receive_connection`.

| variable | code |
|---|---|
| `intro`, `prepared` | the introduction, and how far `prepare` has gone through `file_metadata` |
| `open`, `texts` | the maps `files` and `texts` of `PendingTransfer` |
| `got`, `dest` | `PendingFile.received`, `PendingFile.final_path` |
| `received`, `completed` | `received_bytes`, `completed` |
| `naming` | the local of `receive_text` between `unique_destination` and `fs::write` |
| `parts`, `saved` | the `.part` files and the files with final names |
| `inBytes`, `stuck` | history: files ended by a BYTES payload, and parts that `cleanup_parts` could not remove |

One action is one call of a handler (`prepare` per entry of the metadata, a
chunk, a bytes payload, a text), because between two of them another worker may
run; `receive_text` is two actions, since its look at the disk and its write are
separate system calls and its name depends on the clock only.  `FailReceiving`
is the error return of `receive_all` together with the `cleanup_parts` that
follows it, which ignores the error of each `remove_file`: any of the parts may
stay.  Errors in `prepare` have no cleanup, as in the code.

The directory belongs to the user as well.  `UserSaves` is a file of the user's,
or of another program's, that appears at a free path at any moment, also between
a worker's look at that path and its rename or write, which then replaces it.
A peer may send both FILE chunks and a BYTES payload for one id:
`receive_file_bytes` compares the payload alone with the declared size, appends
it to the part and counts it.

Bytes are counted, not stored.  Names are model values: `sanitize_filename` and
`safe_parent_directory` are abstracted to an entry being `sane` or not, and
`unique_destination` to a name and the number it appends.  `part` files are
created with a random name and `create_new`, so they never collide and are keyed
by transfer and slot.  `IOFaults` lets every file operation and the last write
fail, a write with any part of its data in the file; `Quit` ends the process at
any point.

### ReceiveService

| variable | code |
|---|---|
| `running`, `service`, `pending`, `quitting` | fields of `HirodropApp`; `service` identifies the channel `event_rx` holds |
| `polling` | what is left of the batch `poll_events` has drained |
| `events` | the channel behind `event_rx`; sends to a replaced channel fail silently, as `let _ =` makes them |
| `thread`, `stop`, `handles` | each `receive_service` thread, its flag, its `workers` vector |
| `phase`, `home`, `reply` | each worker, the service it belongs to, the one-shot reply channel |
| `clicked`, `outcome` | history: accepts by button, and how each worker ended |

An event carries its reply sender, so dropping the event (`start()` replaces the
receiver) or dropping `pending` (on `Stopped`) drops the sender, which the worker
reads as a refusal.  An error of `accept` other than "would block" sends an
`Error` event; at most `MaxFailures` wait in the channel.  What a worker does
after the consent is abstracted to its result; that part is `PendingTransfer`.

### TransferSession

`SenderScript` and `ReceiverScript` are the sequences of reads and writes of the
two functions up to the introduction.  The two directions of the connection are
FIFO queues of frames.  A close with unread input, or a write to a closed peer,
resets the connection, and a reset may lose any suffix of what is in flight:
this is what the comment at sender.rs 544-547 is about.  Encryption is left out
(frames arrive as sent or not at all, in order: what `SecureChannel` shows); a
sharing frame, on the wire two payload chunks, is one frame (what
`SharingFrames` shows).  `faults` is what may go wrong in a behaviour, chosen
from `FaultModes` at the start: "late" (a timeout expires), "cut" (the network
breaks the connection), "io" (a file operation fails or a source file changed).
`cut` is a history of breaks by the network, which the programs cannot tell
from a reset by the peer.

`FileDelivery` says what remains of all this for the users: each attempt is an
offer with an answer of its own; files are saved one by one, only under
"accept", and none once the receiver has come to an end; "complete" is reported
for an accepted offer, once its receiver is done or its connection is broken,
and with nothing going wrong only if everything is saved.  It deliberately does
not promise more: with an I/O failure at the receiver the code does report
success (`ts_delivered`).

### SendPanel

| variable | code |
|---|---|
| `selected`, `chosen`, `running`, `failed`, `waiting`, `queued` | `selected_files`, `files_selected_at` is set, `send_running`, `send_failed`, `qr_waiting_for_scan`, `queued_finder_files` |
| `code`, `sender`, `cancel` | the send that `qr_code`, `sender_rx` and `send_cancel` belong to |
| `pin` | `send_pin`, as the send and the attempt it was computed in |
| `at` | where the frame is: `poll_events` comes before `poll_finder_files`, and both before the user |
| `finder`, `events` | the channel from the Finder, and the one behind `sender_rx` |
| `phase`, `kind`, `files`, `tries`, `cancelled` | each worker: its place, QR or direct with one or two attempts, its copy of the selection, its attempt, its flag |

`poll_events` empties the channel and then handles everything in it, so
`PollEvents` is one action: an event that arrives in between could as well have
arrived after it.  A button that first calls `cancel_qr_waiting` if a code waits
is one action (`Abandon`, `StopReading` and the button's own part); a file
dialog stops the window, not the workers, whose channel is gone by then.  A
worker's discovery loop reads the flag (`Check`) and then waits for an endpoint
(`Resolve`), so a cancellation may come in between.  A worker that is `Asking`
reads keep-alives until its peer answers, which may be never.  The page on
display, the settings, the nearby devices and the delay of `maybe_auto_start_qr`
only restrict when a button or the automatic QR is there; they are left open.

### SecureChannel and SharingFrames

| variable | code |
|---|---|
| `place` | the line of `send_prepared_files` (client) or `receive_connection` (server) |
| `heard` | which of the peer's handshake values a side read: as sent, or changed |
| `sendSeq`, `recvSeq` | `send_sequence`, `receive_sequence` |
| `net`, `troubles` | the frames on the way to each side; how often the network has disturbed them |
| `sent`, `got` | history: frames encrypted and decrypted |
| `writing`, `buffers`, `failed` | the chunks still to write; `BytesAssembler.buffers`; an error of `push` |
| `said`, `told` | history: sharing frames begun and read |

A key is the term it is derived from (the ECDH secret and the transcript), so
two sides have the same keys exactly if they saw the same handshake; a frame
that was changed fails its HMAC.  The network drops, repeats, swaps or changes a
frame at any position, which is far more than TCP does: it is what the channel's
"replay protection" (crypto.rs:253) is for.  An error drops the stream
(`Leave`), which is always possible, since any read may time out.  `PinCode` is
the code's arithmetic with Rust's signed remainder.

In `SharingFrames` a side in `Stock` is another vendor's program: it cuts
payloads differently and may declare a wrong size.  The two `BytesAssembler`s
differ in one check (only the receiver compares every chunk with the declared
size), and so does `Fits`.

### Desktop

| variable | code |
|---|---|
| `file` | `settings.json`, or unreadable (missing or torn) |
| `app` | the process: the name field, `start_receiving_on_launch`, `auto_start_pending`, `running`, whether `QuickShareBrowser::start` succeeded |
| `service`, `starts` | the `receive_service` thread with the name it was given; each start advertises under a new random identifier |
| `lan` | what each advertisement on the network says |
| `queue`, `nearby` | the browser's events, and `HirodropApp::nearby` |
| `kept` | history: the settings on display at the last save |

`Save` is `fs::write`: done, refused before the truncation, or failed after it;
`CrashWhileSaving` is an end of the process in between.  A launch may fail to
read a good file.  The service withdraws its advertisement when it stops, unless
the daemon does not confirm within 3 s or the process ends first; what is left
over expires.  What is already on the network at a launch is announced in any
order.  `PollNearby` takes for each device the latest of the waiting events that
counts: a removal, or a readable name that is not the one in the field.  The
download directory and the other checkboxes are edited, saved
and loaded like the name and the launch checkbox, which stand for them.

## 3. Runs

Each run finishes within three minutes.  `CHECK_DEADLOCK FALSE` everywhere:
transfers end, connections close, the application exits and a send is over, so
all these systems really do stop.

| run | question | instance |
|---|---|---|
| `pt_shared` | is the directory sound for two workers, any introduction, any failure? | 2 transfers, 8 introductions (two files of which one is empty, file and text, two texts, repeated ids, an unsafe entry, an id used twice, nothing, too large), bodies of 0..2 bytes, files of the user's at 2 paths; 807 124 states up to symmetry |
| `rs_service` | consent, reply channels, pool, restarts; do stops, answers and offers take effect? | 2 connections, pool of 1, 2 services, 2 failures to accept waiting; 274 441 states |
| `ts_session` | do the two programs agree, keep the promise of `FileDelivery`, and come to an end? | 2 files, one of them empty, 2 attempts, 1 keep-alive, nothing going wrong or anything; 213 060 states |
| `sp_panel` | does the panel always show, cancel and end the right send? | 2 sends, 1 file; 92 640 states |
| `sf_channel` | is what is read a prefix of what was written, and do the PINs agree, whatever the network does? | 2 sequence numbers, 1 disturbance, sharing frames of 2 and 3 bytes of which one is too long, a sender of another vendor; 593 261 states |
| `dt_desktop` | is what is advertised what is shown and saved, and does the table follow the network? | 2 names to type, padded or not, and an unfit one; 1 other device with 2 names; 2 starts; 2 events waiting; 462 755 states |

Why the bounds are enough: a hazard of the directory needs a second worker but
not a third, because each pair of workers meets only in a final name; two slots
and bodies of up to two bytes contain a first, a middle and a last chunk, an
empty one and one too long.  The two transfers run the same code and no constant
names one, so permuting them is a symmetry.  The user's files (`UserPaths`) may
appear at the path of a received file and at that of a text, the two kinds of
path a worker chooses.  Two files of one name in one introduction are in
`pt_twins` and in the proofs; in `pt_shared` two transfers of one introduction
meet in their names.  In the service, two connections fill a pool of
one and leave one waiting, and make one offer shown and one queued or late;
two services are a restart with leftovers of the first.  In the session, two
attempts are what `begin_direct_send` makes; one keep-alive is enough for unread
input to exist at the close; an empty file is a `LAST_CHUNK` without data before
it.  In the panel, two sends are a send that was cancelled and still runs, and
the one started after it; the file may be selected or not, opened in the Finder
or not, and gone by the time it is looked at, which is all that the properties
tell apart.  In the channel, two numbers are a first and a last one, so that
both directions reach the limit of the counter, and one disturbance is enough
because each is met on its own: after the first frame that is refused nothing
more is read.  On the desktop, two starts are a service and the one after a stop
or a relaunch; two events hold an announcement and the removal that overtakes
its poll; of the two names of the other device one is also typed here.

What the passing runs show:

* `PartsTrackReceived`, `SavedWhole`, `ProgressWithinTotal`: whatever two peers
  send and whichever call fails, no received file appears under its final name
  short, and no byte is counted that was not received.  The code does not
  exclude that a file is longer than declared, or the progress beyond the total:
  FILE chunks followed by a BYTES payload of the same id are all in the file and
  all counted (receiver.rs 1031-1059).  Both properties give that excess exactly
  (`Doubled`), and so exclude any other.
* `UserFilesKept`: a file of the user's in a place no live transfer has chosen is
  never replaced, nor its place chosen later.  A file that appears after the
  choice is lost: `unique_destination` looks at the disk in `prepare`
  (receiver.rs 796), the rename that replaces comes when the file is complete
  (1024), and between the two looks of `receive_text` (1163, 1085) it is a matter
  of moments.  No document or comment promises otherwise, so this is no run.
* `DoneLeavesNoPart`, `FailureStrandsOnePart`: a completed transfer has no part
  left, and one that fails while receiving loses at most the part it was
  committing, besides those that the system refused to remove.
* `ReceivesOnlyIfAccepted`, `EveryAskIsReachable`, `OneListener`, `PoolBound`,
  `AnswersAreFinal`; `StopTakesEffect`, `AnswerTakesEffect`, `OfferIsSeen`.
* `ImplementsFileDelivery`, `ScriptsAgree`, `CommitsOnlyIfAccepted`,
  `BothSidesEnd` whatever goes wrong, `AcceptedIsSaved` when nothing does.
* `ImplementsOrderedDelivery`, `SharingFramesInOrder`: at the level of frames and
  of sharing frames each side reads a prefix of what the other wrote.
  `NumbersServeOnce`: not even at `i32::MAX` is a number used twice.
  `PinsAgree`: a handshake that was disturbed never opens a channel, so two
  devices that exchange anything show the same PIN.
* `AdvertisesWhatIsShown`, `RelaunchShowsWhatWasSaved`,
  `TableFollowsTheNetwork`.  `ListsOnlyLeftovers`: the computer lists one of its
  own advertisements in two cases only, and TLC reaches both: there are spaces
  around the name in the field, or the service that made the advertisement is
  gone and could not withdraw it, and then only until its removal is polled.
  `RelaunchShowsWhatWasSaved` is about saves and readings that succeed.
* `NoHiddenSend`, `BusyUntilHeard`, `CancelReachesTheWorker`, `FreshPin`,
  `FinderWaitsForATransfer`; `PanelComesFree`, `FinderFilesAreTaken`: over any
  sequence of selections, sends, retries, cancellations and Finder requests the
  panel shows the one send that was not cancelled.  The two liveness properties
  have a way out that the code has too: a peer that sends keep-alives and never
  an answer holds the panel, and the Finder's files behind it, for ever
  (`AskedForEver`).  What `NoHiddenSend` cannot say is that a cancelled send
  stops: once the worker has left the discovery loop it goes on, unseen, next to
  the send that the user starts instead.

### Disagreements

Six runs are expected to fail; each shows that the code does something else than
the quoted line says.

| run | property | what happens |
|---|---|---|
| `pt_leak` | `FailureLeavesNoPart` (README.md:147) | `prepare` fails at its second entry; the part of the first stays |
| `pt_twins` | `DoneFilesInPlace` (gui.rs:898) | two entries of one name get one destination; the second rename replaces the first file |
| `rs_busy` | `BusyRejectionHasARival` (gui.rs:2450) | the request on display is dead, yet it makes the GUI decline others as simultaneous |
| `rs_silent` | `TransferEndIsReported` (receiver.rs:102) | an accepted transfer that loses its peer is filtered as a probe, without an event |
| `ts_again` | `RetryOnlyUndelivered` (gui.rs:783) | the receiver finishes before the sender's last check; the sender calls it a failure and sends everything again |
| `ts_delivered` | `CompleteMeansDelivered` (gui.rs:976) | the receiver fails on the last frame and closes; the sender reports success |

More were met and are not runs: a worker that outlives its service can show
a prompt after the GUI said that the service has stopped, and a rejection lost in
a reset makes the sender offer the transfer a second time.  Two workers that
receive a text within the same second may choose one name for it, and the second
write replaces the first text (receiver.rs 1163 and 1085).  `SendPanel` has two
more that no run states yet: a QR send that fails leaves its code on display
(`PollEvents` resets `code` only on `Complete`), and with it there is no button
for the new code that the message asks for (gui.rs:2366, "Show a new QR code and
try again."); and files dropped on the window during a send are selected but not
sent, although the notification says that all selected items were (gui.rs:976).

`Desktop` has five.  `poll_nearby` compares the untrimmed field with the trimmed
name that is advertised (gui.rs:814): with a space after the name the computer
lists itself.  It also lists an advertisement of its own under an earlier name,
if the daemon did not confirm the withdrawal and the name was edited since.  The
filter is by name and applied when an event comes, so a device with our name is
not listed, stays unlisted after we take another, and one that takes our name,
or hides, stays in the table as it was.  The settings button says that the
settings were saved also when `save_settings` failed (gui.rs:1778-1779).  And a
settings file that cannot be read once is lost: the defaults take its place, and
the automatic start saves them (gui.rs:592).

## 4. Fairness

* `ReceiveService`: weak fairness of the service thread's own steps, of a
  worker's look at its reply channel, and of the GUI's polling.  These are
  threads in loops that sleep at most 100 ms, and the window asks for a repaint
  every 100 ms.  The user and the peer owe nothing: the buttons, `Ask` and
  `Transfer` have no fairness, and the properties do not need it.
* `TransferSession`: weak fairness of each program, and of the user's answer.
  Without an answer the consent loop goes on for ever by design (it sends
  keep-alives), so `BothSidesEnd` is about users who answer.  Reads have
  timeouts, but in the behaviours without "late" nothing depends on them.
* `Desktop`: weak fairness of `AutoStart` and `PollNearby`, which every frame
  begins with.  The user, the service and the network owe nothing.
* `SecureChannel`, `SharingFrames`: none; a stream may always break.
* `SendPanel`: weak fairness of the two polls (the window asks for a repaint
  every 100 ms) and of each worker, strong fairness of `TimeOut`: the loop comes
  back to its deadline every 200 ms, and the deadline is a fixed time.  The
  waits of a worker end, each read after 120 s at most, but for one: while the
  other user thinks, its program sends a keep-alive every 5 s (receiver.rs
  322-330), and each of them lets the sender begin its read, and the 120 s, anew
  (sender.rs 161, 816-857).  So a worker in `Asking` owes nothing, and what
  should follow is stated with `AskedForEver` beside it.  The user and the Finder
  owe nothing.

## 5. Proofs

### PendingTransferProofs

For any set of transfers, any introductions that satisfy
`IntroductionsAssumption`, any names, sizes and bounds:

* `Invariance`: `Spec => []Inv`, and from it `TypeCorrect`,
  `PartsAccountedFor` (`PartsTrackReceived`), `NoPartAfterDone`
  (`DoneLeavesNoPart`);
* `SavedFilesWhole`: `SavedWhole`, and `ProgressBounded`: `ProgressWithinTotal`;
* the action properties `UserFilesSafe` (`UserFilesKept`) and `OnePartStranded`
  (`FailureStrandsOnePart`).

None of the properties is inductive alone.  `Inv` adds:

* `TablesOK`: the tables speak only of entries that `prepare` has passed, a
  worker between naming and writing a text holds a valid slot and path, and an
  entry that a BYTES payload ended is in no table;
* `PartsOK`: `PartsTrackReceived` from the offer on, and nothing counted for an
  entry not yet prepared (else `PrepareFile` would start an empty part with a
  count).

The argument is layered: `Failing` and `Committing` say what `cleanup_parts` and
a rename do to the invariant, `Moving` what a change of phase does; each action
is one of these plus its own bookkeeping.

`UserFilesKept` needs no invariant about destinations: it speaks of a step.  A
path that nobody awaits is filled by no step, as only a rename to a destination
in a table and a write to the path being named replace a file (`Waits`,
`FailedWaits`, `WriteTextKeeps`, `CommitKeeps`); and a path with a file is chosen
by none, since `unique_destination` hands out only free paths (`PrepareKeeps`,
`NameTextKeeps`).

`SavedOK` adds to `SavedWhole` that a saved file is of an entry that has left its
table.  From then on its size stays, because what counts for it (`Settled`) is
not changed any more.

`ProgressWithinTotal` is not inductive either: that a chunk fits its own file
says nothing about a total.  `Progress` keeps the whole account instead, in
which the bytes due (`Due`) include the chunks that a BYTES payload repeats.
While a transfer is received, `received` is the sum of what each entry has
counted (`Counted`), an entry that has left its table counting in full; and each
declared entry is in a table, being named, or in `completed` (`Placed`).  A
chunk adds to one term of the sum and stays below that entry's size, so the sum
stays below the total (`CreditFile`, `CreditText`), and with empty tables both
accounts are full (`FinishProgress`).

What this needs of sums is in `Sums`: they exist (`SumsExist`), are monotone
(`SumOrdered`) and grow with one term by as much (`SumGrows`).  The induction
theorems of the library cannot be instantiated here, so each of these is shown
at the least place where it could fail (`LeastNatural`, from the library's
theorem that `<` is well-founded, and `EveryPlace`).

### ReceiveServiceProofs

For any set of workers, any `MaxWorkers` and any number of restarts:
`TypeCorrect`, `ConsentRequired`, `SingleListener`, `AsksAreReachable` and
`OneAnswer`.  They follow from `Invariance`, whose invariant `Inv` adds to the
checked properties what makes them inductive:

* `ConsentOK`: an answer "accept" exists only for an offer the user clicked, so
  that `ReceivesOnlyIfAccepted` survives the step from the answer to the
  receiving.
* `ListenerOK`: only the thread of the current service lives, and once its
  `Stopped` is in the channel that thread has exited.  `OneListener` needs it
  because `start` looks at `running` and not at the thread: `running` is cleared
  by handling `Stopped`, and this is what makes that late enough.
* `OffersOK`: an offer is in one place only, the channel or the display, and it
  is unanswered there.  Without it a declined offer could be met again further
  down the channel, and `AnswersAreFinal` would not follow.

The lemmas `Sending`, `Noticing` and `Taking` say what putting a message into
the channel and taking its head do to the offers in it; each action is then one
of these plus its own change.

`PoolIsBounded` (`PoolBound`) has an invariant of its own, `PoolOK`: the vector
`workers` of a service holds all its workers that serve a connection, and has
room for one more when the loop looks for a connection.  The vector may hold
more than those: `retain` drops the workers that have finished, but they finish
at any time after it, so counting only the busy ones would not be inductive.

### SecureChannelProofs

For any frames, any limit of the sequence numbers, any `AuthKey` and any number
of disturbances of the network: `Invariance`, and from it `TypeCorrect`,
`NumbersNeverReused` (`NumbersServeOnce`), `SamePin` (`PinsAgree`) and
`FramesInOrder`, the refinement of `OrderedDelivery`.  `Inv` adds to `TypeOK`:

* `NumbersOK`: a side that is not closed has numbered exactly what it wrote, and
  has accepted as many as it decoded.  An encryption that fails on the length
  takes a number and closes: that is why "not closed".
* `OnTheWay`: a message on its way, whatever became of it, has the key of its
  author and the frame which the author's log has under its number.  Together
  with the comparison in `Genuine` the next frame decoded is the next of the log
  (`DecodedFrame`), which is the step `Get` of `OrderedDelivery`.
* `KeysOK`: nothing is written before the writer's handshake is over, so no key
  on the way changes; and a side that decoded a frame has the keys of the other,
  hence the secret and the transcript the PIN is made from.

The lemmas `ChangedMessage`, `DisturbedQueue`, `WrittenQueue` and `ReadQueue` say
what happens to `OnTheWay` in a queue; `HandshakeStep` covers all seven steps of
the handshake.  TLC had found no state of the run `sf_channel` without `Inv`.
The proof rests on the model's view of cryptography: equal keys come only from
equal terms, and a changed frame fails its HMAC.

### SharingFramesProofs

For any sharing frames, payload ids and limit of a size, and with or without a
program of another vendor on either side: `SharingInvariance`, and from it

* `ChannelUnderneath`: the two programs over the channel are a behaviour of
  `SecureChannel`, so that everything proved of the channel holds under them;
* `SharingFramesDelivered`: the refinement of `OrderedDelivery` for whole sharing
  frames.

`FramesInOrder` says which frames are read.  What is missing is where in the log
of frames a sharing frame begins and ends, since chunks, keep-alives and the
frames of other vendors come in any mixture.  `Stream` marks the log: after each
frame, how many sharing frames were begun and which frame is due before the next
may begin (`Follows`).  At the end of the log the author still has to write what
is due, or a bunch (`Pending`); at the place of the reader, the marks give what
it has told and what is in its buffers (`Reads`).  Each action moves one of the
two ends by one frame.  A sharing frame of a wrong size, or one that does not
fit, has marks as well: `Reads` says that the reader cannot complete it.
`SharingAssumption` says that sharing frames are frames and that bodies are
non-empty sequences of bytes, as a protobuf message with a type is.

### TransferSessionProofs

For any plan of chunks, any number of attempts and keep-alives, and any modes of
fault: `TypeCorrect`, `ConsentIsPerAttempt` (`CommitsOnlyIfAccepted`),
`SidesAgree` (`ScriptsAgree`), and `PromiseKept`, the refinement of
`FileDelivery` (`ImplementsFileDelivery`).  `Inv` adds to `TypeOK`:

* `SenderOK`: past its script the sender has an "accept" of this very
  connection.  The other end can go on only because of `WireOK`: an "accept" is
  on the wire only after the user's decision, and a "Disconnection" only after
  the worker's end.
* `WorkerOK`: a worker receives and commits only after the decision.
* `WireOK`: each end is closed by its own program alone, and a reset has a cause:
  a close, or the network.  That is what lets the refinement tell "the receiver
  is done" from "the connection is broken".
* `CalmOK`: with no fault, the two programs are in step.  `Talk` relates the two
  positions through what is in the queues: in the scripts, the frames between
  what was sent and what was read (`Between`); during the consent, keep-alives
  and their acknowledgements; then the plan from the last committed file on
  (`Stream`, `Flow`).  `SidesAgree` follows from it for a plan of any length, and
  the half of the refinement that says that "complete" without a fault means
  that everything was saved.

The refinement proof maps each action to a step of `FileDelivery` or a stutter.
`PlanAssumption` says that a plan is not empty and ends with the last chunk of a
file, as `send_prepared_files` makes it.

### SendPanelProofs

For any files and any number of sends: `TypeCorrect`, `NoSendIsHidden`,
`BusyMeansBusy` (`BusyUntilHeard`), `CancelIsHeard` (`CancelReachesTheWorker`),
`PinIsFresh` (`FreshPin`) and `FinderNeedNotWait` (`FinderWaitsForATransfer`).
`Inv` adds to the properties:

* `EventsOK`: the last word of a send in the channel means that its worker has
  ended, and the channel is empty when there is no sender.  `BusyUntilHeard` and
  `NoHiddenSend` need it for the poll that clears `running`.
* `FlagsOK`: a cancel flag is not raised before its send exists; otherwise a new
  code could wait with its flag up already, against `WaitingOK`.
* `WaitingOK`: a code that waits to be scanned belongs to the running send, and
  its flag is the one the window holds.
* `PinOK`: the PIN of an attempt that is asked is on display, or the last thing
  in the channel.  `FreshPin` speaks of an empty channel only, and the poll has to
  bring the right one.

### DesktopProofs

For any names, any finite number of devices and any number of launches:
`TypeCorrect`, `OneName` (`AdvertisesWhatIsShown`), `NotItsOwnNeighbour`
(`ListsOnlyLeftovers`) and the action property `SettingsComeBack`
(`RelaunchShowsWhatWasSaved`).  `Inv` adds to `TypeOK`:

* `ServiceOK`: a service belongs to the window that started it, under the name
  that is in the field.  It holds because the field is read-only while `running`,
  and `running` is cleared only by `Stopped`.
* `KeptOK`: what is known to be kept is what a reading of the file would give.
* `AdvertOK`: nothing is said of a service before it advertises itself, and while
  it runs the events still to be polled say its name only (`Heard`).  Without the
  second part an old event could list the computer under an earlier name; without
  the first, a new identifier could be in the table already.

`NotItsOwnNeighbour` has an invariant on top of it, `TableOK`, for the own
advertisements that are not made any more.  `GoneOK`: one that is gone from the
network is not listed and there is no news of it, or the last news of it is its
removal (`RemovalIsLast`); the position matters, because `PollNearby` lets the
latest event win.  `BrowserOK`: without a browser nothing is listed, which is why
an advertisement that expires between two launches leaves nothing behind.

`DefaultAssumption` says that the default name is a name that may be typed;
`NetworkAssumption` that there are finitely many devices and that a random
identifier is nobody else's.

TLC finds no state of a module's run without its `Inv`, nor without `PoolOK` and
`TableOK`; `SavedOK` and `ProgressOK` it finds in every state of two transfers
with bodies of one byte.  `SharingInv` is out of its reach: the marks of
`Stream` range over functions into sequences of frames.

### Only model-checked

Every safety property of the runs that are expected to pass is proved.  Liveness
stays with TLC, since fairness and ENABLED are beyond the prover: `StopTakesEffect`,
`AnswerTakesEffect`, `OfferIsSeen`, `BothSidesEnd`, `AcceptedIsSaved`,
`PanelComesFree`, `FinderFilesAreTaken`, `TableFollowsTheNetwork`.

## 6. Not modelled, and the plan

Not modelled: the protobuf schema, painting, translation and the build, which
have no behaviour that the other parts depend on; the mDNS daemon, the file
picker and the operating system's share sheet, which are libraries.

`not_modelled` in `PROJECT.json` also names the Finder service and the share
extension: files and Objective-C notifications that end in the `finder_files`
channel, where `SendPanel` begins.  Of the QR session, `SendPanel` has the
discovery loop, its deadline and its cancellation; the matching of the token in
an advertisement (quick_share_qr.rs 150-225) is a pure function of bytes that is
not modelled.  Of the receive service, the figures of a transfer on display and
the notifications are left out.

Next, in this order:

1. The run that states what the failure message promises about a new code.
2. The hand-over of Finder files, and the token of a QR code.
