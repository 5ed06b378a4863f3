----------------------------- MODULE SendPanel -----------------------------
(***************************************************************************)
(* The sending side of the window: the selection, the QR code, the direct    *)
(* sends and the Finder files of HirodropApp in src/bin/hirodrop-gui.rs, and *)
(* the worker thread of each send, with discover_receiver_cancelable of      *)
(* src/quick_share_qr.rs up to the detail of its cancellation.  What a       *)
(* worker says to its peer is the subject of TransferSession.               *)
(*                                                                         *)
(* The window runs on one thread.  A frame calls poll_events, then           *)
(* poll_finder_files, then lets the user act; the workers, the phone and the *)
(* Finder move at any time.  The page on display, the automatic QR setting,  *)
(* the nearby devices and the 1.8 s of maybe_auto_start_qr are left open:    *)
(* whatever they allow may happen, or not.                                  *)
(***************************************************************************)
EXTENDS Naturals, Sequences

CONSTANTS
  Files,    \* what can be selected
  Sends,    \* bound: the sends, each with a worker of its own
  NoSend

ASSUME NoSendAssumption == NoSend \notin Sends

VARIABLES
  selected,  \* selected_files
  chosen,    \* files_selected_at is set
  running,   \* send_running
  failed,    \* send_failed
  waiting,   \* qr_waiting_for_scan
  code,      \* qr_code and qr_url: the send they belong to
  pin,       \* send_pin: the send and the attempt it belongs to
  sender,    \* sender_rx: the send whose events are read
  cancel,    \* send_cancel: the send whose flag it is
  queued,    \* queued_finder_files
  at,        \* where the window's frame is: "input" or "finder"
  quitting, alive,
  finder,    \* the files in the finder_files channel
  events,    \* the channel behind sender_rx
  phase,     \* [Sends -> Phases], the place of each worker
  kind,      \* [Sends -> Kinds]
  files,     \* the worker's copy of selected_files
  tries,     \* its attempt
  cancelled  \* its cancellation flag

panel == <<selected, chosen, running, failed, waiting, code, pin, sender,
           cancel, queued>>
worker == <<phase, kind, files, tries>>
vars == <<panel, at, quitting, alive, finder, events, worker, cancelled>>

Ended == {"complete", "failed"}
Busy == {"preparing", "checking", "listening", "connecting", "asking", "sending"}
Phases == {"unborn"} \cup Busy \cup Ended
Kinds == {"none", "qr", "once", "twice"}

NoPin == [of |-> NoSend, try |-> 0]
Found == [kind |-> "found", try |-> 0]
Pin(n) == [kind |-> "pin", try |-> n]
Complete == [kind |-> "complete", try |-> 0]
Failed == [kind |-> "failed", try |-> 0]

Init ==
  /\ selected \in SUBSET Files /\ chosen = (selected # {})
  /\ running = FALSE /\ failed = FALSE /\ waiting = FALSE
  /\ code = NoSend /\ pin = NoPin /\ sender = NoSend /\ cancel = NoSend
  /\ queued = {} /\ at = "input" /\ quitting = FALSE /\ alive = TRUE
  /\ finder = {} /\ events = <<>>
  /\ phase = [s \in Sends |-> "unborn"] /\ kind = [s \in Sends |-> "none"]
  /\ files = [s \in Sends |-> {}] /\ tries = [s \in Sends |-> 1]
  /\ cancelled = [s \in Sends |-> FALSE]

--------------------------------------------------------------------------
(* The workers.                                                            *)

\* What the worker sends reaches the window only while it reads that channel.
Emit(s, e) == events' = IF s = sender THEN Append(events, e) ELSE events

Step(s, from, to) ==
  /\ alive /\ phase[s] = from
  /\ phase' = [phase EXCEPT ![s] = to]
  /\ UNCHANGED <<panel, at, quitting, alive, finder, kind, files, tries, cancelled>>

Silently(s, from, to) == Step(s, from, to) /\ UNCHANGED events

Prepare(s) ==
  IF kind[s] = "qr" THEN Silently(s, "preparing", "checking")
                    ELSE Silently(s, "preparing", "connecting")

\* The top of the discovery loop: the flag, then the deadline.
Check(s) ==
  IF cancelled[s] THEN Step(s, "checking", "failed") /\ Emit(s, Failed)
                  ELSE Silently(s, "checking", "listening")

TimeOut(s) == ~ cancelled[s] /\ Step(s, "checking", "failed") /\ Emit(s, Failed)

\* recv_timeout: nothing of use, or the endpoint that carries the code's token.
Resolve(s) ==
  \/ Silently(s, "listening", "checking")
  \/ Step(s, "listening", "connecting") /\ Emit(s, Found)

Connect(s) == Step(s, "connecting", "asking") /\ Emit(s, Pin(tries[s]))
Accepted(s) == Silently(s, "asking", "sending")
Finish(s) == Step(s, "sending", "complete") /\ Emit(s, Complete)

\* Mutant: an error that nobody is told.
FailMutant(s) == \E p \in {"preparing", "connecting", "asking", "sending"} :
                   Silently(s, p, "failed")
Fail(s) == \E p \in {"preparing", "connecting", "asking", "sending"} :
             Step(s, p, "failed") /\ Emit(s, Failed)

\* Mutant: the attempts are not counted.
RetryMutant(s) ==
  /\ alive /\ kind[s] = "twice"
  /\ phase[s] \in {"connecting", "asking", "sending"}
  /\ phase' = [phase EXCEPT ![s] = "preparing"]
  /\ tries' = [tries EXCEPT ![s] = @ + 1]
  /\ UNCHANGED <<panel, at, quitting, alive, finder, events, kind, files, cancelled>>
\* A retryable error of a direct send; prepare_files has none.
Retry(s) ==
  /\ alive /\ kind[s] = "twice" /\ tries[s] = 1
  /\ phase[s] \in {"connecting", "asking", "sending"}
  /\ phase' = [phase EXCEPT ![s] = "preparing"]
  /\ tries' = [tries EXCEPT ![s] = 2]
  /\ UNCHANGED <<panel, at, quitting, alive, finder, events, kind, files, cancelled>>

Worker(s) ==
  \/ Prepare(s) \/ Check(s) \/ TimeOut(s) \/ Resolve(s) \/ Connect(s)
  \/ Accepted(s) \/ Finish(s) \/ Fail(s) \/ Retry(s)

--------------------------------------------------------------------------
(* What the handlers of the window share.                                  *)

CanChange == ~ running \/ waiting

\* cancel_qr_waiting, called if a code waits to be scanned: the value of a field
\* after the call, and what it does to the worker and its channel.
After(field, reset) == IF waiting THEN reset ELSE field

\* Mutant: the flag is dropped without being raised.
AbandonMutant == /\ cancelled' = cancelled
                 /\ cancel' = After(cancel, NoSend)
                 /\ waiting' = FALSE
Abandon == /\ cancelled' = [s \in Sends |-> cancelled[s] \/ (waiting /\ s = cancel)]
           /\ cancel' = After(cancel, NoSend)
           /\ waiting' = FALSE

StopReading == /\ running' = After(running, FALSE)
               /\ sender' = After(sender, NoSend)
               /\ events' = After(events, <<>>)

\* Mutant: the window forgets what it shows of a transfer in progress.
AddFilesMutant(old, new, wasFailed, wasPin) ==
  /\ selected' = old \cup new
  /\ IF selected' # {}
       THEN failed' = FALSE /\ chosen' = TRUE /\ pin' = NoPin
       ELSE failed' = wasFailed /\ pin' = wasPin /\ UNCHANGED chosen
\* add_files, of what exists among the paths.
AddFiles(old, new, wasFailed, wasPin) ==
  /\ selected' = old \cup new
  /\ IF selected' # {} /\ ~ running'
       THEN failed' = FALSE /\ chosen' = TRUE /\ pin' = NoPin
       ELSE failed' = wasFailed /\ pin' = wasPin /\ UNCHANGED chosen

\* The fields and the thread of a send that starts.
Spawn(s, k) ==
  /\ selected # {} /\ phase[s] = "unborn"
  /\ phase' = [phase EXCEPT ![s] = "preparing"]
  /\ kind' = [kind EXCEPT ![s] = k]
  /\ files' = [files EXCEPT ![s] = selected]
  /\ running' = TRUE /\ failed' = FALSE /\ chosen' = FALSE /\ pin' = NoPin
  /\ sender' = s /\ events' = <<>>
  /\ UNCHANGED <<selected, queued, tries>>

--------------------------------------------------------------------------
(* The user.                                                               *)

\* Files dropped on the window, or picked while nothing is selected.
Drop == \E new \in SUBSET Files :
  /\ UNCHANGED <<running, waiting, code, sender, cancel, queued, events,
                 worker, cancelled>>
  /\ AddFiles(selected, new, failed, pin)

Edit == \E new \in SUBSET Files :
  /\ CanChange /\ selected # {}
  /\ Abandon /\ StopReading /\ code' = After(code, NoSend)
  /\ AddFiles(selected, new, After(failed, FALSE), After(pin, NoPin))
  /\ UNCHANGED <<queued, worker>>

Clear ==
  /\ CanChange /\ selected # {}
  /\ Abandon /\ StopReading /\ code' = After(code, NoSend)
  /\ selected' = {} /\ chosen' = FALSE /\ pin' = NoPin /\ failed' = FALSE
  /\ UNCHANGED <<queued, worker>>

\* Also what is left of a click on a device without an address.
CancelQr ==
  /\ waiting
  /\ Abandon /\ StopReading /\ code' = NoSend /\ pin' = NoPin /\ failed' = FALSE
  /\ UNCHANGED <<selected, chosen, queued, worker>>

BeginSend(s) ==
  /\ ~ running
  /\ Spawn(s, "qr")
  /\ cancel' = s /\ waiting' = TRUE /\ code' = s
  /\ UNCHANGED cancelled

ShowQr(s) == code = NoSend /\ BeginSend(s)
MaybeAutoStartQr(s) == chosen /\ ~ failed /\ code = NoSend /\ BeginSend(s)

BeginDirectSend(s) ==
  /\ CanChange
  /\ Abandon /\ code' = NoSend
  /\ \E k \in {"once", "twice"} : Spawn(s, k)

PrepareToQuit ==
  /\ quitting' = TRUE
  /\ cancelled' = [s \in Sends |-> cancelled[s] \/ s = cancel]
  /\ cancel' = NoSend
  /\ UNCHANGED <<selected, chosen, running, failed, waiting, code, pin, sender,
                 queued, events, worker>>

User ==
  /\ alive /\ at = "input"
  /\ \/ (Drop \/ Edit \/ Clear \/ CancelQr) /\ UNCHANGED quitting
     \/ /\ \E s \in Sends : ShowQr(s) \/ MaybeAutoStartQr(s) \/ BeginDirectSend(s)
        /\ UNCHANGED quitting
     \/ PrepareToQuit
  /\ UNCHANGED <<at, alive, finder>>

Exit == alive /\ quitting /\ alive' = FALSE
        /\ UNCHANGED <<panel, at, quitting, finder, events, worker, cancelled>>

--------------------------------------------------------------------------
(* The frame.                                                              *)

Has(k) == \E i \in 1 .. Len(events) : events[i].kind = k
IsLastPin(i) ==
  /\ events[i].kind = "pin"
  /\ \A j \in i + 1 .. Len(events) : events[j].kind # "pin"

\* Mutant: the code of a send that is over still waits to be scanned.
HeardMutant == /\ running' = (running /\ ~ Has("complete") /\ ~ Has("failed"))
               /\ waiting' = (waiting /\ ~ Has("found") /\ ~ Has("complete"))
               /\ cancel' = IF Has("complete") \/ Has("failed") THEN NoSend ELSE cancel
\* Mutant: a failure leaves the panel busy.
HeardMutant2 == /\ running' = (running /\ ~ Has("complete"))
                /\ waiting' = (waiting /\ ~ Has("found") /\ ~ Has("failed"))
                /\ cancel' = IF Has("complete") \/ Has("failed") THEN NoSend ELSE cancel
\* What the end of a send, or the end of its wait for a phone, resets.
Heard == /\ running' = (running /\ ~ Has("complete") /\ ~ Has("failed"))
         /\ waiting' = (waiting /\ ~ Has("found") /\ ~ Has("complete") /\ ~ Has("failed"))
         /\ cancel' = IF Has("complete") \/ Has("failed") THEN NoSend ELSE cancel

\* poll_events drains the channel before it handles what it found.
PollEvents ==
  /\ alive /\ at = "input" /\ at' = "finder"
  /\ events' = <<>>
  /\ Heard
  /\ failed' = (failed \/ Has("failed"))
  /\ code' = IF Has("complete") THEN NoSend ELSE code
  /\ \/ ~ Has("pin") /\ UNCHANGED pin
     \/ \E i \in 1 .. Len(events) :
          IsLastPin(i) /\ pin' = [of |-> sender, try |-> events[i].try]
  /\ UNCHANGED <<selected, chosen, sender, queued, quitting, alive, finder,
                 worker, cancelled>>

\* Mutant: the queue is looked at only when something arrives.
TakeFinderMutant ==
  IF finder = {} \/ (running /\ ~ waiting)
    THEN /\ queued' = queued \cup finder
         /\ UNCHANGED <<selected, chosen, running, failed, waiting, code, pin,
                        sender, cancel, events, cancelled>>
    ELSE /\ Abandon /\ StopReading
         /\ code' = NoSend /\ queued' = {}
         /\ \E new \in SUBSET (queued \cup finder) :
              AddFiles({}, new, After(failed, FALSE), NoPin)
\* Mutant: a code that waits for a phone is left alone.
TakeFinderMutant2 ==
  IF queued \cup finder = {} \/ running
    THEN /\ queued' = queued \cup finder
         /\ UNCHANGED <<selected, chosen, running, failed, waiting, code, pin,
                        sender, cancel, events, cancelled>>
    ELSE /\ Abandon /\ StopReading
         /\ code' = NoSend /\ queued' = {}
         /\ \E new \in SUBSET (queued \cup finder) :
              AddFiles({}, new, After(failed, FALSE), NoPin)
\* A transfer in progress keeps the files waiting; otherwise they replace the
\* selection, and a code that nobody scanned gives way to them.
TakeFinder ==
  IF queued \cup finder = {} \/ (running /\ ~ waiting)
    THEN /\ queued' = queued \cup finder
         /\ UNCHANGED <<selected, chosen, running, failed, waiting, code, pin,
                        sender, cancel, events, cancelled>>
    ELSE /\ Abandon /\ StopReading
         /\ code' = NoSend /\ queued' = {}
         /\ \E new \in SUBSET (queued \cup finder) :
              AddFiles({}, new, After(failed, FALSE), NoPin)

PollFinderFiles ==
  /\ alive /\ at = "finder" /\ at' = "input"
  /\ TakeFinder
  /\ finder' = {}
  /\ UNCHANGED <<quitting, alive, worker>>

OpenInFinder == \E new \in SUBSET Files :
  /\ alive /\ finder' = finder \cup new
  /\ UNCHANGED <<panel, at, quitting, alive, events, worker, cancelled>>

Next ==
  \/ PollEvents \/ PollFinderFiles \/ User \/ OpenInFinder \/ Exit
  \/ \E s \in Sends : Worker(s)

\* The peer has its user's answer to give, and may never give it: every 5 s it
\* sends a keep-alive, which starts the read timeout of 120 s again.
Asking(s) == phase[s] = "asking"

\* The window repaints every 100 ms; threads run; a deadline passes; outside
\* the wait for the answer a peer goes on or its connection ends.
Fairness ==
  /\ WF_vars(PollEvents) /\ WF_vars(PollFinderFiles)
  /\ \A s \in Sends : WF_vars(~ Asking(s) /\ Worker(s)) /\ SF_vars(TimeOut(s))

Spec == Init /\ [][Next]_vars
FairSpec == Spec /\ Fairness

--------------------------------------------------------------------------
(* Properties.                                                             *)

TypeOK ==
  /\ selected \subseteq Files /\ queued \subseteq Files /\ finder \subseteq Files
  /\ chosen \in BOOLEAN /\ running \in BOOLEAN /\ failed \in BOOLEAN
  /\ waiting \in BOOLEAN /\ quitting \in BOOLEAN /\ alive \in BOOLEAN
  /\ code \in Sends \cup {NoSend} /\ sender \in Sends \cup {NoSend}
  /\ cancel \in Sends \cup {NoSend}
  /\ pin \in [of : Sends \cup {NoSend}, try : 0 .. 2]
  /\ at \in {"input", "finder"}
  /\ events \in Seq({Found, Pin(1), Pin(2), Complete, Failed})
  /\ phase \in [Sends -> Phases] /\ kind \in [Sends -> Kinds]
  /\ files \in [Sends -> SUBSET Files] /\ tries \in [Sends -> 1 .. 2]
  /\ cancelled \in [Sends -> BOOLEAN]

\* A worker runs behind the user's back only if it was told to stop: every other
\* one is the send that the panel shows as running (begin_send,
\* begin_direct_send, cancel_qr_waiting, poll_events).
NoHiddenSend ==
  \A s \in Sends :
    phase[s] \in Busy /\ ~ cancelled[s] => running /\ s = sender

\* The panel is busy only while a worker is, or has just said how it ended
\* (send_running against the events of poll_events).
BusyUntilHeard ==
  running => /\ sender \in Sends
             /\ phase[sender] \in Busy \/ Has("complete") \/ Has("failed")

\* While the panel offers to cancel the code, the flag it would raise is that of
\* the worker whose code is on display (qr_waiting_for_scan, send_cancel,
\* qr_code, sender_rx).
CancelReachesTheWorker ==
  waiting /\ ~ quitting =>
    /\ running /\ cancel = sender /\ code = sender
    /\ sender \in Sends /\ kind[sender] = "qr" /\ ~ cancelled[sender]

\* While the peer is asked, and the window has caught up, the PIN to compare is
\* that of the attempt the peer sees, also after a retry, and whatever is
\* selected or opened meanwhile (send_pin; README.md:43 has the user compare).
FreshPin ==
  \A s \in Sends :
    running /\ s = sender /\ phase[s] = "asking" /\ events = <<>> =>
      pin = [of |-> s, try |-> tries[s]]

\* Finder files wait for a transfer, never for a code that nobody scanned, and
\* never with the panel idle (poll_events before poll_finder_files).
FinderWaitsForATransfer ==
  at = "input" /\ queued # {} => running /\ ~ waiting

\* The send on display waits for its peer's answer for ever.
AskedForEver ==
  \E s \in Sends : [](running /\ sender = s /\ Asking(s))

\* Every send ends for the user, scanned, cancelled or not, unless its peer
\* never answers the prompt: nothing else holds the panel for ever (the deadline
\* of discover_receiver_cancelable, the Failed event).
PanelComesFree == running ~> (~ running \/ ~ alive \/ AskedForEver)

\* What the user opened in the Finder stays in the queue for ever only behind a
\* send whose peer never answers (poll_finder_files).
FinderFilesAreTaken ==
  \A f \in Files :
    f \in finder \cup queued
      ~> (f \notin finder \cup queued \/ ~ alive \/ AskedForEver)

\* The inductive invariant.  The sender's events end with the end of the send,
\* and none is read from a worker that never was.
EventsOK ==
  /\ sender = NoSend => events = <<>>
  /\ sender \in Sends => phase[sender] # "unborn"
  /\ Has("complete") \/ Has("failed") =>
       sender \in Sends /\ phase[sender] \in Ended

\* A flag is raised only for a worker that exists.
FlagsOK ==
  /\ cancel \in Sends => phase[cancel] # "unborn"
  /\ \A s \in Sends : phase[s] = "unborn" => ~ cancelled[s]

\* A code that waits belongs to the running send.  Quitting raises the flag
\* at once and keeps the code on display.
WaitingOK ==
  waiting =>
    /\ running /\ sender \in Sends /\ code = sender /\ kind[sender] = "qr"
    /\ cancel = sender \/ cancelled[sender]
    /\ ~ quitting => cancel = sender /\ ~ cancelled[sender]

\* The PIN of the attempt that is asked is on display, or the last thing that
\* the worker said.
PinOK ==
  running /\ sender \in Sends /\ phase[sender] = "asking" =>
    IF events = <<>> THEN pin = [of |-> sender, try |-> tries[sender]]
                     ELSE events[Len(events)] = Pin(tries[sender])

Inv == /\ TypeOK /\ NoHiddenSend /\ BusyUntilHeard /\ FinderWaitsForATransfer
       /\ EventsOK /\ FlagsOK /\ WaitingOK /\ PinOK

============================================================================
