--------------------------- MODULE ReceiveService ---------------------------
(***************************************************************************)
(* The receive side of the desktop application: the GUI thread of            *)
(* src/bin/hirodrop-gui.rs (start, stop, poll_events, the decision buttons,  *)
(* quit), the receive_service thread it spawns, and the worker thread per    *)
(* connection.  The threads share a stop flag and an mpsc channel of         *)
(* ServiceEvents per service, and a one-shot reply channel per offer.        *)
(*                                                                         *)
(* What a worker does once accepted is the module PendingTransfer; the wire *)
(* protocol is abstracted to the ways a connection can end.                  *)
(***************************************************************************)
EXTENDS Naturals, Sequences, FiniteSets

CONSTANTS
  Workers,      \* connections that may arrive, each served by one worker
  NoWorker,     \* no worker
  MaxWorkers,   \* MAX_CONNECTION_WORKERS
  MaxServices,  \* bound: how often the user starts the service
  MaxFailures   \* bound: messages in the channel up to which accept may fail

ASSUME NoWorkerAssumption == NoWorker \notin Workers
ASSUME MaxWorkersAssumption ==
  MaxWorkers \in Nat \ {0} /\ MaxServices \in Nat /\ MaxFailures \in Nat

Services == 1 .. MaxServices

VARIABLES
  running,    \* HirodropApp.running
  service,    \* the service whose channel event_rx is; 0 before the first
  pending,    \* HirodropApp.pending: the worker whose offer is shown
  polling,    \* events of the batch poll_events still has to handle
  quitting,   \* HirodropApp.quitting
  alive,      \* the process has not exited
  events,     \* the channel behind event_rx
  thread,     \* [Services -> Threads], where receive_service is
  stop,       \* [Services -> BOOLEAN], the shared stop flag
  handles,    \* [Services -> SUBSET Workers], the workers vector
  phase,      \* [Workers -> Phases]
  home,       \* the service that accepted the connection
  reply,      \* the one-shot channel of the worker's offer
  clicked,    \* history: the offers the user accepted with the button
  outcome     \* history: how the worker ended, and whether it said so

gui == <<running, service, pending, polling, quitting>>
vars == <<gui, alive, events, thread, stop, handles, phase, home, reply,
          clicked, outcome>>

Threads == {"absent", "starting", "loop", "admitting", "exited"}
Phases == {"unborn", "handshake", "asking", "receiving", "ended"}
Replies == {"open", "accept", "reject", "dropped"}
Outcomes == {"none", "complete", "rejected", "error", "silent", "killed"}

Listening == [kind |-> "Listening", of |-> NoWorker]
Error     == [kind |-> "Error",     of |-> NoWorker]
Stopped   == [kind |-> "Stopped",   of |-> NoWorker]
Offer(w)    == [kind |-> "Offer",    of |-> w]
Complete(w) == [kind |-> "Complete", of |-> w]

\* events.send: a message to a receiver that start() replaced is dropped.
Send(g, batch) == events' = IF g = service THEN events \o batch ELSE events

\* The offers in a sequence of events; dropping one drops its reply sender.
Offered(batch) == {w \in Workers : \E i \in 1 .. Len(batch) : batch[i] = Offer(w)}

Init ==
  /\ running = FALSE /\ service = 0 /\ pending = NoWorker /\ polling = 0
  /\ quitting = FALSE /\ alive = TRUE
  /\ events = <<>>
  /\ thread = [g \in Services |-> "absent"]
  /\ stop = [g \in Services |-> FALSE]
  /\ handles = [g \in Services |-> {}]
  /\ phase = [w \in Workers |-> "unborn"]
  /\ home = [w \in Workers |-> 0]
  /\ reply = [w \in Workers |-> "open"]
  /\ clicked = {}
  /\ outcome = [w \in Workers |-> "none"]

--------------------------------------------------------------------------
(* The service thread.                                                     *)

\* bind, port and advertise; any of them may fail.
StartService(g) ==
  /\ alive /\ thread[g] = "starting"
  /\ \/ /\ thread' = [thread EXCEPT ![g] = "loop"]
        /\ Send(g, <<Listening>>)
     \/ /\ thread' = [thread EXCEPT ![g] = "exited"]
        /\ Send(g, <<Error, Stopped>>)
  /\ UNCHANGED <<gui, alive, stop, handles, phase, home, reply, clicked, outcome>>

\* Mutant: one worker too many.
LoopTopMutant(g) ==
  /\ alive /\ thread[g] = "loop" /\ ~ stop[g]
  /\ handles' = [handles EXCEPT ![g] = {w \in @ : phase[w] # "ended"}]
  /\ Cardinality(handles'[g]) <= MaxWorkers
  /\ thread' = [thread EXCEPT ![g] = "admitting"]
  /\ UNCHANGED <<gui, alive, events, stop, phase, home, reply, clicked, outcome>>

\* The top of the accept loop: the flag, the reaping, the pool limit.
LoopTop(g) ==
  /\ alive /\ thread[g] = "loop" /\ ~ stop[g]
  /\ handles' = [handles EXCEPT ![g] = {w \in @ : phase[w] # "ended"}]
  /\ Cardinality(handles'[g]) < MaxWorkers
  /\ thread' = [thread EXCEPT ![g] = "admitting"]
  /\ UNCHANGED <<gui, alive, events, stop, phase, home, reply, clicked, outcome>>

\* try_accept found a connection.
Admit(g, w) ==
  /\ alive /\ thread[g] = "admitting" /\ phase[w] = "unborn"
  /\ thread' = [thread EXCEPT ![g] = "loop"]
  /\ handles' = [handles EXCEPT ![g] = @ \cup {w}]
  /\ phase' = [phase EXCEPT ![w] = "handshake"]
  /\ home' = [home EXCEPT ![w] = g]
  /\ UNCHANGED <<gui, alive, events, stop, reply, clicked, outcome>>

\* No connection was waiting, or accept failed: the window is told, and the
\* loop goes on.
AdmitNone(g) ==
  /\ alive /\ thread[g] = "admitting"
  /\ thread' = [thread EXCEPT ![g] = "loop"]
  /\ \/ UNCHANGED events
     \/ Len(events) < MaxFailures /\ Send(g, <<Error>>)
  /\ UNCHANGED <<gui, alive, stop, handles, phase, home, reply, clicked, outcome>>

\* Mutant: the loop ends without telling the GUI.
ExitServiceMutant(g) ==
  /\ alive /\ thread[g] = "loop" /\ stop[g]
  /\ thread' = [thread EXCEPT ![g] = "exited"]
  /\ UNCHANGED <<gui, alive, events, stop, handles, phase, home, reply, clicked,
                 outcome>>

\* The flag was set: the workers are left to themselves.
ExitService(g) ==
  /\ alive /\ thread[g] = "loop" /\ stop[g]
  /\ thread' = [thread EXCEPT ![g] = "exited"]
  /\ Send(g, <<Stopped>>)
  /\ UNCHANGED <<gui, alive, stop, handles, phase, home, reply, clicked, outcome>>

--------------------------------------------------------------------------
(* The workers.                                                            *)

\* The worker ends with result how; notice is what it sends to the GUI.
End(w, how, notice) ==
  /\ phase' = [phase EXCEPT ![w] = "ended"]
  /\ outcome' = [outcome EXCEPT ![w] = how]
  /\ Send(home[w], notice)

\* is_benign_probe_disconnect keeps a lost connection quiet, at any stage.
Lose(w) == End(w, "silent", <<>>)
Fail(w) == End(w, "error", <<Error>>)

\* A probe, a lost or a refused connection before the introduction.
HandshakeFails(w) ==
  /\ alive /\ phase[w] = "handshake"
  /\ Lose(w) \/ Fail(w)
  /\ UNCHANGED <<gui, alive, thread, stop, handles, home, reply, clicked>>

\* Mutant: a dropped offer leaves its reply channel open.
AskMutant(w) ==
  /\ alive /\ phase[w] = "handshake"
  /\ phase' = [phase EXCEPT ![w] = "asking"]
  /\ Send(home[w], <<Offer(w)>>)
  /\ UNCHANGED <<gui, alive, thread, stop, handles, home, reply, clicked, outcome>>

\* The introduction is read: the consent closure sends the offer once.
Ask(w) ==
  /\ alive /\ phase[w] = "handshake"
  /\ phase' = [phase EXCEPT ![w] = "asking"]
  /\ Send(home[w], <<Offer(w)>>)
  /\ reply' = IF home[w] = service THEN reply
              ELSE [reply EXCEPT ![w] = "dropped"]
  /\ UNCHANGED <<gui, alive, thread, stop, handles, home, clicked, outcome>>

\* The connection ends or fails before the worker has seen a decision; the
\* user may have decided since the worker last looked.
GoneWhileAsking(w) ==
  /\ alive /\ phase[w] = "asking"
  /\ Lose(w) \/ Fail(w)
  /\ UNCHANGED <<gui, alive, thread, stop, handles, home, reply, clicked>>

\* Mutant: a dropped sender reads as consent.
ConsentsMutant(w) == reply[w] \in {"accept", "dropped"}
Consents(w) == reply[w] = "accept"

\* Mutant: a dropped sender reads as no decision yet.
RefusesMutant(w) == reply[w] = "reject"
Refuses(w) == reply[w] \in {"reject", "dropped"}

\* try_recv has a decision, or finds the sender dropped.
TakeDecision(w) ==
  /\ alive /\ phase[w] = "asking"
  /\ \/ /\ Consents(w)
        /\ phase' = [phase EXCEPT ![w] = "receiving"]
        /\ UNCHANGED <<events, outcome>>
     \/ /\ Refuses(w)
        /\ End(w, "rejected", <<>>) \/ Lose(w) \/ Fail(w)
  /\ UNCHANGED <<gui, alive, thread, stop, handles, home, reply, clicked>>

\* prepare, receive_all and the final Disconnection.
Transfer(w) ==
  /\ alive /\ phase[w] = "receiving"
  /\ End(w, "complete", <<Complete(w)>>) \/ Lose(w) \/ Fail(w)
  /\ UNCHANGED <<gui, alive, thread, stop, handles, home, reply, clicked>>

--------------------------------------------------------------------------
(* The GUI thread: a frame polls a batch of events, then the user acts.    *)

\* start(), from the button or at launch; the old event_rx is dropped.
Start ==
  /\ alive /\ ~ quitting /\ polling = 0
  /\ ~ running /\ pending = NoWorker /\ service < MaxServices
  /\ service' = service + 1
  /\ running' = TRUE
  /\ thread' = [thread EXCEPT ![service + 1] = "starting"]
  /\ reply' = [w \in Workers |-> IF w \in Offered(events) THEN "dropped"
                                 ELSE reply[w]]
  /\ events' = <<>>
  /\ UNCHANGED <<pending, polling, quitting, alive, stop, handles, phase, home,
                 clicked, outcome>>

\* The stop flag of the current service, if self.stop still holds it, and the
\* refusal of the offer on display.
RaiseStop ==
  /\ stop' = IF running THEN [stop EXCEPT ![service] = TRUE] ELSE stop
  /\ reply' = IF pending = NoWorker THEN reply
              ELSE [reply EXCEPT ![pending] = "reject"]
  /\ pending' = NoWorker

\* Mutant: the GUI does not wait for the thread to say that it stopped.
StopMutant ==
  /\ alive /\ ~ quitting /\ polling = 0 /\ running
  /\ RaiseStop
  /\ running' = FALSE
  /\ UNCHANGED <<service, polling, quitting, alive, events, thread,
                 handles, phase, home, clicked, outcome>>

Stop ==
  /\ alive /\ ~ quitting /\ polling = 0 /\ running
  /\ RaiseStop
  /\ UNCHANGED <<running, service, polling, quitting, alive, events, thread,
                 handles, phase, home, clicked, outcome>>

\* The accept and the decline button of the prompt.
Decide(accepted) ==
  /\ alive /\ ~ quitting /\ polling = 0 /\ pending # NoWorker
  /\ reply' = [reply EXCEPT ![pending] = IF accepted THEN "accept" ELSE "reject"]
  /\ clicked' = IF accepted THEN clicked \cup {pending} ELSE clicked
  /\ pending' = NoWorker
  /\ UNCHANGED <<running, service, polling, quitting, alive, events, thread,
                 stop, handles, phase, home, outcome>>

\* Mutant: the batch is one longer than the channel.
PollMutant ==
  /\ alive /\ polling = 0 /\ events # <<>>
  /\ polling' = Len(events) + 1
  /\ UNCHANGED <<running, service, pending, quitting, alive, events, thread,
                 stop, handles, phase, home, reply, clicked, outcome>>

\* poll_events first drains what is in the channel ...
Poll ==
  /\ alive /\ polling = 0 /\ events # <<>>
  /\ polling' = Len(events)
  /\ UNCHANGED <<running, service, pending, quitting, alive, events, thread,
                 stop, handles, phase, home, reply, clicked, outcome>>

\* ... and then handles the batch event by event.
NextEvent(kind) ==
  /\ alive /\ polling > 0 /\ Head(events).kind = kind
  /\ events' = Tail(events)
  /\ polling' = polling - 1

HandleNotice ==
  /\ \E kind \in {"Listening", "Complete", "Error"} : NextEvent(kind)
  /\ UNCHANGED <<running, service, pending, quitting, alive, thread, stop,
                 handles, phase, home, reply, clicked, outcome>>

ShowOffer ==
  /\ NextEvent("Offer") /\ pending = NoWorker
  /\ pending' = Head(events).of
  /\ UNCHANGED <<running, service, quitting, alive, thread, stop, handles,
                 phase, home, reply, clicked, outcome>>

\* Mutants: the offer on display is refused instead of the new one; the new
\* one is put aside without an answer.
DeclineBusyMutant ==
  /\ NextEvent("Offer") /\ pending # NoWorker
  /\ reply' = [reply EXCEPT ![pending] = "reject"]
  /\ UNCHANGED <<running, service, pending, quitting, alive, thread, stop,
                 handles, phase, home, clicked, outcome>>
DeclineBusySilently ==
  /\ NextEvent("Offer") /\ pending # NoWorker
  /\ UNCHANGED <<running, service, pending, quitting, alive, thread, stop,
                 handles, phase, home, reply, clicked, outcome>>

DeclineBusy ==
  /\ NextEvent("Offer") /\ pending # NoWorker
  /\ reply' = [reply EXCEPT ![Head(events).of] = "reject"]
  /\ UNCHANGED <<running, service, pending, quitting, alive, thread, stop,
                 handles, phase, home, clicked, outcome>>

\* Stopped: pending is dropped, and with it the reply sender.
HandleStopped ==
  /\ NextEvent("Stopped")
  /\ running' = FALSE
  /\ reply' = IF pending = NoWorker THEN reply
              ELSE [reply EXCEPT ![pending] = "dropped"]
  /\ pending' = NoWorker
  /\ UNCHANGED <<service, quitting, alive, thread, stop, handles, phase, home,
                 clicked, outcome>>

PrepareToQuit ==
  /\ alive /\ ~ quitting /\ polling = 0
  /\ quitting' = TRUE
  /\ RaiseStop
  /\ UNCHANGED <<running, service, polling, alive, events, thread, handles,
                 phase, home, clicked, outcome>>

\* The process exits and takes every thread with it.
Exit ==
  /\ alive /\ quitting /\ polling = 0
  /\ alive' = FALSE
  /\ phase' = [w \in Workers |-> IF phase[w] = "unborn" THEN "unborn" ELSE "ended"]
  /\ outcome' = [w \in Workers |->
       IF phase[w] \in {"handshake", "asking", "receiving"} THEN "killed"
       ELSE outcome[w]]
  /\ UNCHANGED <<gui, events, thread, stop, handles, home, reply, clicked>>

--------------------------------------------------------------------------
ServiceStep(g) == \/ StartService(g) \/ LoopTop(g) \/ AdmitNone(g)
                  \/ ExitService(g)
                  \/ \E w \in Workers : Admit(g, w)
WorkerStep(w) == \/ HandshakeFails(w) \/ Ask(w) \/ GoneWhileAsking(w)
                 \/ TakeDecision(w) \/ Transfer(w)
HandleEvent == HandleNotice \/ ShowOffer \/ DeclineBusy \/ HandleStopped
UserStep == \/ Start \/ Stop \/ PrepareToQuit
            \/ \E accepted \in BOOLEAN : Decide(accepted)

Next ==
  \/ \E g \in Services : ServiceStep(g)
  \/ \E w \in Workers : WorkerStep(w)
  \/ Poll \/ HandleEvent
  \/ UserStep
  \/ Exit

Spec == Init /\ [][Next]_vars

\* A thread that can run runs: the service loop and the workers are threads
\* with sleeps of at most 100 ms, the GUI repaints every 100 ms.  The user and
\* the peer owe nothing, so Ask, Transfer and the buttons have no fairness.
Fairness ==
  /\ \A g \in Services : /\ WF_vars(StartService(g))
                         /\ WF_vars(AdmitNone(g))
                         /\ WF_vars(ExitService(g))
  /\ \A w \in Workers : WF_vars(TakeDecision(w))
  /\ WF_vars(Poll) /\ WF_vars(HandleEvent)

FairSpec == Spec /\ Fairness

--------------------------------------------------------------------------
(* Properties.                                                             *)

Messages == {Listening, Error, Stopped} \cup {Offer(w) : w \in Workers}
                                        \cup {Complete(w) : w \in Workers}

\* Every variable has the shape its declaration says, and a batch is never
\* longer than what is in the channel.
TypeOK ==
  /\ running \in BOOLEAN /\ quitting \in BOOLEAN /\ alive \in BOOLEAN
  /\ service \in 0 .. MaxServices
  /\ pending \in Workers \cup {NoWorker}
  /\ polling \in 0 .. Len(events)
  /\ events \in Seq(Messages)
  /\ thread \in [Services -> Threads]
  /\ stop \in [Services -> BOOLEAN]
  /\ handles \in [Services -> SUBSET Workers]
  /\ phase \in [Workers -> Phases]
  /\ home \in [Workers -> 0 .. MaxServices]
  /\ reply \in [Workers -> Replies]
  /\ clicked \subseteq Workers
  /\ outcome \in [Workers -> Outcomes]

\* README.md:85: files are written only after the user accepted that very
\* offer.  No refusal, drop, stop or restart reads as an accept.
ReceivesOnlyIfAccepted ==
  \A w \in Workers :
    phase[w] = "receiving" \/ outcome[w] = "complete" => w \in clicked

\* No worker waits for an answer that nobody can give: while it asks without
\* an answer its offer is on display or on its way to the GUI.
EveryAskIsReachable ==
  alive => \A w \in Workers :
    phase[w] = "asking" /\ reply[w] = "open" =>
      pending = w \/ w \in Offered(events)

\* At most one service accepts connections: a restart waits for the thread of
\* the service before to be gone.
OneListener ==
  \A g, h \in Services :
    thread[g] \notin {"absent", "exited"} /\ thread[h] \notin {"absent", "exited"}
      => g = h

Serving(g) == {w \in Workers : home[w] = g /\ phase[w] \notin {"unborn", "ended"}}

\* A service never has more than MAX_CONNECTION_WORKERS connections at work.
PoolBound == \A g \in Services : Cardinality(Serving(g)) <= MaxWorkers

\* An offer is answered once: no later event changes the answer.
AnswersAreFinal ==
  [][\A w \in Workers : reply[w] # "open" => reply'[w] = reply[w]]_vars

\* Once the user stops a service, its end reaches the GUI, so that the service
\* can be started again.
StopTakesEffect ==
  \A g \in Services : stop[g] ~> ~ alive \/ ~ running \/ service # g

\* A decision reaches the worker it is for.
AnswerTakesEffect ==
  \A w \in Workers :
    phase[w] = "asking" /\ reply[w] # "open" ~> ~ alive \/ phase[w] # "asking"

\* An offer is shown to the user or answered without him; none is forgotten.
OfferIsSeen ==
  \A w \in Workers : phase[w] = "asking" ~>
    ~ alive \/ pending = w \/ reply[w] # "open" \/ phase[w] # "asking"

\* hirodrop-gui.rs:2450: a request is declined as "simultaneous" because
\* "another confirmation is pending".
BusyRejectionHasARival ==
  [][pending # NoWorker /\ polling > 0 /\ Head(events).kind = "Offer"
       /\ polling' < polling
     => phase[pending] = "asking"]_vars

\* quick_share_receiver.rs:102: probes that close at once are kept out of the
\* failure log "while retaining real protocol errors".  A transfer the user
\* accepted does not end without a word to him.
TransferEndIsReported ==
  [][\A w \in Workers :
       phase[w] = "receiving" /\ phase'[w] = "ended" /\ alive' =>
         outcome'[w] \in {"complete", "error"}]_vars

--------------------------------------------------------------------------
(* What makes the safety properties above inductive.                       *)

\* An accept in a reply channel comes from the button.
ConsentOK ==
  \A w \in Workers : /\ reply[w] = "accept" => w \in clicked
                     /\ phase[w] = "receiving" => w \in clicked
                     /\ outcome[w] = "complete" => w \in clicked

\* Only the current service's thread may be alive, and it is gone when the GUI
\* has heard, or is about to hear, that it stopped.
ListenerOK ==
  /\ \A g \in Services : /\ g > service => thread[g] = "absent"
                         /\ g < service => thread[g] = "exited"
                         /\ g = service /\ ~ running => thread[g] = "exited"
  /\ \A i \in 1 .. Len(events) :
       events[i] = Stopped => service \in Services /\ thread[service] = "exited"

\* An offer is in one place at a time and unanswered there; before it is made
\* it is nowhere, and while its worker waits it is somewhere.
OffersOK ==
  \A w \in Workers :
    /\ phase[w] \in {"unborn", "handshake"} =>
         w \notin Offered(events) /\ pending # w /\ reply[w] = "open"
    /\ w \in Offered(events) => reply[w] = "open" /\ pending # w
    /\ pending = w => reply[w] = "open"
    /\ \A i, j \in 1 .. Len(events) :
         events[i] = Offer(w) /\ events[j] = Offer(w) => i = j

\* The inductive invariant.
Inv ==
  /\ TypeOK
  /\ ConsentOK
  /\ ListenerOK
  /\ OffersOK
  /\ EveryAskIsReachable

============================================================================
