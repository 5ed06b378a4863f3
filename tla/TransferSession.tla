-------------------------- MODULE TransferSession --------------------------
(***************************************************************************)
(* One direct send of HiRodrop to HiRodrop over TCP: send_prepared_files of  *)
(* src/quick_share_sender.rs with the retry loop of begin_direct_send, and   *)
(* receive_connection of src/quick_share_receiver.rs, one worker for each    *)
(* connection the sender makes.                                             *)
(*                                                                         *)
(* Each direction of a connection is a FIFO queue of frames; a sharing frame *)
(* (two payload chunks on the wire) is one frame here.  Closing an end that  *)
(* has unread input, or writing to an end that is closed, resets the         *)
(* connection, and a reset may lose what is still in flight.                 *)
(***************************************************************************)
EXTENDS Naturals, Sequences, FiniteSets

CONSTANTS
  MaxAttempts,   \* 2 with retry_failed_once, else 1
  Plan,          \* the payload frames of the selection: "data" and "last"
  MaxBeats,      \* bound: keep-alives per connection
  FaultModes     \* what may go wrong in a behaviour: sets of Faults

\* "late": a read times out on a peer that is merely slow.  "cut": the network
\* breaks a connection.  "io": reading a source or writing a file fails, and a
\* source file changes after it was offered.
Faults == {"late", "cut", "io"}

Attempts == 1 .. MaxAttempts
Files == Cardinality({i \in 1 .. Len(Plan) : Plan[i] = "last"})

ASSUME PlanAssumption ==
  /\ Plan \in Seq({"data", "last"}) /\ Plan # <<>> /\ Plan[Len(Plan)] = "last"
  /\ MaxAttempts \in Nat \ {0} /\ MaxBeats \in Nat
  /\ FaultModes \subseteq SUBSET Faults

VARIABLES
  attempt,   \* the connection the sender is using
  sender,    \* the sender's place: see SenderPlaces
  at,        \* its position in the script, and then in Plan
  why,       \* the class of its last error
  receiver,  \* [Attempts -> ReceiverPlaces], the worker of each connection
  rat,       \* its position in the script
  decision,  \* what its user decided
  committed, \* how many files it has renamed to their final paths
  beats,     \* keep-alives it has sent
  toR, toS,  \* the frames in flight
  shut,      \* [Attempts -> SUBSET {"S", "R"}], the ends that are closed
  reset,     \* the connection was reset or cut
  cut,       \* it was cut by the network; the programs cannot tell
  faults     \* what may go wrong in this behaviour; it never changes

session == <<attempt, sender, at, why>>
worker == <<receiver, rat, decision, committed, beats>>
wire == <<toR, toS, shut, reset>>
vars == <<session, worker, wire, cut, faults>>

Timeouts == "late" \in faults
Cuts == "cut" \in faults
IOFaults == "io" \in faults

SenderPlaces == {"script", "check", "send", "finalize", "confirm",
                 "complete", "failed"}
ReceiverPlaces == {"idle", "script", "consent", "receiving",
                   "saved", "rejected", "failed"}
Errors == {"none", "io", "protocol", "rejected"}

Send(m) == <<"send", m>>
Recv(m) == <<"recv", m>>

\* What each side sends and reads up to the introduction, in order.
SenderScript ==
  <<Send("ConnectionRequest"), Send("ClientInit"), Recv("ServerInit"),
    Send("ClientFinish"), Send("Accepted"), Recv("Accepted"),
    Send("PairedKeyEncryption"), Recv("PairedKeyEncryption"),
    Send("PairedKeyResult"), Recv("PairedKeyResult"), Send("Introduction")>>
\* Mutant: the secure channel is used before the connection is confirmed.
ReceiverScriptMutant ==
  <<Recv("ConnectionRequest"), Recv("ClientInit"), Send("ServerInit"),
    Recv("ClientFinish"), Recv("Accepted"), Send("PairedKeyEncryption"),
    Send("Accepted"), Recv("PairedKeyEncryption"),
    Send("PairedKeyResult"), Recv("PairedKeyResult"), Recv("Introduction")>>
ReceiverScript ==
  <<Recv("ConnectionRequest"), Recv("ClientInit"), Send("ServerInit"),
    Recv("ClientFinish"), Recv("Accepted"), Send("Accepted"),
    Send("PairedKeyEncryption"), Recv("PairedKeyEncryption"),
    Send("PairedKeyResult"), Recv("PairedKeyResult"), Recv("Introduction")>>

Init ==
  /\ attempt = 1 /\ sender = "script" /\ at = 1 /\ why = "none"
  /\ receiver = [a \in Attempts |-> "idle"]
  /\ rat = [a \in Attempts |-> 1]
  /\ decision = [a \in Attempts |-> "none"]
  /\ committed = [a \in Attempts |-> 0]
  /\ beats = [a \in Attempts |-> 0]
  /\ toR = [a \in Attempts |-> <<>>] /\ toS = [a \in Attempts |-> <<>>]
  /\ shut = [a \in Attempts |-> {}]
  /\ reset = [a \in Attempts |-> FALSE]
  /\ cut = [a \in Attempts |-> FALSE]
  /\ faults \in FaultModes

--------------------------------------------------------------------------
(* The connection.                                                         *)

Prefixes(q) == {SubSeq(q, 1, n) : n \in 0 .. Len(q)}

\* One end writes m and closes, with unread still in its buffer.  Unread input
\* turns the close into a reset, and the peer may lose what is in flight to it.
CloseS(a, unread) ==
  /\ shut' = [shut EXCEPT ![a] = @ \cup {"S"}]
  /\ toS' = [toS EXCEPT ![a] = <<>>]
  /\ IF unread = <<>>
       THEN UNCHANGED <<toR, reset>>
       ELSE /\ reset' = [reset EXCEPT ![a] = TRUE]
            /\ \E q \in Prefixes(toR[a]) : toR' = [toR EXCEPT ![a] = q]

CloseR(a, m, unread) ==
  LET sent == IF "S" \in shut[a] \/ reset[a] THEN toS[a] ELSE toS[a] \o m IN
  /\ shut' = [shut EXCEPT ![a] = @ \cup {"R"}]
  /\ toR' = [toR EXCEPT ![a] = <<>>]
  /\ IF unread = <<>>
       THEN /\ UNCHANGED reset
            /\ toS' = [toS EXCEPT ![a] = sent]
       ELSE /\ reset' = [reset EXCEPT ![a] = TRUE]
            /\ \E q \in Prefixes(sent) : toS' = [toS EXCEPT ![a] = q]

\* A write to a peer that has closed goes into the void and draws a reset.
PutR(a, m) ==
  IF "R" \in shut[a] \/ reset[a]
    THEN /\ reset' = [reset EXCEPT ![a] = TRUE]
         /\ UNCHANGED <<toR, toS, shut>>
    ELSE /\ toR' = [toR EXCEPT ![a] = Append(@, m)]
         /\ UNCHANGED <<toS, shut, reset>>

PutS(a, m) ==
  IF "S" \in shut[a] \/ reset[a]
    THEN /\ reset' = [reset EXCEPT ![a] = TRUE]
         /\ UNCHANGED <<toR, toS, shut>>
    ELSE /\ toS' = [toS EXCEPT ![a] = Append(@, m)]
         /\ UNCHANGED <<toR, shut, reset>>

\* What a read with nothing to deliver may return: the end of the stream or a
\* reset, and a timeout.
EndedS(a) == toS[a] = <<>> /\ ("R" \in shut[a] \/ reset[a])
EndedR(a) == toR[a] = <<>> /\ ("S" \in shut[a] \/ reset[a])
LateS(a) == toS[a] = <<>> /\ Timeouts /\ "R" \notin shut[a]
LateR(a) == toR[a] = <<>> /\ Timeouts /\ "S" \notin shut[a]

Cut(a) ==
  /\ Cuts /\ ~ reset[a] /\ shut[a] = {} /\ a <= attempt
  /\ reset' = [reset EXCEPT ![a] = TRUE]
  /\ cut' = [cut EXCEPT ![a] = TRUE]
  /\ toR' = [toR EXCEPT ![a] = <<>>]
  /\ toS' = [toS EXCEPT ![a] = <<>>]
  /\ UNCHANGED <<session, worker, shut, faults>>

--------------------------------------------------------------------------
(* The sender, on connection attempt.                                      *)

SenderFails(error, unread) ==
  /\ sender' = "failed" /\ why' = error
  /\ CloseS(attempt, unread)
  /\ UNCHANGED <<attempt, at>>

Advance(place, position) ==
  /\ sender' = place /\ at' = position
  /\ UNCHANGED <<attempt, why>>

\* write_frame on a connection that is gone; the connect itself may fail too.
WriteFails ==
  /\ \/ sender = "script" /\ at <= Len(SenderScript)
                          /\ SenderScript[at][1] = "send"
     \/ sender \in {"send", "finalize"}
  /\ reset[attempt] \/ Cuts
  /\ SenderFails("io", toS[attempt])
  /\ UNCHANGED worker

ScriptSend ==
  /\ sender = "script" /\ at <= Len(SenderScript)
  /\ SenderScript[at][1] = "send"
  /\ PutR(attempt, SenderScript[at][2])
  /\ Advance("script", at + 1)
  /\ UNCHANGED worker

\* Reading the next frame of the script, or the response once it is over.
Reading ==
  /\ sender = "script"
  /\ IF at > Len(SenderScript) THEN TRUE ELSE SenderScript[at][1] = "recv"

ScriptReadFails ==
  /\ Reading /\ (EndedS(attempt) \/ LateS(attempt))
  /\ SenderFails("io", toS[attempt])
  /\ UNCHANGED worker

TakeS == toS' = [toS EXCEPT ![attempt] = Tail(@)]

\* read_next_sharing_frame acknowledges keep-alives on its way.
AckKeepAlive ==
  /\ sender \in {"script", "confirm"} /\ (sender = "script" => Reading)
  /\ toS[attempt] # <<>> /\ Head(toS[attempt]) = "KeepAlive"
  /\ toS' = [toS EXCEPT ![attempt] = Tail(@)]
  /\ IF "R" \in shut[attempt]
       THEN reset' = [reset EXCEPT ![attempt] = TRUE] /\ UNCHANGED toR
       ELSE toR' = [toR EXCEPT ![attempt] = Append(@, "KeepAliveAck")]
            /\ UNCHANGED reset
  /\ UNCHANGED <<session, worker, shut>>

ScriptRead ==
  LET m == Head(toS[attempt])
      rest == Tail(toS[attempt])
  IN
  /\ Reading /\ toS[attempt] # <<>> /\ m # "KeepAlive"
  /\ IF at <= Len(SenderScript)
       THEN IF m = SenderScript[at][2]
              THEN /\ TakeS /\ Advance("script", at + 1)
                   /\ UNCHANGED <<toR, shut, reset>>
              ELSE SenderFails("protocol", rest)
       ELSE CASE m = "accept" -> /\ TakeS /\ Advance("check", 1)
                                 /\ UNCHANGED <<toR, shut, reset>>
              [] m = "reject" -> SenderFails("rejected", rest)
              [] OTHER -> SenderFails("protocol", rest)
  /\ UNCHANGED worker

\* acknowledge_pending_peer_frames before a read of the file and after a
\* LAST_CHUNK: a Disconnection or the end of the stream is an error.
Beats(q) == Cardinality({i \in 1 .. Len(q) : q[i] = "KeepAlive"})

CheckPeer ==
  LET q == toS[attempt] IN
  /\ sender = "check"
  /\ IF "Disconnection" \in {q[i] : i \in 1 .. Len(q)}
        \/ "R" \in shut[attempt] \/ reset[attempt]
       THEN SenderFails(IF reset[attempt] THEN "io" ELSE "protocol", <<>>)
       ELSE /\ Advance(IF at <= Len(Plan) THEN "send" ELSE "finalize", at)
            /\ toS' = [toS EXCEPT ![attempt] = <<>>]
            /\ toR' = [toR EXCEPT ![attempt] = @ \o
                         [i \in 1 .. Beats(q) |-> "KeepAliveAck"]]
            /\ UNCHANGED <<shut, reset>>
  /\ UNCHANGED worker

\* One chunk of the file.  A source that changed since it was offered ends
\* early or runs past its declared size.
SendChunk ==
  /\ sender = "send"
  /\ \/ PutR(attempt, Plan[at])
     \/ IOFaults /\ PutR(attempt, "wrong")
  /\ Advance("check", at + 1)
  /\ UNCHANGED worker

SourceFails ==
  /\ IOFaults /\ sender = "send"
  /\ SenderFails("io", toS[attempt])
  /\ UNCHANGED worker

\* finalize_transfer: ask for a safe disconnect, then wait for the receiver.
Finalize ==
  /\ sender = "finalize"
  /\ PutR(attempt, "Disconnection")
  /\ Advance("confirm", at)
  /\ UNCHANGED worker

Confirm ==
  /\ sender = "confirm"
  /\ \/ toS[attempt] # <<>> /\ Head(toS[attempt]) = "Disconnection"
     \/ EndedS(attempt)
  /\ sender' = "complete"
  /\ CloseS(attempt, <<>>)
  /\ UNCHANGED <<attempt, at, why, worker>>

\* Mutant: no answer within the timeout counts as a confirmation.
ConfirmTimesOutMutant ==
  /\ sender = "confirm" /\ LateS(attempt)
  /\ sender' = "complete"
  /\ CloseS(attempt, <<>>)
  /\ UNCHANGED <<attempt, at, why, worker>>

ConfirmTimesOut ==
  /\ sender = "confirm" /\ LateS(attempt)
  /\ SenderFails("protocol", <<>>)
  /\ UNCHANGED worker

\* is_retryable, and begin_direct_send's second attempt.
Retryable == {"io", "protocol"}

Retry ==
  /\ sender = "failed" /\ why \in Retryable /\ attempt < MaxAttempts
  /\ attempt' = attempt + 1
  /\ sender' = "script" /\ at' = 1
  /\ UNCHANGED <<why, worker, wire>>

--------------------------------------------------------------------------
(* The worker of connection a.                                             *)

Place(a, p) == receiver' = [receiver EXCEPT ![a] = p]

ReceiverFails(a, unread) ==
  /\ Place(a, "failed") /\ CloseR(a, <<>>, unread)
  /\ UNCHANGED <<session, rat, decision, committed, beats>>

\* The listener hands the connection to a worker once it is connected.
Admit(a) ==
  /\ receiver[a] = "idle" /\ a <= attempt
  /\ Place(a, "script")
  /\ UNCHANGED <<session, rat, decision, committed, beats, wire>>

ReceiverScripted(a, kind) ==
  receiver[a] = "script" /\ ReceiverScript[rat[a]][1] = kind

\* The script's last frame is the introduction: the user is asked.
Proceed(a) ==
  /\ rat' = [rat EXCEPT ![a] = @ + 1]
  /\ Place(a, IF rat[a] = Len(ReceiverScript) THEN "consent" ELSE "script")
  /\ UNCHANGED <<session, decision, committed, beats>>

WorkerSends(a) ==
  /\ ReceiverScripted(a, "send")
  /\ PutS(a, ReceiverScript[rat[a]][2])
  /\ Proceed(a)

TakeR(a) == toR' = [toR EXCEPT ![a] = Tail(@)] /\ UNCHANGED <<toS, shut, reset>>

WorkerReads(a) ==
  /\ ReceiverScripted(a, "recv") /\ toR[a] # <<>>
  /\ IF Head(toR[a]) = ReceiverScript[rat[a]][2]
       THEN TakeR(a) /\ Proceed(a)
       ELSE ReceiverFails(a, Tail(toR[a]))

\* Mutant: receive_all does not notice that its peer is gone.
WorkerLosesPeerMutant(a) ==
  /\ \/ ReceiverScripted(a, "recv") /\ (EndedR(a) \/ LateR(a))
     \/ ReceiverScripted(a, "send") /\ reset[a]
     \/ receiver[a] = "consent" /\ EndedR(a)
  /\ ReceiverFails(a, toR[a])

\* A read that ends or times out, or a write to a connection that is gone.
WorkerLosesPeer(a) ==
  /\ \/ ReceiverScripted(a, "recv") /\ (EndedR(a) \/ LateR(a))
     \/ ReceiverScripted(a, "send") /\ reset[a]
     \/ receiver[a] = "receiving" /\ (EndedR(a) \/ LateR(a))
     \/ receiver[a] = "consent" /\ EndedR(a)
  /\ ReceiverFails(a, toR[a])

\* The consent loop: a keep-alive every 5 s, and whatever the sender says in
\* the meantime is read and dropped.
Beat(a) ==
  /\ receiver[a] = "consent" /\ decision[a] = "none" /\ beats[a] < MaxBeats
  /\ beats' = [beats EXCEPT ![a] = @ + 1]
  /\ PutS(a, "KeepAlive")
  /\ UNCHANGED <<session, receiver, rat, decision, committed>>

ReadInConsent(a) ==
  /\ receiver[a] = "consent" /\ toR[a] # <<>>
  /\ TakeR(a)
  /\ UNCHANGED <<session, worker>>

UserDecides(a, d) ==
  /\ receiver[a] = "consent" /\ decision[a] = "none"
  /\ decision' = [decision EXCEPT ![a] = d]
  /\ UNCHANGED <<session, receiver, rat, committed, beats, wire>>

\* Mutant: the user's answer is not waited for.
AcceptMutant(a) ==
  /\ receiver[a] = "consent" /\ decision[a] # "reject"
  /\ PutS(a, "accept") /\ Place(a, "receiving")
  /\ UNCHANGED <<session, rat, decision, committed, beats>>

\* prepare may fail before the accept is sent.
Accept(a) ==
  /\ receiver[a] = "consent" /\ decision[a] = "accept"
  /\ \/ /\ PutS(a, "accept") /\ Place(a, "receiving")
        /\ UNCHANGED <<session, rat, decision, committed, beats>>
     \/ (IOFaults \/ reset[a]) /\ ReceiverFails(a, toR[a])

Reject(a) ==
  /\ receiver[a] = "consent" /\ decision[a] = "reject"
  /\ Place(a, "rejected") /\ CloseR(a, <<"reject">>, toR[a])
  /\ UNCHANGED <<session, rat, decision, committed, beats>>

\* Mutants: every chunk counts as a file; an acknowledgement of a keep-alive is
\* an unexpected frame.
ReceiveCountsChunks(a) ==
  LET m == Head(toR[a]) IN
  /\ receiver[a] = "receiving" /\ toR[a] # <<>>
  /\ m \in {"data", "last"} /\ TakeR(a)
  /\ committed' = [committed EXCEPT ![a] = @ + 1]
  /\ UNCHANGED <<session, receiver, rat, decision, beats>>
ReceiveRefusesAcks(a) ==
  LET m == Head(toR[a]) IN
  /\ receiver[a] = "receiving" /\ committed[a] < Files /\ toR[a] # <<>>
  /\ \/ /\ m = "data" /\ TakeR(a)
        /\ UNCHANGED <<session, worker>>
     \/ /\ m = "last" /\ TakeR(a)
        /\ committed' = [committed EXCEPT ![a] = @ + 1]
        /\ UNCHANGED <<session, receiver, rat, decision, beats>>
     \/ m \notin {"data", "last"} /\ ReceiverFails(a, Tail(toR[a]))

\* receive_all: one frame.
Receive(a) ==
  LET m == Head(toR[a]) IN
  /\ receiver[a] = "receiving" /\ committed[a] < Files /\ toR[a] # <<>>
  /\ \/ /\ m \in {"data", "KeepAliveAck"} /\ TakeR(a)
        /\ UNCHANGED <<session, worker>>
     \/ /\ m = "last" /\ TakeR(a)
        /\ committed' = [committed EXCEPT ![a] = @ + 1]
        /\ UNCHANGED <<session, receiver, rat, decision, beats>>
     \/ m \notin {"data", "last", "KeepAliveAck"} /\ ReceiverFails(a, Tail(toR[a]))
     \/ m \in {"data", "last"} /\ IOFaults /\ ReceiverFails(a, Tail(toR[a]))

\* Everything is committed: Disconnection, and the stream is dropped.  If that
\* write fails, the worker reports an error although it saved everything.
Finish(a) ==
  /\ receiver[a] = "receiving" /\ committed[a] = Files
  /\ \/ Place(a, "saved") /\ CloseR(a, <<"Disconnection">>, toR[a])
     \/ reset[a] /\ Place(a, "failed") /\ CloseR(a, <<>>, toR[a])
  /\ UNCHANGED <<session, rat, decision, committed, beats>>

--------------------------------------------------------------------------
SenderStep ==
  /\ \/ ScriptSend \/ WriteFails \/ ScriptReadFails \/ AckKeepAlive
     \/ ScriptRead \/ CheckPeer \/ SendChunk \/ SourceFails \/ Finalize
     \/ Confirm \/ ConfirmTimesOut \/ Retry
  /\ UNCHANGED <<cut, faults>>

WorkerStep(a) ==
  /\ \/ Admit(a) \/ WorkerSends(a) \/ WorkerReads(a) \/ WorkerLosesPeer(a)
     \/ ReadInConsent(a) \/ Accept(a) \/ Reject(a) \/ Receive(a) \/ Finish(a)
  /\ UNCHANGED <<cut, faults>>

UserAnswers(a) ==
  /\ \E d \in {"accept", "reject"} : UserDecides(a, d)
  /\ UNCHANGED <<cut, faults>>

Next ==
  \/ SenderStep
  \/ \E a \in Attempts :
       \/ WorkerStep(a) \/ UserAnswers(a) \/ Cut(a)
       \/ Beat(a) /\ UNCHANGED <<cut, faults>>

Spec == Init /\ [][Next]_vars

\* Both programs run, and the user answers the prompt.
FairSpec ==
  /\ Spec /\ WF_vars(SenderStep)
  /\ \A a \in Attempts :
       /\ WF_vars(WorkerStep(a))
       /\ WF_vars(UserAnswers(a))

--------------------------------------------------------------------------
(* Properties.                                                             *)

ToReceiver == {"ConnectionRequest", "ClientInit", "ClientFinish", "Accepted",
               "PairedKeyEncryption", "PairedKeyResult", "Introduction",
               "KeepAliveAck", "data", "last", "wrong", "Disconnection"}
ToSender == {"ServerInit", "Accepted", "PairedKeyEncryption",
             "PairedKeyResult", "KeepAlive", "accept", "reject",
             "Disconnection"}

\* Every variable has the shape its declaration says.
TypeOK ==
  /\ attempt \in Attempts
  /\ sender \in SenderPlaces /\ why \in Errors
  /\ at \in 1 .. Len(SenderScript) + Len(Plan) + 1
  /\ receiver \in [Attempts -> ReceiverPlaces]
  /\ rat \in [Attempts -> 1 .. Len(ReceiverScript) + 1]
  /\ decision \in [Attempts -> {"none", "accept", "reject"}]
  /\ committed \in [Attempts -> 0 .. Files]
  /\ beats \in [Attempts -> 0 .. MaxBeats]
  /\ toR \in [Attempts -> Seq(ToReceiver)]
  /\ toS \in [Attempts -> Seq(ToSender)]
  /\ shut \in [Attempts -> SUBSET {"S", "R"}]
  /\ reset \in [Attempts -> BOOLEAN] /\ cut \in [Attempts -> BOOLEAN]
  /\ faults \in FaultModes

\* The two programs agree on the protocol: whatever the interleaving, no side
\* reads a frame it does not expect, and the consent loop, which drops what it
\* reads, never drops anything but acknowledgements.
ScriptsAgree == faults = {} =>
  /\ Reading /\ toS[attempt] # <<>> =>
       Head(toS[attempt]) \in {"KeepAlive"} \cup
         (IF at <= Len(SenderScript) THEN {SenderScript[at][2]}
          ELSE {"accept", "reject"})
  /\ \A a \in Attempts : toR[a] # <<>> =>
       /\ ReceiverScripted(a, "recv") =>
            Head(toR[a]) = ReceiverScript[rat[a]][2]
       /\ receiver[a] = "consent" => Head(toR[a]) = "KeepAliveAck"
       /\ receiver[a] = "receiving" /\ committed[a] < Files =>
            Head(toR[a]) \in {"KeepAliveAck", "data", "last", "wrong"}

\* The session keeps the promise of FileDelivery.  Unless the network breaks
\* the connection, the sender reports success only when the receiver is done
\* with the transfer (a TCP close never overtakes payloads the receiver still
\* has to read), and with nothing going wrong only if every file is saved;
\* nothing is saved once a worker has ended, and no attempt rests on the answer
\* to another.
Delivery == INSTANCE FileDelivery WITH
  MaxTries <- MaxAttempts,
  calm <- faults = {},
  tried <- attempt,
  report <- IF sender \in {"complete", "failed"} THEN sender ELSE "open",
  answer <- decision,
  saved <- committed,
  ended <- [a \in Attempts |-> receiver[a] \in {"saved", "rejected", "failed"}],
  broken <- cut
ImplementsFileDelivery == Delivery!Spec

\* Each connection is accepted by the user on its own: nothing is saved on the
\* strength of the answer to an earlier attempt, and a rejected one saves
\* nothing even if frames keep coming.
CommitsOnlyIfAccepted ==
  \A a \in Attempts : committed[a] > 0 => decision[a] = "accept"

\* hirodrop-gui.rs:976 tells the user that all selected items were delivered.
CompleteMeansDelivered == sender = "complete" => committed[attempt] = Files

\* hirodrop-gui.rs:783: "the first connection failed, retrying": what was
\* delivered is not sent again.
RetryOnlyUndelivered ==
  [][attempt' # attempt => committed[attempt] < Files]_vars

Over == sender = "complete" \/ (sender = "failed" /\
          (why \notin Retryable \/ attempt = MaxAttempts))

\* Once the user answers, no exchange of the protocol leaves the two sides
\* waiting for each other: the sender comes to an end, and so does every worker,
\* which frees its place in the pool.
BothSidesEnd ==
  /\ <>Over
  /\ \A a \in Attempts :
       receiver[a] # "idle" ~> receiver[a] \in {"saved", "rejected", "failed"}

\* With nothing going wrong, an accepted transfer is saved whole.
AcceptedIsSaved ==
  \A a \in Attempts :
    faults = {} /\ decision[a] = "accept" ~>
      receiver[a] = "saved" /\ committed[a] = Files

============================================================================
