-------------------------- MODULE SendPanelProofs --------------------------
(***************************************************************************)
(* SendPanel for any files and any number of sends.                         *)
(***************************************************************************)
EXTENDS SendPanel, TLAPS

USE NoSendAssumption

--------------------------------------------------------------------------
(* The events of the sender.                                               *)

Messages == {Found, Pin(1), Pin(2), Complete, Failed}

\* What the events are called.
LEMMA KindsOfEvents ==
  /\ Found.kind = "found" /\ Complete.kind = "complete" /\ Failed.kind = "failed"
  /\ \A n : Pin(n).kind = "pin" /\ Pin(n).try = n
BY DEF Found, Complete, Failed, Pin

\* An event that is sent comes last, behind all that was there.
LEMMA AppendedEvent ==
  ASSUME TypeOK, NEW e \in Messages, events' = Append(events, e)
  PROVE  /\ events' \in Seq(Messages) /\ events' # <<>>
         /\ events'[Len(events')] = e
         /\ \A k : Has(k)' <=> Has(k) \/ e.kind = k
<1>1. events \in Seq(Messages) /\ Len(events) \in Nat
  BY DEF TypeOK, Messages
<1>2. /\ events' \in Seq(Messages) /\ Len(events') = Len(events) + 1
      /\ \A i \in 1 .. Len(events) : events'[i] = events[i]
      /\ events'[Len(events) + 1] = e
  BY <1>1
<1>3. events' # <<>>
  BY <1>1, <1>2
<1>4. ASSUME NEW k PROVE Has(k)' <=> Has(k) \/ e.kind = k
  BY <1>1, <1>2 DEF Has
<1> QED
  BY <1>1, <1>2, <1>3, <1>4

LEMMA NoEvents ==
  ASSUME events' = <<>>
  PROVE  events' \in Seq(Messages) /\ \A k : ~ Has(k)'
BY DEF Has

--------------------------------------------------------------------------
(* The workers.                                                            *)

\* A worker that is alive moves on.  What it says reaches the window only if it
\* is the sender, and it says so when it ends or asks.
LEMMA WorkerMoves ==
  ASSUME Inv, NEW s \in Sends, NEW to \in Busy \cup Ended, phase[s] \in Busy,
         phase' = [phase EXCEPT ![s] = to],
         tries' \in [Sends -> 1 .. 2],
         \A t \in Sends : t # s => tries'[t] = tries[t],
         UNCHANGED <<panel, at, quitting, alive, finder, kind, files, cancelled>>,
         \/ events' = events /\ (s = sender => to \in Busy \ {"asking"})
         \/ /\ s = sender
            /\ \E e \in Messages :
                 /\ events' = Append(events, e)
                 /\ e.kind \in {"complete", "failed"} <=> to \in Ended
                 /\ to = "asking" => e = Pin(tries'[s])
  PROVE  Inv'
<1>1. /\ TypeOK /\ NoHiddenSend /\ BusyUntilHeard /\ FinderWaitsForATransfer
      /\ EventsOK /\ FlagsOK /\ WaitingOK /\ PinOK
      /\ phase \in [Sends -> Phases]
  BY DEF Inv, TypeOK
<1>2. /\ selected' = selected /\ chosen' = chosen /\ running' = running
      /\ failed' = failed /\ waiting' = waiting /\ code' = code /\ pin' = pin
      /\ sender' = sender /\ cancel' = cancel /\ queued' = queued
      /\ at' = at /\ quitting' = quitting /\ alive' = alive /\ finder' = finder
      /\ kind' = kind /\ files' = files /\ cancelled' = cancelled
  BY DEF panel
<1>3. /\ to \in Phases /\ phase' \in [Sends -> Phases] /\ phase'[s] = to
      /\ \A t \in Sends : t # s => phase'[t] = phase[t]
      /\ to # "unborn" /\ Busy \cap Ended = {} /\ "unborn" \notin Busy \cup Ended
  BY <1>1 DEF Phases, Busy, Ended
<1>4. events' \in Seq(Messages)
  BY <1>1, AppendedEvent DEF TypeOK, Messages
<1>5. TypeOK'
  BY <1>1, <1>2, <1>3, <1>4 DEF TypeOK, Messages
<1>6. NoHiddenSend'
  BY <1>1, <1>2, <1>3 DEF NoHiddenSend
<1>7. FinderWaitsForATransfer' /\ FlagsOK' /\ WaitingOK'
  BY <1>1, <1>2, <1>3 DEF FinderWaitsForATransfer, FlagsOK, WaitingOK
<1>8. CASE events' = events /\ (s = sender => to \in Busy \ {"asking"})
  <2>1. \A k : Has(k)' <=> Has(k)
    BY <1>8 DEF Has
  <2>2. BusyUntilHeard'
    BY <1>1, <1>2, <1>3, <1>8, <2>1 DEF BusyUntilHeard
  <2>3. EventsOK'
    BY <1>1, <1>2, <1>3, <1>8, <2>1 DEF EventsOK
  <2>4. PinOK'
    <3>1. CASE sender = s
      BY <1>2, <1>3, <1>8, <3>1 DEF PinOK
    <3>2. CASE sender # s
      BY <1>1, <1>2, <1>3, <1>8, <3>2 DEF PinOK
    <3> QED
      BY <3>1, <3>2
  <2> QED
    BY <1>5, <1>6, <1>7, <2>2, <2>3, <2>4 DEF Inv
<1>9. CASE s = sender /\ events' # events
  <2>1. PICK e \in Messages :
          /\ events' = Append(events, e)
          /\ e.kind \in {"complete", "failed"} <=> to \in Ended
          /\ to = "asking" => e = Pin(tries'[s])
    BY <1>9
  <2>2. /\ events' # <<>> /\ events'[Len(events')] = e
        /\ \A k : Has(k)' <=> Has(k) \/ e.kind = k
    BY <1>1, <2>1, AppendedEvent
  <2>3. ~ Has("complete") /\ ~ Has("failed")
    BY <1>1, <1>3, <1>9 DEF EventsOK
  <2>4. BusyUntilHeard'
    BY <1>2, <1>3, <1>9, <2>1, <2>2 DEF BusyUntilHeard
  <2>5. EventsOK'
    BY <1>2, <1>3, <1>9, <2>1, <2>2, <2>3 DEF EventsOK
  <2>6. PinOK'
    BY <1>2, <1>3, <1>9, <2>1, <2>2 DEF PinOK
  <2> QED
    BY <1>5, <1>6, <1>7, <2>4, <2>5, <2>6 DEF Inv
<1> QED
  BY <1>8, <1>9

\* Every step of a worker is such a move.
LEMMA WorkerInvariant ==
  ASSUME Inv, NEW s \in Sends, Worker(s)
  PROVE  Inv'
<1>0. /\ tries \in [Sends -> 1 .. 2]
      /\ Found \in Messages /\ Complete \in Messages /\ Failed \in Messages
      /\ Pin(tries[s]) \in Messages
  BY DEF Inv, TypeOK, Messages
<1>a. ASSUME NEW from \in Busy, NEW to \in Busy \ {"asking"}, Silently(s, from, to)
      PROVE  Inv'
  BY <1>0, <1>a, WorkerMoves DEF Silently, Step
<1>b. ASSUME NEW from \in Busy, NEW to \in Busy \cup Ended, NEW e \in Messages,
             Step(s, from, to), Emit(s, e),
             e.kind \in {"complete", "failed"} <=> to \in Ended,
             to = "asking" => e = Pin(tries[s])
      PROVE  Inv'
  <2>1. /\ phase[s] \in Busy /\ phase' = [phase EXCEPT ![s] = to] /\ tries' = tries
        /\ UNCHANGED <<panel, at, quitting, alive, finder, kind, files, cancelled>>
    BY <1>b DEF Step
  <2>2. CASE s = sender
    <3>1. events' = Append(events, e)
      BY <1>b, <2>2 DEF Emit
    <3> QED
      BY <1>0, <1>b, <2>1, <2>2, <3>1, WorkerMoves
  <2>3. CASE s # sender
    <3>1. events' = events
      BY <1>b, <2>3 DEF Emit
    <3> QED
      BY <1>0, <1>b, <2>1, <2>3, <3>1, WorkerMoves
  <2> QED
    BY <2>2, <2>3
<1> DEFINE Ends(e) == e \in Messages /\ e.kind \in {"complete", "failed"}
<1>c. /\ Ends(Failed) /\ Ends(Complete) /\ ~ Ends(Found) /\ ~ Ends(Pin(tries[s]))
      /\ "failed" \in Ended /\ "complete" \in Ended
      /\ "asking" \notin Ended /\ "connecting" \notin Ended
  BY <1>0, KindsOfEvents DEF Ended
<1>1. CASE Prepare(s)
  BY <1>1, <1>a DEF Prepare, Busy
<1>2. CASE Check(s)
  BY <1>0, <1>2, <1>a, <1>b, <1>c DEF Check, Busy
<1>3. CASE TimeOut(s)
  BY <1>0, <1>3, <1>b, <1>c DEF TimeOut, Busy
<1>4. CASE Resolve(s)
  BY <1>0, <1>4, <1>a, <1>b, <1>c DEF Resolve, Busy
<1>5. CASE Connect(s)
  BY <1>0, <1>5, <1>b, <1>c DEF Connect, Busy
<1>6. CASE Accepted(s)
  BY <1>6, <1>a DEF Accepted, Busy
<1>7. CASE Finish(s)
  BY <1>0, <1>7, <1>b, <1>c DEF Finish, Busy
<1>8. CASE Fail(s)
  BY <1>0, <1>8, <1>b, <1>c DEF Fail, Busy
<1>9. CASE Retry(s)
  <2>1. /\ phase[s] \in Busy /\ phase' = [phase EXCEPT ![s] = "preparing"]
        /\ tries' = [tries EXCEPT ![s] = 2] /\ events' = events
        /\ UNCHANGED <<panel, at, quitting, alive, finder, kind, files, cancelled>>
    BY <1>9 DEF Retry, Busy
  <2>2. "preparing" \in Busy \ {"asking"}
    BY DEF Busy
  <2>3. /\ tries' \in [Sends -> 1 .. 2]
        /\ \A t \in Sends : t # s => tries'[t] = tries[t]
    BY <1>0, <2>1
  <2> QED
    BY <2>1, <2>2, <2>3, WorkerMoves
<1> QED
  BY <1>1, <1>2, <1>3, <1>4, <1>5, <1>6, <1>7, <1>8, <1>9 DEF Worker

--------------------------------------------------------------------------
(* The window.                                                             *)

\* The selection and the flags that go with it keep their types.
LEMMA SelectionType ==
  ASSUME TypeOK, NEW old \in SUBSET Files, NEW new \in SUBSET Files,
         NEW wasFailed \in BOOLEAN,
         NEW wasPin \in [of : Sends \cup {NoSend}, try : 0 .. 2],
         running' \in BOOLEAN, AddFiles(old, new, wasFailed, wasPin)
  PROVE  /\ selected' \subseteq Files /\ failed' \in BOOLEAN /\ chosen' \in BOOLEAN
         /\ pin' \in [of : Sends \cup {NoSend}, try : 0 .. 2]
<1>1. selected' \subseteq Files
  BY DEF AddFiles
<1>2. NoPin \in [of : Sends \cup {NoSend}, try : 0 .. 2]
  BY DEF NoPin
<1>3. CASE selected' # {} /\ ~ running'
  BY <1>1, <1>2, <1>3 DEF AddFiles
<1>4. CASE ~ (selected' # {} /\ ~ running')
  BY <1>1, <1>4 DEF AddFiles, TypeOK
<1> QED
  BY <1>3, <1>4

\* The window gives up what waits to be scanned, and is idle: its worker, if it
\* has one, is told to stop.
LEMMA Abandoning ==
  ASSUME Inv, CanChange, Abandon, StopReading,
         selected' \subseteq Files, queued' \subseteq Files, finder' \subseteq Files,
         chosen' \in BOOLEAN, failed' \in BOOLEAN, code' \in Sends \cup {NoSend},
         pin' \in [of : Sends \cup {NoSend}, try : 0 .. 2],
         at' \in {"input", "finder"}, UNCHANGED <<quitting, alive, worker>>,
         queued' = {} \/ (queued' = queued /\ at' = "input" /\ at = "input")
  PROVE  Inv'
<1>1. /\ TypeOK /\ NoHiddenSend /\ BusyUntilHeard /\ FinderWaitsForATransfer
      /\ EventsOK /\ FlagsOK /\ WaitingOK
      /\ phase' = phase /\ kind' = kind /\ files' = files /\ tries' = tries
  BY DEF Inv, worker
<1>2. running' = FALSE /\ waiting' = FALSE
  BY <1>1 DEF StopReading, Abandon, After, CanChange, TypeOK
<1>3. /\ cancelled' \in [Sends -> BOOLEAN]
      /\ \A s \in Sends : cancelled'[s] = (cancelled[s] \/ (waiting /\ s = cancel))
  BY <1>1 DEF Abandon, TypeOK
<1>4. /\ cancel' \in {cancel, NoSend} /\ sender' \in {sender, NoSend}
      /\ \/ sender' = sender /\ events' = events
         \/ sender' = NoSend /\ events' = <<>>
  BY DEF Abandon, StopReading, After
<1>5. TypeOK'
  <2>1. /\ events \in Seq(Messages) /\ <<>> \in Seq(Messages)
        /\ sender \in Sends \cup {NoSend} /\ cancel \in Sends \cup {NoSend}
    BY <1>1 DEF TypeOK, Messages
  <2>2. /\ events' \in Seq(Messages)
        /\ sender' \in Sends \cup {NoSend} /\ cancel' \in Sends \cup {NoSend}
    BY <1>4, <2>1
  <2> QED
    BY <1>1, <1>2, <1>3, <2>2 DEF TypeOK, Messages
<1>6. NoHiddenSend'
  <2> SUFFICES ASSUME NEW s \in Sends, phase[s] \in Busy PROVE cancelled'[s]
    BY <1>1 DEF NoHiddenSend
  <2>1. cancelled[s] \/ (running /\ s = sender)
    BY <1>1 DEF NoHiddenSend
  <2>2. CASE running /\ s = sender
    <3>1. waiting /\ (cancel = s \/ cancelled[s])
      BY <1>1, <2>2 DEF CanChange, WaitingOK
    <3> QED
      BY <1>3, <3>1
  <2> QED
    BY <1>3, <2>1, <2>2
<1>7. BusyUntilHeard' /\ WaitingOK' /\ PinOK'
  BY <1>2 DEF BusyUntilHeard, WaitingOK, PinOK
<1>8. FinderWaitsForATransfer'
  BY <1>1 DEF FinderWaitsForATransfer, CanChange
<1>9. EventsOK'
  <2>1. CASE sender' = sender /\ events' = events
    <3>1. \A k : Has(k)' <=> Has(k)
      BY <2>1 DEF Has
    <3> QED
      BY <1>1, <2>1, <3>1 DEF EventsOK
  <2>2. CASE sender' = NoSend /\ events' = <<>>
    BY <2>2, NoEvents DEF EventsOK
  <2> QED
    BY <1>4, <2>1, <2>2
<1>10. FlagsOK'
  BY <1>1, <1>3, <1>4 DEF FlagsOK
<1> QED
  BY <1>5, <1>6, <1>7, <1>8, <1>9, <1>10 DEF Inv

\* A send starts: the window is idle, or told the one that waits to stop.
LEMMA Spawning ==
  ASSUME Inv, NEW s \in Sends, NEW k \in {"qr", "once", "twice"}, Spawn(s, k),
         CanChange, at = "input",
         UNCHANGED <<at, quitting, alive, finder>>,
         cancelled' = [t \in Sends |-> cancelled[t] \/ (waiting /\ t = cancel)],
         \/ waiting' = FALSE /\ cancel' \in {cancel, NoSend} /\ code' = NoSend
         \/ k = "qr" /\ waiting' = TRUE /\ cancel' = s /\ code' = s
  PROVE  Inv'
<1>1. /\ TypeOK /\ NoHiddenSend /\ BusyUntilHeard /\ FinderWaitsForATransfer
      /\ EventsOK /\ FlagsOK /\ WaitingOK
      /\ phase \in [Sends -> Phases] /\ kind \in [Sends -> Kinds]
      /\ files \in [Sends -> SUBSET Files] /\ cancelled \in [Sends -> BOOLEAN]
  BY DEF Inv, TypeOK
<1>2. /\ phase[s] = "unborn"
      /\ phase' = [phase EXCEPT ![s] = "preparing"]
      /\ kind' = [kind EXCEPT ![s] = k]
      /\ files' = [files EXCEPT ![s] = selected]
      /\ running' = TRUE /\ failed' = FALSE /\ chosen' = FALSE /\ pin' = NoPin
      /\ sender' = s /\ events' = <<>>
      /\ selected' = selected /\ queued' = queued /\ tries' = tries
      /\ at' = at /\ quitting' = quitting /\ alive' = alive /\ finder' = finder
  BY DEF Spawn
<1>3. /\ phase' \in [Sends -> Phases] /\ phase'[s] = "preparing"
      /\ \A t \in Sends : t # s => phase'[t] = phase[t]
      /\ kind' \in [Sends -> Kinds] /\ kind'[s] = k
      /\ "preparing" \in Busy /\ "unborn" \notin Busy
      /\ "preparing" \notin {"asking", "unborn"}
  BY <1>1, <1>2 DEF Phases, Busy, Kinds
<1>4. /\ cancelled' \in [Sends -> BOOLEAN]
      /\ \A t \in Sends : cancelled'[t] = (cancelled[t] \/ (waiting /\ t = cancel))
  BY <1>1
<1>5. s # cancel /\ ~ cancelled[s] /\ ~ cancelled'[s]
  BY <1>1, <1>2, <1>4 DEF FlagsOK
<1>6. TypeOK'
  <2>1. /\ pin' \in [of : Sends \cup {NoSend}, try : 0 .. 2]
        /\ files' \in [Sends -> SUBSET Files]
        /\ events' \in Seq(Messages)
    BY <1>1, <1>2 DEF NoPin, TypeOK
  <2>2. waiting' \in BOOLEAN /\ cancel' \in Sends \cup {NoSend} /\ code' \in Sends \cup {NoSend}
    BY <1>1 DEF TypeOK
  <2> QED
    BY <1>1, <1>2, <1>3, <1>4, <2>1, <2>2 DEF TypeOK, Messages
<1>7. NoHiddenSend'
  <2> SUFFICES ASSUME NEW t \in Sends, t # s, phase[t] \in Busy PROVE cancelled'[t]
    BY <1>2, <1>3 DEF NoHiddenSend
  <2>1. cancelled[t] \/ (running /\ t = sender)
    BY <1>1 DEF NoHiddenSend
  <2>2. CASE running /\ t = sender
    <3>1. waiting /\ (cancel = t \/ cancelled[t])
      BY <1>1, <2>2 DEF CanChange, WaitingOK
    <3> QED
      BY <1>4, <3>1
  <2> QED
    BY <1>4, <2>1, <2>2
<1>8. BusyUntilHeard' /\ PinOK'
  BY <1>2, <1>3 DEF BusyUntilHeard, PinOK
<1>9. FinderWaitsForATransfer'
  BY <1>1, <1>2 DEF FinderWaitsForATransfer, CanChange
<1>10. EventsOK'
  BY <1>2, <1>3, NoEvents DEF EventsOK
<1>11. FlagsOK'
  BY <1>1, <1>2, <1>3, <1>4, <1>5 DEF FlagsOK
<1>12. WaitingOK'
  BY <1>2, <1>3, <1>5 DEF WaitingOK
<1> QED
  BY <1>6, <1>7, <1>8, <1>9, <1>10, <1>11, <1>12 DEF Inv

\* The user's side: whatever is clicked or dropped.
LEMMA UserInvariant ==
  ASSUME Inv, User
  PROVE  Inv'
<1>1. /\ TypeOK /\ at = "input"
      /\ at' = at /\ alive' = alive /\ finder' = finder
      /\ NoPin \in [of : Sends \cup {NoSend}, try : 0 .. 2]
  BY DEF Inv, User, NoPin
<1>2. CASE Drop /\ UNCHANGED quitting
  <2>1. PICK new \in SUBSET Files : AddFiles(selected, new, failed, pin)
    BY <1>2 DEF Drop
  <2>2. /\ running' = running /\ waiting' = waiting /\ code' = code /\ sender' = sender
        /\ cancel' = cancel /\ queued' = queued /\ events' = events
        /\ phase' = phase /\ kind' = kind /\ files' = files /\ tries' = tries
        /\ cancelled' = cancelled /\ quitting' = quitting
    BY <1>2 DEF Drop, worker
  <2>a. /\ selected \in SUBSET Files /\ failed \in BOOLEAN /\ running' \in BOOLEAN
        /\ pin \in [of : Sends \cup {NoSend}, try : 0 .. 2]
    BY <1>1, <2>2 DEF TypeOK
  <2>3. /\ selected' \subseteq Files /\ failed' \in BOOLEAN /\ chosen' \in BOOLEAN
        /\ pin' \in [of : Sends \cup {NoSend}, try : 0 .. 2]
    BY <1>1, <2>1, <2>a, SelectionType
  <2>4. TypeOK'
    BY <1>1, <2>2, <2>3 DEF TypeOK
  <2>5. \A k : Has(k)' <=> Has(k)
    BY <2>2 DEF Has
  <2>6. /\ NoHiddenSend' /\ BusyUntilHeard' /\ FinderWaitsForATransfer'
        /\ EventsOK' /\ FlagsOK' /\ WaitingOK'
    BY <1>1, <2>2, <2>5 DEF Inv, NoHiddenSend, BusyUntilHeard,
       FinderWaitsForATransfer, EventsOK, FlagsOK, WaitingOK
  <2>7. PinOK'
    <3>1. running' => pin' = pin
      BY <2>1 DEF AddFiles
    <3> QED
      BY <2>2, <3>1 DEF Inv, PinOK
  <2> QED
    BY <2>4, <2>6, <2>7 DEF Inv
<1>3. CASE (Edit \/ Clear \/ CancelQr) /\ UNCHANGED quitting
  <2>1. /\ Abandon /\ StopReading /\ queued' = queued /\ UNCHANGED worker
        /\ code' \in Sends \cup {NoSend}
    BY <1>1, <1>3 DEF Edit, Clear, CancelQr, After, TypeOK
  <2>2. CanChange
    BY <1>3 DEF Edit, Clear, CancelQr, CanChange
  <2>3. running' \in BOOLEAN
    BY <1>1, <2>1 DEF StopReading, After, TypeOK
  <2>4. /\ selected' \subseteq Files /\ failed' \in BOOLEAN /\ chosen' \in BOOLEAN
        /\ pin' \in [of : Sends \cup {NoSend}, try : 0 .. 2]
    <3>1. CASE Edit
      <4>1. /\ After(failed, FALSE) \in BOOLEAN
            /\ After(pin, NoPin) \in [of : Sends \cup {NoSend}, try : 0 .. 2]
        BY <1>1 DEF After, TypeOK
      <4>2. PICK new \in SUBSET Files :
              AddFiles(selected, new, After(failed, FALSE), After(pin, NoPin))
        BY <3>1 DEF Edit
      <4>3. selected \in SUBSET Files
        BY <1>1 DEF TypeOK
      <4> QED
        BY <1>1, <2>3, <4>1, <4>2, <4>3, SelectionType
    <3>2. CASE Clear
      BY <1>1, <3>2 DEF Clear
    <3>3. CASE CancelQr
      BY <1>1, <3>3 DEF CancelQr, TypeOK
    <3> QED
      BY <1>3, <3>1, <3>2, <3>3
  <2>5. queued' \subseteq Files /\ finder' \subseteq Files /\ at' \in {"input", "finder"}
    BY <1>1, <2>1 DEF TypeOK
  <2> QED
    BY <1>1, <1>3, <2>1, <2>2, <2>4, <2>5, Abandoning
<1>4. ASSUME NEW s \in Sends, ShowQr(s) \/ MaybeAutoStartQr(s), UNCHANGED quitting
      PROVE  Inv'
  <2>1. BeginSend(s)
    BY <1>4 DEF ShowQr, MaybeAutoStartQr
  <2>2. /\ ~ running /\ Spawn(s, "qr") /\ cancelled' = cancelled
        /\ cancel' = s /\ waiting' = TRUE /\ code' = s
    BY <2>1 DEF BeginSend
  <2>3. ~ waiting /\ CanChange
    BY <2>2 DEF Inv, WaitingOK, CanChange
  <2>4. cancelled' = [t \in Sends |-> cancelled[t] \/ (waiting /\ t = cancel)]
    BY <1>1, <2>2, <2>3 DEF TypeOK
  <2> QED
    BY <1>1, <1>4, <2>2, <2>3, <2>4, Spawning
<1>5. ASSUME NEW s \in Sends, BeginDirectSend(s), UNCHANGED quitting
      PROVE  Inv'
  <2>1. PICK k \in {"once", "twice"} : Spawn(s, k)
    BY <1>5 DEF BeginDirectSend
  <2>2. /\ CanChange /\ waiting' = FALSE /\ cancel' \in {cancel, NoSend}
        /\ code' = NoSend
        /\ cancelled' = [t \in Sends |-> cancelled[t] \/ (waiting /\ t = cancel)]
    BY <1>5 DEF BeginDirectSend, Abandon, After
  <2> QED
    BY <1>1, <1>5, <2>1, <2>2, Spawning
<1>6. CASE PrepareToQuit
  <2>1. /\ selected' = selected /\ chosen' = chosen /\ running' = running
        /\ failed' = failed /\ waiting' = waiting /\ code' = code /\ pin' = pin
        /\ sender' = sender /\ queued' = queued /\ events' = events
        /\ phase' = phase /\ kind' = kind /\ files' = files /\ tries' = tries
        /\ quitting' = TRUE /\ cancel' = NoSend
    BY <1>6 DEF PrepareToQuit, worker
  <2>2. /\ cancelled' \in [Sends -> BOOLEAN]
        /\ \A s \in Sends : cancelled'[s] = (cancelled[s] \/ s = cancel)
    BY <1>1, <1>6 DEF PrepareToQuit, TypeOK
  <2>3. TypeOK'
    BY <1>1, <2>1, <2>2 DEF TypeOK
  <2>4. \A k : Has(k)' <=> Has(k)
    BY <2>1 DEF Has
  <2>5. /\ NoHiddenSend' /\ BusyUntilHeard' /\ FinderWaitsForATransfer'
        /\ EventsOK' /\ FlagsOK' /\ PinOK'
    BY <1>1, <2>1, <2>2, <2>4 DEF Inv, NoHiddenSend, BusyUntilHeard,
       FinderWaitsForATransfer, EventsOK, FlagsOK, PinOK
  <2>6. WaitingOK'
    BY <2>1, <2>2 DEF Inv, WaitingOK
  <2> QED
    BY <2>3, <2>5, <2>6 DEF Inv
<1> QED
  BY <1>2, <1>3, <1>4, <1>5, <1>6 DEF User

\* A frame of the window hears its worker.
LEMMA PollEventsInvariant ==
  ASSUME Inv, PollEvents
  PROVE  Inv'
<1>1. /\ TypeOK /\ NoHiddenSend /\ BusyUntilHeard /\ EventsOK /\ FlagsOK
      /\ WaitingOK /\ PinOK
  BY DEF Inv
<1>2. /\ at' = "finder" /\ events' = <<>>
      /\ selected' = selected /\ chosen' = chosen /\ sender' = sender
      /\ queued' = queued /\ quitting' = quitting /\ alive' = alive
      /\ finder' = finder /\ phase' = phase /\ kind' = kind /\ files' = files
      /\ tries' = tries /\ cancelled' = cancelled
  BY DEF PollEvents, worker
<1>3. /\ running' = (running /\ ~ Has("complete") /\ ~ Has("failed"))
      /\ waiting' = (waiting /\ ~ Has("found") /\ ~ Has("complete") /\ ~ Has("failed"))
      /\ cancel' = IF Has("complete") \/ Has("failed") THEN NoSend ELSE cancel
      /\ failed' = (failed \/ Has("failed"))
      /\ code' = IF Has("complete") THEN NoSend ELSE code
  BY DEF PollEvents, Heard
<1>4. /\ events \in Seq(Messages) /\ Len(events) \in Nat
      /\ \A i \in 1 .. Len(events) : events[i] \in Messages
  BY <1>1 DEF TypeOK, Messages
<1>5. pin' \in [of : Sends \cup {NoSend}, try : 0 .. 2]
  <2>1. CASE ~ Has("pin") /\ pin' = pin
    BY <1>1, <2>1 DEF TypeOK
  <2>2. ASSUME NEW i \in 1 .. Len(events), IsLastPin(i),
               pin' = [of |-> sender, try |-> events[i].try]
        PROVE  pin' \in [of : Sends \cup {NoSend}, try : 0 .. 2]
    <3>1. events[i] \in {Pin(1), Pin(2)}
      BY <1>4, <2>2, KindsOfEvents DEF IsLastPin, Messages
    <3>2. events[i].try \in 0 .. 2
      BY <3>1, KindsOfEvents
    <3> QED
      BY <1>1, <2>2, <3>2 DEF TypeOK
  <2> QED
    BY <2>1, <2>2 DEF PollEvents
<1>6. TypeOK'
  <2>1. /\ running' \in BOOLEAN /\ waiting' \in BOOLEAN /\ failed' \in BOOLEAN
        /\ cancel' \in Sends \cup {NoSend} /\ code' \in Sends \cup {NoSend}
    BY <1>1, <1>3 DEF TypeOK
  <2>2. events' \in Seq(Messages)
    BY <1>2
  <2> QED
    BY <1>1, <1>2, <1>5, <2>1, <2>2 DEF TypeOK, Messages
<1>7. NoHiddenSend'
  BY <1>1, <1>2, <1>3 DEF NoHiddenSend, EventsOK, Busy, Ended
<1>8. BusyUntilHeard'
  BY <1>1, <1>2, <1>3 DEF BusyUntilHeard
<1>9. FinderWaitsForATransfer' /\ EventsOK'
  BY <1>1, <1>2, NoEvents DEF FinderWaitsForATransfer, EventsOK
<1>10. FlagsOK'
  BY <1>1, <1>2, <1>3 DEF FlagsOK
<1>11. WaitingOK'
  BY <1>1, <1>2, <1>3 DEF WaitingOK
<1>12. PinOK'
  <2> SUFFICES ASSUME running, sender \in Sends, phase[sender] = "asking"
               PROVE  pin' = [of |-> sender, try |-> tries[sender]]
    BY <1>2, <1>3 DEF PinOK
  <2>1. CASE events = <<>>
    <3>1. ~ Has("pin")
      BY <2>1 DEF Has
    <3>2. pin' = pin
      BY <3>1, <2>1 DEF PollEvents
    <3> QED
      BY <1>1, <2>1, <3>2 DEF PinOK
  <2>2. CASE events # <<>>
    <3>1. events[Len(events)] = Pin(tries[sender]) /\ Len(events) \in 1 .. Len(events)
      BY <1>1, <1>4, <2>2 DEF PinOK
    <3>2. Has("pin")
      BY <3>1, KindsOfEvents DEF Has
    <3>3. PICK i \in 1 .. Len(events) :
            IsLastPin(i) /\ pin' = [of |-> sender, try |-> events[i].try]
      BY <3>2 DEF PollEvents
    <3>4. i = Len(events)
      BY <1>4, <3>1, <3>3, KindsOfEvents DEF IsLastPin
    <3> QED
      BY <3>1, <3>3, <3>4, KindsOfEvents
  <2> QED
    BY <2>1, <2>2
<1> QED
  BY <1>6, <1>7, <1>8, <1>9, <1>10, <1>11, <1>12 DEF Inv

LEMMA PollFinderFilesInvariant ==
  ASSUME Inv, PollFinderFiles
  PROVE  Inv'
<1>1. /\ TypeOK /\ at = "finder" /\ at' = "input" /\ finder' = {}
      /\ quitting' = quitting /\ alive' = alive /\ UNCHANGED worker
  BY DEF Inv, PollFinderFiles
<1>2. CASE queued \cup finder = {} \/ (running /\ ~ waiting)
  <2>1. /\ queued' = queued \cup finder
        /\ UNCHANGED <<selected, chosen, running, failed, waiting, code, pin,
                       sender, cancel, events, cancelled>>
    BY <1>2 DEF PollFinderFiles, TakeFinder
  <2>2. TypeOK'
    BY <1>1, <2>1 DEF TypeOK, worker
  <2>3. \A k : Has(k)' <=> Has(k)
    BY <2>1 DEF Has
  <2>4. /\ NoHiddenSend' /\ BusyUntilHeard' /\ EventsOK' /\ FlagsOK' /\ WaitingOK'
        /\ PinOK'
    BY <1>1, <2>1, <2>3 DEF Inv, NoHiddenSend, BusyUntilHeard, EventsOK, FlagsOK,
       WaitingOK, PinOK, worker
  <2>5. FinderWaitsForATransfer'
    BY <1>2, <2>1 DEF FinderWaitsForATransfer
  <2> QED
    BY <2>2, <2>4, <2>5 DEF Inv
<1>3. CASE ~ (queued \cup finder = {} \/ (running /\ ~ waiting))
  <2>1. PICK new \in SUBSET (queued \cup finder) :
          /\ Abandon /\ StopReading /\ code' = NoSend /\ queued' = {}
          /\ AddFiles({}, new, After(failed, FALSE), NoPin)
    BY <1>3 DEF PollFinderFiles, TakeFinder
  <2>2. new \in SUBSET Files /\ {} \in SUBSET Files
    BY <1>1 DEF TypeOK
  <2>3. /\ running' \in BOOLEAN /\ After(failed, FALSE) \in BOOLEAN
        /\ NoPin \in [of : Sends \cup {NoSend}, try : 0 .. 2]
    <3>1. running \in BOOLEAN /\ failed \in BOOLEAN
      BY <1>1 DEF TypeOK
    <3>2. running' \in BOOLEAN
      BY <2>1, <3>1 DEF StopReading, After
    <3>3. After(failed, FALSE) \in BOOLEAN
      BY <3>1 DEF After
    <3>4. NoPin \in [of : Sends \cup {NoSend}, try : 0 .. 2]
      BY DEF NoPin
    <3> QED
      BY <3>2, <3>3, <3>4
  <2>4. /\ selected' \subseteq Files /\ failed' \in BOOLEAN /\ chosen' \in BOOLEAN
        /\ pin' \in [of : Sends \cup {NoSend}, try : 0 .. 2]
    BY <1>1, <2>1, <2>2, <2>3, SelectionType
  <2>5. CanChange
    BY <1>1, <1>3 DEF CanChange, TypeOK
  <2> QED
    BY <1>1, <2>1, <2>4, <2>5, Abandoning
<1> QED
  BY <1>2, <1>3

--------------------------------------------------------------------------
(* The theorems.                                                           *)

LEMMA InitInvariant ==
  Init => Inv
<1> SUFFICES ASSUME Init PROVE Inv
  OBVIOUS
<1>1. TypeOK
  <2>1. chosen \in BOOLEAN /\ selected \subseteq Files /\ events \in Seq(Messages)
    BY DEF Init
  <2>2. pin \in [of : Sends \cup {NoSend}, try : 0 .. 2]
    BY DEF Init, NoPin
  <2>3. /\ phase \in [Sends -> Phases] /\ kind \in [Sends -> Kinds]
        /\ files \in [Sends -> SUBSET Files] /\ tries \in [Sends -> 1 .. 2]
        /\ cancelled \in [Sends -> BOOLEAN]
    BY DEF Init, Phases, Kinds
  <2>4. /\ running \in BOOLEAN /\ failed \in BOOLEAN /\ waiting \in BOOLEAN
        /\ quitting \in BOOLEAN /\ alive \in BOOLEAN
        /\ queued \subseteq Files /\ finder \subseteq Files
        /\ code = NoSend /\ sender = NoSend /\ cancel = NoSend /\ at = "input"
    BY DEF Init
  <2> QED
    BY <2>1, <2>2, <2>3, <2>4 DEF TypeOK, Messages
<1>2. \A k : ~ Has(k)
  BY DEF Init, Has
<1> QED
  BY <1>1, <1>2 DEF Init, Inv, NoHiddenSend, BusyUntilHeard, FinderWaitsForATransfer,
     EventsOK, FlagsOK, WaitingOK, PinOK, Busy, Ended

\* What every step of the window, its workers and the Finder keeps.
THEOREM Invariance == Spec => []Inv
<1>1. Inv /\ [Next]_vars => Inv'
  <2> SUFFICES ASSUME Inv, [Next]_vars PROVE Inv'
    OBVIOUS
  <2>1. CASE OpenInFinder \/ Exit \/ UNCHANGED vars
    <3>1. /\ UNCHANGED <<panel, at, quitting, events, worker, cancelled>>
          /\ finder' \subseteq Files /\ alive' \in BOOLEAN
      BY <2>1 DEF OpenInFinder, Exit, vars, Inv, TypeOK
    <3>2. TypeOK'
      BY <3>1 DEF Inv, TypeOK, panel, worker
    <3>3. \A k : Has(k)' <=> Has(k)
      BY <3>1 DEF Has
    <3> QED
      BY <3>1, <3>2, <3>3 DEF Inv, NoHiddenSend, BusyUntilHeard,
         FinderWaitsForATransfer, EventsOK, FlagsOK, WaitingOK, PinOK, panel, worker
  <2> QED
    BY <2>1, PollEventsInvariant, PollFinderFilesInvariant, UserInvariant,
       WorkerInvariant DEF Next
<1> QED
  BY <1>1, InitInvariant, PTL DEF Spec

\* Every variable of the panel and of its workers keeps its type.
THEOREM TypeCorrect == Spec => []TypeOK
<1>1. Inv => TypeOK
  BY DEF Inv
<1> QED
  BY <1>1, Invariance, PTL

\* However often sends are started, given up and started again, a worker that
\* was not told to stop is the one the panel shows.
THEOREM NoSendIsHidden == Spec => []NoHiddenSend
<1>1. Inv => NoHiddenSend
  BY DEF Inv
<1> QED
  BY <1>1, Invariance, PTL

\* The panel is never busy with a worker that has ended and been heard.
THEOREM BusyMeansBusy == Spec => []BusyUntilHeard
<1>1. Inv => BusyUntilHeard
  BY DEF Inv
<1> QED
  BY <1>1, Invariance, PTL

\* The button that cancels a code stops the worker of that code.
THEOREM CancelIsHeard == Spec => []CancelReachesTheWorker
<1>1. Inv => CancelReachesTheWorker
  BY DEF Inv, WaitingOK, CancelReachesTheWorker
<1> QED
  BY <1>1, Invariance, PTL

\* The two users never compare the PIN of an earlier attempt.
THEOREM PinIsFresh == Spec => []FreshPin
<1>1. Inv => FreshPin
  BY DEF Inv, PinOK, FreshPin
<1> QED
  BY <1>1, Invariance, PTL

\* Finder files are kept back only while a transfer needs the selection.
THEOREM FinderNeedNotWait == Spec => []FinderWaitsForATransfer
<1>1. Inv => FinderWaitsForATransfer
  BY DEF Inv
<1> QED
  BY <1>1, Invariance, PTL

============================================================================
