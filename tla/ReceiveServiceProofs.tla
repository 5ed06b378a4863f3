------------------------ MODULE ReceiveServiceProofs ------------------------
(***************************************************************************)
(* ReceiveService for any number of connections, services and workers per   *)
(* service: consent, the reply channels and restarts.                       *)
(***************************************************************************)
EXTENDS ReceiveService, TLAPS, FiniteSetTheorems

USE NoWorkerAssumption, MaxWorkersAssumption DEF Services

--------------------------------------------------------------------------
(* The channel.                                                            *)

\* Messages of different kinds, and offers of different workers, differ.
LEMMA Kinds ==
  /\ \A v, w : Offer(v) = Offer(w) => v = w
  /\ \A w : /\ Offer(w) # Listening /\ Offer(w) # Error /\ Offer(w) # Stopped
            /\ \A v : Offer(w) # Complete(v)
            /\ Complete(w) # Stopped
  /\ Listening # Stopped /\ Error # Stopped
BY DEF Offer, Listening, Error, Stopped, Complete

\* What events.send does: what was in the channel stays where it is.
LEMMA Sending ==
  ASSUME TypeOK, NEW g, NEW batch \in Seq(Messages), Send(g, batch)
  PROVE  /\ events' \in Seq(Messages) /\ Len(events) <= Len(events')
         /\ \A i \in 1 .. Len(events) : events'[i] = events[i]
         /\ \A i \in 1 .. Len(events') : i > Len(events) =>
              /\ g = service /\ i - Len(events) \in 1 .. Len(batch)
              /\ events'[i] = batch[i - Len(events)]
<1>1. events \in Seq(Messages) /\ Len(events) \in Nat
  BY DEF TypeOK
<1>2. CASE g = service
  <2>1. events' = events \o batch
    BY <1>2 DEF Send
  <2> QED
    BY <1>1, <1>2, <2>1
<1>3. CASE g # service
  <2>1. events' = events
    BY <1>3 DEF Send
  <2> QED
    BY <1>1, <2>1
<1> QED
  BY <1>2, <1>3

\* A batch without an offer in it changes no offer's place.
LEMMA Noticing ==
  ASSUME TypeOK, NEW g, NEW batch \in Seq(Messages), Send(g, batch),
         \A i \in 1 .. Len(batch) : \A w : batch[i] # Offer(w)
  PROVE  /\ Offered(events)' = Offered(events)
         /\ \A i \in 1 .. Len(events') : \A w : events'[i] = Offer(w) =>
              i \in 1 .. Len(events) /\ events[i] = Offer(w)
<1>1. Len(events) \in Nat /\ Len(events') \in Nat
  BY Sending DEF TypeOK
<1>2. \A i \in 1 .. Len(events') : \A w : events'[i] = Offer(w) =>
        i \in 1 .. Len(events) /\ events[i] = Offer(w)
  <2> SUFFICES ASSUME NEW i \in 1 .. Len(events'), NEW w, events'[i] = Offer(w)
               PROVE  i \in 1 .. Len(events) /\ events[i] = Offer(w)
    OBVIOUS
  <2>1. CASE i > Len(events)
    <3>1. /\ i - Len(events) \in 1 .. Len(batch)
          /\ events'[i] = batch[i - Len(events)]
      BY <2>1, Sending
    <3> QED
      BY <3>1
  <2>2. CASE i <= Len(events)
    <3>1. i \in 1 .. Len(events)
      BY <1>1, <2>2
    <3> QED
      BY <3>1, Sending
  <2> QED
    BY <1>1, <2>1, <2>2
<1>3. \A i \in 1 .. Len(events) :
        i \in 1 .. Len(events') /\ events'[i] = events[i]
  BY <1>1, Sending
<1> QED
  BY <1>2, <1>3 DEF Offered

\* The batches that are sent.
LEMMA Batches ==
  /\ <<>> \in Seq(Messages) /\ <<Listening>> \in Seq(Messages)
  /\ <<Error, Stopped>> \in Seq(Messages) /\ <<Stopped>> \in Seq(Messages)
  /\ <<Error>> \in Seq(Messages)
  /\ \A w \in Workers : /\ <<Offer(w)>> \in Seq(Messages)
                        /\ <<Complete(w)>> \in Seq(Messages)
<1>1. /\ Listening \in Messages /\ Error \in Messages /\ Stopped \in Messages
      /\ \A w \in Workers : Offer(w) \in Messages /\ Complete(w) \in Messages
  BY DEF Messages
<1> QED
  BY <1>1

\* Taking the next event moves the others up.
LEMMA Taking ==
  ASSUME TypeOK, NEW kind, NextEvent(kind)
  PROVE  /\ events' \in Seq(Messages) /\ Len(events') = Len(events) - 1
         /\ Len(events) \in Nat \ {0}
         /\ polling' \in 0 .. Len(events')
         /\ \A i \in 1 .. Len(events') : events'[i] = events[i + 1]
         /\ Head(events) = events[1] /\ Head(events) \in Messages
         /\ Head(events).kind = kind
<1>1. events \in Seq(Messages) /\ Len(events) \in Nat \ {0} /\ polling \in 1 .. Len(events)
  BY DEF TypeOK, NextEvent
<1>2. events' = Tail(events) /\ polling' = polling - 1 /\ Head(events).kind = kind
  BY DEF NextEvent
<1> QED
  BY <1>1, <1>2

\* The head of the channel is an offer of some worker, if its kind says so.
LEMMA HeadOffer ==
  ASSUME TypeOK, NextEvent("Offer")
  PROVE  Head(events).of \in Workers /\ events[1] = Offer(Head(events).of)
<1>1. Head(events) \in Messages /\ Head(events).kind = "Offer"
      /\ Head(events) = events[1]
  BY Taking
<1> QED
  BY <1>1 DEF Messages, Offer, Listening, Error, Stopped, Complete

--------------------------------------------------------------------------
(* Types.                                                                  *)

\* Every step keeps the types.
LEMMA TypeStep == TypeOK /\ [Next]_vars => TypeOK'
<1> SUFFICES ASSUME TypeOK, [Next]_vars PROVE TypeOK'
  OBVIOUS
<1> USE DEF gui
<1>1. ASSUME NEW g \in Services, ServiceStep(g) PROVE TypeOK'
  <2>1. CASE StartService(g)
    <3>1. PICK batch \in Seq(Messages) : Send(g, batch)
      BY <2>1, Batches DEF StartService
    <3>2. /\ events' \in Seq(Messages) /\ Len(events) <= Len(events')
      BY <3>1, Sending
    <3>3. polling' \in 0 .. Len(events')
      BY <2>1, <3>2 DEF StartService, TypeOK
    <3> QED
      BY <2>1, <3>2, <3>3 DEF StartService, TypeOK, Threads
  <2>2. CASE LoopTop(g)
    BY <2>2 DEF LoopTop, TypeOK, Threads
  <2>3. CASE AdmitNone(g)
    <3>1. thread' \in [Services -> Threads]
      BY <2>3 DEF AdmitNone, TypeOK, Threads
    <3>2. CASE UNCHANGED events
      BY <2>3, <3>1, <3>2 DEF AdmitNone, TypeOK
    <3>3. CASE Send(g, <<Error>>)
      <4>1. /\ events' \in Seq(Messages) /\ Len(events) <= Len(events')
        BY <3>3, Sending, Batches
      <4>2. polling' \in 0 .. Len(events')
        BY <2>3, <4>1 DEF AdmitNone, TypeOK
      <4> QED
        BY <2>3, <3>1, <4>1, <4>2 DEF AdmitNone, TypeOK
    <3> QED
      BY <2>3, <3>2, <3>3 DEF AdmitNone
  <2>4. CASE ExitService(g)
    <3>1. Send(g, <<Stopped>>)
      BY <2>4 DEF ExitService
    <3>2. /\ events' \in Seq(Messages) /\ Len(events) <= Len(events')
      BY <3>1, Sending, Batches
    <3>3. polling' \in 0 .. Len(events')
      BY <2>4, <3>2 DEF ExitService, TypeOK
    <3> QED
      BY <2>4, <3>2, <3>3 DEF ExitService, TypeOK, Threads
  <2>5. ASSUME NEW w \in Workers, Admit(g, w) PROVE TypeOK'
    BY <2>5 DEF Admit, TypeOK, Threads, Phases
  <2> QED
    BY <1>1, <2>1, <2>2, <2>3, <2>4, <2>5 DEF ServiceStep
<1>2. ASSUME NEW w \in Workers, WorkerStep(w) PROVE TypeOK'
  <2>1. ASSUME NEW how \in Outcomes, NEW notice \in Seq(Messages), End(w, how, notice),
               UNCHANGED <<gui, alive, thread, stop, handles, home, reply, clicked>>
        PROVE  TypeOK'
    <3>1. /\ events' \in Seq(Messages) /\ Len(events) <= Len(events')
      BY <2>1, Sending DEF End
    <3>2. polling' \in 0 .. Len(events')
      BY <2>1, <3>1 DEF TypeOK
    <3> QED
      BY <2>1, <3>1, <3>2 DEF End, TypeOK, Phases
  <2>2. CASE HandshakeFails(w) \/ GoneWhileAsking(w) \/ Transfer(w)
    BY <2>1, <2>2, Batches
    DEF HandshakeFails, GoneWhileAsking, Transfer, Lose, Fail, Outcomes
  <2>3. CASE TakeDecision(w)
    <3>1. CASE phase' = [phase EXCEPT ![w] = "receiving"] /\ UNCHANGED <<events, outcome>>
      BY <2>3, <3>1 DEF TakeDecision, TypeOK, Phases
    <3>2. CASE End(w, "rejected", <<>>) \/ Lose(w) \/ Fail(w)
      BY <2>1, <2>3, <3>2, Batches DEF TakeDecision, Lose, Fail, Outcomes
    <3> QED
      BY <2>3, <3>1, <3>2 DEF TakeDecision
  <2>4. CASE Ask(w)
    <3>1. /\ events' \in Seq(Messages) /\ Len(events) <= Len(events')
      BY <2>4, Sending, Batches DEF Ask
    <3>2. polling' \in 0 .. Len(events')
      BY <2>4, <3>1 DEF Ask, TypeOK
    <3>3. reply' \in [Workers -> Replies]
      BY <2>4 DEF Ask, TypeOK, Replies
    <3> QED
      BY <2>4, <3>1, <3>2, <3>3 DEF Ask, TypeOK, Phases
  <2> QED
    BY <1>2, <2>2, <2>3, <2>4 DEF WorkerStep
<1>3. CASE Poll
  BY <1>3 DEF Poll, TypeOK
<1>4. CASE HandleEvent
  <2>1. PICK kind : NextEvent(kind)
    BY <1>4 DEF HandleEvent, HandleNotice, ShowOffer, DeclineBusy, HandleStopped
  <2>2. events' \in Seq(Messages) /\ polling' \in 0 .. Len(events')
    BY <2>1, Taking
  <2>3. CASE HandleNotice
    BY <2>2, <2>3 DEF HandleNotice, TypeOK
  <2>4. CASE ShowOffer
    BY <2>2, <2>4, HeadOffer DEF ShowOffer, TypeOK
  <2>5. CASE DeclineBusy
    BY <2>2, <2>5, HeadOffer DEF DeclineBusy, TypeOK, Replies
  <2>6. CASE HandleStopped
    BY <2>2, <2>6 DEF HandleStopped, TypeOK, Replies
  <2> QED
    BY <1>4, <2>3, <2>4, <2>5, <2>6 DEF HandleEvent
<1>5. CASE UserStep
  <2>1. CASE Start
    BY <2>1 DEF Start, TypeOK, Threads, Replies
  <2>2. CASE Stop
    BY <2>2 DEF Stop, RaiseStop, TypeOK, Replies
  <2>3. CASE PrepareToQuit
    BY <2>3 DEF PrepareToQuit, RaiseStop, TypeOK, Replies
  <2>4. ASSUME NEW accepted \in BOOLEAN, Decide(accepted) PROVE TypeOK'
    BY <2>4 DEF Decide, TypeOK, Replies
  <2> QED
    BY <1>5, <2>1, <2>2, <2>3, <2>4 DEF UserStep
<1>6. CASE Exit
  BY <1>6 DEF Exit, TypeOK, Phases, Outcomes
<1>7. CASE UNCHANGED vars
  BY <1>7 DEF vars, TypeOK
<1> QED
  BY <1>1, <1>2, <1>3, <1>4, <1>5, <1>6, <1>7 DEF Next

--------------------------------------------------------------------------
(* Consent.                                                                *)

\* Only the accept button puts an accept into a reply channel, and only an
\* accept makes a worker receive.
LEMMA ConsentStep == TypeOK /\ ConsentOK /\ [Next]_vars => ConsentOK'
<1> SUFFICES ASSUME TypeOK, ConsentOK, [Next]_vars PROVE ConsentOK'
  OBVIOUS
<1> USE DEF gui, ConsentOK, TypeOK
<1>1. ASSUME NEW g \in Services, ServiceStep(g) PROVE ConsentOK'
  BY <1>1 DEF ServiceStep, StartService, LoopTop, AdmitNone, ExitService, Admit
<1>2. ASSUME NEW w \in Workers, WorkerStep(w) PROVE ConsentOK'
  <2>1. CASE HandshakeFails(w) \/ GoneWhileAsking(w)
    BY <2>1 DEF HandshakeFails, GoneWhileAsking, Lose, Fail, End
  <2>2. CASE Ask(w)
    BY <2>2 DEF Ask
  <2>3. CASE TakeDecision(w)
    BY <2>3 DEF TakeDecision, Consents, Lose, Fail, End
  <2>4. CASE Transfer(w)
    BY <2>4 DEF Transfer, Lose, Fail, End
  <2> QED
    BY <1>2, <2>1, <2>2, <2>3, <2>4 DEF WorkerStep
<1>3. CASE Poll \/ HandleEvent
  BY <1>3 DEF Poll, HandleEvent, HandleNotice, ShowOffer, DeclineBusy, HandleStopped
<1>4. CASE UserStep
  <2>1. CASE Start
    BY <2>1 DEF Start
  <2>2. CASE Stop \/ PrepareToQuit
    BY <2>2 DEF Stop, PrepareToQuit, RaiseStop
  <2>3. ASSUME NEW accepted \in BOOLEAN, Decide(accepted) PROVE ConsentOK'
    BY <2>3 DEF Decide
  <2> QED
    BY <1>4, <2>1, <2>2, <2>3 DEF UserStep
<1>5. CASE Exit
  BY <1>5 DEF Exit
<1>6. CASE UNCHANGED vars
  BY <1>6 DEF vars
<1> QED
  BY <1>1, <1>2, <1>3, <1>4, <1>5, <1>6 DEF Next

--------------------------------------------------------------------------
(* One listener.                                                           *)

\* A batch that does not end a service leaves ListenerOK to the rest.
LEMMA NotStopping ==
  ASSUME TypeOK, ListenerOK, NEW g, NEW batch \in Seq(Messages), Send(g, batch),
         \A i \in 1 .. Len(batch) : batch[i] # Stopped,
         NEW i \in 1 .. Len(events'), events'[i] = Stopped
  PROVE  service \in Services /\ thread[service] = "exited"
<1>1. Len(events) \in Nat /\ Len(events') \in Nat
  BY Sending DEF TypeOK
<1>2. CASE i > Len(events)
  <2>1. i - Len(events) \in 1 .. Len(batch) /\ events'[i] = batch[i - Len(events)]
    BY <1>2, Sending
  <2> QED
    BY <2>1
<1>3. CASE i <= Len(events)
  <2>1. i \in 1 .. Len(events)
    BY <1>1, <1>3
  <2>2. events[i] = Stopped
    BY <2>1, Sending
  <2> QED
    BY <2>1, <2>2 DEF ListenerOK
<1> QED
  BY <1>1, <1>2, <1>3

\* Only the current service's thread is alive, and the GUI does not start
\* another one while it is.
LEMMA ListenerStep == TypeOK /\ ListenerOK /\ [Next]_vars => ListenerOK'
<1> SUFFICES ASSUME TypeOK, ListenerOK, [Next]_vars PROVE ListenerOK'
  OBVIOUS
<1> USE DEF gui
<1>1. ASSUME NEW g \in Services, ServiceStep(g) PROVE ListenerOK'
  <2>1. ASSUME thread[g] \notin {"absent", "exited"} PROVE g = service /\ running
    BY <2>1 DEF ListenerOK, TypeOK
  <2>2. ASSUME thread[g] \notin {"absent", "exited"}, NEW p, p # "absent",
               thread' = [thread EXCEPT ![g] = p], UNCHANGED <<running, service>>,
               \A i \in 1 .. Len(events') : events'[i] = Stopped => thread'[g] = "exited"
        PROVE  ListenerOK'
    BY <2>1, <2>2 DEF ListenerOK, TypeOK
  <2>3. ASSUME thread[g] \notin {"absent", "exited"}
        PROVE  \A i \in 1 .. Len(events) : events[i] # Stopped
    BY <2>1, <2>3 DEF ListenerOK
  <2>4. CASE StartService(g)
    <3>1. CASE thread' = [thread EXCEPT ![g] = "loop"] /\ Send(g, <<Listening>>)
      <4>1. \A i \in 1 .. Len(events') : events'[i] # Stopped
        <5> SUFFICES ASSUME NEW i \in 1 .. Len(events'), events'[i] = Stopped
                     PROVE  FALSE
          OBVIOUS
        <5>1. thread[g] = "starting" /\ g = service
          BY <2>1, <2>4 DEF StartService
        <5>2. /\ <<Listening>> \in Seq(Messages)
              /\ \A j \in 1 .. Len(<<Listening>>) : <<Listening>>[j] # Stopped
          BY Batches, Kinds
        <5>3. thread[service] = "exited"
          BY <3>1, <5>2, NotStopping
        <5> QED
          BY <5>1, <5>3
      <4> QED
        BY <2>2, <2>4, <3>1, <4>1 DEF StartService
    <3>2. CASE thread' = [thread EXCEPT ![g] = "exited"]
      BY <2>2, <2>4, <3>2 DEF StartService, TypeOK
    <3> QED
      BY <2>4, <3>1, <3>2 DEF StartService
  <2>5. CASE ExitService(g)
    BY <2>2, <2>5 DEF ExitService, TypeOK
  <2>6. CASE LoopTop(g) \/ \E w \in Workers : Admit(g, w)
    BY <2>2, <2>3, <2>6 DEF LoopTop, Admit
  <2>7. CASE AdmitNone(g)
    <3>1. thread[g] = "admitting" /\ g = service
      BY <2>1, <2>7 DEF AdmitNone
    <3>2. CASE UNCHANGED events
      BY <2>2, <2>3, <2>7, <3>2 DEF AdmitNone
    <3>3. CASE Send(g, <<Error>>)
      <4>1. /\ <<Error>> \in Seq(Messages)
            /\ \A j \in 1 .. Len(<<Error>>) : <<Error>>[j] # Stopped
        BY Batches, Kinds
      <4>2. \A i \in 1 .. Len(events') : events'[i] # Stopped
        <5> SUFFICES ASSUME NEW i \in 1 .. Len(events'), events'[i] = Stopped
                     PROVE  FALSE
          OBVIOUS
        <5>1. thread[service] = "exited"
          BY <3>3, <4>1, NotStopping
        <5> QED
          BY <3>1, <5>1
      <4> QED
        BY <2>2, <2>7, <4>2 DEF AdmitNone
    <3> QED
      BY <2>7, <3>2, <3>3 DEF AdmitNone
  <2> QED
    BY <1>1, <2>4, <2>5, <2>6, <2>7 DEF ServiceStep
<1>2. ASSUME NEW w \in Workers, WorkerStep(w) PROVE ListenerOK'
  <2>1. UNCHANGED <<running, service, thread>>
    BY <1>2 DEF WorkerStep, HandshakeFails, Ask, GoneWhileAsking, TakeDecision, Transfer
  <2>2. ASSUME NEW batch \in Seq(Messages), Send(home[w], batch),
               \A i \in 1 .. Len(batch) : batch[i] # Stopped
        PROVE  ListenerOK'
    BY <2>1, <2>2, NotStopping DEF ListenerOK
  <2>3. CASE events' = events
    BY <2>1, <2>3 DEF ListenerOK
  <2>4. \/ events' = events \/ Send(home[w], <<>>) \/ Send(home[w], <<Error>>)
        \/ Send(home[w], <<Offer(w)>>) \/ Send(home[w], <<Complete(w)>>)
    BY <1>2 DEF WorkerStep, HandshakeFails, Ask, GoneWhileAsking, TakeDecision,
       Transfer, Lose, Fail, End
  <2>5. ASSUME NEW m \in Messages, m # Stopped, Send(home[w], <<m>>)
        PROVE  ListenerOK'
    <3>1. /\ <<m>> \in Seq(Messages)
          /\ \A i \in 1 .. Len(<<m>>) : <<m>>[i] # Stopped
      BY <2>5
    <3> QED
      BY <2>2, <2>5, <3>1
  <2>6. Error \in Messages /\ Offer(w) \in Messages /\ Complete(w) \in Messages
    BY DEF Messages
  <2>7. CASE Send(home[w], <<>>)
    <3>1. \A i \in 1 .. Len(<<>>) : FALSE
      OBVIOUS
    <3> QED
      BY <2>2, <2>7, <3>1, Batches
  <2> QED
    BY <2>3, <2>4, <2>5, <2>6, <2>7, Kinds
<1>3. CASE Poll
  BY <1>3 DEF Poll, ListenerOK
<1>4. CASE HandleEvent
  <2>1. PICK kind : NextEvent(kind)
    BY <1>4 DEF HandleEvent, HandleNotice, ShowOffer, DeclineBusy, HandleStopped
  <2>2. \A i \in 1 .. Len(events') : i + 1 \in 1 .. Len(events) /\ events'[i] = events[i + 1]
    BY <2>1, Taking
  <2>3. UNCHANGED <<service, thread>>
    BY <1>4 DEF HandleEvent, HandleNotice, ShowOffer, DeclineBusy, HandleStopped
  <2>4. \A i \in 1 .. Len(events') : events'[i] = Stopped =>
          service \in Services /\ thread[service] = "exited"
    BY <2>2 DEF ListenerOK
  <2>5. CASE HandleStopped
    <3>1. NextEvent("Stopped")
      BY <2>5 DEF HandleStopped
    <3>2. events[1] \in Messages /\ events[1].kind = "Stopped" /\ 1 \in 1 .. Len(events)
      BY <3>1, Taking
    <3>3. events[1] = Stopped
      BY <3>2 DEF Messages, Offer, Listening, Error, Stopped, Complete
    <3>4. thread[service] = "exited"
      BY <3>2, <3>3 DEF ListenerOK
    <3> QED
      BY <2>3, <2>4, <3>4 DEF ListenerOK
  <2>6. CASE UNCHANGED running
    BY <2>3, <2>4, <2>6 DEF ListenerOK
  <2> QED
    BY <1>4, <2>5, <2>6 DEF HandleEvent, HandleNotice, ShowOffer, DeclineBusy
<1>5. CASE UserStep
  <2>1. CASE Start
    <3>1. /\ service' = service + 1 /\ running' = TRUE /\ events' = <<>>
          /\ thread' = [thread EXCEPT ![service + 1] = "starting"]
          /\ ~ running /\ service < MaxServices
      BY <2>1 DEF Start
    <3>2. service \in Nat
      BY DEF TypeOK
    <3>3. ASSUME NEW g \in Services
          PROVE  /\ g > service' => thread'[g] = "absent"
                 /\ g < service' => thread'[g] = "exited"
      BY <3>1, <3>2 DEF ListenerOK, TypeOK
    <3> QED
      BY <3>1, <3>3 DEF ListenerOK
  <2>2. CASE Stop \/ PrepareToQuit \/ \E accepted \in BOOLEAN : Decide(accepted)
    BY <2>2 DEF Stop, PrepareToQuit, Decide, ListenerOK
  <2> QED
    BY <1>5, <2>1, <2>2 DEF UserStep
<1>6. CASE Exit
  BY <1>6 DEF Exit, ListenerOK
<1>7. CASE UNCHANGED vars
  BY <1>7 DEF vars, ListenerOK
<1> QED
  BY <1>1, <1>2, <1>3, <1>4, <1>5, <1>6, <1>7 DEF Next

--------------------------------------------------------------------------
(* The offers and their answers.                                           *)

\* A step that moves no offer, answers none and lets no worker start anew
\* keeps OffersOK and loses no worker that waits.
LEMMA NoOfferMoves ==
  ASSUME TypeOK, OffersOK, EveryAskIsReachable, UNCHANGED <<pending, reply>>,
         Offered(events)' = Offered(events),
         \A i \in 1 .. Len(events') : \A w : events'[i] = Offer(w) =>
           i \in 1 .. Len(events) /\ events[i] = Offer(w),
         \A w \in Workers : phase'[w] \in {"unborn", "handshake"} =>
           phase[w] \in {"unborn", "handshake"},
         alive' => alive /\ \A w \in Workers :
           phase'[w] = "asking" => phase[w] = "asking"
  PROVE  OffersOK' /\ EveryAskIsReachable'
<1>1. OffersOK'
  BY DEF OffersOK
<1>2. EveryAskIsReachable'
  BY DEF EveryAskIsReachable
<1> QED
  BY <1>1, <1>2

\* The next event, once handled, is no longer in the channel, and the others
\* still are.
LEMMA TakingOffers ==
  ASSUME TypeOK, OffersOK, NEW kind, NextEvent(kind)
  PROVE  /\ Offered(events)' = Offered(events) \ {w \in Workers : events[1] = Offer(w)}
         /\ \A w \in Workers : \A i, j \in 1 .. Len(events') :
              events'[i] = Offer(w) /\ events'[j] = Offer(w) => i = j
         /\ \A w \in Workers : events[1] = Offer(w) => w \in Offered(events)
<1>1. /\ Len(events) \in Nat \ {0} /\ Len(events') = Len(events) - 1
      /\ \A i \in 1 .. Len(events') : events'[i] = events[i + 1]
  BY Taking
<1>2. ASSUME NEW w \in Workers, NEW i \in 1 .. Len(events'), NEW j \in 1 .. Len(events'),
             events'[i] = Offer(w), events'[j] = Offer(w)
      PROVE  i = j
  <2>1. i + 1 \in 1 .. Len(events) /\ j + 1 \in 1 .. Len(events)
    BY <1>1
  <2>2. i + 1 = j + 1
    BY <1>1, <1>2, <2>1 DEF OffersOK
  <2> QED
    BY <1>1, <2>2
<1>3. ASSUME NEW w \in Workers PROVE w \in Offered(events)' <=>
               w \in Offered(events) /\ events[1] # Offer(w)
  <2>1. ASSUME w \in Offered(events)'
        PROVE  w \in Offered(events) /\ events[1] # Offer(w)
    <3>1. PICK i \in 1 .. Len(events') : events'[i] = Offer(w)
      BY <2>1 DEF Offered
    <3>2. i + 1 \in 1 .. Len(events) /\ events[i + 1] = Offer(w) /\ i + 1 # 1
          /\ 1 \in 1 .. Len(events)
      BY <1>1, <3>1
    <3> QED
      BY <3>2 DEF Offered, OffersOK
  <2>2. ASSUME w \in Offered(events), events[1] # Offer(w)
        PROVE  w \in Offered(events)'
    <3>1. PICK i \in 1 .. Len(events) : events[i] = Offer(w)
      BY <2>2 DEF Offered
    <3>2. i - 1 \in 1 .. Len(events') /\ (i - 1) + 1 = i
      BY <1>1, <2>2, <3>1
    <3>3. events'[i - 1] = Offer(w)
      BY <1>1, <3>1, <3>2
    <3> QED
      BY <3>2, <3>3 DEF Offered
  <2> QED
    BY <2>1, <2>2
<1>4. \A w \in Workers : events[1] = Offer(w) => w \in Offered(events)
  BY <1>1 DEF Offered
<1> QED
  BY <1>2, <1>3, <1>4 DEF Offered

\* The refusal of the offer on display, which is then gone from display.
LEMMA Answering ==
  ASSUME TypeOK, OffersOK, EveryAskIsReachable, NEW answer \in Replies \ {"open"},
         reply' = IF pending = NoWorker THEN reply
                  ELSE [reply EXCEPT ![pending] = answer],
         pending' = NoWorker, UNCHANGED <<phase, events, alive>>
  PROVE  OffersOK' /\ EveryAskIsReachable'
<1>1. Offered(events)' = Offered(events)
  BY DEF Offered
<1>2. \A w \in Workers : reply'[w] = IF w = pending THEN answer ELSE reply[w]
  BY DEF TypeOK
<1>3. OffersOK'
  BY <1>1, <1>2 DEF OffersOK
<1>4. EveryAskIsReachable'
  BY <1>1, <1>2 DEF EveryAskIsReachable, Replies
<1> QED
  BY <1>3, <1>4

\* The offer of a worker that has read its introduction.
LEMMA Asking ==
  ASSUME TypeOK, OffersOK, EveryAskIsReachable, NEW w \in Workers, Ask(w)
  PROVE  OffersOK' /\ EveryAskIsReachable'
<1>1. /\ phase[w] = "handshake" /\ phase' = [phase EXCEPT ![w] = "asking"]
      /\ Send(home[w], <<Offer(w)>>) /\ UNCHANGED <<pending, alive>> /\ alive
      /\ reply' = IF home[w] = service THEN reply
                  ELSE [reply EXCEPT ![w] = "dropped"]
  BY DEF Ask, gui
<1>2. w \notin Offered(events) /\ pending # w /\ reply[w] = "open"
  BY <1>1 DEF OffersOK
<1>3. /\ phase'[w] = "asking"
      /\ \A v \in Workers \ {w} : phase'[v] = phase[v]
  BY <1>1 DEF TypeOK
<1>4. CASE home[w] = service
  <2>1. /\ Len(events) \in Nat /\ Len(events') = Len(events) + 1
        /\ events'[Len(events) + 1] = Offer(w)
        /\ \A i \in 1 .. Len(events) : events'[i] = events[i]
    <3>1. events' = events \o <<Offer(w)>> /\ events \in Seq(Messages)
      BY <1>1, <1>4 DEF Send, TypeOK
    <3> QED
      BY <3>1
  <2>2. \A i \in 1 .. Len(events') : i \in 1 .. Len(events) \/ i = Len(events) + 1
    BY <2>1
  <2>3. \A v \in Workers : v \in Offered(events)' <=> v \in Offered(events) \/ v = w
    <3>1. \A v \in Workers : v \in Offered(events)' => v \in Offered(events) \/ v = w
      BY <2>1, <2>2, Kinds DEF Offered
    <3>2. \A v \in Workers : v \in Offered(events) => v \in Offered(events)'
      BY <2>1 DEF Offered
    <3>3. w \in Offered(events)'
      BY <2>1 DEF Offered
    <3> QED
      BY <3>1, <3>2, <3>3
  <2>4. ASSUME NEW v \in Workers, NEW i \in 1 .. Len(events'), NEW j \in 1 .. Len(events'),
               events'[i] = Offer(v), events'[j] = Offer(v)
        PROVE  i = j
    <3>1. CASE v = w
      <4>1. \A n \in 1 .. Len(events) : events[n] # Offer(w)
        BY <1>2 DEF Offered
      <4> QED
        BY <2>1, <2>2, <2>4, <3>1, <4>1
    <3>2. CASE v # w
      <4>1. Offer(v) # Offer(w)
        BY <3>2, Kinds
      <4>2. i \in 1 .. Len(events) /\ j \in 1 .. Len(events)
        BY <2>1, <2>2, <2>4, <4>1
      <4> QED
        BY <2>1, <2>4, <4>2 DEF OffersOK
    <3> QED
      BY <3>1, <3>2
  <2>5. OffersOK'
    BY <1>1, <1>2, <1>3, <1>4, <2>3, <2>4 DEF OffersOK
  <2>6. EveryAskIsReachable'
    BY <1>1, <1>3, <1>4, <2>3 DEF EveryAskIsReachable
  <2> QED
    BY <2>5, <2>6
<1>5. CASE home[w] # service
  <2>1. events' = events /\ Offered(events)' = Offered(events)
    BY <1>1, <1>5 DEF Send, Offered
  <2>2. \A v \in Workers : reply'[v] = IF v = w THEN "dropped" ELSE reply[v]
    BY <1>1, <1>5 DEF TypeOK
  <2>3. OffersOK'
    BY <1>1, <1>2, <1>3, <2>1, <2>2 DEF OffersOK
  <2>4. EveryAskIsReachable'
    BY <1>1, <1>3, <2>1, <2>2 DEF EveryAskIsReachable
  <2> QED
    BY <2>3, <2>4
<1> QED
  BY <1>4, <1>5

\* A worker's end is a notice without an offer.
LEMMA Ending ==
  ASSUME TypeOK, OffersOK, EveryAskIsReachable, NEW w \in Workers,
         phase[w] # "unborn", NEW how,
         NEW notice \in {<<>>, <<Error>>, <<Complete(w)>>}, End(w, how, notice),
         UNCHANGED <<gui, alive, reply>>, alive
  PROVE  OffersOK' /\ EveryAskIsReachable'
<1>1. notice \in Seq(Messages) /\ Send(home[w], notice)
  BY Batches DEF End
<1>2. \A i \in 1 .. Len(notice) : \A v : notice[i] # Offer(v)
  <2>1. CASE notice = <<>>
    BY <2>1
  <2>2. CASE notice = <<Error>>
    BY <2>2, Kinds
  <2>3. CASE notice = <<Complete(w)>>
    BY <2>3, Kinds
  <2> QED
    BY <2>1, <2>2, <2>3
<1>3. \A v \in Workers : IF v = w THEN phase'[v] = "ended" ELSE phase'[v] = phase[v]
  BY DEF End, TypeOK
<1>4. /\ Offered(events)' = Offered(events)
      /\ \A i \in 1 .. Len(events') : \A v : events'[i] = Offer(v) =>
           i \in 1 .. Len(events) /\ events[i] = Offer(v)
  BY <1>1, <1>2, Noticing
<1> QED
  BY <1>3, <1>4, NoOfferMoves DEF gui

\* No step leaves a waiting worker without an offer, or an offer in two places.
LEMMA OffersStep ==
  TypeOK /\ OffersOK /\ EveryAskIsReachable /\ [Next]_vars
    => OffersOK' /\ EveryAskIsReachable'
<1> SUFFICES ASSUME TypeOK, OffersOK, EveryAskIsReachable, [Next]_vars
             PROVE  OffersOK' /\ EveryAskIsReachable'
  OBVIOUS
<1>1. ASSUME UNCHANGED <<pending, reply, phase, events, alive>>
      PROVE  OffersOK' /\ EveryAskIsReachable'
  BY <1>1 DEF OffersOK, EveryAskIsReachable, Offered
<1>2. ASSUME NEW g \in Services, ServiceStep(g)
      PROVE  OffersOK' /\ EveryAskIsReachable'
  <2>1. CASE \/ StartService(g) \/ ExitService(g)
             \/ AdmitNone(g) /\ Send(g, <<Error>>)
    <3>1. PICK batch \in {<<Listening>>, <<Error, Stopped>>, <<Stopped>>, <<Error>>} :
            Send(g, batch)
      BY <2>1 DEF StartService, ExitService
    <3>2. batch \in Seq(Messages)
      BY Batches
    <3>3. \A i \in 1 .. Len(batch) : \A w : batch[i] # Offer(w)
      <4>1. CASE batch = <<Listening>>
        BY <4>1, Kinds
      <4>2. CASE batch = <<Error, Stopped>>
        BY <4>2, Kinds
      <4>3. CASE batch = <<Stopped>>
        BY <4>3, Kinds
      <4>4. CASE batch = <<Error>>
        BY <4>4, Kinds
      <4> QED
        BY <4>1, <4>2, <4>3, <4>4
    <3>4. UNCHANGED <<pending, reply, phase, alive>> /\ alive
      BY <2>1 DEF StartService, ExitService, AdmitNone, gui
    <3> QED
      BY <3>1, <3>2, <3>3, <3>4, Noticing, NoOfferMoves
  <2>2. CASE LoopTop(g) \/ (AdmitNone(g) /\ UNCHANGED events)
    BY <1>1, <2>2 DEF LoopTop, AdmitNone, gui
  <2>3. ASSUME NEW w \in Workers, Admit(g, w)
        PROVE  OffersOK' /\ EveryAskIsReachable'
    <3>1. /\ phase[w] = "unborn" /\ phase' = [phase EXCEPT ![w] = "handshake"]
          /\ UNCHANGED <<pending, reply, events, alive>> /\ alive
      BY <2>3 DEF Admit, gui
    <3>2. \A v \in Workers : IF v = w THEN phase'[v] = "handshake"
                                       ELSE phase'[v] = phase[v]
      BY <3>1 DEF TypeOK
    <3>3. Offered(events)' = Offered(events)
      BY <3>1 DEF Offered
    <3> QED
      BY <3>1, <3>2, <3>3, NoOfferMoves
  <2> QED
    BY <1>2, <2>1, <2>2, <2>3 DEF ServiceStep, AdmitNone
<1>3. ASSUME NEW w \in Workers, WorkerStep(w)
      PROVE  OffersOK' /\ EveryAskIsReachable'
  <2>1. CASE Ask(w)
    BY <2>1, Asking
  <2>2. ASSUME phase[w] # "unborn", alive, UNCHANGED <<gui, alive, reply>>,
               \/ \E how : End(w, how, <<>>) \/ End(w, how, <<Error>>)
               \/ \E how : End(w, how, <<Complete(w)>>)
        PROVE  OffersOK' /\ EveryAskIsReachable'
    BY <2>2, Ending
  <2>3. CASE HandshakeFails(w) \/ GoneWhileAsking(w) \/ Transfer(w)
    BY <2>2, <2>3 DEF HandshakeFails, GoneWhileAsking, Transfer, Lose, Fail
  <2>4. CASE TakeDecision(w)
    <3>1. CASE phase' = [phase EXCEPT ![w] = "receiving"] /\ UNCHANGED <<events, outcome>>
      <4>1. /\ UNCHANGED <<pending, reply, events, alive>> /\ alive
            /\ \A v \in Workers : IF v = w THEN phase'[v] = "receiving"
                                           ELSE phase'[v] = phase[v]
        BY <2>4, <3>1 DEF TakeDecision, TypeOK, gui
      <4>2. Offered(events)' = Offered(events)
        BY <4>1 DEF Offered
      <4> QED
        BY <4>1, <4>2, NoOfferMoves
    <3>2. CASE End(w, "rejected", <<>>) \/ Lose(w) \/ Fail(w)
      BY <2>2, <2>4, <3>2 DEF TakeDecision, Lose, Fail
    <3> QED
      BY <2>4, <3>1, <3>2 DEF TakeDecision
  <2> QED
    BY <1>3, <2>1, <2>3, <2>4 DEF WorkerStep
<1>4. CASE Poll
  BY <1>1, <1>4 DEF Poll
<1>5. CASE HandleNotice
  <2>1. PICK kind \in {"Listening", "Complete", "Error"} : NextEvent(kind)
    BY <1>5 DEF HandleNotice
  <2>2. \A w : events[1] # Offer(w)
    BY <2>1, Taking DEF Offer
  <2>3. /\ Offered(events)' = Offered(events)
        /\ UNCHANGED <<pending, reply, phase, alive>>
        /\ \A w \in Workers : \A i, j \in 1 .. Len(events') :
              events'[i] = Offer(w) /\ events'[j] = Offer(w) => i = j
    BY <1>5, <2>1, <2>2, TakingOffers DEF HandleNotice, Offered
  <2> QED
    BY <2>3 DEF OffersOK, EveryAskIsReachable
<1>6. ASSUME ShowOffer \/ DeclineBusy
      PROVE  OffersOK' /\ EveryAskIsReachable'
  <2> DEFINE v == Head(events).of
  <2>1. NextEvent("Offer")
    BY <1>6 DEF ShowOffer, DeclineBusy
  <2>2. v \in Workers /\ events[1] = Offer(v)
    BY <2>1, HeadOffer
  <2>3. /\ \A w \in Workers : w \in Offered(events)' <=> w \in Offered(events) /\ w # v
        /\ \A w \in Workers : \A i, j \in 1 .. Len(events') :
              events'[i] = Offer(w) /\ events'[j] = Offer(w) => i = j
        /\ v \in Offered(events)
    BY <2>1, <2>2, TakingOffers, Kinds
  <2>4. /\ phase[v] \notin {"unborn", "handshake"} /\ reply[v] = "open"
        /\ pending # v
    BY <2>2, <2>3 DEF OffersOK
  <2> HIDE DEF v
  <2>5. CASE ShowOffer
    <3>1. pending = NoWorker /\ pending' = v /\ UNCHANGED <<reply, phase, alive>>
      BY <2>5 DEF ShowOffer, v
    <3>2. OffersOK'
      BY <2>2, <2>3, <2>4, <3>1 DEF OffersOK
    <3>3. EveryAskIsReachable'
      BY <2>3, <3>1 DEF EveryAskIsReachable
    <3> QED
      BY <3>2, <3>3
  <2>6. CASE DeclineBusy
    <3>1. /\ reply' = [reply EXCEPT ![v] = "reject"]
          /\ UNCHANGED <<pending, phase, alive>>
      BY <2>6 DEF DeclineBusy, v
    <3>2. \A w \in Workers : reply'[w] = IF w = v THEN "reject" ELSE reply[w]
      BY <2>2, <3>1 DEF TypeOK
    <3>3. OffersOK'
      BY <2>2, <2>3, <2>4, <3>1, <3>2 DEF OffersOK
    <3>4. EveryAskIsReachable'
      BY <2>3, <3>1, <3>2 DEF EveryAskIsReachable
    <3> QED
      BY <3>3, <3>4
  <2> QED
    BY <1>6, <2>5, <2>6
<1>7. CASE HandleStopped
  <2>1. /\ reply' = (IF pending = NoWorker THEN reply
                     ELSE [reply EXCEPT ![pending] = "dropped"])
        /\ pending' = NoWorker /\ NextEvent("Stopped") /\ UNCHANGED <<phase, alive>>
    BY <1>7 DEF HandleStopped
  <2>2. \A w : events[1] # Offer(w)
    BY <2>1, Taking DEF Offer
  <2>3. /\ Offered(events)' = Offered(events)
        /\ \A w \in Workers : \A i, j \in 1 .. Len(events') :
              events'[i] = Offer(w) /\ events'[j] = Offer(w) => i = j
    BY <2>1, <2>2, TakingOffers DEF Offered
  <2>4. \A w \in Workers : reply'[w] = IF w = pending THEN "dropped" ELSE reply[w]
    BY <2>1 DEF TypeOK
  <2>5. OffersOK'
    BY <2>1, <2>3, <2>4 DEF OffersOK
  <2>6. EveryAskIsReachable'
    BY <2>1, <2>3, <2>4 DEF EveryAskIsReachable
  <2> QED
    BY <2>5, <2>6
<1>8. CASE Start
  <2>1. /\ events' = <<>> /\ pending = NoWorker /\ UNCHANGED <<pending, phase, alive>>
        /\ reply' = [w \in Workers |-> IF w \in Offered(events) THEN "dropped"
                                       ELSE reply[w]]
    BY <1>8 DEF Start
  <2>2. Offered(events)' = {} /\ Len(events') = 0
    BY <2>1 DEF Offered
  <2>3. OffersOK'
    BY <2>1, <2>2 DEF OffersOK
  <2>4. EveryAskIsReachable'
    BY <2>1, <2>2 DEF EveryAskIsReachable
  <2> QED
    BY <2>3, <2>4
<1>9. CASE Stop \/ PrepareToQuit
  BY <1>9, Answering DEF Stop, PrepareToQuit, RaiseStop, Replies
<1>10. ASSUME NEW accepted \in BOOLEAN, Decide(accepted)
       PROVE  OffersOK' /\ EveryAskIsReachable'
  BY <1>10, Answering DEF Decide, Replies
<1>11. CASE Exit
  <2>1. /\ UNCHANGED <<pending, reply, events>> /\ ~ alive'
        /\ \A w \in Workers : phase'[w] = IF phase[w] = "unborn" THEN "unborn" ELSE "ended"
    BY <1>11 DEF Exit, gui
  <2>2. Offered(events)' = Offered(events)
    BY <2>1 DEF Offered
  <2> QED
    BY <2>1, <2>2, NoOfferMoves
<1>12. CASE UNCHANGED vars
  BY <1>1, <1>12 DEF vars, gui
<1> QED
  BY <1>2, <1>3, <1>4, <1>5, <1>6, <1>7, <1>8, <1>9, <1>10, <1>11, <1>12
  DEF Next, HandleEvent, UserStep

--------------------------------------------------------------------------
(* The pool of workers.                                                    *)

\* The workers vector holds every worker that serves a connection, and has room
\* for one more when the accept loop looks for a connection.
PoolOK ==
  \A g \in Services :
    /\ Serving(g) \subseteq handles[g] /\ IsFiniteSet(handles[g])
    /\ Cardinality(handles[g]) <= MaxWorkers
    /\ thread[g] = "admitting" => Cardinality(handles[g]) < MaxWorkers

\* Workers that end, or go on, take no place in a pool.
LEMMA PoolKept ==
  ASSUME PoolOK, handles' = handles,
         \A g \in Services : Serving(g)' \subseteq Serving(g),
         \A g \in Services : thread'[g] = "admitting" => thread[g] = "admitting"
  PROVE  PoolOK'
BY DEF PoolOK

LEMMA PoolStep == TypeOK /\ PoolOK /\ [Next]_vars => PoolOK'
<1> SUFFICES ASSUME TypeOK, PoolOK, [Next]_vars PROVE PoolOK'
  OBVIOUS
<1>1. /\ phase \in [Workers -> Phases] /\ thread \in [Services -> Threads]
      /\ handles \in [Services -> SUBSET Workers] /\ home \in [Workers -> 0 .. MaxServices]
      /\ MaxWorkers \in Nat
  BY DEF TypeOK
<1>2. \A g \in Services : Cardinality(handles[g]) \in Nat
  BY FS_CardinalityType DEF PoolOK
<1>3. ASSUME NEW g \in Services, LoopTop(g) PROVE PoolOK'
  <2>1. /\ handles' = [handles EXCEPT ![g] = {w \in @ : phase[w] # "ended"}]
        /\ Cardinality(handles'[g]) < MaxWorkers
        /\ thread' = [thread EXCEPT ![g] = "admitting"]
        /\ phase' = phase /\ home' = home
    BY <1>3 DEF LoopTop
  <2>2. ASSUME NEW h \in Services
        PROVE  /\ Serving(h)' \subseteq handles'[h] /\ IsFiniteSet(handles'[h])
               /\ Cardinality(handles'[h]) <= MaxWorkers
               /\ thread'[h] = "admitting" => Cardinality(handles'[h]) < MaxWorkers
    <3>1. Serving(h)' = Serving(h)
      BY <2>1 DEF Serving
    <3>2. CASE h = g
      <4>1. handles'[h] = {w \in handles[h] : phase[w] # "ended"}
        BY <1>1, <2>1, <3>2
      <4>2. IsFiniteSet(handles'[h]) /\ Serving(h)' \subseteq handles'[h]
        BY <3>1, <4>1, FS_Subset DEF PoolOK, Serving
      <4>3. Cardinality(handles'[h]) \in Nat
        BY <4>2, FS_CardinalityType
      <4> QED
        BY <1>1, <2>1, <3>2, <4>2, <4>3
    <3>3. CASE h # g
      <4>1. handles'[h] = handles[h] /\ thread'[h] = thread[h]
        BY <1>1, <2>1, <3>3
      <4> QED
        BY <3>1, <4>1 DEF PoolOK
    <3> QED
      BY <3>2, <3>3
  <2> QED
    BY <2>2 DEF PoolOK
<1>4. ASSUME NEW g \in Services, NEW w \in Workers, Admit(g, w) PROVE PoolOK'
  <2>1. /\ thread[g] = "admitting" /\ thread' = [thread EXCEPT ![g] = "loop"]
        /\ handles' = [handles EXCEPT ![g] = @ \cup {w}]
        /\ phase' = [phase EXCEPT ![w] = "handshake"] /\ home' = [home EXCEPT ![w] = g]
    BY <1>4 DEF Admit
  <2>2. ASSUME NEW h \in Services
        PROVE  /\ Serving(h)' \subseteq handles'[h] /\ IsFiniteSet(handles'[h])
               /\ Cardinality(handles'[h]) <= MaxWorkers
               /\ thread'[h] = "admitting" => Cardinality(handles'[h]) < MaxWorkers
    <3>1. \A v \in Workers \ {w} : phase'[v] = phase[v] /\ home'[v] = home[v]
      BY <1>1, <2>1
    <3>2. CASE h = g
      <4>1. handles'[h] = handles[h] \cup {w} /\ thread'[h] = "loop"
        BY <1>1, <2>1, <3>2
      <4>2. /\ Serving(h) \subseteq handles[h] /\ IsFiniteSet(handles[h])
            /\ Cardinality(handles[h]) < MaxWorkers /\ Cardinality(handles[h]) \in Nat
        BY <1>2, <2>1, <3>2 DEF PoolOK
      <4>3. /\ IsFiniteSet(handles'[h])
            /\ Cardinality(handles'[h]) \in {Cardinality(handles[h]), Cardinality(handles[h]) + 1}
        <5>1. /\ IsFiniteSet(handles[h] \cup {w})
              /\ Cardinality(handles[h] \cup {w}) =
                   IF w \in handles[h] THEN Cardinality(handles[h])
                                      ELSE Cardinality(handles[h]) + 1
          BY <4>2, FS_AddElement
        <5> QED
          BY <4>1, <5>1
      <4>4. Serving(h)' \subseteq handles'[h]
        BY <3>1, <4>1, <4>2 DEF Serving
      <4> QED
        BY <1>1, <4>1, <4>2, <4>3, <4>4
    <3>3. CASE h # g
      <4>1. handles'[h] = handles[h] /\ thread'[h] = thread[h] /\ home'[w] = g
        BY <1>1, <2>1, <3>3
      <4>2. Serving(h)' \subseteq Serving(h)
        BY <3>1, <3>3, <4>1 DEF Serving
      <4> QED
        BY <4>1, <4>2 DEF PoolOK
    <3> QED
      BY <3>2, <3>3
  <2> QED
    BY <2>2 DEF PoolOK
<1>5. ASSUME NEW g \in Services, StartService(g) \/ AdmitNone(g) \/ ExitService(g)
      PROVE  PoolOK'
  <2>1. /\ handles' = handles /\ phase' = phase /\ home' = home
        /\ \E to \in {"loop", "exited"} : thread' = [thread EXCEPT ![g] = to]
    BY <1>5 DEF StartService, AdmitNone, ExitService
  <2>2. \A h \in Services : Serving(h)' = Serving(h)
    BY <2>1 DEF Serving
  <2>3. \A h \in Services : thread'[h] = "admitting" => thread[h] = "admitting"
    BY <1>1, <2>1
  <2> QED
    BY <2>1, <2>2, <2>3, PoolKept
<1>6. ASSUME NEW w \in Workers, WorkerStep(w) PROVE PoolOK'
  <2>1. UNCHANGED <<handles, thread, home>> /\ phase[w] \notin {"unborn", "ended"}
    BY <1>6 DEF WorkerStep, HandshakeFails, Ask, GoneWhileAsking, TakeDecision, Transfer
  <2>2. \E to \in Phases : phase' = [phase EXCEPT ![w] = to]
    BY <1>6 DEF WorkerStep, HandshakeFails, Ask, GoneWhileAsking, TakeDecision, Transfer,
                Lose, Fail, End, Phases
  <2>3. \A h \in Services : Serving(h)' \subseteq Serving(h)
    BY <1>1, <2>1, <2>2 DEF Serving
  <2> QED
    BY <2>1, <2>3, PoolKept
<1>7. CASE Poll \/ HandleEvent \/ Stop \/ PrepareToQuit \/ (\E accepted \in BOOLEAN : Decide(accepted))
           \/ UNCHANGED vars
  <2>1. UNCHANGED <<handles, thread, home, phase>>
    BY <1>7 DEF Poll, HandleEvent, HandleNotice, ShowOffer, DeclineBusy, HandleStopped, Stop,
                PrepareToQuit, Decide, vars
  <2>2. \A h \in Services : Serving(h)' = Serving(h)
    BY <2>1 DEF Serving
  <2> QED
    BY <2>1, <2>2, PoolKept
<1>8. CASE Start
  <2>1. /\ UNCHANGED <<handles, home, phase>> 
        /\ thread' = [thread EXCEPT ![service + 1] = "starting"]
    BY <1>8 DEF Start
  <2>2. \A h \in Services : Serving(h)' = Serving(h)
    BY <2>1 DEF Serving
  <2>3. \A h \in Services : thread'[h] = "admitting" => thread[h] = "admitting"
    BY <1>1, <2>1
  <2> QED
    BY <2>1, <2>2, <2>3, PoolKept
<1>9. CASE Exit
  <2>1. /\ UNCHANGED <<handles, thread, home>>
        /\ \A w \in Workers : phase'[w] \in {"unborn", "ended"}
    BY <1>9 DEF Exit
  <2>2. \A h \in Services : Serving(h)' = {}
    BY <2>1 DEF Serving
  <2> QED
    BY <2>1, <2>2, PoolKept
<1> QED
  BY <1>3, <1>4, <1>5, <1>6, <1>7, <1>8, <1>9 DEF Next, ServiceStep, UserStep

--------------------------------------------------------------------------
(* The theorems.                                                           *)

\* Before the receive page is started nothing is offered and nothing runs.
LEMMA InitInv == Init => Inv
<1> SUFFICES ASSUME Init PROVE Inv
  OBVIOUS
<1> USE DEF Init
<1>1. TypeOK
  <2>1. events \in Seq(Messages) /\ polling \in 0 .. Len(events)
    OBVIOUS
  <2>2. service \in 0 .. MaxServices /\ pending \in Workers \cup {NoWorker}
    BY MaxWorkersAssumption
  <2>3. /\ thread \in [Services -> Threads] /\ stop \in [Services -> BOOLEAN]
        /\ handles \in [Services -> SUBSET Workers]
    BY DEF Threads
  <2>4. /\ phase \in [Workers -> Phases] /\ reply \in [Workers -> Replies]
        /\ outcome \in [Workers -> Outcomes]
    BY DEF Phases, Replies, Outcomes
  <2>5. home \in [Workers -> 0 .. MaxServices]
    BY <2>2
  <2>6. /\ running \in BOOLEAN /\ quitting \in BOOLEAN /\ alive \in BOOLEAN
        /\ clicked \subseteq Workers
    OBVIOUS
  <2> QED
    BY <2>1, <2>2, <2>3, <2>4, <2>5, <2>6 DEF TypeOK
<1>2. ConsentOK
  BY DEF ConsentOK
<1>3. ListenerOK
  BY DEF ListenerOK
<1>4. OffersOK
  BY DEF OffersOK, Offered
<1>5. EveryAskIsReachable
  BY DEF EveryAskIsReachable
<1> QED
  BY <1>1, <1>2, <1>3, <1>4, <1>5 DEF Inv

\* The invariant holds of every state the GUI, the services and the workers
\* can reach, for any number of connections and restarts.
THEOREM Invariance == Spec => []Inv
<1>1. Inv /\ [Next]_vars => Inv'
  BY TypeStep, ConsentStep, ListenerStep, OffersStep DEF Inv
<1> QED
  BY <1>1, InitInv, PTL DEF Spec

\* Every variable keeps its type (HirodropApp, receive_service).
THEOREM TypeCorrect == Spec => []TypeOK
<1>1. Inv => TypeOK
  BY DEF Inv
<1> QED
  BY <1>1, Invariance, PTL

\* Files are received only in a transfer that the user accepted with the
\* button (README.md:85), whatever is dropped, stopped or restarted.
THEOREM ConsentRequired == Spec => []ReceivesOnlyIfAccepted
<1>1. Inv => ReceivesOnlyIfAccepted
  BY DEF Inv, ConsentOK, ReceivesOnlyIfAccepted
<1> QED
  BY <1>1, Invariance, PTL

\* At most one service accepts connections (start, stop, receive_service).
THEOREM SingleListener == Spec => []OneListener
<1>1. Inv => OneListener
  <2> SUFFICES ASSUME Inv, NEW g \in Services, NEW h \in Services,
                      thread[g] \notin {"absent", "exited"},
                      thread[h] \notin {"absent", "exited"}
               PROVE  g = h
    BY DEF OneListener
  <2>1. g = service /\ h = service
    BY DEF Inv, ListenerOK, TypeOK
  <2> QED
    BY <2>1
<1> QED
  BY <1>1, Invariance, PTL

\* A worker that waits for the user has its offer on display or on its way to
\* the window (poll_events, start, stop).
THEOREM AsksAreReachable == Spec => []EveryAskIsReachable
<1>1. Inv => EveryAskIsReachable
  BY DEF Inv
<1> QED
  BY <1>1, Invariance, PTL

\* No later event changes the answer to an offer (poll_events, start, stop).
THEOREM OneAnswer == Spec => AnswersAreFinal
<1> DEFINE Final == \A w \in Workers : reply[w] # "open" => reply'[w] = reply[w]
<1>1. Inv /\ [Next]_vars => Final
  <2> SUFFICES ASSUME Inv, [Next]_vars, NEW w \in Workers, reply[w] # "open"
               PROVE  reply'[w] = reply[w]
    OBVIOUS
  <2>1. /\ w # pending /\ w \notin Offered(events)
        /\ phase[w] \notin {"unborn", "handshake"}
    BY DEF Inv, OffersOK
  <2> USE DEF gui, Inv, TypeOK
  <2>2. ASSUME NEW g \in Services, ServiceStep(g) PROVE reply' = reply
    BY <2>2 DEF ServiceStep, StartService, LoopTop, AdmitNone, ExitService, Admit
  <2>3. ASSUME NEW v \in Workers, WorkerStep(v) PROVE reply'[w] = reply[w]
    BY <2>1, <2>3 DEF WorkerStep, HandshakeFails, Ask, GoneWhileAsking,
       TakeDecision, Transfer
  <2>4. CASE DeclineBusy
    <3>1. Head(events).of \in Offered(events)
      BY <2>4, HeadOffer, TakingOffers DEF DeclineBusy
    <3> QED
      BY <2>1, <2>4, <3>1 DEF DeclineBusy
  <2>5. CASE Poll \/ HandleNotice \/ ShowOffer \/ HandleStopped
    BY <2>1, <2>5 DEF Poll, HandleNotice, ShowOffer, HandleStopped
  <2>6. CASE UserStep
    BY <2>1, <2>6 DEF UserStep, Start, Stop, PrepareToQuit, RaiseStop, Decide
  <2>7. CASE Exit \/ UNCHANGED vars
    BY <2>7 DEF Exit, vars
  <2> QED
    BY <2>2, <2>3, <2>4, <2>5, <2>6, <2>7 DEF Next, HandleEvent
<1>2. Inv /\ [Next]_vars => [Final]_vars
  BY <1>1
<1> QED
  BY <1>2, Invariance, PTL DEF Spec, AnswersAreFinal

\* A service never has more than MAX_CONNECTION_WORKERS connections at work,
\* whatever their number, their ends and the order in which they are reaped.
THEOREM PoolIsBounded == Spec => []PoolBound
<1>1. Init => PoolOK
  <2> SUFFICES ASSUME Init, NEW g \in Services
               PROVE  /\ Serving(g) \subseteq handles[g] /\ IsFiniteSet(handles[g])
                      /\ Cardinality(handles[g]) < MaxWorkers
                      /\ Cardinality(handles[g]) <= MaxWorkers
    BY DEF PoolOK
  <2>1. handles[g] = {} /\ Serving(g) = {}
    BY DEF Init, Serving
  <2> QED
    BY <2>1, FS_EmptySet
<1>2. TypeOK /\ PoolOK /\ [Next]_vars => PoolOK'
  BY PoolStep
<1>3. PoolOK => PoolBound
  <2> SUFFICES ASSUME PoolOK, NEW g \in Services PROVE Cardinality(Serving(g)) <= MaxWorkers
    BY DEF PoolBound
  <2>1. /\ Serving(g) \in SUBSET handles[g] /\ IsFiniteSet(handles[g])
        /\ Cardinality(handles[g]) <= MaxWorkers
    BY DEF PoolOK
  <2>2. /\ IsFiniteSet(Serving(g)) /\ Cardinality(Serving(g)) <= Cardinality(handles[g])
    BY <2>1, FS_Subset
  <2>3. Cardinality(Serving(g)) \in Nat /\ Cardinality(handles[g]) \in Nat
    BY <2>1, <2>2, FS_CardinalityType
  <2> QED
    BY <2>1, <2>2, <2>3
<1> QED
  BY <1>1, <1>2, <1>3, TypeCorrect, PTL DEF Spec

=============================================================================
