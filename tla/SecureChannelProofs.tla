------------------------ MODULE SecureChannelProofs ------------------------
(***************************************************************************)
(* SecureChannel for any frames, any limit of the sequence numbers, any      *)
(* keys and any number of disturbances: it delivers in order.                *)
(***************************************************************************)
EXTENDS SecureChannel, TLAPS, SequenceTheorems

USE ChannelAssumption

--------------------------------------------------------------------------
(* The frames that are on their way.                                       *)

\* There are two sides.
LEMMA TwoSides ==
  \A s \in Sides : Other(s) \in Sides /\ Other(s) # s /\ Other(Other(s)) = s
BY DEF Sides, Other

\* The frames of the handshake are messages, and not of the channel.
LEMMA HandshakeFrames ==
  /\ \A t \in {"ConnectionRequest", "ConnectionResponse", "junk"} :
       Plain(t) \in Messages /\ Plain(t).type # "SecureMessage"
  /\ Junk = Plain("junk")
  /\ ClientInit \in Messages /\ ClientInit.type # "SecureMessage"
  /\ ServerInit \in Messages /\ ServerInit.type # "SecureMessage"
  /\ ClientFinish \in Messages /\ ClientFinish.type # "SecureMessage"
BY DEF Messages, Marks, Plain, Junk, ClientInit, ServerInit, ClientFinish

\* What the network makes of a message is a message, and claims nothing that
\* its author did not write.
LEMMA ChangedMessage ==
  ASSUME NEW m \in Messages, NEW c \in Changed(m)
  PROVE  /\ c \in Messages
         /\ \A key, log : Authored(m, key, log) => Authored(c, key, log)
<1>1. CASE c = Junk
  BY <1>1, HandshakeFrames DEF Authored
<1>2. CASE m.type = "ClientInit" /\ c # Junk
  <2>1. m \in [type : {"ClientInit"}, random : Marks, commitment : Marks]
    BY <1>2 DEF Messages, Plain, Junk
  <2>2. c \in [type : {"ClientInit"}, random : Marks, commitment : Marks]
    BY <1>2, <2>1 DEF Changed, Marks
  <2> QED
    BY <2>2 DEF Messages, Authored
<1>3. CASE m.type = "ServerInit" /\ c # Junk
  <2>1. m \in [type : {"ServerInit"}, random : Marks, key : Marks]
    BY <1>3 DEF Messages, Plain, Junk
  <2>2. c \in [type : {"ServerInit"}, random : Marks, key : Marks]
    BY <1>3, <2>1 DEF Changed, Marks
  <2> QED
    BY <2>2 DEF Messages, Authored
<1>4. CASE m.type = "ClientFinish" /\ c # Junk
  <2>1. m \in [type : {"ClientFinish"}, key : Marks]
    BY <1>4 DEF Messages, Plain, Junk
  <2>2. c \in [type : {"ClientFinish"}, key : Marks]
    BY <1>4, <2>1 DEF Changed, Marks
  <2> QED
    BY <2>2 DEF Messages, Authored
<1>5. CASE m.type = "SecureMessage" /\ c # Junk
  <2> DEFINE Secure == [type : {"SecureMessage"}, key : Keys,
                        number : 1 .. MaxSeq, frame : Frames, intact : BOOLEAN]
  <2>1. m \in Secure
    BY <1>5 DEF Messages, Plain, Junk
  <2>2. c = [m EXCEPT !.intact = FALSE]
    BY <1>5 DEF Changed
  <2>3. /\ c \in Secure
        /\ c.type = m.type /\ c.key = m.key
        /\ c.number = m.number /\ c.frame = m.frame
    BY <2>1, <2>2
  <2> QED
    BY <2>3 DEF Messages, Authored
<1>6. CASE c # Junk /\ m.type \notin {"ClientInit", "ServerInit", "ClientFinish",
                                       "SecureMessage"}
  BY <1>6 DEF Changed
<1> QED
  BY <1>1, <1>2, <1>3, <1>4, <1>5, <1>6

\* A queue that loses, repeats, reorders or changes a frame.
LEMMA DisturbedQueue ==
  ASSUME NEW q \in Seq(Messages), NEW key, NEW log, AllAuthored(q, key, log),
         NEW r \in Disturbed(q)
  PROVE  r \in Seq(Messages) /\ AllAuthored(r, key, log)
<1>0. /\ Len(q) \in Nat /\ q \in [1 .. Len(q) -> Messages]
      /\ \A i \in 1 .. Len(q) : q[i] \in Messages
  BY ElementOfSeq, LenProperties
<1>1. CASE \E i \in 1 .. Len(q) : r = Without(q, i)
  <2>1. PICK i \in 1 .. Len(q) : r = Without(q, i)
    BY <1>1
  <2>2. /\ r = [k \in 1 .. Len(q) - 1 |-> IF k < i THEN q[k] ELSE q[k + 1]]
        /\ Len(q) - 1 \in Nat
    BY <1>0, <2>1 DEF Without
  <2>3. r \in [1 .. Len(q) - 1 -> Messages]
    BY <1>0, <2>2
  <2>4. r \in Seq(Messages) /\ Len(r) = Len(q) - 1
    BY <2>2, <2>3
  <2>5. \A k \in 1 .. Len(r) : \E j \in 1 .. Len(q) : r[k] = q[j]
    BY <1>0, <2>2, <2>4
  <2> QED
    BY <2>4, <2>5 DEF AllAuthored
<1>2. CASE \E i \in 1 .. Len(q) : r = Append(q, q[i])
  <2>1. PICK i \in 1 .. Len(q) : r = Append(q, q[i])
    BY <1>2
  <2>2. r \in Seq(Messages) /\ Len(r) = Len(q) + 1
    BY <1>0, <2>1
  <2>3. \A k \in 1 .. Len(r) : \E j \in 1 .. Len(q) : r[k] = q[j]
    BY <1>0, <2>1, <2>2
  <2> QED
    BY <2>2, <2>3 DEF AllAuthored
<1>3. CASE \E i \in 1 .. Len(q) - 1 : r = Swapped(q, i)
  <2>1. PICK i \in 1 .. Len(q) - 1 : r = Swapped(q, i)
    BY <1>3
  <2>2. r = [q EXCEPT ![i] = q[i + 1], ![i + 1] = q[i]]
    BY <2>1 DEF Swapped
  <2>3. \A k \in 1 .. Len(q) : \E j \in 1 .. Len(q) : r[k] = q[j]
    BY <1>0, <2>2
  <2>4. r \in [1 .. Len(q) -> Messages]
    BY <1>0, <2>2, <2>3
  <2>5. r \in Seq(Messages) /\ Len(r) = Len(q)
    BY <1>0, <2>2, <2>4
  <2> QED
    BY <2>3, <2>5 DEF AllAuthored
<1>4. CASE \E i \in 1 .. Len(q) : \E m \in Changed(q[i]) : r = [q EXCEPT ![i] = m]
  <2>0. PICK i \in 1 .. Len(q) : \E m \in Changed(q[i]) : r = [q EXCEPT ![i] = m]
    BY <1>4
  <2>1. PICK m \in Changed(q[i]) : r = [q EXCEPT ![i] = m]
    BY <2>0
  <2>2. m \in Messages /\ Authored(m, key, log)
    BY <1>0, ChangedMessage DEF AllAuthored
  <2>3. /\ r \in Seq(Messages) /\ Len(r) = Len(q)
        /\ \A k \in 1 .. Len(q) : r[k] = IF k = i THEN m ELSE q[k]
    BY <2>1, <2>2, ExceptSeq
  <2> QED
    BY <2>2, <2>3 DEF AllAuthored
<1> QED
  BY <1>1, <1>2, <1>3, <1>4 DEF Disturbed

\* What is written to a side that still reads comes after what is there.
LEMMA WrittenQueue ==
  ASSUME TypeOK, NEW s \in Sides, NEW q \in Seq(Messages), NEW key, NEW log,
         AllAuthored(net[s], key, log), AllAuthored(q, key, log)
  PROVE  Written(s, q) \in Seq(Messages) /\ AllAuthored(Written(s, q), key, log)
<1>1. net[s] \in Seq(Messages)
  BY DEF TypeOK
<1>2. Len(net[s]) \in Nat /\ Len(q) \in Nat
  BY <1>1, LenProperties
<1>3. CASE place[s] # "closed"
  <2>1. Written(s, q) = net[s] \o q
    BY <1>3 DEF Written
  <2>2. /\ net[s] \o q \in Seq(Messages)
        /\ Len(net[s] \o q) = Len(net[s]) + Len(q)
        /\ \A i \in 1 .. Len(net[s]) + Len(q) :
             (net[s] \o q)[i] = IF i <= Len(net[s]) THEN net[s][i]
                                ELSE q[i - Len(net[s])]
    BY <1>1, ConcatProperties
  <2>3. \A i \in 1 .. Len(net[s]) + Len(q) :
          Authored((net[s] \o q)[i], key, log)
    <3> TAKE i \in 1 .. Len(net[s]) + Len(q)
    <3>1. CASE i <= Len(net[s])
      BY <1>2, <2>2, <3>1 DEF AllAuthored
    <3>2. CASE i > Len(net[s])
      <4>1. i - Len(net[s]) \in 1 .. Len(q)
        BY <1>2, <3>2
      <4> QED
        BY <1>2, <2>2, <3>2, <4>1 DEF AllAuthored
    <3> QED
      BY <1>2, <3>1, <3>2
  <2> QED
    BY <2>1, <2>2, <2>3 DEF AllAuthored
<1>4. CASE place[s] = "closed"
  BY <1>1, <1>4 DEF Written
<1> QED
  BY <1>3, <1>4

\* Reading a frame leaves the ones behind it.
LEMMA ReadQueue ==
  ASSUME NEW q \in Seq(Messages), q # <<>>, NEW key, NEW log,
         AllAuthored(q, key, log)
  PROVE  /\ Tail(q) \in Seq(Messages) /\ AllAuthored(Tail(q), key, log)
         /\ Head(q) \in Messages /\ Authored(Head(q), key, log)
<1>1. /\ Head(q) \in Messages /\ Tail(q) \in Seq(Messages)
      /\ Len(Tail(q)) = Len(q) - 1
      /\ \A i \in 1 .. Len(Tail(q)) : Tail(q)[i] = q[i + 1]
  BY HeadTailProperties
<1>2. Len(q) \in Nat \ {0}
  BY EmptySeq
<1>3. Head(q) = q[1]
  BY <1>2
<1>4. \A i \in 1 .. Len(Tail(q)) : i + 1 \in 1 .. Len(q)
  BY <1>1, <1>2
<1> QED
  BY <1>1, <1>2, <1>3, <1>4 DEF AllAuthored

\* A log that grows keeps what it says of the messages on their way.
LEMMA LongerLog ==
  ASSUME NEW q \in Seq(Messages), NEW key, NEW log \in Seq(Frames),
         NEW f \in Frames, AllAuthored(q, key, log)
  PROVE  AllAuthored(q, key, Append(log, f))
<1>1. /\ Len(log) \in Nat /\ Len(Append(log, f)) = Len(log) + 1
      /\ \A n \in 1 .. Len(log) : Append(log, f)[n] = log[n]
  BY LenProperties
<1>2. SUFFICES ASSUME NEW i \in 1 .. Len(q)
               PROVE  Authored(q[i], key, Append(log, f))
  BY DEF AllAuthored
<1>3. Authored(q[i], key, log)
  BY DEF AllAuthored
<1> QED
  BY <1>1, <1>3 DEF Authored

--------------------------------------------------------------------------
(* The steps.                                                              *)

\* The key of a direction has the shape of a key.
LEMMA KeyType ==
  ASSUME TypeOK, NEW s \in Sides
  PROVE  EncryptKey(s) \in Keys
<1>1. heard[s] \in [random : Marks, commitment : Marks, key : Marks]
  BY DEF TypeOK
<1>2. /\ heard[s].random \in Marks /\ heard[s].commitment \in Marks
      /\ heard[s].key \in Marks /\ "sent" \in Marks
  BY <1>1 DEF Marks
<1>3. Shared(s) \in Pairs
  BY <1>2 DEF Shared, Pairs
<1>4. Transcript(s) \in Pairs \X Pairs
  BY <1>2 DEF Transcript, Pairs
<1> QED
  BY <1>3, <1>4 DEF EncryptKey, NextSecret, Keys

\* A frame of the handshake moves on, and frames that are not of the channel
\* follow it the other way.
LEMMA ExchangedFrames ==
  ASSUME Inv, NEW s \in Sides, NEW m, NEW reply \in Seq(Messages),
         \A i \in 1 .. Len(reply) : reply[i].type # "SecureMessage",
         Exchange(s, m, reply)
  PROVE  /\ net' \in [Sides -> Seq(Messages)]
         /\ \A t \in Sides :
              AllAuthored(net'[t], EncryptKey(Other(t)), sent[Other(t)])
<1>1. /\ TypeOK /\ net \in [Sides -> Seq(Messages)]
      /\ \A t \in Sides : AllAuthored(net[t], EncryptKey(Other(t)), sent[Other(t)])
  BY DEF Inv, TypeOK, OnTheWay
<1>2. Other(s) \in Sides /\ Other(s) # s /\ \A t \in Sides : t = s \/ t = Other(s)
  BY DEF Sides, Other
<1>3. AllAuthored(reply, EncryptKey(s), sent[s])
  BY DEF AllAuthored, Authored
<1>4. net[s] # <<>>
      /\ net' = [net EXCEPT ![s] = Tail(@), ![Other(s)] = Written(Other(s), reply)]
  BY DEF Exchange
<1>5. /\ Tail(net[s]) \in Seq(Messages)
      /\ AllAuthored(Tail(net[s]), EncryptKey(Other(s)), sent[Other(s)])
  BY <1>1, <1>4, ReadQueue
<1>6. /\ Written(Other(s), reply) \in Seq(Messages)
      /\ AllAuthored(Written(Other(s), reply), EncryptKey(s), sent[s])
  BY <1>1, <1>2, <1>3, WrittenQueue, TwoSides
<1>7. /\ net' \in [Sides -> Seq(Messages)]
      /\ net'[s] = Tail(net[s]) /\ net'[Other(s)] = Written(Other(s), reply)
  BY <1>1, <1>2, <1>4, <1>5, <1>6
<1> QED
  BY <1>2, <1>5, <1>6, <1>7, TwoSides

\* A side that has not finished its handshake takes a step of it: no frame of the
\* channel depends on what it has read.
LEMMA HandshakeStep ==
  ASSUME Inv, NEW s \in Sides, NEW p \in Places \ {"closed"},
         place[s] \notin Done, Go(s, p), UNCHANGED <<channel, troubles>>,
         heard' \in [Sides -> [random : Marks, commitment : Marks, key : Marks]],
         \A t \in Sides : t # s => heard'[t] = heard[t],
         net' \in [Sides -> Seq(Messages)],
         \A t \in Sides : AllAuthored(net'[t], EncryptKey(Other(t)), sent[Other(t)])
  PROVE  Inv'
<1>1. /\ TypeOK /\ NumbersOK /\ KeysOK
      /\ place \in [Sides -> Places] /\ sent \in [Sides -> Seq(Frames)]
  BY DEF Inv, TypeOK
<1>2. /\ place' \in [Sides -> Places] /\ place'[s] = p
      /\ \A t \in Sides : t # s => place'[t] = place[t]
      /\ sendSeq' = sendSeq /\ recvSeq' = recvSeq /\ sent' = sent /\ got' = got
      /\ troubles' = troubles
  BY <1>1 DEF Go, channel
<1>3. sent[s] = <<>> /\ \A t \in Sides : got[t] = <<>>
  BY <1>1 DEF KeysOK
<1>4. TypeOK'
  BY <1>1, <1>2 DEF TypeOK
<1>5. NumbersOK'
  BY <1>1, <1>2 DEF NumbersOK, Done
<1>6. OnTheWay'
  <2> SUFFICES ASSUME NEW t \in Sides
               PROVE  AllAuthored(net'[t], EncryptKey(Other(t))', sent[Other(t)])
    BY <1>2 DEF OnTheWay
  <2>1. CASE Other(t) = s
    <3>1. \A i \in 1 .. Len(net'[t]) : net'[t][i].type # "SecureMessage"
      BY <1>3, <2>1 DEF AllAuthored, Authored
    <3> QED
      BY <3>1 DEF AllAuthored, Authored
  <2>2. CASE Other(t) # s
    <3>1. heard'[Other(t)] = heard[Other(t)]
      BY <2>2, TwoSides
    <3>2. EncryptKey(Other(t))' = EncryptKey(Other(t))
      BY <3>1 DEF EncryptKey, NextSecret, Shared, Transcript
    <3> QED
      BY <3>2
  <2> QED
    BY <2>1, <2>2
<1>7. KeysOK'
  BY <1>1, <1>2, <1>3 DEF KeysOK
<1> QED
  BY <1>4, <1>5, <1>6, <1>7 DEF Inv

\* The handshake.
LEMMA HandshakeInvariant ==
  ASSUME Inv, Handshake
  PROVE  Inv'
<1>0. /\ heard \in [Sides -> [random : Marks, commitment : Marks, key : Marks]]
      /\ net \in [Sides -> Seq(Messages)] /\ TypeOK
      /\ \A t \in Sides : AllAuthored(net[t], EncryptKey(Other(t)), sent[Other(t)])
      /\ "client" \in Sides /\ "server" \in Sides
      /\ Other("client") = "server" /\ Other("server") = "client"
  BY DEF Inv, TypeOK, OnTheWay, Sides, Other
<1> DEFINE Quiet(q) == /\ q \in Seq(Messages)
                       /\ \A i \in 1 .. Len(q) : q[i].type # "SecureMessage"
<1>a. /\ Quiet(<<>>) /\ Quiet(<<Plain("ConnectionResponse")>>)
      /\ Quiet(<<ServerInit>>)
      /\ Quiet(<<Plain("ConnectionRequest"), ClientInit>>)
      /\ Quiet(<<ClientFinish, Plain("ConnectionResponse")>>)
  BY HandshakeFrames
<1>1. CASE Begin
  <2> DEFINE q == <<Plain("ConnectionRequest"), ClientInit>>
  <2>1. q \in Seq(Messages) /\ AllAuthored(q, EncryptKey("client"), sent["client"])
    BY <1>a DEF AllAuthored, Authored
  <2>2. /\ Written("server", q) \in Seq(Messages)
        /\ AllAuthored(Written("server", q), EncryptKey("client"), sent["client"])
    BY <1>0, <2>1, WrittenQueue
  <2>3. /\ net' = [net EXCEPT !["server"] = Written("server", q)]
        /\ place["client"] = "begin" /\ Go("client", "hello")
        /\ UNCHANGED <<channel, troubles>> /\ heard' = heard
    BY <1>1 DEF Begin
  <2> HIDE DEF q
  <2>4. /\ net' \in [Sides -> Seq(Messages)]
        /\ \A t \in Sides : AllAuthored(net'[t], EncryptKey(Other(t)), sent[Other(t)])
    BY <1>0, <2>2, <2>3 DEF Sides
  <2>5. place["client"] \notin Done /\ "hello" \in Places \ {"closed"}
    BY <2>3 DEF Done, Places
  <2> QED
    BY <1>0, <2>3, <2>4, <2>5, HandshakeStep
<1>2. CASE ReadRequest
  <2>1. /\ place["server"] = "request" /\ Go("server", "init") /\ heard' = heard
        /\ Exchange("server", Plain("ConnectionRequest"), <<>>)
        /\ UNCHANGED <<channel, troubles>>
    BY <1>2 DEF ReadRequest, Exchange
  <2>2. place["server"] \notin Done /\ "init" \in Places \ {"closed"}
    BY <2>1 DEF Done, Places
  <2> QED
    BY <1>0, <1>a, <2>1, <2>2, ExchangedFrames, HandshakeStep
<1>3. CASE AcceptClientInit
  <2>1. PICK r \in Marks, c \in Marks :
          /\ Exchange("server", [ClientInit EXCEPT !.random = r, !.commitment = c],
                      <<ServerInit>>)
          /\ heard' = [heard EXCEPT !["server"].random = r,
                                    !["server"].commitment = c]
    BY <1>3 DEF AcceptClientInit
  <2>2. /\ place["server"] = "init" /\ Go("server", "finish")
        /\ UNCHANGED <<channel, troubles>>
    BY <1>3, <2>1 DEF AcceptClientInit, Exchange
  <2>3. place["server"] \notin Done /\ "finish" \in Places \ {"closed"}
    BY <2>2 DEF Done, Places
  <2>4. /\ heard' \in [Sides -> [random : Marks, commitment : Marks, key : Marks]]
        /\ \A t \in Sides : t # "server" => heard'[t] = heard[t]
    BY <1>0, <2>1
  <2> QED
    BY <1>0, <1>a, <2>1, <2>2, <2>3, <2>4, ExchangedFrames, HandshakeStep
<1>4. CASE CompleteInitiator
  <2>1. PICK r \in Marks, k \in Marks :
          /\ Exchange("client", [ServerInit EXCEPT !.random = r, !.key = k],
                      <<ClientFinish, Plain("ConnectionResponse")>>)
          /\ heard' = [heard EXCEPT !["client"].random = r, !["client"].key = k]
    BY <1>4 DEF CompleteInitiator
  <2>2. /\ place["client"] = "hello" /\ Go("client", "confirm")
        /\ UNCHANGED <<channel, troubles>>
    BY <1>4, <2>1 DEF CompleteInitiator, Exchange
  <2>3. place["client"] \notin Done /\ "confirm" \in Places \ {"closed"}
    BY <2>2 DEF Done, Places
  <2>4. /\ heard' \in [Sides -> [random : Marks, commitment : Marks, key : Marks]]
        /\ \A t \in Sides : t # "client" => heard'[t] = heard[t]
    BY <1>0, <2>1
  <2> QED
    BY <1>0, <1>a, <2>1, <2>2, <2>3, <2>4, ExchangedFrames, HandshakeStep
<1>5. CASE CompleteResponder
  <2>1. PICK k \in Marks :
          /\ Exchange("server", [ClientFinish EXCEPT !.key = k], <<>>)
          /\ heard' = [heard EXCEPT !["server"].key = k]
    BY <1>5 DEF CompleteResponder
  <2>2. /\ place["server"] = "finish" /\ Go("server", "response")
        /\ UNCHANGED <<channel, troubles>>
    BY <1>5, <2>1 DEF CompleteResponder, Exchange
  <2>3. place["server"] \notin Done /\ "response" \in Places \ {"closed"}
    BY <2>2 DEF Done, Places
  <2>4. /\ heard' \in [Sides -> [random : Marks, commitment : Marks, key : Marks]]
        /\ \A t \in Sides : t # "server" => heard'[t] = heard[t]
    BY <1>0, <2>1
  <2> QED
    BY <1>0, <1>a, <2>1, <2>2, <2>3, <2>4, ExchangedFrames, HandshakeStep
<1>6. CASE ConfirmServer
  <2>1. /\ place["server"] = "response" /\ Go("server", "open") /\ heard' = heard
        /\ Exchange("server", Plain("ConnectionResponse"),
                    <<Plain("ConnectionResponse")>>)
        /\ UNCHANGED <<channel, troubles>>
    BY <1>6 DEF ConfirmServer, Exchange
  <2>2. place["server"] \notin Done /\ "open" \in Places \ {"closed"}
    BY <2>1 DEF Done, Places
  <2> QED
    BY <1>0, <1>a, <2>1, <2>2, ExchangedFrames, HandshakeStep
<1>7. CASE ConfirmClient
  <2>1. /\ place["client"] = "confirm" /\ Go("client", "open") /\ heard' = heard
        /\ Exchange("client", Plain("ConnectionResponse"), <<>>)
        /\ UNCHANGED <<channel, troubles>>
    BY <1>7 DEF ConfirmClient, Exchange
  <2>2. place["client"] \notin Done /\ "open" \in Places \ {"closed"}
    BY <2>1 DEF Done, Places
  <2> QED
    BY <1>0, <1>a, <2>1, <2>2, ExchangedFrames, HandshakeStep
<1> QED
  BY <1>1, <1>2, <1>3, <1>4, <1>5, <1>6, <1>7 DEF Handshake

--------------------------------------------------------------------------
(* The channel and the network.                                            *)

LEMMA InitInvariant ==
  Init => Inv
<1> SUFFICES ASSUME Init PROVE Inv
  OBVIOUS
<1>1. TypeOK
  BY DEF Init, TypeOK, Sides, Places, Marks
<1>2. NumbersOK /\ KeysOK
  BY DEF Init, NumbersOK, KeysOK, Done
<1>3. OnTheWay
  BY TwoSides DEF Init, OnTheWay, AllAuthored
<1> QED
  BY <1>1, <1>2, <1>3 DEF Inv

\* A frame that is written takes the number that is its place in the log.
LEMMA EncryptInvariant ==
  ASSUME Inv, NEW s \in Sides, NEW f \in Frames, Encrypt(s, f)
  PROVE  Inv'
<1> DEFINE m == SecureMessage(s, sendSeq[s] + 1, f)
           log == Append(sent[s], f)
<1>1. /\ TypeOK /\ NumbersOK /\ OnTheWay /\ KeysOK
      /\ net \in [Sides -> Seq(Messages)] /\ sent \in [Sides -> Seq(Frames)]
      /\ sendSeq \in [Sides -> 0 .. MaxSeq]
  BY DEF Inv, TypeOK
<1>2. /\ place[s] = "open" /\ sendSeq[s] < MaxSeq
      /\ sendSeq' = [sendSeq EXCEPT ![s] = sendSeq[s] + 1]
      /\ net' = [net EXCEPT ![Other(s)] = Written(Other(s), <<m>>)]
      /\ sent' = [sent EXCEPT ![s] = log]
      /\ place' = place /\ heard' = heard /\ recvSeq' = recvSeq /\ got' = got
      /\ troubles' = troubles
  BY DEF Encrypt, handshake
<1>3. /\ log \in Seq(Frames) /\ Len(log) = Len(sent[s]) + 1 /\ log # <<>>
      /\ log[Len(log)] = f /\ Len(sent[s]) \in Nat
  <2>1. sent[s] \in Seq(Frames) /\ Len(sent[s]) \in Nat
    BY <1>1, LenProperties
  <2>2. /\ log \in Seq(Frames) /\ Len(log) = Len(sent[s]) + 1
        /\ log[Len(sent[s]) + 1] = f
    BY <2>1
  <2>3. log # <<>>
    BY <2>1, <2>2, EmptySeq
  <2> QED
    BY <2>1, <2>2, <2>3
<1>4. sendSeq[s] = Len(sent[s])
  BY <1>1, <1>2 DEF NumbersOK
<1>5. m \in Messages /\ Authored(m, EncryptKey(s), log)
  <2>1. sendSeq[s] + 1 \in 1 .. MaxSeq
    BY <1>1, <1>2
  <2>2. EncryptKey(s) \in Keys
    BY <1>1, KeyType
  <2>3. m \in Messages
    BY <2>1, <2>2 DEF SecureMessage, Messages
  <2>4. m.key = EncryptKey(s) /\ m.number = Len(log) /\ m.frame = f
    BY <1>3, <1>4 DEF SecureMessage
  <2> QED
    BY <1>3, <2>3, <2>4 DEF Authored
<1> HIDE DEF m, log
<1>6. /\ Written(Other(s), <<m>>) \in Seq(Messages)
      /\ AllAuthored(Written(Other(s), <<m>>), EncryptKey(s), log)
  <2>1. AllAuthored(net[Other(s)], EncryptKey(s), log)
    <3>1. AllAuthored(net[Other(s)], EncryptKey(s), sent[s])
      BY <1>1, TwoSides DEF OnTheWay
    <3> QED
      BY <1>1, <3>1, LongerLog, TwoSides DEF log
  <2>2. <<m>> \in Seq(Messages) /\ AllAuthored(<<m>>, EncryptKey(s), log)
    BY <1>5 DEF AllAuthored
  <2> QED
    BY <1>1, <2>1, <2>2, WrittenQueue, TwoSides
<1>7. TypeOK'
  <2>1. sendSeq' \in [Sides -> 0 .. MaxSeq]
    BY <1>1, <1>2
  <2>2. net' \in [Sides -> Seq(Messages)]
    BY <1>1, <1>2, <1>6, TwoSides
  <2>3. sent' \in [Sides -> Seq(Frames)]
    BY <1>1, <1>2, <1>3
  <2> QED
    BY <1>1, <1>2, <2>1, <2>2, <2>3 DEF TypeOK
<1>8. NumbersOK'
  BY <1>1, <1>2, <1>3, <1>4 DEF NumbersOK
<1>9. OnTheWay'
  <2> SUFFICES ASSUME NEW t \in Sides
               PROVE  AllAuthored(net'[t], EncryptKey(Other(t)), sent'[Other(t)])
    BY <1>2 DEF OnTheWay, EncryptKey, NextSecret, Shared, Transcript
  <2>1. CASE t = Other(s)
    BY <1>1, <1>2, <1>6, <2>1, TwoSides
  <2>2. CASE t # Other(s)
    <3>1. Other(t) # s
      BY <2>2, TwoSides
    <3> QED
      BY <1>1, <1>2, <2>2, <3>1, TwoSides DEF OnTheWay
  <2> QED
    BY <2>1, <2>2
<1>10. KeysOK'
  BY <1>1, <1>2 DEF KeysOK, Done, NextSecret, Shared, Transcript
<1> QED
  BY <1>7, <1>8, <1>9, <1>10 DEF Inv

\* Side s closes, perhaps after it took a number that it does not use.
LEMMA CloseInvariant ==
  ASSUME Inv, NEW s \in Sides, Go(s, "closed"),
         net' = [net EXCEPT ![s] = <<>>], UNCHANGED <<heard, recvSeq, sent, got, troubles>>,
         sendSeq' \in [Sides -> 0 .. MaxSeq],
         \A t \in Sides : t # s => sendSeq'[t] = sendSeq[t]
  PROVE  Inv'
<1>1. /\ TypeOK /\ NumbersOK /\ OnTheWay /\ KeysOK
      /\ net \in [Sides -> Seq(Messages)] /\ place \in [Sides -> Places]
  BY DEF Inv, TypeOK
<1>2. /\ place' \in [Sides -> Places] /\ place'[s] = "closed"
      /\ \A t \in Sides : t # s => place'[t] = place[t]
  BY <1>1 DEF Go, Places
<1>3. net' \in [Sides -> Seq(Messages)] /\ net'[s] = <<>>
      /\ \A t \in Sides : t # s => net'[t] = net[t]
  BY <1>1
<1>4. TypeOK'
  BY <1>1, <1>2, <1>3 DEF TypeOK
<1>5. NumbersOK'
  BY <1>1, <1>2 DEF NumbersOK
<1>6. OnTheWay'
  <2> SUFFICES ASSUME NEW t \in Sides
               PROVE  AllAuthored(net'[t], EncryptKey(Other(t)), sent[Other(t)])
    BY DEF OnTheWay, EncryptKey, NextSecret, Shared, Transcript
  <2>1. CASE t = s
    BY <1>3, <2>1 DEF AllAuthored
  <2>2. CASE t # s
    BY <1>1, <1>3, <2>2 DEF OnTheWay
  <2> QED
    BY <2>1, <2>2
<1>7. KeysOK'
  <2>1. \A t \in Sides : place[t] \in Done => place'[t] \in Done
    BY <1>2 DEF Done
  <2>2. place \in [Sides -> Done] => place' \in [Sides -> Done]
    BY <1>2, <2>1
  <2>3. (NextSecret("client") = NextSecret("server"))'
          = (NextSecret("client") = NextSecret("server"))
    BY DEF NextSecret, Shared, Transcript
  <2> QED
    BY <1>1, <2>1, <2>2, <2>3 DEF KeysOK
<1> QED
  BY <1>4, <1>5, <1>6, <1>7 DEF Inv

\* What a side decodes is the next frame of the other side's log.
LEMMA DecodedFrame ==
  ASSUME Inv, NEW s \in Sides, NEW f \in Frames, Decrypt(s, f)
  PROVE  /\ Len(got[s]) + 1 \in 1 .. Len(sent[Other(s)])
         /\ f = sent[Other(s)][Len(got[s]) + 1]
         /\ Head(net[s]).number = Len(got[s]) + 1
         /\ NextSecret(s) = NextSecret(Other(s))
<1>1. /\ net[s] \in Seq(Messages) /\ net[s] # <<>>
      /\ AllAuthored(net[s], EncryptKey(Other(s)), sent[Other(s)])
  BY DEF Inv, TypeOK, OnTheWay, Decrypt
<1>2. Authored(Head(net[s]), EncryptKey(Other(s)), sent[Other(s)])
  BY <1>1, ReadQueue
<1>3. Genuine(s, Head(net[s])) /\ f = Head(net[s]).frame
  BY DEF Decrypt
<1>4. recvSeq[s] = Len(got[s])
  BY DEF Inv, NumbersOK
<1>5. DecryptKey(s) = EncryptKey(Other(s))
  BY <1>2, <1>3 DEF Authored, Genuine
<1> QED
  BY <1>2, <1>3, <1>4, <1>5 DEF Authored, Genuine, DecryptKey, EncryptKey

LEMMA DecryptInvariant ==
  ASSUME Inv, NEW s \in Sides, NEW f \in Frames, Decrypt(s, f)
  PROVE  Inv'
<1>1. /\ TypeOK /\ NumbersOK /\ OnTheWay /\ KeysOK
      /\ net \in [Sides -> Seq(Messages)] /\ got \in [Sides -> Seq(Frames)]
      /\ recvSeq \in [Sides -> 0 .. MaxSeq] /\ place \in [Sides -> Places]
  BY DEF Inv, TypeOK
<1>2. /\ place[s] = "open" /\ net[s] # <<>> /\ recvSeq[s] < MaxSeq
      /\ recvSeq' = [recvSeq EXCEPT ![s] = Head(net[s]).number]
      /\ got' = [got EXCEPT ![s] = Append(got[s], f)]
      /\ net' = [net EXCEPT ![s] = Tail(net[s])]
      /\ place' = place /\ heard' = heard /\ sendSeq' = sendSeq /\ sent' = sent
      /\ troubles' = troubles
  BY DEF Decrypt, Genuine, handshake
<1>3. /\ Head(net[s]).number = Len(got[s]) + 1 /\ sent[Other(s)] # <<>>
      /\ NextSecret(s) = NextSecret(Other(s))
  <2>1. Len(got[s]) + 1 \in 1 .. Len(sent[Other(s)])
    BY DecodedFrame
  <2>2. sent[Other(s)] # <<>>
    BY <2>1
  <2> QED
    BY <2>2, DecodedFrame
<1>4. recvSeq[s] = Len(got[s]) /\ Len(got[s]) \in Nat
      /\ Append(got[s], f) \in Seq(Frames) /\ Len(Append(got[s], f)) = Len(got[s]) + 1
  BY <1>1 DEF NumbersOK
<1>5. /\ Tail(net[s]) \in Seq(Messages)
      /\ AllAuthored(Tail(net[s]), EncryptKey(Other(s)), sent[Other(s)])
  BY <1>1, <1>2, ReadQueue DEF OnTheWay
<1>6. TypeOK'
  <2>1. recvSeq' \in [Sides -> 0 .. MaxSeq]
    BY <1>1, <1>2, <1>3, <1>4
  <2>2. net' \in [Sides -> Seq(Messages)]
    BY <1>1, <1>2, <1>5
  <2>3. got' \in [Sides -> Seq(Frames)]
    BY <1>1, <1>2, <1>4
  <2> QED
    BY <1>1, <1>2, <2>1, <2>2, <2>3 DEF TypeOK
<1>7. NumbersOK'
  BY <1>1, <1>2, <1>3, <1>4 DEF NumbersOK
<1>8. OnTheWay'
  <2> SUFFICES ASSUME NEW t \in Sides
               PROVE  AllAuthored(net'[t], EncryptKey(Other(t)), sent[Other(t)])
    BY <1>2 DEF OnTheWay, EncryptKey, NextSecret, Shared, Transcript
  <2>1. CASE t = s
    BY <1>1, <1>2, <1>5, <2>1
  <2>2. CASE t # s
    BY <1>1, <1>2, <2>2 DEF OnTheWay
  <2> QED
    BY <2>1, <2>2
<1>9. KeysOK'
  <2>1. place[s] \in Done /\ place[Other(s)] \in Done
    BY <1>1, <1>2, <1>3, TwoSides DEF KeysOK, Done
  <2>2. place \in [Sides -> Done] /\ NextSecret("client") = NextSecret("server")
    BY <1>1, <1>3, <2>1 DEF Sides, Other
  <2> QED
    BY <1>1, <1>2, <2>2 DEF KeysOK, NextSecret, Shared, Transcript
<1> QED
  BY <1>6, <1>7, <1>8, <1>9 DEF Inv

LEMMA DisturbInvariant ==
  ASSUME Inv, NEW s \in Sides, Disturb(s)
  PROVE  Inv'
<1>1. /\ TypeOK /\ NumbersOK /\ OnTheWay /\ KeysOK
      /\ net \in [Sides -> Seq(Messages)] /\ troubles \in 0 .. MaxFaults
  BY DEF Inv, TypeOK
<1>2. PICK q \in Disturbed(net[s]) : net' = [net EXCEPT ![s] = q]
  BY DEF Disturb
<1>3. /\ place' = place /\ heard' = heard /\ sendSeq' = sendSeq
      /\ recvSeq' = recvSeq /\ sent' = sent /\ got' = got
      /\ troubles' \in 0 .. MaxFaults
  BY <1>1 DEF Disturb, handshake, channel
<1>4. /\ q \in Seq(Messages)
      /\ AllAuthored(q, EncryptKey(Other(s)), sent[Other(s)])
  BY <1>1, DisturbedQueue DEF OnTheWay
<1>5. TypeOK'
  BY <1>1, <1>2, <1>3, <1>4 DEF TypeOK
<1>6. NumbersOK'
  BY <1>1, <1>3 DEF NumbersOK
<1>7. OnTheWay'
  BY <1>1, <1>2, <1>3, <1>4
  DEF OnTheWay, EncryptKey, NextSecret, Shared, Transcript
<1>8. KeysOK'
  BY <1>1, <1>3 DEF KeysOK, NextSecret, Shared, Transcript
<1> QED
  BY <1>5, <1>6, <1>7, <1>8 DEF Inv

\* Every step of the protocol and of the network keeps the invariant.
LEMMA InvariantStep == Inv /\ [Next]_vars => Inv'
<1> SUFFICES ASSUME Inv, [Next]_vars PROVE Inv'
  OBVIOUS
<1>1. CASE Handshake
  BY <1>1, HandshakeInvariant
<1>2. ASSUME NEW s \in Sides, Leave(s) PROVE Inv'
  <2>1. sendSeq \in [Sides -> 0 .. MaxSeq]
    BY DEF Inv, TypeOK
  <2>2. /\ Go(s, "closed") /\ net' = [net EXCEPT ![s] = <<>>]
        /\ UNCHANGED <<heard, recvSeq, sent, got, troubles>> /\ sendSeq' = sendSeq
    BY <1>2 DEF Leave, channel
  <2> QED
    BY <2>1, <2>2, CloseInvariant
<1>3. ASSUME NEW s \in Sides, Disturb(s) PROVE Inv'
  BY <1>3, DisturbInvariant
<1>4. ASSUME NEW s \in Sides, NEW f \in Frames, Encrypt(s, f) PROVE Inv'
  BY <1>4, EncryptInvariant
<1>5. ASSUME NEW s \in Sides, NEW f \in Frames, EncryptFails(s, f) PROVE Inv'
  <2>1. sendSeq \in [Sides -> 0 .. MaxSeq]
    BY DEF Inv, TypeOK
  <2>2. /\ Go(s, "closed") /\ net' = [net EXCEPT ![s] = <<>>]
        /\ UNCHANGED <<heard, recvSeq, sent, got, troubles>>
    BY <1>5 DEF EncryptFails
  <2>3. /\ sendSeq' \in [Sides -> 0 .. MaxSeq]
        /\ \A t \in Sides : t # s => sendSeq'[t] = sendSeq[t]
    BY <1>5, <2>1 DEF EncryptFails
  <2> QED
    BY <2>2, <2>3, CloseInvariant
<1>6. ASSUME NEW s \in Sides, NEW f \in Frames, Decrypt(s, f) PROVE Inv'
  BY <1>6, DecryptInvariant
<1>7. CASE UNCHANGED vars
  BY <1>7 DEF vars, handshake, channel, Inv, TypeOK, NumbersOK, OnTheWay, KeysOK,
              EncryptKey, NextSecret, Shared, Transcript
<1> QED
  BY <1>1, <1>2, <1>3, <1>4, <1>5, <1>6, <1>7 DEF Next

--------------------------------------------------------------------------
(* The theorems.                                                           *)

\* What every step of SecureChannel keeps, whatever the network does to the
\* frames.
THEOREM Invariance == Spec => []Inv
BY InitInvariant, InvariantStep, PTL DEF Spec

\* The sequence numbers of a channel stay within i32, and every frame on its way
\* is one that the protocol has.
THEOREM TypeCorrect == Spec => []TypeOK
<1>1. Inv => TypeOK
  BY DEF Inv
<1> QED
  BY <1>1, Invariance, PTL

\* No sequence number serves twice, however the network repeats or reorders the
\* frames and wherever the counter stands.
THEOREM NumbersNeverReused == Spec => []NumbersServeOnce
<1>1. Inv => NumbersServeOnce
  BY DEF Inv, OnTheWay, AllAuthored, Authored, NumbersServeOnce
<1> QED
  BY <1>1, Invariance, PTL

\* Two programs that exchange a frame show the same PIN, whatever bytes the
\* network put into their handshake.
THEOREM SamePin == Spec => []PinsAgree
<1>1. Inv => PinsAgree
  <2> SUFFICES ASSUME Inv, \E s \in Sides : got[s] # <<>>
               PROVE  Pin("client") = Pin("server")
    BY DEF PinsAgree
  <2>1. NextSecret("client") = NextSecret("server")
    BY DEF Inv, KeysOK
  <2>2. /\ Shared("client") = Shared("server")
        /\ Transcript("client") = Transcript("server")
    BY <2>1 DEF NextSecret
  <2> QED
    BY <2>2 DEF Pin
<1> QED
  BY <1>1, Invariance, PTL

\* Whatever the network loses, repeats, reorders or changes, each side decodes
\* the frames of the other in the order in which they were written.
THEOREM FramesInOrder == Spec => ImplementsOrderedDelivery
<1>1. Init => Delivery!Init
  BY DEF Init, Delivery!Init, Sides, Delivery!Sides
<1>2. Inv /\ [Next]_vars => [Delivery!Next]_<<sent, got>>
  <2> SUFFICES ASSUME Inv, [Next]_vars
               PROVE  Delivery!Next \/ UNCHANGED <<sent, got>>
    OBVIOUS
  <2>1. Delivery!Sides = Sides /\ \A s \in Sides : Delivery!Other(s) = Other(s)
    BY DEF Delivery!Sides, Sides, Delivery!Other, Other
  <2>2. CASE Handshake
    BY <2>2 DEF Handshake, Begin, ReadRequest, AcceptClientInit, CompleteInitiator,
                CompleteResponder, ConfirmServer, ConfirmClient, Exchange, channel
  <2>3. ASSUME NEW s \in Sides, Leave(s) \/ Disturb(s) PROVE UNCHANGED <<sent, got>>
    BY <2>3 DEF Leave, Disturb, channel
  <2>4. ASSUME NEW s \in Sides, NEW f \in Frames, Encrypt(s, f)
        PROVE  Delivery!Next
    <3>1. sent' = [sent EXCEPT ![s] = Append(@, f)] /\ UNCHANGED got
      BY <2>4 DEF Encrypt
    <3>2. Delivery!Send(s)
      BY <3>1 DEF Delivery!Send
    <3> QED
      BY <2>1, <3>2 DEF Delivery!Next
  <2>5. ASSUME NEW s \in Sides, NEW f \in Frames, EncryptFails(s, f)
        PROVE  UNCHANGED <<sent, got>>
    BY <2>5 DEF EncryptFails
  <2>6. ASSUME NEW s \in Sides, NEW f \in Frames, Decrypt(s, f)
        PROVE  Delivery!Next
    <3>1. got' = [got EXCEPT ![s] = Append(@, f)] /\ UNCHANGED sent
      BY <2>6 DEF Decrypt
    <3>2. /\ Len(got[s]) + 1 \in 1 .. Len(sent[Other(s)])
          /\ f = sent[Other(s)][Len(got[s]) + 1]
      BY <2>6, DecodedFrame
    <3>3. Len(got[s]) \in Nat /\ Len(sent[Other(s)]) \in Nat
      BY TwoSides, LenProperties DEF Inv, TypeOK
    <3>4. Len(got[s]) < Len(sent[Other(s)])
      BY <3>2, <3>3
    <3>5. Delivery!Get(s)
      BY <2>1, <3>1, <3>2, <3>4 DEF Delivery!Get
    <3> QED
      BY <2>1, <3>5 DEF Delivery!Next
  <2>7. CASE UNCHANGED vars
    BY <2>7 DEF vars, channel
  <2> QED
    BY <2>2, <2>3, <2>4, <2>5, <2>6, <2>7 DEF Next
<1> QED
  BY <1>1, <1>2, Invariance, PTL DEF Spec, ImplementsOrderedDelivery, Delivery!Spec

============================================================================
