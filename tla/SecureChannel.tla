--------------------------- MODULE SecureChannel ---------------------------
(***************************************************************************)
(* The UKEY2 handshake and the secure channel of src/quick_share_crypto.rs,  *)
(* with the frames of src/quick_share_transport.rs, between a sender (the    *)
(* client) and a receiver (the server) of one connection.                    *)
(*                                                                         *)
(* A key is the term it is derived from: the two are equal when the secrets  *)
(* and the transcripts they come from are.  A digest is injective, and a     *)
(* frame whose bytes changed fails its authentication.  The network may      *)
(* lose, repeat, reorder and change frames.                                 *)
(***************************************************************************)
EXTENDS Integers, Sequences

CONSTANTS
  Frames,        \* what the two programs send over the channel
  Oversized,     \* the frames that are larger than MAX_WIRE_FRAME_BYTES
  MaxSeq,        \* i32::MAX
  MaxFaults,     \* bound: how many times the network disturbs the frames
  AuthKey(_)     \* the bytes of the authentication key of a secret

ASSUME ChannelAssumption ==
  /\ Oversized \subseteq Frames
  /\ MaxSeq \in Nat /\ MaxFaults \in Nat

VARIABLES
  place,     \* where each side is: see Places
  heard,     \* what each side read of the handshake: see Marks
  sendSeq,   \* send_sequence of each side
  recvSeq,   \* receive_sequence of each side
  net,       \* the frames on their way to each side
  troubles,  \* how often the network has disturbed them
  sent,      \* history: the frames each side has written to the channel
  got        \* history: the frames each side has decoded

handshake == <<place, heard>>
channel == <<sendSeq, recvSeq, sent, got>>
vars == <<handshake, channel, net, troubles>>

Sides == {"client", "server"}
Other(s) == IF s = "client" THEN "server" ELSE "client"

Places == {"begin", "hello", "confirm",              \* the client
           "request", "init", "finish", "response",  \* the server
           "open", "closed"}

\* A part of a handshake message is as its author wrote it, or it is not.
Marks == {"none", "sent", "other"}

--------------------------------------------------------------------------
(* Messages, keys and the PIN.                                             *)

Plain(type) == [type |-> type]
ClientInit == [type |-> "ClientInit", random |-> "sent", commitment |-> "sent"]
ServerInit == [type |-> "ServerInit", random |-> "sent", key |-> "sent"]
ClientFinish == [type |-> "ClientFinish", key |-> "sent"]
Junk == Plain("junk")

\* The commitment is the SHA-512 of the ClientFinish.
Digest(finish) == IF finish.key = "sent" THEN "sent" ELSE "stray"

\* The ECDH secret of the two keys, and the transcript of ClientInit and
\* ServerInit, as side s knows them.
Shared(s) ==
  IF s = "client" THEN <<"sent", heard[s].key>> ELSE <<heard[s].key, "sent">>

Transcript(s) ==
  IF s = "client"
    THEN <<<<"sent", "sent">>, <<heard[s].random, heard[s].key>>>>
    ELSE <<<<heard[s].random, heard[s].commitment>>, <<"sent", "sent">>>>

\* Mutant: the keys do not depend on the transcript.
NextSecretMutant(s) == <<Shared(s), "UKEY2 v1 next">>

\* derive_session_keys: the keys of each direction.
NextSecret(s) == <<Shared(s), Transcript(s)>>
EncryptKey(s) == <<NextSecret(s), s>>
DecryptKey(s) == <<NextSecret(s), Other(s)>>

\* pin_code: the remainder of an i32 division has the sign of the dividend.
Rem(a, m) == IF a >= 0 THEN a % m ELSE - ((- a) % m)
Modulus == 9973
PinHash(hash, multiplier, byte) == Rem(hash + byte * multiplier, Modulus)
PinMultiplier(multiplier) == Rem(multiplier * 31, Modulus)

PinCode(key) ==
  LET step[i \in 0 .. Len(key)] ==
        IF i = 0 THEN <<0, 1>>
        ELSE LET last == step[i - 1] IN
             <<PinHash(last[1], last[2], key[i]), PinMultiplier(last[2])>>
      hash == step[Len(key)][1]
  IN IF hash >= 0 THEN hash ELSE - hash

Pin(s) == PinCode(AuthKey(<<Shared(s), Transcript(s)>>))

--------------------------------------------------------------------------
Init ==
  /\ place = [s \in Sides |-> IF s = "client" THEN "begin" ELSE "request"]
  /\ heard = [s \in Sides |->
                [random |-> "none", commitment |-> "none", key |-> "none"]]
  /\ sendSeq = [s \in Sides |-> 0] /\ recvSeq = [s \in Sides |-> 0]
  /\ net = [s \in Sides |-> <<>>]
  /\ troubles = 0
  /\ sent = [s \in Sides |-> <<>>] /\ got = [s \in Sides |-> <<>>]

--------------------------------------------------------------------------
(* The handshake.                                                          *)

Go(s, p) == place' = [place EXCEPT ![s] = p]

\* What is written to a side that has closed is lost.
Written(s, q) == IF place[s] = "closed" THEN net[s] ELSE net[s] \o q

\* Any error, a timeout or the end of the program: the stream is dropped.
Leave(s) ==
  /\ place[s] # "closed" /\ Go(s, "closed")
  /\ net' = [net EXCEPT ![s] = <<>>]
  /\ UNCHANGED <<heard, channel, troubles>>

\* Side s takes the frame m from the stream and writes the frames of reply.
Exchange(s, m, reply) ==
  /\ net[s] # <<>> /\ m = Head(net[s])
  /\ net' = [net EXCEPT ![s] = Tail(@), ![Other(s)] = Written(Other(s), reply)]
  /\ UNCHANGED <<channel, troubles>>

\* send_connection_request and Ukey2Initiator::begin.
Begin ==
  /\ place["client"] = "begin" /\ Go("client", "hello")
  /\ net' = [net EXCEPT !["server"] =
               Written("server", <<Plain("ConnectionRequest"), ClientInit>>)]
  /\ UNCHANGED <<heard, channel, troubles>>

ReadRequest ==
  /\ place["server"] = "request" /\ Go("server", "init")
  /\ Exchange("server", Plain("ConnectionRequest"), <<>>)
  /\ UNCHANGED heard

\* Ukey2Responder::accept_client_init.
AcceptClientInit ==
  /\ place["server"] = "init" /\ Go("server", "finish")
  /\ \E r, c \in Marks :
       /\ Exchange("server", [ClientInit EXCEPT !.random = r, !.commitment = c],
                   <<ServerInit>>)
       /\ heard' = [heard EXCEPT !["server"].random = r,
                                 !["server"].commitment = c]

\* Ukey2Initiator::complete, and send_plain_connection_accept.
CompleteInitiator ==
  /\ place["client"] = "hello" /\ Go("client", "confirm")
  /\ \E r, k \in Marks :
       /\ Exchange("client", [ServerInit EXCEPT !.random = r, !.key = k],
                   <<ClientFinish, Plain("ConnectionResponse")>>)
       /\ heard' = [heard EXCEPT !["client"].random = r, !["client"].key = k]

\* Ukey2Responder::complete: the commitment comes first.
CompleteResponder ==
  /\ place["server"] = "finish" /\ Go("server", "response")
  /\ \E k \in Marks :
       /\ Exchange("server", [ClientFinish EXCEPT !.key = k], <<>>)
       /\ Digest([ClientFinish EXCEPT !.key = k]) = heard["server"].commitment
       /\ heard' = [heard EXCEPT !["server"].key = k]

ConfirmServer ==
  /\ place["server"] = "response" /\ Go("server", "open")
  /\ Exchange("server", Plain("ConnectionResponse"), <<Plain("ConnectionResponse")>>)
  /\ UNCHANGED heard

ConfirmClient ==
  /\ place["client"] = "confirm" /\ Go("client", "open")
  /\ Exchange("client", Plain("ConnectionResponse"), <<>>)
  /\ UNCHANGED heard

Handshake ==
  \/ Begin \/ ReadRequest \/ AcceptClientInit \/ CompleteInitiator
  \/ CompleteResponder \/ ConfirmServer \/ ConfirmClient

--------------------------------------------------------------------------
(* The channel.                                                            *)

SecureMessage(s, n, f) ==
  [type |-> "SecureMessage", key |-> EncryptKey(s), number |-> n,
   frame |-> f, intact |-> TRUE]

\* Mutants: saturating_add; an addition that is not checked.
EncryptMutant(s, f) ==
  LET n == IF sendSeq[s] < MaxSeq THEN sendSeq[s] + 1 ELSE MaxSeq IN
  /\ place[s] = "open" /\ Len(sent[s]) <= MaxSeq
  /\ sendSeq' = [sendSeq EXCEPT ![s] = n]
  /\ net' = [net EXCEPT ![Other(s)] =
               Written(Other(s), <<SecureMessage(s, n, f)>>)]
  /\ sent' = [sent EXCEPT ![s] = Append(@, f)]
  /\ UNCHANGED <<handshake, recvSeq, got, troubles>>

EncryptUnchecked(s, f) ==
  LET n == sendSeq[s] + 1 IN
  /\ place[s] = "open" /\ f \notin Oversized /\ n <= MaxSeq + 1
  /\ sendSeq' = [sendSeq EXCEPT ![s] = n]
  /\ net' = [net EXCEPT ![Other(s)] =
               Written(Other(s), <<SecureMessage(s, n, f)>>)]
  /\ sent' = [sent EXCEPT ![s] = Append(@, f)]
  /\ UNCHANGED <<handshake, recvSeq, got, troubles>>

\* encrypt_offline_frame and write_frame.
Encrypt(s, f) ==
  LET n == sendSeq[s] + 1 IN
  /\ place[s] = "open" /\ sendSeq[s] < MaxSeq /\ f \notin Oversized
  /\ sendSeq' = [sendSeq EXCEPT ![s] = n]
  /\ net' = [net EXCEPT ![Other(s)] =
               Written(Other(s), <<SecureMessage(s, n, f)>>)]
  /\ sent' = [sent EXCEPT ![s] = Append(@, f)]
  /\ UNCHANGED <<handshake, recvSeq, got, troubles>>

\* The sequence number is taken even if the frame is then too long to write.
EncryptFails(s, f) ==
  /\ place[s] = "open" /\ Go(s, "closed")
  /\ \/ sendSeq[s] = MaxSeq /\ UNCHANGED sendSeq
     \/ /\ sendSeq[s] < MaxSeq /\ f \in Oversized
        /\ sendSeq' = [sendSeq EXCEPT ![s] = @ + 1]
  /\ net' = [net EXCEPT ![s] = <<>>]
  /\ UNCHANGED <<heard, recvSeq, sent, got, troubles>>

\* Mutant: the number is not compared with the one expected.
GenuineMutant(s, m) ==
  m.type = "SecureMessage" /\ m.key = DecryptKey(s) /\ m.intact

\* Authentication, then the sequence number.
Genuine(s, m) ==
  /\ m.type = "SecureMessage" /\ m.key = DecryptKey(s) /\ m.intact
  /\ recvSeq[s] < MaxSeq /\ m.number = recvSeq[s] + 1

Decrypt(s, f) ==
  LET m == Head(net[s]) IN
  /\ place[s] = "open" /\ net[s] # <<>> /\ Genuine(s, m) /\ f = m.frame
  /\ recvSeq' = [recvSeq EXCEPT ![s] = m.number]
  /\ got' = [got EXCEPT ![s] = Append(@, f)]
  /\ net' = [net EXCEPT ![s] = Tail(@)]
  /\ UNCHANGED <<handshake, sendSeq, sent, troubles>>

--------------------------------------------------------------------------
(* The network.                                                            *)

\* What frame m may have turned into: something that does not decode, or a
\* message with other bytes in one of its fields.
Changed(m) ==
  LET if(t, changes) == IF m.type = t THEN changes ELSE {} IN
  {Junk}
  \cup if("ClientInit", {[m EXCEPT !.random = "other"],
                          [m EXCEPT !.commitment = "other"]})
  \cup if("ServerInit", {[m EXCEPT !.random = "other"], [m EXCEPT !.key = "other"]})
  \cup if("ClientFinish", {[m EXCEPT !.key = "other"]})
  \cup if("SecureMessage", {[m EXCEPT !.intact = FALSE]})

Without(q, i) ==
  [k \in 1 .. Len(q) - 1 |-> IF k < i THEN q[k] ELSE q[k + 1]]

Swapped(q, i) ==
  [q EXCEPT ![i] = q[i + 1], ![i + 1] = q[i]]

Disturbed(q) ==
  LET places == 1 .. Len(q) IN
  {Without(q, i) : i \in places}
  \cup {Append(q, q[i]) : i \in places}
  \cup {Swapped(q, i) : i \in 1 .. Len(q) - 1}
  \cup UNION {{[q EXCEPT ![i] = m] : m \in Changed(q[i])} : i \in places}

Disturb(s) ==
  /\ troubles < MaxFaults /\ troubles' = troubles + 1
  /\ \E q \in Disturbed(net[s]) : net' = [net EXCEPT ![s] = q]
  /\ UNCHANGED <<handshake, channel>>

--------------------------------------------------------------------------
Next ==
  \/ Handshake
  \/ \E s \in Sides :
       \/ Leave(s) \/ Disturb(s)
       \/ \E f \in Frames : Encrypt(s, f) \/ EncryptFails(s, f) \/ Decrypt(s, f)

Spec == Init /\ [][Next]_vars

--------------------------------------------------------------------------
(* Properties.                                                             *)

Pairs == Marks \X Marks
Keys == (Pairs \X (Pairs \X Pairs)) \X Sides

Messages ==
  {Plain("ConnectionRequest"), Plain("ConnectionResponse"), Junk}
  \cup [type : {"ClientInit"}, random : Marks, commitment : Marks]
  \cup [type : {"ServerInit"}, random : Marks, key : Marks]
  \cup [type : {"ClientFinish"}, key : Marks]
  \cup [type : {"SecureMessage"}, key : Keys,
        number : 1 .. MaxSeq, frame : Frames, intact : BOOLEAN]

\* Every variable has the shape its declaration says.
TypeOK ==
  /\ place \in [Sides -> Places]
  /\ heard \in [Sides -> [random : Marks, commitment : Marks, key : Marks]]
  /\ sendSeq \in [Sides -> 0 .. MaxSeq] /\ recvSeq \in [Sides -> 0 .. MaxSeq]
  /\ net \in [Sides -> Seq(Messages)]
  /\ troubles \in 0 .. MaxFaults
  /\ sent \in [Sides -> Seq(Frames)] /\ got \in [Sides -> Seq(Frames)]

\* quick_share_crypto.rs:253, "channel with replay protection": whatever the
\* network does to the stream, each side decodes the frames of the other in
\* the order in which they were written, each once, and then perhaps no more.
Delivery == INSTANCE OrderedDelivery WITH Items <- Frames
ImplementsOrderedDelivery == Delivery!Spec

\* The PIN on both screens is the same as soon as one frame has been decoded: a
\* handshake in which the two sides saw different messages never opens the
\* channel, so the comparison the users are asked for can only fail for peers
\* that cannot talk to each other.
PinsAgree ==
  (\E s \in Sides : got[s] # <<>>) => Pin("client") = Pin("server")

\* No sequence number serves twice: two frames of one direction that are on
\* their way with the same number are the same frame, also when the counter is
\* at its limit.
NumbersServeOnce ==
  \A s \in Sides : \A i, j \in 1 .. Len(net[s]) :
    LET m == net[s][i]  n == net[s][j] IN
    m.type = "SecureMessage" /\ n.type = "SecureMessage"
      /\ m.number = n.number => m.frame = n.frame

\* The inductive invariant.  A side that is not closed has numbered exactly the
\* frames it has written, and has accepted as many as it has decoded.
NumbersOK ==
  \A s \in Sides :
    /\ place[s] # "closed" => sendSeq[s] = Len(sent[s])
    /\ recvSeq[s] = Len(got[s])

\* Whatever the network made of message m, it has its author's key, and the frame
\* which that author's log of frames has under its number.
Authored(m, key, log) ==
  m.type = "SecureMessage" =>
    m.key = key /\ m.number \in 1 .. Len(log) /\ m.frame = log[m.number]

AllAuthored(q, key, log) == \A i \in 1 .. Len(q) : Authored(q[i], key, log)

OnTheWay ==
  \A s \in Sides : AllAuthored(net[s], EncryptKey(Other(s)), sent[Other(s)])

\* A frame is written after the writer's handshake, and decoded when both sides
\* have finished theirs with the same keys.
Done == {"open", "closed"}
KeysOK ==
  \A s \in Sides :
    /\ sent[s] # <<>> => place[s] \in Done
    /\ got[s] # <<>> =>
         /\ place \in [Sides -> Done]
         /\ NextSecret("client") = NextSecret("server")

Inv == TypeOK /\ NumbersOK /\ OnTheWay /\ KeysOK

============================================================================
