--------------------------- MODULE SharingFrames ---------------------------
(***************************************************************************)
(* The sharing frames (paired keys, introduction, response) that travel over *)
(* SecureChannel as BYTES payloads cut into chunks: send_sharing_frame,      *)
(* read_next_sharing_frame and BytesAssembler of src/quick_share_sender.rs   *)
(* (the client) and src/quick_share_receiver.rs (the server).                *)
(*                                                                         *)
(* A side in Stock is another vendor's program, which cuts its payloads as   *)
(* it likes and may get one wrong.  Each side is one thread: it reads only   *)
(* when it has nothing left to write.                                       *)
(***************************************************************************)
EXTENDS SecureChannel, FiniteSets

CONSTANTS
  Bodies,      \* the encoded sharing frames, as sequences of bytes
  MaxBytes,    \* MAX_WIRE_FRAME_BYTES
  Ids,         \* payload IDs; they are random, so any may come again
  Stock,       \* the sides that are not HiRodrop
  MaxSaid      \* bound: sharing frames of each side

VARIABLES
  writing,   \* the frames each side has still to write
  buffers,   \* BytesAssembler.buffers: payload ID to the bytes so far
  failed,    \* sides whose last push returned an error
  said,      \* history: the sharing frames each side has begun to send
  told       \* history: the sharing frames each side has read

sharing == <<writing, buffers, failed, said, told>>
sharingVars == <<vars, sharing>>

Chunk(id, total, offset, body, last) ==
  [kind |-> "chunk", id |-> id, total |-> total, offset |-> offset,
   body |-> body, last |-> last]
KeepAlive(ack) == [kind |-> "keepAlive", ack |-> ack]

\* send_sharing_frame: all the bytes, then an empty last chunk.
HiRodropChunks(id, b) ==
  <<Chunk(id, Len(b), 0, b, FALSE), Chunk(id, Len(b), Len(b), <<>>, TRUE)>>

\* Other ways to send the same payload.
StockChunks(id, b) ==
  {<<Chunk(id, Len(b), 0, b, TRUE)>>} \cup
  {<<Chunk(id, Len(b), 0, SubSeq(b, 1, n), FALSE),
     Chunk(id, Len(b), n, SubSeq(b, n + 1, Len(b)), TRUE)>> : n \in 1 .. Len(b) - 1}

\* Payloads that are not what their header declares.
WrongChunks(id, b) ==
  {<<Chunk(id, Len(b) + 1, 0, b, TRUE)>>,
   <<Chunk(id, Len(b) - 1, 0, SubSeq(b, 1, 1), FALSE),
     Chunk(id, Len(b) - 1, 1, SubSeq(b, 2, Len(b)), FALSE)>>,
   <<Chunk(id, Len(b), 0, b, FALSE), Chunk(id, Len(b), 0, <<>>, TRUE)>>}

Payloads ==
  UNION {{HiRodropChunks(id, b)} \cup StockChunks(id, b) \cup WrongChunks(id, b)
         : id \in Ids, b \in Bodies}

\* What the constants Frames and Oversized of the channel are here.
SharingFrame ==
  {KeepAlive(TRUE), KeepAlive(FALSE)}
  \cup UNION {{c[k] : k \in 1 .. Len(c)} : c \in Payloads}
LongFrame == {f \in SharingFrame : f.kind = "chunk" /\ Len(f.body) > MaxBytes}

\* The channel carries sharing frames, and an encoded one is never empty.
ASSUME SharingAssumption ==
  /\ SharingFrame \subseteq Frames /\ MaxBytes \in Nat
  /\ Bodies \subseteq Seq(0 .. 255) \ {<<>>}

SharingInit ==
  /\ Init
  /\ writing = [s \in Sides |-> <<>>]
  /\ buffers = [s \in Sides |-> [id \in Ids |-> <<>>]]
  /\ failed = {}
  /\ said = [s \in Sides |-> <<>>]
  /\ told = [s \in Sides |-> <<>>]

--------------------------------------------------------------------------
(* Writing.                                                                *)

Idle(s) == place[s] = "open" /\ s \notin failed /\ writing[s] = <<>>

Say(s) ==
  /\ Idle(s) /\ Len(said[s]) < MaxSaid
  /\ \E b \in Bodies, id \in Ids :
       /\ \E c \in {HiRodropChunks(id, b)} \cup
                   (IF s \in Stock THEN StockChunks(id, b) ELSE {}) :
            writing' = [writing EXCEPT ![s] = c]
       /\ said' = [said EXCEPT ![s] = Append(@, b)]
  /\ UNCHANGED <<vars, buffers, failed, told>>

\* The keep-alive of the consent loop.
Beat(s) ==
  /\ Idle(s) /\ s = "server" /\ Len(said[s]) < MaxSaid
  /\ writing' = [writing EXCEPT ![s] = <<KeepAlive(FALSE)>>]
  /\ UNCHANGED <<vars, buffers, failed, said, told>>

Blunder(s) ==
  /\ Idle(s) /\ s \in Stock /\ Len(said[s]) < MaxSaid
  /\ \E b \in Bodies, id \in Ids : \E c \in WrongChunks(id, b) :
       writing' = [writing EXCEPT ![s] = c]
  /\ UNCHANGED <<vars, buffers, failed, said, told>>

\* send_encrypted_offline.
Write(s) ==
  /\ writing[s] # <<>>
  /\ \/ /\ Encrypt(s, Head(writing[s]))
        /\ writing' = [writing EXCEPT ![s] = Tail(@)]
     \/ /\ EncryptFails(s, Head(writing[s]))
        /\ writing' = [writing EXCEPT ![s] = <<>>]
  /\ UNCHANGED <<buffers, failed, said, told>>

--------------------------------------------------------------------------
(* Reading.                                                                *)

ReadKeepAlive(s, f) ==
  /\ f.kind = "keepAlive"
  /\ writing' = [writing EXCEPT ![s] = IF f.ack THEN <<>> ELSE <<KeepAlive(TRUE)>>]
  /\ UNCHANGED <<buffers, failed, said, told>>

\* BytesAssembler::push.  Only the receiver compares every chunk, and not just
\* the last, with the declared size.
Fits(s, f, bytes) ==
  /\ f.total <= MaxBytes
  /\ f.offset = Len(buffers[s][f.id])
  /\ s = "server" => Len(bytes) <= f.total
  /\ f.last => Len(bytes) = f.total

\* Mutant: a payload is complete when all its bytes are there.
PushMutant(s, f) ==
  LET bytes == buffers[s][f.id] \o f.body
      whole == Len(bytes) = f.total
  IN
  /\ f.kind = "chunk"
  /\ buffers' = [buffers EXCEPT ![s][f.id] = IF whole THEN <<>> ELSE bytes]
  /\ told' = [told EXCEPT ![s] = IF whole THEN Append(@, bytes) ELSE @]
  /\ UNCHANGED <<writing, failed, said>>

Push(s, f) ==
  LET bytes == buffers[s][f.id] \o f.body IN
  /\ f.kind = "chunk"
  /\ IF Fits(s, f, bytes)
       THEN /\ buffers' = [buffers EXCEPT ![s][f.id] =
                             IF f.last THEN <<>> ELSE bytes]
            /\ told' = [told EXCEPT ![s] = IF f.last THEN Append(@, bytes) ELSE @]
            /\ UNCHANGED failed
       ELSE failed' = failed \cup {s} /\ UNCHANGED <<buffers, told>>
  /\ UNCHANGED <<writing, said>>

Read(s) ==
  LET f == Head(net[s]).frame IN
  /\ Idle(s) /\ Decrypt(s, f)
  /\ ReadKeepAlive(s, f) \/ Push(s, f)

--------------------------------------------------------------------------
SharingNext ==
  \/ Handshake /\ UNCHANGED sharing
  \/ \E s \in Sides :
       \/ (Leave(s) \/ Disturb(s)) /\ UNCHANGED sharing
       \/ Say(s) \/ Beat(s) \/ Blunder(s) \/ Write(s) \/ Read(s)

SharingSpec == SharingInit /\ [][SharingNext]_sharingVars

--------------------------------------------------------------------------
(* Properties.                                                             *)

\* Over a network that loses, repeats, reorders and changes frames, and with
\* chunks of keep-alives and refused payloads in between, each side reads the
\* sharing frames of the other whole, in order and once.
Sharing == INSTANCE OrderedDelivery WITH
  Items <- Bodies, sent <- said, got <- told
SharingFramesInOrder == Sharing!Spec

============================================================================
