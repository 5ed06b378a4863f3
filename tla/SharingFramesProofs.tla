------------------------ MODULE SharingFramesProofs ------------------------
(***************************************************************************)
(* SharingFrames for any sharing frames, any payload IDs, any limit of their  *)
(* size and any program of another vendor on either side: sharing frames are *)
(* read whole, in order and once.                                           *)
(***************************************************************************)
EXTENDS SharingFrames, SecureChannelProofs

--------------------------------------------------------------------------
(* The invariant.                                                          *)

SharingTypeOK ==
  /\ writing \in [Sides -> Seq(SharingFrame)]
  /\ buffers \in [Sides -> [Ids -> Seq(0 .. 255)]]
  /\ failed \in SUBSET Sides
  /\ said \in [Sides -> Seq(Bodies)] /\ told \in [Sides -> Seq(Bodies)]

\* What a side writes in one go, when it has begun the first n of the sharing
\* frames words before it and the first m with it.
Bunch(words, n, m, c) ==
  \/ m = n /\ \E ack \in BOOLEAN : c = <<KeepAlive(ack)>>
  \/ m = n /\ \E id \in Ids, b \in Bodies : c \in WrongChunks(id, b)
  \/ /\ m = n + 1 /\ m <= Len(words)
     /\ \E id \in Ids : c \in {HiRodropChunks(id, words[m])} \cup StockChunks(id, words[m])

\* A log of frames has a mark after each: how many sharing frames have begun, and
\* the frame that is due before the next bunch.  Frame f leads from one mark to
\* the next.
Follows(words, n, d, f, m, e) ==
  \/ d = <<f>> /\ f \in SharingFrame /\ m = n /\ e = <<>>
  \/ /\ d = <<>>
     /\ \E c \in Seq(SharingFrame) \ {<<>>} :
          Bunch(words, n, m, c) /\ f = Head(c) /\ e = Tail(c)

Marked(log, words, n, d) ==
  \A i \in 1 .. Len(log) : Follows(words, n[i - 1], d[i - 1], log[i], n[i], d[i])

\* The author at the end of its log still has to write w: what is due, or a bunch.
Pending(words, n, d, w) ==
  \/ w = d /\ n = Len(words) /\ Len(w) <= 1
  \/ d = <<>> /\ Bunch(words, n, Len(words), w)

\* The reader at a mark: it has read every sharing frame that is whole, and has the
\* beginning of the one that is not.  A last chunk that is due for anything else
\* does not fit what it has.
Reads(words, n, d, news, bytes) ==
  \/ d = <<>> /\ Len(news) = n
  \/ \E f \in SharingFrame :
       /\ d = <<f>> /\ Len(news) = n /\ f.kind = "chunk"
       /\ f.last => f.offset = 0 /\ bytes[f.id] # <<>>
  \/ \E id \in Ids : \E k \in 1 .. Len(words[n]) :
       /\ d = <<Chunk(id, Len(words[n]), k, SubSeq(words[n], k + 1, Len(words[n])), TRUE)>>
       /\ n > 0 /\ Len(news) = n - 1 /\ bytes[id] = SubSeq(words[n], 1, k)

\* Side s reads along the log of the other side.
Along(s, log, words, w, n, d) ==
  /\ Marked(log, words, n, d)
  /\ place[Other(s)] = "closed" \/ Pending(words, n[Len(log)], d[Len(log)], w)
  /\ Len(got[s]) \in 0 .. Len(log)
  /\ s \notin failed => Reads(words, n[Len(got[s])], d[Len(got[s])], told[s], buffers[s])

Stream(s) ==
  \E n \in [0 .. Len(sent[Other(s)]) -> 0 .. Len(said[Other(s)])] :
    \E d \in [0 .. Len(sent[Other(s)]) -> Seq(SharingFrame)] :
      Along(s, sent[Other(s)], said[Other(s)], writing[Other(s)], n, d)

StreamOK == \A s \in Sides : Stream(s)

SharingInv == Inv /\ SharingTypeOK /\ StreamOK

--------------------------------------------------------------------------
(* Frames and chunks.                                                      *)

\* The bytes before and after a cut.
LEMMA CutBytes ==
  ASSUME NEW b \in Seq(0 .. 255), NEW k \in 1 .. Len(b)
  PROVE  /\ SubSeq(b, 1, k) \in Seq(0 .. 255) /\ SubSeq(b, k + 1, Len(b)) \in Seq(0 .. 255)
         /\ SubSeq(b, 1, k) \o SubSeq(b, k + 1, Len(b)) = b
         /\ Len(SubSeq(b, 1, k)) = k /\ SubSeq(b, 1, k) # <<>>
<1>1. Len(b) \in Nat /\ \A i \in 1 .. Len(b) : b[i] \in 0 .. 255
  BY LenProperties, ElementOfSeq
<1>2. k \in Int /\ k + 1 \in Int /\ Len(b) \in Int /\ k >= 1 /\ k <= Len(b)
  BY <1>1
<1>3. SubSeq(b, 1, k) \in Seq(0 .. 255) /\ Len(SubSeq(b, 1, k)) = k
  <2>1. \A i \in 1 .. k : b[i] \in 0 .. 255
    BY <1>1, <1>2
  <2>2. Len(SubSeq(b, 1, k)) = IF 1 <= k THEN k - 1 + 1 ELSE 0
    BY <1>2, <2>1, SubSeqProperties
  <2> QED
    BY <1>2, <2>1, <2>2, SubSeqProperties
<1>4. SubSeq(b, k + 1, Len(b)) \in Seq(0 .. 255)
  <2>1. \A i \in k + 1 .. Len(b) : b[i] \in 0 .. 255
    BY <1>1, <1>2
  <2> QED
    BY <1>2, <2>1, SubSeqProperties
<1>5. SubSeq(b, 1, k) \o SubSeq(b, k + 1, Len(b)) = SubSeq(b, 1, Len(b))
  BY <1>1, <1>2, ConcatAdjacentSubSeq
<1>6. SubSeq(b, 1, Len(b)) = b
  BY SubSeqFull
<1>7. SubSeq(b, 1, k) # <<>>
  BY <1>2, <1>3
<1> QED
  BY <1>3, <1>4, <1>5, <1>6, <1>7

\* A payload as it should be is one last chunk, or two chunks that are cut anywhere.
LEMMA GoodChunks ==
  ASSUME NEW id \in Ids, NEW b \in Bodies,
         NEW c \in {HiRodropChunks(id, b)} \cup StockChunks(id, b)
  PROVE  \/ c = <<Chunk(id, Len(b), 0, b, TRUE)>>
         \/ \E k \in 1 .. Len(b) :
              c = <<Chunk(id, Len(b), 0, SubSeq(b, 1, k), FALSE),
                    Chunk(id, Len(b), k, SubSeq(b, k + 1, Len(b)), TRUE)>>
<1>1. b \in Seq(0 .. 255) /\ b # <<>> /\ Len(b) \in Nat /\ Len(b) >= 1
  BY SharingAssumption, EmptySeq, LenProperties
<1>2. CASE c = HiRodropChunks(id, b)
  <2>1. SubSeq(b, 1, Len(b)) = b
    BY <1>1, SubSeqFull
  <2>2. SubSeq(b, Len(b) + 1, Len(b)) = <<>>
    BY <1>1, SubSeqEmpty
  <2>3. c = <<Chunk(id, Len(b), 0, SubSeq(b, 1, Len(b)), FALSE),
              Chunk(id, Len(b), Len(b), SubSeq(b, Len(b) + 1, Len(b)), TRUE)>>
    BY <1>2, <2>1, <2>2 DEF HiRodropChunks
  <2>4. Len(b) \in 1 .. Len(b)
    BY <1>1
  <2>5. \E k \in 1 .. Len(b) :
          c = <<Chunk(id, Len(b), 0, SubSeq(b, 1, k), FALSE),
                Chunk(id, Len(b), k, SubSeq(b, k + 1, Len(b)), TRUE)>>
    <3> WITNESS Len(b) \in 1 .. Len(b)
    <3> QED
      BY <2>3
  <2> QED
    BY <2>5
<1>3. CASE c \in StockChunks(id, b)
  <2>1. CASE c = <<Chunk(id, Len(b), 0, b, TRUE)>>
    BY <2>1
  <2>2. ASSUME NEW n \in 1 .. Len(b) - 1,
               c = <<Chunk(id, Len(b), 0, SubSeq(b, 1, n), FALSE),
                     Chunk(id, Len(b), n, SubSeq(b, n + 1, Len(b)), TRUE)>>
        PROVE  \E k \in 1 .. Len(b) :
                 c = <<Chunk(id, Len(b), 0, SubSeq(b, 1, k), FALSE),
                       Chunk(id, Len(b), k, SubSeq(b, k + 1, Len(b)), TRUE)>>
    <3>1. n \in 1 .. Len(b)
      BY <1>1
    <3> WITNESS n \in 1 .. Len(b)
    <3> QED
      BY <2>2
  <2> QED
    BY <1>3, <2>1, <2>2 DEF StockChunks
<1> QED
  BY <1>2, <1>3

\* The chunks that a side writes are sharing frames; a program writes one or two at
\* a time.
LEMMA Chunks ==
  ASSUME NEW id \in Ids, NEW b \in Bodies,
         NEW c \in {HiRodropChunks(id, b)} \cup StockChunks(id, b) \cup WrongChunks(id, b)
  PROVE  /\ c \in Seq(SharingFrame) /\ Len(c) \in {1, 2}
         /\ \A k \in 1 .. Len(c) :
              c[k].kind = "chunk" /\ c[k].id = id /\ c[k].body \in Seq(0 .. 255)
<1>1. b \in Seq(0 .. 255) /\ b # <<>> /\ Len(b) \in Nat /\ Len(b) >= 1
  BY SharingAssumption, EmptySeq, LenProperties
<1>2. <<>> \in Seq(0 .. 255)
  OBVIOUS
<1> DEFINE Shape(f) == f.kind = "chunk" /\ f.id = id /\ f.body \in Seq(0 .. 255)
<1>3. \A total, offset, last : \A body \in Seq(0 .. 255) :
        Shape(Chunk(id, total, offset, body, last))
  BY DEF Chunk
<1> HIDE DEF Shape
<1>4. \/ \E f : c = <<f>> /\ Shape(f)
      \/ \E f, g : c = <<f, g>> /\ Shape(f) /\ Shape(g)
  <2>1. CASE c = HiRodropChunks(id, b)
    BY <1>1, <1>2, <1>3, <2>1 DEF HiRodropChunks
  <2>2. CASE c \in StockChunks(id, b)
    <3>1. CASE c = <<Chunk(id, Len(b), 0, b, TRUE)>>
      BY <1>1, <1>3, <3>1
    <3>2. ASSUME NEW n \in 1 .. Len(b) - 1,
                 c = <<Chunk(id, Len(b), 0, SubSeq(b, 1, n), FALSE),
                       Chunk(id, Len(b), n, SubSeq(b, n + 1, Len(b)), TRUE)>>
          PROVE  \E f, g : c = <<f, g>> /\ Shape(f) /\ Shape(g)
      <4>1. n \in 1 .. Len(b)
        BY <1>1
      <4>2. SubSeq(b, 1, n) \in Seq(0 .. 255) /\ SubSeq(b, n + 1, Len(b)) \in Seq(0 .. 255)
        BY <1>1, <4>1, CutBytes
      <4> QED
        BY <1>3, <3>2, <4>2
    <3> QED
      BY <2>2, <3>1, <3>2 DEF StockChunks
  <2>3. CASE c \in WrongChunks(id, b)
    <3>1. SubSeq(b, 1, 1) \in Seq(0 .. 255) /\ SubSeq(b, 2, Len(b)) \in Seq(0 .. 255)
      <4>1. 1 \in 1 .. Len(b) /\ 1 + 1 = 2
        BY <1>1
      <4> QED
        BY <1>1, <4>1, CutBytes
    <3>2. \/ c = <<Chunk(id, Len(b) + 1, 0, b, TRUE)>>
          \/ c = <<Chunk(id, Len(b) - 1, 0, SubSeq(b, 1, 1), FALSE),
                   Chunk(id, Len(b) - 1, 1, SubSeq(b, 2, Len(b)), FALSE)>>
          \/ c = <<Chunk(id, Len(b), 0, b, FALSE), Chunk(id, Len(b), 0, <<>>, TRUE)>>
      BY <2>3 DEF WrongChunks
    <3> QED
      BY <1>1, <1>2, <1>3, <3>1, <3>2
  <2> QED
    BY <2>1, <2>2, <2>3
<1>5. Len(c) \in {1, 2} /\ (\A k \in 1 .. Len(c) : Shape(c[k])) /\ c \in Seq({c[k] : k \in 1 .. Len(c)})
  <2>1. CASE \E f : c = <<f>> /\ Shape(f)
    BY <2>1
  <2>2. CASE \E f, g : c = <<f, g>> /\ Shape(f) /\ Shape(g)
    BY <2>2
  <2> QED
    BY <1>4, <2>1, <2>2
<1>6. {c[k] : k \in 1 .. Len(c)} \subseteq SharingFrame
  <2>1. c \in Payloads
    <3> DEFINE All(i, w) ==
          {HiRodropChunks(i, w)} \cup StockChunks(i, w) \cup WrongChunks(i, w)
    <3>1. All(id, b) \in {All(i, w) : i \in Ids, w \in Bodies}
      OBVIOUS
    <3>2. c \in All(id, b)
      OBVIOUS
    <3>3. Payloads = UNION {All(i, w) : i \in Ids, w \in Bodies}
      BY DEF Payloads
    <3> HIDE DEF All
    <3> QED
      BY <3>1, <3>2, <3>3
  <2> QED
    BY <2>1 DEF SharingFrame
<1>7. c \in Seq(SharingFrame)
  BY <1>5, <1>6
<1> QED
  BY <1>5, <1>7 DEF Shape

\* A sharing frame is a keep-alive or a chunk.
LEMMA FrameTypes ==
  /\ \A ack \in BOOLEAN : KeepAlive(ack) \in SharingFrame /\ KeepAlive(ack).kind = "keepAlive"
  /\ \A f \in SharingFrame : f.kind = "chunk" => f.id \in Ids /\ f.body \in Seq(0 .. 255)
<1>1. \A ack \in BOOLEAN : KeepAlive(ack) \in SharingFrame /\ KeepAlive(ack).kind = "keepAlive"
  BY DEF SharingFrame, KeepAlive
<1>2. ASSUME NEW f \in SharingFrame, f.kind = "chunk"
      PROVE  f.id \in Ids /\ f.body \in Seq(0 .. 255)
  <2>1. f \notin {KeepAlive(TRUE), KeepAlive(FALSE)}
    BY <1>1, <1>2
  <2>2. PICK c \in Payloads : f \in {c[k] : k \in 1 .. Len(c)}
    BY <2>1 DEF SharingFrame
  <2>3. \E id \in Ids, b \in Bodies :
          c \in {HiRodropChunks(id, b)} \cup StockChunks(id, b) \cup WrongChunks(id, b)
    BY DEF Payloads
  <2> QED
    BY <2>2, <2>3, Chunks
<1> QED
  BY <1>1, <1>2

LEMMA OneKeepAlive == \A ack \in BOOLEAN : <<KeepAlive(ack)>> \in Seq(SharingFrame)
<1> TAKE ack \in BOOLEAN
<1> DEFINE f == KeepAlive(ack)
<1>1. f \in SharingFrame
  BY FrameTypes
<1> HIDE DEF f
<1>2. <<f>> \in Seq(SharingFrame)
  BY <1>1
<1> QED
  BY <1>2 DEF f

\* Whatever is written in one go is one or two sharing frames.
LEMMA BunchTypes ==
  ASSUME NEW words \in Seq(Bodies), NEW n \in 0 .. Len(words), NEW m, NEW c,
         Bunch(words, n, m, c)
  PROVE  /\ c \in Seq(SharingFrame) /\ c # <<>> /\ Len(c) <= 2
         /\ m \in 0 .. Len(words)
<1>1. c \in Seq(SharingFrame) /\ Len(c) \in {1, 2} /\ m \in 0 .. Len(words)
  <2>1. CASE m = n /\ \E ack \in BOOLEAN : c = <<KeepAlive(ack)>>
    BY <2>1, FrameTypes
  <2>2. CASE m = n /\ \E id \in Ids, b \in Bodies : c \in WrongChunks(id, b)
    BY <2>2, Chunks
  <2>3. CASE /\ m = n + 1 /\ m <= Len(words)
             /\ \E id \in Ids : c \in {HiRodropChunks(id, words[m])} \cup StockChunks(id, words[m])
    <3>1. m \in 1 .. Len(words) /\ words[m] \in Bodies
      BY <2>3, LenProperties, ElementOfSeq
    <3> QED
      BY <2>3, <3>1, Chunks
  <2> QED
    BY <2>1, <2>2, <2>3 DEF Bunch
<1> DEFINE l == Len(c)
<1>2. l = 1 \/ l = 2
  BY <1>1
<1> HIDE DEF l
<1>3. l <= 2 /\ l # 0
  BY <1>2
<1>4. c # <<>>
  BY <1>1, <1>3, EmptySeq DEF l
<1> QED
  BY <1>1, <1>3, <1>4 DEF l

--------------------------------------------------------------------------
(* Marks of a log.                                                         *)

\* More sharing frames do not change what has been begun.
LEMMA MoreWords ==
  ASSUME NEW words \in Seq(Bodies), NEW b \in Bodies, NEW n \in 0 .. Len(words)
  PROVE  LET more == Append(words, b) IN
         /\ more \in Seq(Bodies) /\ Len(more) = Len(words) + 1 /\ more[Len(words) + 1] = b
         /\ \A m, c : Bunch(words, n, m, c) => Bunch(more, n, m, c)
         /\ \A m, d, f, e : Follows(words, n, d, f, m, e) => Follows(more, n, d, f, m, e)
         /\ \A d, news, bytes : Reads(words, n, d, news, bytes) => Reads(more, n, d, news, bytes)
<1> DEFINE more == Append(words, b)
<1>1. /\ more \in Seq(Bodies) /\ Len(more) = Len(words) + 1 /\ more[Len(words) + 1] = b
      /\ Len(words) \in Nat /\ \A i \in 1 .. Len(words) : more[i] = words[i]
  BY AppendProperties, LenProperties
<1> HIDE DEF more
<1>2. ASSUME NEW m, NEW c, Bunch(words, n, m, c) PROVE Bunch(more, n, m, c)
  <2>1. CASE m = n /\ \E ack \in BOOLEAN : c = <<KeepAlive(ack)>>
    BY <2>1 DEF Bunch
  <2>2. CASE m = n /\ \E id \in Ids, w \in Bodies : c \in WrongChunks(id, w)
    BY <2>2 DEF Bunch
  <2>3. CASE /\ m = n + 1 /\ m <= Len(words)
             /\ \E id \in Ids : c \in {HiRodropChunks(id, words[m])} \cup StockChunks(id, words[m])
    <3>1. m \in 1 .. Len(words) /\ m <= Len(more) /\ more[m] = words[m]
      BY <1>1, <2>3
    <3> QED
      BY <2>3, <3>1 DEF Bunch
  <2> QED
    BY <1>2, <2>1, <2>2, <2>3 DEF Bunch
<1>3. ASSUME NEW m, NEW d, NEW f, NEW e, Follows(words, n, d, f, m, e)
      PROVE  Follows(more, n, d, f, m, e)
  BY <1>2, <1>3 DEF Follows
<1>4. ASSUME NEW d, NEW news, NEW bytes, Reads(words, n, d, news, bytes)
      PROVE  Reads(more, n, d, news, bytes)
  <2>1. n > 0 => more[n] = words[n]
    BY <1>1
  <2>2. CASE \E id \in Ids : \E k \in 1 .. Len(words[n]) :
               /\ d = <<Chunk(id, Len(words[n]), k, SubSeq(words[n], k + 1, Len(words[n])), TRUE)>>
               /\ n > 0 /\ Len(news) = n - 1 /\ bytes[id] = SubSeq(words[n], 1, k)
    BY <2>1, <2>2 DEF Reads
  <2> QED
    BY <1>4, <2>2 DEF Reads
<1> QED
  BY <1>1, <1>2, <1>3, <1>4 DEF more

LEMMA OneFrame ==
  ASSUME NEW S, NEW w \in Seq(S), Len(w) = 1
  PROVE  w = <<Head(w)>> /\ Tail(w) = <<>>
<1>1. w # <<>> /\ Head(w) = w[1] /\ w[1] \in S
  BY ElementOfSeq
<1>2. <<Head(w)>> \in Seq(S) /\ Len(<<Head(w)>>) = 1 /\ <<Head(w)>>[1] = w[1]
  BY <1>1
<1>3. w = <<Head(w)>>
  BY <1>2, SeqEqual
<1>4. Tail(w) \in Seq(S) /\ Len(Tail(w)) = 0
  BY <1>1, HeadTailProperties
<1> QED
  BY <1>3, <1>4, EmptySeq

LEMMA SomeFrames ==
  ASSUME NEW S, NEW w \in Seq(S), w # <<>>
  PROVE  /\ Len(w) \in Nat /\ Len(w) >= 1 /\ Head(w) \in S
         /\ Tail(w) \in Seq(S) /\ (Len(w) <= 2 => Len(Tail(w)) <= 1)
<1>1. Len(w) \in Nat /\ Len(w) # 0
  BY LenProperties, EmptySeq
<1>2. Tail(w) \in Seq(S) /\ Head(w) \in S /\ Len(Tail(w)) = Len(w) - 1
  BY HeadTailProperties
<1> DEFINE l == Len(Tail(w))
<1>3. l = Len(w) - 1
  BY <1>2
<1> HIDE DEF l
<1>4. Len(w) <= 2 => l <= 1
  BY <1>1, <1>3
<1> QED
  BY <1>1, <1>2, <1>4 DEF l

\* The marks of log, and of the frames after it in longer.
Prolonged(log, longer, words, n, d, w) ==
  \E m \in [0 .. Len(longer) -> 0 .. Len(words)] :
    \E e \in [0 .. Len(longer) -> Seq(SharingFrame)] :
      /\ \A i \in 0 .. Len(log) : m[i] = n[i] /\ e[i] = d[i]
      /\ Marked(longer, words, m, e)
      /\ Pending(words, m[Len(longer)], e[Len(longer)], w)

\* The author writes a frame: the log has one more mark.
LEMMA LongerStream ==
  ASSUME NEW words \in Seq(Bodies), NEW log \in Seq(Frames), NEW w \in Seq(SharingFrame),
         w # <<>>,
         NEW n \in [0 .. Len(log) -> 0 .. Len(words)],
         NEW d \in [0 .. Len(log) -> Seq(SharingFrame)],
         Marked(log, words, n, d), Pending(words, n[Len(log)], d[Len(log)], w)
  PROVE  Prolonged(log, Append(log, Head(w)), words, n, d, Tail(w))
<1> DEFINE longer == Append(log, Head(w))
           L == Len(log)
           m == [i \in 0 .. L + 1 |-> IF i = L + 1 THEN Len(words) ELSE n[i]]
           e == [i \in 0 .. L + 1 |-> IF i = L + 1 THEN Tail(w) ELSE d[i]]
<1>1. /\ Head(w) \in SharingFrame /\ Tail(w) \in Seq(SharingFrame)
      /\ Len(w) \in Nat /\ Len(w) >= 1 /\ Len(words) \in Nat
  BY SomeFrames, LenProperties
<1>2. /\ L \in Nat /\ Len(longer) = L + 1 /\ longer[L + 1] = Head(w)
      /\ \A i \in 1 .. L : longer[i] = log[i]
  <2>1. Head(w) \in Frames
    BY <1>1, SharingAssumption
  <2> QED
    BY <2>1, AppendProperties, LenProperties
<1>3. n[L] \in 0 .. Len(words)
  BY <1>2
<1>4. /\ Len(Tail(w)) <= 1
      /\ Follows(words, n[L], d[L], Head(w), Len(words), Tail(w))
  <2>1. CASE w = d[L] /\ n[L] = Len(words) /\ Len(w) <= 1
    <3>1. Len(w) = 1
      BY <1>1, <2>1
    <3>2. w = <<Head(w)>> /\ Tail(w) = <<>>
      BY <3>1, OneFrame
    <3>3. Follows(words, n[L], d[L], Head(w), Len(words), Tail(w))
      BY <1>1, <2>1, <3>2 DEF Follows
    <3>4. Len(Tail(w)) <= 1
      BY <1>1, <2>1, SomeFrames
    <3> QED
      BY <3>3, <3>4
  <2>2. CASE d[L] = <<>> /\ Bunch(words, n[L], Len(words), w)
    <3>1. Len(w) <= 2
      BY <1>3, <2>2, BunchTypes
    <3>2. Follows(words, n[L], d[L], Head(w), Len(words), Tail(w))
      BY <1>1, <2>2 DEF Follows
    <3>3. Len(Tail(w)) <= 1
      BY <3>1, SomeFrames
    <3> QED
      BY <3>2, <3>3
  <2> QED
    BY <2>1, <2>2 DEF Pending
<1> HIDE DEF longer, L
<1>5. /\ m \in [0 .. L + 1 -> 0 .. Len(words)] /\ e \in [0 .. L + 1 -> Seq(SharingFrame)]
      /\ m[L + 1] = Len(words) /\ e[L + 1] = Tail(w)
      /\ \A i \in 0 .. L : m[i] = n[i] /\ e[i] = d[i]
  BY <1>1, <1>2 DEF L
<1> HIDE DEF m, e
<1>6. Marked(longer, words, m, e)
  <2> SUFFICES ASSUME NEW i \in 1 .. L + 1
               PROVE  Follows(words, m[i - 1], e[i - 1], longer[i], m[i], e[i])
    BY <1>2 DEF Marked
  <2>1. CASE i = L + 1
    <3>1. i - 1 = L /\ L \in 0 .. L
      BY <1>2, <2>1
    <3> QED
      BY <1>2, <1>4, <1>5, <2>1, <3>1
  <2>2. CASE i # L + 1
    <3>1. i \in 1 .. L /\ i \in 0 .. L /\ i - 1 \in 0 .. L
      BY <1>2, <2>2
    <3>2. Follows(words, n[i - 1], d[i - 1], log[i], n[i], d[i])
      BY <3>1 DEF Marked, L
    <3> QED
      BY <1>2, <1>5, <3>1, <3>2
  <2> QED
    BY <2>1, <2>2
<1>7. Pending(words, m[Len(longer)], e[Len(longer)], Tail(w))
  BY <1>2, <1>4, <1>5 DEF Pending
<1> QED
  BY <1>2, <1>5, <1>6, <1>7 DEF Prolonged, longer, L

--------------------------------------------------------------------------
(* Reading.                                                                *)

\* A chunk that fits: it begins where the bytes so far end.
LEMMA ChunkFits ==
  ASSUME SharingTypeOK, NEW s \in Sides, NEW f \in SharingFrame, Push(s, f), s \notin failed'
  PROVE  LET bytes == buffers[s][f.id] \o f.body IN
         /\ f.kind = "chunk" /\ f.id \in Ids /\ bytes \in Seq(0 .. 255)
         /\ f.offset = Len(buffers[s][f.id])
         /\ f.offset = 0 => buffers[s][f.id] = <<>> /\ bytes = f.body
         /\ buffers' \in [Sides -> [Ids -> Seq(0 .. 255)]]
         /\ f.last => Len(bytes) = f.total /\ told' = [told EXCEPT ![s] = Append(told[s], bytes)]
         /\ ~f.last => told' = told /\ buffers'[s][f.id] = bytes
<1> DEFINE bytes == buffers[s][f.id] \o f.body
<1>1. f.kind = "chunk" /\ f.id \in Ids /\ f.body \in Seq(0 .. 255)
  BY FrameTypes DEF Push
<1>2. /\ buffers \in [Sides -> [Ids -> Seq(0 .. 255)]] /\ buffers[s] \in [Ids -> Seq(0 .. 255)]
      /\ buffers[s][f.id] \in Seq(0 .. 255)
  BY <1>1 DEF SharingTypeOK
<1>3. bytes \in Seq(0 .. 255) /\ <<>> \in Seq(0 .. 255)
  BY <1>1, <1>2, ConcatProperties
<1>4. /\ Fits(s, f, bytes)
      /\ buffers' = [buffers EXCEPT ![s][f.id] = IF f.last THEN <<>> ELSE bytes]
      /\ told' = [told EXCEPT ![s] = IF f.last THEN Append(told[s], bytes) ELSE told[s]]
  BY DEF Push
<1>5. f.offset = 0 => buffers[s][f.id] = <<>> /\ bytes = f.body
  <2>1. f.offset = 0 => buffers[s][f.id] = <<>>
    BY <1>2, <1>4, EmptySeq DEF Fits
  <2>2. buffers[s][f.id] = <<>> => bytes = f.body
    BY <1>1, ConcatEmptySeq
  <2> QED
    BY <2>1, <2>2
<1>6. f.offset = Len(buffers[s][f.id]) /\ (f.last => Len(bytes) = f.total)
  BY <1>4 DEF Fits
<1> HIDE DEF bytes
<1>7. /\ buffers' \in [Sides -> [Ids -> Seq(0 .. 255)]]
      /\ ~f.last => buffers'[s][f.id] = bytes
  BY <1>1, <1>2, <1>3, <1>4
<1>8. /\ f.last => told' = [told EXCEPT ![s] = Append(told[s], bytes)]
      /\ ~f.last => told' = told
  BY <1>4 DEF SharingTypeOK
<1> QED
  BY <1>1, <1>3, <1>5, <1>6, <1>7, <1>8 DEF bytes

\* The first chunk that fits.
LEMMA FirstChunkFits ==
  ASSUME SharingTypeOK, NEW s \in Sides, NEW f \in SharingFrame, Push(s, f), s \notin failed',
         f.offset = 0
  PROVE  /\ f.last => Len(f.body) = f.total /\ told' = [told EXCEPT ![s] = Append(told[s], f.body)]
         /\ ~f.last => told' = told /\ buffers'[s][f.id] = f.body
<1> DEFINE bytes == buffers[s][f.id] \o f.body
<1>1. bytes = f.body
  BY ChunkFits
<1>2. f.last => Len(bytes) = f.total /\ told' = [told EXCEPT ![s] = Append(told[s], bytes)]
  BY ChunkFits
<1>3. ~f.last => told' = told /\ buffers'[s][f.id] = bytes
  BY ChunkFits
<1> HIDE DEF bytes
<1> QED
  BY <1>1, <1>2, <1>3

LEMMA Frames12 ==
  /\ \A f : Head(<<f>>) = f /\ Tail(<<f>>) = <<>>
  /\ \A f, g : Head(<<f, g>>) = f /\ Tail(<<f, g>>) = <<g>>
  /\ \A S, f : <<f>> \in Seq(S) => f \in S
OBVIOUS

\* What the reader has told after frame f: nothing new, or the next sharing frame.
Told(s, words, m, e) ==
  /\ buffers' \in [Sides -> [Ids -> Seq(0 .. 255)]]
  /\ Reads(words, m, e, told'[s], buffers'[s])
  /\ \/ told' = told
     \/ /\ Len(told[s]) + 1 \in 1 .. Len(words)
        /\ told' = [told EXCEPT ![s] = Append(told[s], words[Len(told[s]) + 1])]

\* The frame that was due.
LEMMA ReadsDue ==
  ASSUME SharingTypeOK, NEW s \in Sides, NEW words \in Seq(Bodies), NEW n \in 0 .. Len(words),
         NEW f \in SharingFrame, Reads(words, n, <<f>>, told[s], buffers[s]),
         ReadKeepAlive(s, f) \/ Push(s, f), s \notin failed'
  PROVE  Told(s, words, n, <<>>)
<1>1. told \in [Sides -> Seq(Bodies)] /\ told[s] \in Seq(Bodies) /\ Len(told[s]) \in Nat
  BY LenProperties DEF SharingTypeOK
<1>2. CASE /\ Len(told[s]) = n /\ f.kind = "chunk"
           /\ f.last => f.offset = 0 /\ buffers[s][f.id] # <<>>
  <2>1. Push(s, f)
    BY <1>2 DEF ReadKeepAlive
  <2>2. ~f.last
    BY <1>2, <2>1, ChunkFits
  <2>3. told'[s] = told[s] /\ told' = told
    BY <2>1, <2>2, ChunkFits
  <2>4. buffers' \in [Sides -> [Ids -> Seq(0 .. 255)]]
    BY <2>1, ChunkFits
  <2> QED
    BY <1>2, <2>3, <2>4 DEF Told, Reads
<1>3. ASSUME NEW id \in Ids, NEW k \in 1 .. Len(words[n]),
             f = Chunk(id, Len(words[n]), k, SubSeq(words[n], k + 1, Len(words[n])), TRUE),
             n > 0, Len(told[s]) = n - 1, buffers[s][id] = SubSeq(words[n], 1, k)
      PROVE  Told(s, words, n, <<>>)
  <2>1. /\ f.kind = "chunk" /\ f.id = id /\ f.last = TRUE
        /\ f.body = SubSeq(words[n], k + 1, Len(words[n]))
    BY <1>3 DEF Chunk
  <2>2. Push(s, f)
    BY <2>1 DEF ReadKeepAlive
  <2>3. n \in 1 .. Len(words) /\ words[n] \in Bodies /\ words[n] \in Seq(0 .. 255)
    BY <1>3, SharingAssumption, ElementOfSeq, LenProperties
  <2>4. buffers[s][f.id] \o f.body = words[n]
    <3>1. SubSeq(words[n], 1, k) \o SubSeq(words[n], k + 1, Len(words[n])) = words[n]
      BY <2>3, CutBytes
    <3> QED
      BY <1>3, <2>1, <3>1
  <2>5. told' = [told EXCEPT ![s] = Append(told[s], words[n])]
    <3>1. told' = [told EXCEPT ![s] = Append(told[s], buffers[s][f.id] \o f.body)]
      BY <2>1, <2>2, ChunkFits
    <3> QED
      BY <2>4, <3>1
  <2>6. buffers' \in [Sides -> [Ids -> Seq(0 .. 255)]]
    BY <2>2, ChunkFits
  <2>7. told'[s] = Append(told[s], words[n]) /\ Len(told'[s]) = n /\ Len(told[s]) + 1 = n
    BY <1>1, <1>3, <2>3, <2>5, AppendProperties
  <2>8. Reads(words, n, <<>>, told'[s], buffers'[s])
    BY <2>7 DEF Reads
  <2> QED
    BY <2>3, <2>5, <2>6, <2>7, <2>8 DEF Told
<1>4. \/ \E g \in SharingFrame :
           /\ <<f>> = <<g>> /\ Len(told[s]) = n /\ g.kind = "chunk"
           /\ g.last => g.offset = 0 /\ buffers[s][g.id] # <<>>
      \/ \E id \in Ids : \E k \in 1 .. Len(words[n]) :
           /\ <<f>> = <<Chunk(id, Len(words[n]), k, SubSeq(words[n], k + 1, Len(words[n])), TRUE)>>
           /\ n > 0 /\ Len(told[s]) = n - 1 /\ buffers[s][id] = SubSeq(words[n], 1, k)
  BY DEF Reads
<1> QED
  BY <1>2, <1>3, <1>4

\* The first frame of a bunch.
LEMMA ReadsFirst ==
  ASSUME SharingTypeOK, NEW s \in Sides, NEW words \in Seq(Bodies), NEW n \in 0 .. Len(words),
         Len(told[s]) = n, NEW m, NEW c, Bunch(words, n, m, c),
         ReadKeepAlive(s, Head(c)) \/ Push(s, Head(c)), s \notin failed'
  PROVE  Told(s, words, m, Tail(c))
<1> DEFINE f == Head(c)
<1>a. ReadKeepAlive(s, f) \/ Push(s, f)
  OBVIOUS
<1>1. /\ told \in [Sides -> Seq(Bodies)] /\ told[s] \in Seq(Bodies)
      /\ buffers \in [Sides -> [Ids -> Seq(0 .. 255)]]
  BY DEF SharingTypeOK
<1>2. c \in Seq(SharingFrame) /\ c # <<>> /\ f \in SharingFrame /\ Tail(c) \in Seq(SharingFrame)
  BY BunchTypes, SomeFrames
<1>0. f = Head(c)
  OBVIOUS
<1> HIDE DEF f
<1>3. ASSUME NEW ack \in BOOLEAN, c = <<KeepAlive(ack)>>, m = n PROVE Told(s, words, m, Tail(c))
  <2>1. f.kind = "keepAlive" /\ Tail(c) = <<>>
    BY <1>0, <1>3, FrameTypes, Frames12
  <2>2. told' = told /\ buffers' = buffers
    BY <1>a, <2>1 DEF ReadKeepAlive, Push
  <2> QED
    BY <1>1, <1>3, <2>1, <2>2 DEF Told, Reads
<1>4. ASSUME NEW id \in Ids, NEW b \in Bodies, c \in WrongChunks(id, b), m = n
      PROVE  Told(s, words, m, Tail(c))
  <2>1. b \in Seq(0 .. 255) /\ b # <<>> /\ Len(b) \in Nat /\ Len(b) # Len(b) + 1
    BY SharingAssumption, LenProperties
  <2>2. CASE c = <<Chunk(id, Len(b) + 1, 0, b, TRUE)>>
    <3>1. f = Chunk(id, Len(b) + 1, 0, b, TRUE)
      BY <1>0, <2>2, Frames12
    <3>2. f.kind = "chunk" /\ f.total = Len(b) + 1 /\ f.offset = 0 /\ f.body = b /\ f.last = TRUE
      BY <3>1 DEF Chunk
    <3>3. Push(s, f)
      BY <1>a, <3>2 DEF ReadKeepAlive
    <3>4. Len(b) = Len(b) + 1
      BY <1>2, <3>2, <3>3, FirstChunkFits
    <3> QED
      BY <2>1, <3>4
  <2>3. ASSUME NEW g, Tail(c) = <<g>>, f.kind = "chunk", f.last = FALSE,
               g.kind = "chunk", g.last => g.offset = 0 /\ g.id = f.id /\ f.offset = 0 /\ f.body = b
        PROVE  Told(s, words, m, Tail(c))
    <3>1. Push(s, f)
      BY <1>a, <2>3 DEF ReadKeepAlive
    <3>3. told' = told /\ told'[s] = told[s]
      BY <1>2, <2>3, <3>1, ChunkFits
    <3>4. buffers' \in [Sides -> [Ids -> Seq(0 .. 255)]]
      BY <1>2, <3>1, ChunkFits
    <3>5. f.offset = 0 /\ f.body = b => buffers'[s][f.id] = b
      BY <1>2, <2>3, <3>1, FirstChunkFits
    <3>6. g.last => g.offset = 0 /\ buffers'[s][g.id] # <<>>
      BY <2>1, <2>3, <3>5
    <3>7. g \in SharingFrame
      BY <1>2, <2>3, Frames12
    <3> QED
      BY <1>4, <2>3, <3>3, <3>4, <3>6, <3>7 DEF Told, Reads
  <2>4. CASE c = <<Chunk(id, Len(b) - 1, 0, SubSeq(b, 1, 1), FALSE),
                   Chunk(id, Len(b) - 1, 1, SubSeq(b, 2, Len(b)), FALSE)>>
    <3>1. /\ f = Chunk(id, Len(b) - 1, 0, SubSeq(b, 1, 1), FALSE)
          /\ Tail(c) = <<Chunk(id, Len(b) - 1, 1, SubSeq(b, 2, Len(b)), FALSE)>>
      BY <1>0, <2>4, Frames12
    <3>2. /\ f.kind = "chunk" /\ f.last = FALSE
          /\ Chunk(id, Len(b) - 1, 1, SubSeq(b, 2, Len(b)), FALSE).kind = "chunk"
          /\ Chunk(id, Len(b) - 1, 1, SubSeq(b, 2, Len(b)), FALSE).last = FALSE
      BY <3>1 DEF Chunk
    <3> QED
      BY <2>3, <3>1, <3>2
  <2>5. CASE c = <<Chunk(id, Len(b), 0, b, FALSE), Chunk(id, Len(b), 0, <<>>, TRUE)>>
    <3>1. /\ f = Chunk(id, Len(b), 0, b, FALSE)
          /\ Tail(c) = <<Chunk(id, Len(b), 0, <<>>, TRUE)>>
      BY <1>0, <2>5, Frames12
    <3> QED
      BY <2>3, <3>1 DEF Chunk
  <2> QED
    BY <1>4, <2>2, <2>4, <2>5 DEF WrongChunks
<1>5. ASSUME m = n + 1, m <= Len(words), NEW id \in Ids,
             c \in {HiRodropChunks(id, words[m])} \cup StockChunks(id, words[m])
      PROVE  Told(s, words, m, Tail(c))
  <2> DEFINE b == words[m]
  <2>1. /\ m \in 1 .. Len(words) /\ b \in Bodies /\ b \in Seq(0 .. 255)
        /\ Len(told[s]) + 1 = m /\ Len(told[s]) = m - 1 /\ m > 0
    BY <1>5, SharingAssumption, ElementOfSeq, LenProperties
  <2> HIDE DEF b
  <2>2. CASE c = <<Chunk(id, Len(b), 0, b, TRUE)>>
    <3>1. f = Chunk(id, Len(b), 0, b, TRUE) /\ Tail(c) = <<>>
      BY <1>0, <2>2, Frames12
    <3>2. f.kind = "chunk" /\ f.offset = 0 /\ f.body = b /\ f.last = TRUE
      BY <3>1 DEF Chunk
    <3>3. Push(s, f)
      BY <1>a, <3>2 DEF ReadKeepAlive
    <3>4. /\ told' = [told EXCEPT ![s] = Append(told[s], b)]
          /\ buffers' \in [Sides -> [Ids -> Seq(0 .. 255)]]
      BY <1>2, <3>2, <3>3, ChunkFits, FirstChunkFits
    <3>5. Len(told'[s]) = m
      BY <1>1, <2>1, <3>4, AppendProperties
    <3> QED
      BY <2>1, <3>1, <3>4, <3>5 DEF Told, Reads, b
  <2>3. ASSUME NEW k \in 1 .. Len(b),
               c = <<Chunk(id, Len(b), 0, SubSeq(b, 1, k), FALSE),
                     Chunk(id, Len(b), k, SubSeq(b, k + 1, Len(b)), TRUE)>>
        PROVE  Told(s, words, m, Tail(c))
    <3>1. /\ f = Chunk(id, Len(b), 0, SubSeq(b, 1, k), FALSE)
          /\ Tail(c) = <<Chunk(id, Len(b), k, SubSeq(b, k + 1, Len(b)), TRUE)>>
      BY <1>0, <2>3, Frames12
    <3>2. /\ f.kind = "chunk" /\ f.id = id /\ f.offset = 0 /\ f.body = SubSeq(b, 1, k)
          /\ f.last = FALSE
      BY <3>1 DEF Chunk
    <3>3. Push(s, f)
      BY <1>a, <3>2 DEF ReadKeepAlive
    <3>4. /\ told' = told
          /\ buffers' \in [Sides -> [Ids -> Seq(0 .. 255)]]
          /\ buffers'[s][id] = SubSeq(b, 1, k)
      BY <1>2, <3>2, <3>3, ChunkFits, FirstChunkFits
    <3>5. told' = told /\ told'[s] = told[s]
      BY <3>4
    <3> QED
      BY <2>1, <2>3, <3>1, <3>4, <3>5 DEF Told, Reads, b
  <2> QED
    BY <1>5, <2>1, <2>2, <2>3, GoodChunks DEF b
<1> QED
  BY <1>3, <1>4, <1>5 DEF Bunch

\* The next frame of the log, whichever it is.
LEMMA ReadsNext ==
  ASSUME SharingTypeOK, NEW s \in Sides, NEW words \in Seq(Bodies), NEW n \in 0 .. Len(words),
         NEW d, NEW f, NEW m, NEW e, Follows(words, n, d, f, m, e),
         Reads(words, n, d, told[s], buffers[s]),
         ReadKeepAlive(s, f) \/ Push(s, f), s \notin failed'
  PROVE  Told(s, words, m, e)
<1>1. CASE d = <<f>> /\ f \in SharingFrame /\ m = n /\ e = <<>>
  BY <1>1, ReadsDue
<1>2. CASE /\ d = <<>>
           /\ \E c \in Seq(SharingFrame) \ {<<>>} :
                Bunch(words, n, m, c) /\ f = Head(c) /\ e = Tail(c)
  <2>1. Len(told[s]) = n
    BY <1>2 DEF Reads
  <2> QED
    BY <1>2, <2>1, ReadsFirst
<1> QED
  BY <1>1, <1>2 DEF Follows

--------------------------------------------------------------------------
(* The steps.                                                              *)

\* A side that has nothing left to write owes nothing.
LEMMA NothingPending ==
  ASSUME NEW words \in Seq(Bodies), NEW n \in 0 .. Len(words), NEW d, Pending(words, n, d, <<>>)
  PROVE  d = <<>> /\ n = Len(words)
<1>1. ~Bunch(words, n, Len(words), <<>>)
  BY BunchTypes
<1> QED
  BY <1>1 DEF Pending

\* The stream that s reads, when the other side writes nothing and s reads nothing.
LEMMA StreamKept ==
  ASSUME NEW s \in Sides, Stream(s),
         sent'[Other(s)] = sent[Other(s)], said'[Other(s)] = said[Other(s)], got'[s] = got[s],
         told'[s] = told[s], buffers'[s] = buffers[s], s \notin failed' => s \notin failed,
         \/ place'[Other(s)] = "closed"
         \/ /\ place[Other(s)] # "closed"
            /\ \A n \in 0 .. Len(said[Other(s)]) : \A d :
                 Pending(said[Other(s)], n, d, writing[Other(s)])
                   => Pending(said[Other(s)], n, d, writing'[Other(s)])
  PROVE  Stream(s)'
<1> DEFINE o == Other(s)
           L == Len(sent[o])
<1>1. PICK n \in [0 .. L -> 0 .. Len(said[o])] :
        \E d \in [0 .. L -> Seq(SharingFrame)] : Along(s, sent[o], said[o], writing[o], n, d)
  BY DEF Stream
<1>2. PICK d \in [0 .. L -> Seq(SharingFrame)] : Along(s, sent[o], said[o], writing[o], n, d)
  BY <1>1
<1>3. L \in 0 .. L => n[L] \in 0 .. Len(said[o])
  OBVIOUS
<1>4. L \in 0 .. L
  BY <1>2 DEF Along
<1>5. place'[o] = "closed" \/ Pending(said[o], n[L], d[L], writing'[o])
  BY <1>2, <1>3, <1>4 DEF Along
<1>6. Along(s, sent[o], said[o], writing[o], n, d)'
  BY <1>2, <1>5 DEF Along
<1> QED
  BY <1>6 DEF Stream

\* The side that is read says the next sharing frame.
LEMMA StreamSaid ==
  ASSUME SharingTypeOK, Inv, NEW s \in Sides, Stream(s), Say(Other(s))
  PROVE  Stream(s)'
<1> DEFINE o == Other(s)
           L == Len(sent[o])
           words == said[o]
<1>1. /\ o \in Sides /\ o # s /\ words \in Seq(Bodies) /\ said \in [Sides -> Seq(Bodies)]
      /\ writing \in [Sides -> Seq(SharingFrame)] /\ sent[o] \in Seq(Frames) /\ L \in Nat
      /\ Len(words) \in Nat
  BY TwoSides, LenProperties DEF SharingTypeOK, Inv, TypeOK
<1>2. PICK b \in Bodies : \E id \in Ids :
        /\ \E c \in {HiRodropChunks(id, b)} \cup (IF o \in Stock THEN StockChunks(id, b) ELSE {}) :
             writing' = [writing EXCEPT ![o] = c]
        /\ said' = [said EXCEPT ![o] = Append(@, b)]
  BY DEF Say
<1>3. PICK id \in Ids :
        /\ \E c \in {HiRodropChunks(id, b)} \cup (IF o \in Stock THEN StockChunks(id, b) ELSE {}) :
             writing' = [writing EXCEPT ![o] = c]
        /\ said' = [said EXCEPT ![o] = Append(@, b)]
  BY <1>2
<1>4. PICK c \in {HiRodropChunks(id, b)} \cup StockChunks(id, b) :
        writing' = [writing EXCEPT ![o] = c]
  BY <1>3
<1> DEFINE more == Append(words, b)
<1>5. said'[o] = more /\ writing'[o] = c /\ more \in Seq(Bodies) /\ Len(more) = Len(words) + 1
      /\ more[Len(words) + 1] = b
  BY <1>1, <1>3, <1>4, MoreWords
<1>6. /\ UNCHANGED <<vars, buffers, failed, told>> /\ place[o] = "open" /\ writing[o] = <<>>
      /\ sent' = sent /\ got' = got /\ place' = place
  BY DEF Say, Idle, vars, handshake, channel
<1>7. PICK n \in [0 .. L -> 0 .. Len(words)] :
        \E d \in [0 .. L -> Seq(SharingFrame)] : Along(s, sent[o], words, writing[o], n, d)
  BY DEF Stream
<1>8. PICK d \in [0 .. L -> Seq(SharingFrame)] : Along(s, sent[o], words, writing[o], n, d)
  BY <1>7
<1> HIDE DEF words, more, L
<1>9. \A i \in 0 .. L : n[i] \in 0 .. Len(words)
  BY <1>7
<1>10. n \in [0 .. L -> 0 .. Len(more)]
  BY <1>1, <1>5, <1>7
<1>11. d[L] = <<>> /\ n[L] = Len(words)
  <2>1. Pending(words, n[L], d[L], <<>>)
    BY <1>6, <1>8 DEF Along, L
  <2>2. n[L] \in 0 .. Len(words)
    <3>1. L \in 0 .. L
      BY <1>1
    <3> QED
      BY <1>9, <3>1
  <2> QED
    BY <1>1, <2>1, <2>2, NothingPending
<1>12. Pending(more, n[L], d[L], c)
  <2>1. Bunch(more, n[L], Len(more), c)
    BY <1>4, <1>5, <1>11 DEF Bunch
  <2> QED
    BY <1>11, <2>1 DEF Pending
<1>13. Marked(sent[o], more, n, d)
  <2> SUFFICES ASSUME NEW i \in 1 .. Len(sent[o])
               PROVE  Follows(more, n[i - 1], d[i - 1], sent[o][i], n[i], d[i])
    BY DEF Marked
  <2>1. Follows(words, n[i - 1], d[i - 1], sent[o][i], n[i], d[i])
    BY <1>8 DEF Along, Marked
  <2>2. n[i - 1] \in 0 .. Len(words)
    <3>1. i - 1 \in 0 .. L
      BY <1>1 DEF L
    <3> QED
      BY <1>9, <3>1
  <2> QED
    BY <1>1, <2>1, <2>2, MoreWords DEF more
<1>14. s \notin failed => Reads(more, n[Len(got[s])], d[Len(got[s])], told[s], buffers[s])
  <2>1. n[Len(got[s])] \in 0 .. Len(words)
    BY <1>8, <1>9 DEF Along, L
  <2> QED
    BY <1>1, <1>8, <2>1, MoreWords DEF Along, more
<1>15. Along(s, sent[o], said[o], writing[o], n, d)'
  BY <1>5, <1>6, <1>8, <1>12, <1>13, <1>14 DEF Along, L
<1>16. n \in [0 .. Len(sent'[o]) -> 0 .. Len(said'[o])] /\ d \in [0 .. Len(sent'[o]) -> Seq(SharingFrame)]
  BY <1>5, <1>6, <1>8, <1>10 DEF L
<1> QED
  BY <1>15, <1>16 DEF Stream

\* The side that is read writes the next frame.
LEMMA StreamWritten ==
  ASSUME SharingTypeOK, Inv, NEW s \in Sides, Stream(s),
         writing[Other(s)] # <<>>, Encrypt(Other(s), Head(writing[Other(s)])),
         writing' = [writing EXCEPT ![Other(s)] = Tail(@)],
         UNCHANGED <<buffers, failed, said, told>>
  PROVE  Stream(s)'
<1> DEFINE o == Other(s)
           log == sent[o]
           L == Len(log)
           words == said[o]
           w == writing[o]
           longer == Append(log, Head(w))
<1>1. /\ o \in Sides /\ o # s /\ words \in Seq(Bodies) /\ w \in Seq(SharingFrame) /\ w # <<>>
      /\ writing \in [Sides -> Seq(SharingFrame)] /\ log \in Seq(Frames) /\ L \in Nat
      /\ sent \in [Sides -> Seq(Frames)]
  BY TwoSides, LenProperties DEF SharingTypeOK, Inv, TypeOK
<1>2. /\ place[o] = "open" /\ place' = place /\ got' = got
      /\ sent' = [sent EXCEPT ![o] = longer]
  BY DEF Encrypt, handshake
<1>3. sent'[o] = longer /\ writing'[o] = Tail(w) /\ said' = said
  BY <1>1, <1>2
<1>4. PICK n \in [0 .. L -> 0 .. Len(words)] :
        \E d \in [0 .. L -> Seq(SharingFrame)] : Along(s, log, words, w, n, d)
  BY DEF Stream
<1>5. PICK d \in [0 .. L -> Seq(SharingFrame)] : Along(s, log, words, w, n, d)
  BY <1>4
<1>6. Marked(log, words, n, d) /\ Pending(words, n[L], d[L], w) /\ Len(got[s]) \in 0 .. L
  BY <1>2, <1>5 DEF Along
<1>7. Len(longer) = L + 1
  <2>1. Head(w) \in Frames
    BY <1>1, SomeFrames, SharingAssumption
  <2> QED
    BY <1>1, <2>1, AppendProperties
<1> HIDE DEF longer, log, words, w
<1>13. Prolonged(log, longer, words, n, d, Tail(w))
  BY <1>1, <1>6, LongerStream DEF longer
<1>8. PICK m \in [0 .. Len(longer) -> 0 .. Len(words)] :
        \E e \in [0 .. Len(longer) -> Seq(SharingFrame)] :
             /\ \A i \in 0 .. L : m[i] = n[i] /\ e[i] = d[i]
             /\ Marked(longer, words, m, e)
             /\ Pending(words, m[Len(longer)], e[Len(longer)], Tail(w))
  BY <1>13 DEF Prolonged
<1>9. PICK e \in [0 .. Len(longer) -> Seq(SharingFrame)] :
             /\ \A i \in 0 .. L : m[i] = n[i] /\ e[i] = d[i]
             /\ Marked(longer, words, m, e)
             /\ Pending(words, m[Len(longer)], e[Len(longer)], Tail(w))
  BY <1>8
<1>10. s \notin failed => Reads(words, m[Len(got[s])], e[Len(got[s])], told[s], buffers[s])
  BY <1>5, <1>6, <1>9 DEF Along
<1>11. Len(got[s]) \in 0 .. Len(longer)
  BY <1>1, <1>6, <1>7
<1>12. Along(s, sent[o], said[o], writing[o], m, e)'
  BY <1>2, <1>3, <1>9, <1>10, <1>11 DEF Along, words
<1> QED
  BY <1>3, <1>12 DEF Stream, words

\* What a side decodes is a frame of the protocol.
LEMMA DecodedType ==
  ASSUME Inv, NEW s \in Sides, NEW f, Decrypt(s, f)
  PROVE  f \in Frames
<1>1. net[s] \in Seq(Messages) /\ net[s] # <<>> /\ f = Head(net[s]).frame
      /\ Head(net[s]).type = "SecureMessage"
  BY DEF Inv, TypeOK, Decrypt, Genuine
<1>2. Head(net[s]) \in Messages
  BY <1>1, HeadTailProperties
<1> QED
  BY <1>1, <1>2 DEF Messages, Plain, Junk

\* The reader reads the next frame of the log.
LEMMA StreamRead ==
  ASSUME SharingTypeOK, Inv, NEW s \in Sides, Stream(s), Read(s)
  PROVE  /\ Stream(s)' /\ buffers' \in [Sides -> [Ids -> Seq(0 .. 255)]]
         /\ \/ told' = told
            \/ /\ Len(told[s]) + 1 \in 1 .. Len(said[Other(s)])
               /\ told' = [told EXCEPT ![s] = Append(told[s], said[Other(s)][Len(told[s]) + 1])]
<1> DEFINE o == Other(s)
           log == sent[o]
           words == said[o]
           p == Len(got[s])
           f == Head(net[s]).frame
<1>1. /\ o \in Sides /\ o # s /\ words \in Seq(Bodies) /\ log \in Seq(Frames)
      /\ writing \in [Sides -> Seq(SharingFrame)] /\ got \in [Sides -> Seq(Frames)]
      /\ got[s] \in Seq(Frames) /\ p \in Nat /\ Len(log) \in Nat
      /\ buffers \in [Sides -> [Ids -> Seq(0 .. 255)]]
  BY TwoSides, LenProperties DEF SharingTypeOK, Inv, TypeOK
<1>2. /\ s \notin failed /\ Decrypt(s, f) /\ (ReadKeepAlive(s, f) \/ Push(s, f))
      /\ place' = place /\ sent' = sent /\ got' = [got EXCEPT ![s] = Append(@, f)]
  BY DEF Read, Idle, Decrypt, handshake
<1>3. f \in Frames
  BY <1>2, DecodedType
<1>4. p + 1 \in 1 .. Len(log) /\ f = log[p + 1]
  BY <1>2, <1>3, DecodedFrame
<1>5. got'[s] = Append(got[s], f) /\ Len(got'[s]) = p + 1
  BY <1>1, <1>2, <1>3, AppendProperties
<1>6. said' = said /\ writing'[o] = writing[o]
  BY <1>1, <1>2 DEF ReadKeepAlive, Push
<1>7. PICK n \in [0 .. Len(log) -> 0 .. Len(words)] :
        \E d \in [0 .. Len(log) -> Seq(SharingFrame)] : Along(s, log, words, writing[o], n, d)
  BY DEF Stream
<1>8. PICK d \in [0 .. Len(log) -> Seq(SharingFrame)] : Along(s, log, words, writing[o], n, d)
  BY <1>7
<1> HIDE DEF f, p, log, words, o
<1>9. /\ p \in 0 .. Len(log) /\ p + 1 \in 0 .. Len(log) /\ p + 1 - 1 = p
      /\ n[p] \in 0 .. Len(words)
  <2>1. p \in 0 .. Len(log) /\ p + 1 \in 0 .. Len(log) /\ p + 1 - 1 = p
    BY <1>1, <1>4
  <2> QED
    BY <1>7, <2>1
<1>10. Follows(words, n[p], d[p], f, n[p + 1], d[p + 1])
  <2> DEFINE i == p + 1
  <2>1. \A j \in 1 .. Len(log) : Follows(words, n[j - 1], d[j - 1], log[j], n[j], d[j])
    BY <1>8 DEF Along, Marked
  <2>2. i \in 1 .. Len(log) /\ i - 1 = p /\ f = log[i]
    BY <1>4, <1>9
  <2> HIDE DEF i
  <2>3. Follows(words, n[p], d[p], f, n[i], d[i])
    BY <2>1, <2>2
  <2> QED
    BY <2>3 DEF i
<1>11. Reads(words, n[p], d[p], told[s], buffers[s])
  BY <1>2, <1>8 DEF Along, p
<1>12. s \notin failed' => Told(s, words, n[p + 1], d[p + 1])
  BY <1>1, <1>2, <1>9, <1>10, <1>11, ReadsNext
<1>13. s \in failed' => told' = told /\ buffers' = buffers
  BY <1>2 DEF ReadKeepAlive, Push
<1>14. /\ buffers' \in [Sides -> [Ids -> Seq(0 .. 255)]]
       /\ s \notin failed' => Reads(words, n[p + 1], d[p + 1], told'[s], buffers'[s])
       /\ \/ told' = told
          \/ /\ Len(told[s]) + 1 \in 1 .. Len(words)
             /\ told' = [told EXCEPT ![s] = Append(told[s], words[Len(told[s]) + 1])]
  BY <1>1, <1>12, <1>13 DEF Told
<1>15. Along(s, sent[Other(s)], said[Other(s)], writing[Other(s)], n, d)'
  BY <1>2, <1>5, <1>6, <1>8, <1>9, <1>14 DEF Along, o, log, words
<1>16. Stream(s)'
  BY <1>2, <1>6, <1>15 DEF Stream, o, log, words
<1> QED
  BY <1>14, <1>16 DEF o, words

--------------------------------------------------------------------------
(* Every step is one of the channel's, or leaves the channel alone.         *)

LEMMA ChannelStep ==
  SharingTypeOK /\ Inv /\ [SharingNext]_sharingVars => [Next]_vars
<1> SUFFICES ASSUME SharingTypeOK, Inv, [SharingNext]_sharingVars
             PROVE  Next \/ UNCHANGED vars
  OBVIOUS
<1>1. ASSUME NEW s \in Sides, Write(s) PROVE Next
  <2>1. Head(writing[s]) \in Frames
    <3>1. writing[s] \in Seq(SharingFrame) /\ writing[s] # <<>>
      BY <1>1 DEF Write, SharingTypeOK
    <3> QED
      BY <3>1, SomeFrames, SharingAssumption
  <2> QED
    BY <1>1, <2>1 DEF Write, Next
<1>2. ASSUME NEW s \in Sides, Read(s) PROVE Next
  <2>1. Decrypt(s, Head(net[s]).frame)
    BY <1>2 DEF Read
  <2> QED
    BY <2>1, DecodedType DEF Next
<1>3. ASSUME NEW s \in Sides, Say(s) \/ Beat(s) \/ Blunder(s) PROVE UNCHANGED vars
  BY <1>3 DEF Say, Beat, Blunder
<1> QED
  BY <1>1, <1>2, <1>3 DEF SharingNext, sharingVars, Next

LEMMA HandshakeGoes ==
  ASSUME Inv, Handshake
  PROVE  /\ UNCHANGED channel
         /\ \A s \in Sides : place[s] = "closed" => place'[s] = "closed"
<1>1. place \in [Sides -> Places]
  BY DEF Inv, TypeOK
<1> QED
  BY <1>1 DEF Handshake, Begin, ReadRequest, AcceptClientInit, CompleteInitiator,
              CompleteResponder, ConfirmServer, ConfirmClient, Exchange, Go

LEMMA SharingStep ==
  ASSUME SharingInv, SharingNext
  PROVE  SharingTypeOK' /\ StreamOK'
<1>1. /\ Inv /\ SharingTypeOK /\ StreamOK
      /\ writing \in [Sides -> Seq(SharingFrame)] /\ said \in [Sides -> Seq(Bodies)]
      /\ told \in [Sides -> Seq(Bodies)] /\ failed \in SUBSET Sides
      /\ buffers \in [Sides -> [Ids -> Seq(0 .. 255)]]
      /\ place \in [Sides -> Places] /\ sent \in [Sides -> Seq(Frames)]
      /\ got \in [Sides -> Seq(Frames)]
  BY DEF SharingInv, SharingTypeOK, Inv, TypeOK
<1>2. \A s \in Sides : Stream(s)
  BY <1>1 DEF StreamOK
<1>3. ASSUME UNCHANGED sharing, UNCHANGED <<sent, got>>,
             \A s \in Sides : place[s] = "closed" => place'[s] = "closed"
      PROVE  SharingTypeOK' /\ StreamOK'
  <2>1. SharingTypeOK'
    BY <1>1, <1>3 DEF SharingTypeOK, sharing
  <2>2. ASSUME NEW s \in Sides PROVE Stream(s)'
    <3>1. Other(s) \in Sides
      BY TwoSides
    <3> QED
      BY <1>2, <1>3, <3>1, StreamKept DEF sharing
  <2> QED
    BY <2>1, <2>2 DEF StreamOK
<1>4. CASE Handshake /\ UNCHANGED sharing
  BY <1>1, <1>3, <1>4, HandshakeGoes DEF channel
<1>5. ASSUME NEW a \in Sides, Leave(a) \/ Disturb(a), UNCHANGED sharing
      PROVE  SharingTypeOK' /\ StreamOK'
  <2>1. \A s \in Sides : place[s] = "closed" => place'[s] = "closed"
    BY <1>1, <1>5 DEF Leave, Go, Disturb, handshake
  <2>2. UNCHANGED <<sent, got>>
    BY <1>5 DEF Leave, Disturb, channel
  <2> QED
    BY <1>3, <1>5, <2>1, <2>2
<1>6. ASSUME NEW a \in Sides, Say(a) PROVE SharingTypeOK' /\ StreamOK'
  <2>1. /\ UNCHANGED <<vars, buffers, failed, told>>
        /\ place[a] = "open" /\ place' = place /\ sent' = sent /\ got' = got
    BY <1>6 DEF Say, Idle, vars, handshake, channel
  <2>2. PICK b \in Bodies : \E id \in Ids :
          /\ \E c \in {HiRodropChunks(id, b)} \cup (IF a \in Stock THEN StockChunks(id, b) ELSE {}) :
               writing' = [writing EXCEPT ![a] = c]
          /\ said' = [said EXCEPT ![a] = Append(@, b)]
    BY <1>6 DEF Say
  <2>3. PICK id \in Ids :
          /\ \E c \in {HiRodropChunks(id, b)} \cup StockChunks(id, b) :
               writing' = [writing EXCEPT ![a] = c]
          /\ said' = [said EXCEPT ![a] = Append(@, b)]
    BY <2>2
  <2>4. PICK c \in {HiRodropChunks(id, b)} \cup StockChunks(id, b) :
          writing' = [writing EXCEPT ![a] = c]
    BY <2>3
  <2>5. c \in Seq(SharingFrame)
    BY Chunks
  <2>6. SharingTypeOK'
    BY <1>1, <2>1, <2>3, <2>4, <2>5, AppendProperties DEF SharingTypeOK
  <2>7. ASSUME NEW s \in Sides PROVE Stream(s)'
    <3>1. CASE a = Other(s)
      BY <1>1, <1>2, <1>6, <3>1, StreamSaid
    <3>2. CASE a # Other(s)
      <4>1. Other(s) \in Sides /\ said'[Other(s)] = said[Other(s)]
            /\ writing'[Other(s)] = writing[Other(s)]
        BY <1>1, <2>3, <2>4, <3>2, TwoSides
      <4> QED
        BY <1>2, <2>1, <4>1, StreamKept
    <3> QED
      BY <3>1, <3>2
  <2> QED
    BY <2>6, <2>7 DEF StreamOK
<1>7. ASSUME NEW a \in Sides, Idle(a), NEW c \in Seq(SharingFrame),
             \A words : \A n : n = Len(words) => Bunch(words, n, n, c) \/ c = <<>>,
             writing' = [writing EXCEPT ![a] = c], UNCHANGED <<said>>,
             place' = place, sent' = sent, NEW s \in Sides, s # a, got'[s] = got[s],
             told'[s] = told[s], buffers'[s] = buffers[s], s \notin failed' => s \notin failed
      PROVE  Stream(s)'
  <2>1. Other(s) = a /\ place[a] # "closed" /\ writing[a] = <<>> /\ writing'[a] = c
    BY <1>1, <1>7 DEF Idle, Sides, Other
  <2>2. ASSUME NEW n \in 0 .. Len(said[a]), NEW d, Pending(said[a], n, d, <<>>)
        PROVE  Pending(said[a], n, d, c)
    <3>1. d = <<>> /\ n = Len(said[a])
      BY <1>1, <2>2, NothingPending
    <3>2. Bunch(said[a], n, Len(said[a]), c) \/ c = <<>>
      BY <1>7, <3>1
    <3> QED
      BY <3>1, <3>2 DEF Pending
  <2> QED
    BY <1>2, <1>7, <2>1, <2>2, StreamKept
<1>8. ASSUME NEW a \in Sides, Beat(a) \/ Blunder(a) PROVE SharingTypeOK' /\ StreamOK'
  <2>1. /\ UNCHANGED <<vars, buffers, failed, told, said>> /\ Idle(a)
        /\ place' = place /\ sent' = sent /\ got' = got
    BY <1>8 DEF Beat, Blunder, vars, handshake, channel
  <2>2. PICK c : /\ writing' = [writing EXCEPT ![a] = c]
                 /\ \/ c = <<KeepAlive(FALSE)>>
                    \/ \E id \in Ids, b \in Bodies : c \in WrongChunks(id, b)
    BY <1>8 DEF Beat, Blunder
  <2>3. c \in Seq(SharingFrame)
    <3>1. CASE c = <<KeepAlive(FALSE)>>
      BY <3>1, OneKeepAlive
    <3>2. CASE \E id \in Ids, b \in Bodies : c \in WrongChunks(id, b)
      BY <3>2, Chunks
    <3> QED
      BY <2>2, <3>1, <3>2
  <2>4. \A words : \A n : Bunch(words, n, n, c)
    BY <2>2 DEF Bunch
  <2>5. SharingTypeOK'
    BY <1>1, <2>1, <2>2, <2>3 DEF SharingTypeOK
  <2>6. ASSUME NEW s \in Sides PROVE Stream(s)'
    <3>1. CASE s # a
      BY <1>7, <2>1, <2>2, <2>3, <2>4, <3>1
    <3>2. CASE s = a
      <4>1. Other(s) \in Sides /\ writing'[Other(s)] = writing[Other(s)]
        BY <1>1, <2>2, <3>2, TwoSides
      <4> QED
        BY <1>2, <2>1, <4>1, StreamKept
    <3> QED
      BY <3>1, <3>2
  <2> QED
    BY <2>5, <2>6 DEF StreamOK
<1>9. ASSUME NEW a \in Sides, Write(a) PROVE SharingTypeOK' /\ StreamOK'
  <2>1. /\ UNCHANGED <<buffers, failed, said, told>> /\ writing[a] # <<>>
        /\ writing[a] \in Seq(SharingFrame)
    BY <1>1, <1>9 DEF Write
  <2>2. CASE /\ Encrypt(a, Head(writing[a]))
             /\ writing' = [writing EXCEPT ![a] = Tail(@)]
    <3>1. /\ place' = place /\ got' = got /\ \A t \in Sides : t # a => sent'[t] = sent[t]
      BY <1>1, <2>2 DEF Encrypt, handshake
    <3>2. Tail(writing[a]) \in Seq(SharingFrame)
      BY <2>1, SomeFrames
    <3>3. SharingTypeOK'
      BY <1>1, <2>1, <2>2, <3>2 DEF SharingTypeOK
    <3>4. ASSUME NEW s \in Sides PROVE Stream(s)'
      <4>1. CASE a = Other(s)
        BY <1>1, <1>2, <2>1, <2>2, <4>1, StreamWritten
      <4>2. CASE a # Other(s)
        <5>1. Other(s) \in Sides /\ sent'[Other(s)] = sent[Other(s)]
              /\ writing'[Other(s)] = writing[Other(s)]
          BY <1>1, <2>2, <3>1, <4>2, TwoSides
        <5> QED
          BY <1>2, <2>1, <3>1, <5>1, StreamKept
      <4> QED
        BY <4>1, <4>2
    <3> QED
      BY <3>3, <3>4 DEF StreamOK
  <2>3. CASE /\ EncryptFails(a, Head(writing[a]))
             /\ writing' = [writing EXCEPT ![a] = <<>>]
    <3>1. /\ sent' = sent /\ got' = got /\ place' = [place EXCEPT ![a] = "closed"]
      BY <2>3 DEF EncryptFails, Go
    <3>2. <<>> \in Seq(SharingFrame)
      OBVIOUS
    <3>3. SharingTypeOK'
      BY <1>1, <2>1, <2>3, <3>2 DEF SharingTypeOK
    <3>4. ASSUME NEW s \in Sides PROVE Stream(s)'
      <4>1. CASE a = Other(s)
        <5>1. place'[Other(s)] = "closed"
          BY <1>1, <3>1, <4>1
        <5> QED
          BY <1>2, <2>1, <3>1, <5>1, StreamKept
      <4>2. CASE a # Other(s)
        <5>1. Other(s) \in Sides /\ place'[Other(s)] = place[Other(s)]
              /\ writing'[Other(s)] = writing[Other(s)]
          BY <1>1, <2>3, <3>1, <4>2, TwoSides
        <5> QED
          BY <1>2, <2>1, <3>1, <5>1, StreamKept
      <4> QED
        BY <4>1, <4>2
    <3> QED
      BY <3>3, <3>4 DEF StreamOK
  <2> QED
    BY <1>9, <2>2, <2>3 DEF Write
<1>10. ASSUME NEW a \in Sides, Read(a) PROVE SharingTypeOK' /\ StreamOK'
  <2> DEFINE f == Head(net[a]).frame
  <2>1. /\ Idle(a) /\ UNCHANGED said /\ place' = place /\ sent' = sent
        /\ got' = [got EXCEPT ![a] = Append(@, f)]
        /\ ReadKeepAlive(a, f) \/ Push(a, f)
    BY <1>10 DEF Read, Decrypt, handshake, ReadKeepAlive, Push
  <2> HIDE DEF f
  <2>2. PICK c \in {<<>>, <<KeepAlive(TRUE)>>} : writing' = [writing EXCEPT ![a] = c]
    <3>1. CASE ReadKeepAlive(a, f)
      BY <3>1 DEF ReadKeepAlive
    <3>2. CASE Push(a, f)
      <4>1. writing' = [writing EXCEPT ![a] = <<>>]
        BY <1>1, <2>1, <3>2 DEF Push, Idle
      <4> QED
        BY <4>1
    <3> QED
      BY <2>1, <3>1, <3>2
  <2>3. c \in Seq(SharingFrame)
    <3>1. <<>> \in Seq(SharingFrame)
      OBVIOUS
    <3> QED
      BY <2>2, <3>1, OneKeepAlive
  <2>4. \A words : \A n : Bunch(words, n, n, c) \/ c = <<>>
    BY <2>2 DEF Bunch
  <2>5. failed' \in SUBSET Sides /\ failed \subseteq failed'
    BY <1>1, <2>1 DEF ReadKeepAlive, Push
  <2>6. \A s \in Sides : s # a => /\ told'[s] = told[s] /\ buffers'[s] = buffers[s]
                                  /\ got'[s] = got[s]
    BY <1>1, <2>1 DEF ReadKeepAlive, Push
  <2>7. /\ Stream(a)' /\ buffers' \in [Sides -> [Ids -> Seq(0 .. 255)]]
        /\ \/ told' = told
           \/ /\ Len(told[a]) + 1 \in 1 .. Len(said[Other(a)])
              /\ told' = [told EXCEPT ![a] = Append(told[a], said[Other(a)][Len(told[a]) + 1])]
    BY <1>1, <1>2, <1>10, StreamRead
  <2>8. told' \in [Sides -> Seq(Bodies)]
    <3>1. CASE told' = told
      BY <1>1, <3>1
    <3>2. ASSUME Len(told[a]) + 1 \in 1 .. Len(said[Other(a)]),
                 told' = [told EXCEPT ![a] = Append(told[a], said[Other(a)][Len(told[a]) + 1])]
          PROVE  told' \in [Sides -> Seq(Bodies)]
      <4>1. said[Other(a)] \in Seq(Bodies) /\ told[a] \in Seq(Bodies)
        BY <1>1, TwoSides
      <4>2. said[Other(a)][Len(told[a]) + 1] \in Bodies
        BY <3>2, <4>1, ElementOfSeq
      <4>3. Append(told[a], said[Other(a)][Len(told[a]) + 1]) \in Seq(Bodies)
        BY <4>1, <4>2, AppendProperties
      <4> QED
        BY <1>1, <3>2, <4>3
    <3> QED
      BY <2>7, <3>1, <3>2
  <2>9. SharingTypeOK'
    BY <1>1, <2>1, <2>2, <2>3, <2>5, <2>7, <2>8 DEF SharingTypeOK
  <2>10. ASSUME NEW s \in Sides PROVE Stream(s)'
    <3>1. CASE s = a
      BY <2>7, <3>1
    <3>2. CASE s # a
      BY <1>7, <2>1, <2>2, <2>3, <2>4, <2>5, <2>6, <3>2
    <3> QED
      BY <3>1, <3>2
  <2> QED
    BY <2>9, <2>10 DEF StreamOK
<1> QED
  BY <1>4, <1>5, <1>6, <1>8, <1>9, <1>10 DEF SharingNext

LEMMA SharingInitInvariant == SharingInit => SharingInv
<1> SUFFICES ASSUME SharingInit PROVE SharingInv
  OBVIOUS
<1>1. Inv
  BY InitInvariant DEF SharingInit
<1>2. SharingTypeOK
  BY DEF SharingInit, SharingTypeOK
<1>3. ASSUME NEW s \in Sides PROVE Stream(s)
  <2>1. /\ sent[Other(s)] = <<>> /\ said[Other(s)] = <<>> /\ writing[Other(s)] = <<>>
        /\ got[s] = <<>> /\ told[s] = <<>>
    BY TwoSides DEF SharingInit, Init
  <2> DEFINE n == [i \in {0} |-> 0]
             d == [i \in {0} |-> <<>>]
  <2>2. Len(<<>>) = 0 /\ 0 .. 0 = {0} /\ <<>> \in Seq(SharingFrame) /\ 1 .. 0 = {}
    OBVIOUS
  <2>3. /\ n \in [0 .. Len(sent[Other(s)]) -> 0 .. Len(said[Other(s)])]
        /\ d \in [0 .. Len(sent[Other(s)]) -> Seq(SharingFrame)]
    BY <2>1, <2>2
  <2>4. n[0] = 0 /\ d[0] = <<>>
    OBVIOUS
  <2> HIDE DEF n, d
  <2>5. Along(s, sent[Other(s)], said[Other(s)], writing[Other(s)], n, d)
    <3>1. Marked(<<>>, said[Other(s)], n, d)
      BY <2>2 DEF Marked
    <3>2. Pending(<<>>, 0, <<>>, <<>>)
      BY <2>2 DEF Pending
    <3>3. Reads(<<>>, 0, <<>>, <<>>, buffers[s])
      BY <2>2 DEF Reads
    <3> QED
      BY <2>1, <2>2, <2>4, <3>1, <3>2, <3>3 DEF Along
  <2> QED
    BY <2>3, <2>5 DEF Stream
<1> QED
  BY <1>1, <1>2, <1>3 DEF SharingInv, StreamOK

--------------------------------------------------------------------------
(* The theorems.                                                           *)

LEMMA SharingInvariantStep == SharingInv /\ [SharingNext]_sharingVars => SharingInv'
<1> SUFFICES ASSUME SharingInv, [SharingNext]_sharingVars PROVE SharingInv'
  OBVIOUS
<1>1. Inv'
  BY ChannelStep, InvariantStep DEF SharingInv
<1>2. SharingTypeOK' /\ StreamOK'
  <2>1. CASE SharingNext
    BY <2>1, SharingStep
  <2>2. CASE UNCHANGED sharingVars
    <3>1. UNCHANGED <<writing, buffers, failed, said, told, place, sent, got>>
      BY <2>2 DEF sharingVars, sharing, vars, handshake, channel
    <3> QED
      BY <3>1 DEF SharingInv, SharingTypeOK, StreamOK, Stream, Along
  <2> QED
    BY <2>1, <2>2
<1> QED
  BY <1>1, <1>2 DEF SharingInv

\* The inductive invariant of the composition holds for any sharing frames, payload
\* IDs and programs of other vendors, whatever the network does.
THEOREM SharingInvariance == SharingSpec => []SharingInv
BY SharingInitInvariant, SharingInvariantStep, PTL DEF SharingSpec

\* The two programs use the channel as it is specified, so that what is proved of
\* the channel is true of it under any sharing frames.
THEOREM ChannelUnderneath == SharingSpec => Spec
<1>1. SharingInit => Init
  BY DEF SharingInit
<1>2. SharingInv /\ [SharingNext]_sharingVars => [Next]_vars
  BY ChannelStep DEF SharingInv
<1> QED
  BY <1>1, <1>2, SharingInvariance, PTL DEF SharingSpec, Spec

\* Each side reads the sharing frames of the other whole, in the order in which they
\* were said and once, whatever is refused, lost, repeated or changed in between.
THEOREM SharingFramesDelivered == SharingSpec => SharingFramesInOrder
<1>1. SharingInit => Sharing!Init
  BY DEF SharingInit, Sharing!Init, Sides, Sharing!Sides
<1>2. SharingInv /\ [SharingNext]_sharingVars => [Sharing!Next]_<<said, told>>
  <2> SUFFICES ASSUME SharingInv, [SharingNext]_sharingVars
               PROVE  Sharing!Next \/ UNCHANGED <<said, told>>
    OBVIOUS
  <2>1. Sharing!Sides = Sides /\ \A s \in Sides : Sharing!Other(s) = Other(s)
    BY DEF Sharing!Sides, Sides, Sharing!Other, Other
  <2>2. ASSUME NEW s \in Sides, Say(s) PROVE Sharing!Next
    <3>1. (\E b \in Bodies : said' = [said EXCEPT ![s] = Append(@, b)]) /\ UNCHANGED told
      BY <2>2 DEF Say
    <3>2. Sharing!Send(s)
      BY <3>1 DEF Sharing!Send
    <3> QED
      BY <2>1, <3>2 DEF Sharing!Next
  <2>3. ASSUME NEW s \in Sides, Read(s) PROVE Sharing!Next \/ UNCHANGED <<said, told>>
    <3>1. UNCHANGED said
      BY <2>3 DEF Read, ReadKeepAlive, Push
    <3>2. \/ told' = told
          \/ /\ Len(told[s]) + 1 \in 1 .. Len(said[Other(s)])
             /\ told' = [told EXCEPT ![s] = Append(told[s], said[Other(s)][Len(told[s]) + 1])]
      BY <2>3, StreamRead DEF SharingInv, StreamOK
    <3>3. Len(told[s]) \in Nat /\ Len(said[Other(s)]) \in Nat
      BY TwoSides, LenProperties DEF SharingInv, SharingTypeOK
    <3>4. CASE /\ Len(told[s]) + 1 \in 1 .. Len(said[Other(s)])
               /\ told' = [told EXCEPT ![s] = Append(told[s], said[Other(s)][Len(told[s]) + 1])]
      <4>1. Len(told[s]) < Len(said[Other(s)])
        BY <3>3, <3>4
      <4>2. Sharing!Get(s)
        BY <2>1, <3>1, <3>4, <4>1 DEF Sharing!Get
      <4> QED
        BY <2>1, <4>2 DEF Sharing!Next
    <3> QED
      BY <3>1, <3>2, <3>4
  <2>4. ASSUME NEW s \in Sides, Beat(s) \/ Blunder(s) \/ Write(s) PROVE UNCHANGED <<said, told>>
    BY <2>4 DEF Beat, Blunder, Write
  <2>5. CASE UNCHANGED sharing \/ UNCHANGED sharingVars
    BY <2>5 DEF sharing, sharingVars
  <2> QED
    BY <2>2, <2>3, <2>4, <2>5 DEF SharingNext
<1> QED
  BY <1>1, <1>2, SharingInvariance, PTL DEF SharingSpec, SharingFramesInOrder, Sharing!Spec

============================================================================
