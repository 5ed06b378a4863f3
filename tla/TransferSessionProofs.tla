------------------------ MODULE TransferSessionProofs ------------------------
(***************************************************************************)
(* TransferSession for any plan, any number of attempts and any faults.     *)
(***************************************************************************)
EXTENDS TransferSession, TLAPS, SequenceTheorems, FiniteSetTheorems

--------------------------------------------------------------------------
(* The inductive invariant.                                                *)

\* The sender is at work; a worker has come to its end.
Active == {"script", "check", "send", "finalize", "confirm"}
Ended == {"saved", "rejected", "failed"}

\* The sender is past its script only when this connection was accepted.
SenderOK ==
  /\ sender = "script" => at \in 1 .. 12
  /\ sender = "check" => at \in 1 .. Len(Plan) + 1
  /\ sender = "send" => at \in 1 .. Len(Plan)
  /\ sender \in {"finalize", "confirm"} => at = Len(Plan) + 1
  /\ sender \in (Active \ {"script"}) \cup {"complete"} =>
       decision[attempt] = "accept"

\* A worker asks after its script, and receives and saves after the answer.
WorkerOK(a) ==
  /\ receiver[a] = "idle" => rat[a] = 1
  /\ receiver[a] = "script" => rat[a] \in 1 .. 11
  /\ receiver[a] \in {"idle", "script"} => decision[a] = "none"
  /\ receiver[a] \in {"idle", "script", "consent"} => committed[a] = 0
  /\ receiver[a] = "receiving" => decision[a] = "accept"
  /\ committed[a] > 0 => decision[a] = "accept"

\* Each end is closed by its program, and only that or the network resets a
\* connection; what a worker says of the answer and of its end is true.
WireOK(a) ==
  /\ "R" \in shut[a] <=> receiver[a] \in Ended
  /\ "S" \in shut[a] <=> a < attempt \/ (a = attempt /\ sender \notin Active)
  /\ reset[a] => cut[a] \/ "R" \in shut[a] \/ "S" \in shut[a]
  /\ cut[a] => reset[a] /\ "cut" \in faults
  /\ a > attempt => /\ receiver[a] = "idle" /\ ~ reset[a]
                    /\ toR[a] = <<>> /\ toS[a] = <<>>
  /\ \A i \in 1 .. Len(toS[a]) :
       /\ toS[a][i] = "accept" => decision[a] = "accept"
       /\ toS[a][i] = "Disconnection" => "R" \in shut[a]

\* The frames of the scripts in either direction, and how many of them are
\* behind each position: sent and read by the sender, read and sent by a worker.
Up == <<"ConnectionRequest", "ClientInit", "ClientFinish", "Accepted",
        "PairedKeyEncryption", "PairedKeyResult", "Introduction">>
Down == <<"ServerInit", "Accepted", "PairedKeyEncryption", "PairedKeyResult">>
SenderSent == <<0, 1, 2, 2, 3, 4, 4, 5, 5, 6, 6, 7>>
SenderRead == <<0, 0, 0, 1, 1, 1, 2, 2, 3, 3, 4, 4>>
WorkerRead == <<0, 1, 2, 2, 3, 4, 4, 4, 5, 5, 6, 7>>
WorkerSent == <<0, 0, 0, 1, 1, 1, 2, 3, 3, 4, 4, 4>>

\* Queue q holds the frames of list from behind n up to m.
Between(q, list, n, m) ==
  Len(q) = m - n /\ \A i \in 1 .. Len(q) : q[i] = list[n + i]

AllIn(q, S) == \A i \in 1 .. Len(q) : q[i] \in S

\* How many files the first p frames of the plan complete.
Lasts(p) == Cardinality({i \in 1 .. p : Plan[i] = "last"})

\* How many frames of the plan the sender has sent.
PlanSent == IF sender \in {"check", "send"} THEN at - 1 ELSE Len(Plan)

\* Queue q holds acknowledgements, then what the sender has sent of the plan
\* beyond the frames that completed done files, then d Disconnections.
Flow(q, sent, done, d) ==
  \E j, p \in Nat :
    /\ p <= sent /\ done = Lasts(p)
    /\ Len(q) = j + (sent - p) + d
    /\ \A i \in 1 .. j : q[i] = "KeepAliveAck"
    /\ \A i \in 1 .. sent - p : q[j + i] = Plan[p + i]
    /\ d = 1 => q[Len(q)] = "Disconnection"

Stream(a) ==
  Flow(toR[a], PlanSent, committed[a], IF sender = "confirm" THEN 1 ELSE 0)

\* What connection a looks like when nothing goes wrong and the sender is at it.
Talk(a) ==
  /\ receiver[a] \in {"idle", "script"} =>
       /\ sender = "script"
       /\ Between(toR[a], Up, WorkerRead[rat[a]], SenderSent[at])
       /\ Between(toS[a], Down, SenderRead[at], WorkerSent[rat[a]])
  /\ receiver[a] = "consent" =>
       /\ sender = "script" /\ at = 12
       /\ AllIn(toR[a], {"KeepAliveAck"}) /\ AllIn(toS[a], {"KeepAlive"})
  /\ receiver[a] = "receiving" =>
       \/ /\ sender = "script" /\ at = 12 /\ committed[a] = 0
          /\ AllIn(toR[a], {"KeepAliveAck"})
          /\ toS[a] # <<>> /\ toS[a][Len(toS[a])] = "accept"
          /\ \A i \in 1 .. Len(toS[a]) - 1 : toS[a][i] = "KeepAlive"
       \/ sender # "script" /\ toS[a] = <<>> /\ Stream(a)
  /\ receiver[a] = "rejected" =>
       sender = "script" /\ at = 12 /\ AllIn(toS[a], {"KeepAlive", "reject"})
  /\ receiver[a] = "saved" => sender # "script" /\ at = Len(Plan) + 1
  /\ receiver[a] # "failed"

\* When nothing goes wrong, the worker closes first, and not before it has saved
\* everything or its user has refused.
CalmOK(a) ==
  faults = {} =>
    /\ receiver[a] = "saved" => committed[a] = Files
    /\ "S" \in shut[a] => receiver[a] \in {"saved", "rejected"}
    /\ a = attempt /\ sender \in Active => Talk(a)

Inv ==
  /\ TypeOK /\ SenderOK
  /\ \A a \in Attempts : WorkerOK(a) /\ WireOK(a) /\ CalmOK(a)

--------------------------------------------------------------------------
(* The constants: the plan, its files, the scripts and the queues.         *)

LEMMA PlanShape ==
  /\ Len(Plan) \in Nat \ {0} /\ Plan[Len(Plan)] = "last"
  /\ \A i \in 1 .. Len(Plan) : Plan[i] \in {"data", "last"}
  /\ MaxAttempts \in Nat \ {0} /\ MaxBeats \in Nat
<1>1. Plan \in Seq({"data", "last"}) /\ Plan # <<>>
  BY PlanAssumption
<1> QED
  BY <1>1, PlanAssumption, EmptySeq, ElementOfSeq

\* Each "last" completes a file, and the last frame of the plan the last one.
LEMMA FilesOfThePlan ==
  /\ Lasts(0) = 0 /\ Files = Lasts(Len(Plan))
  /\ \A p \in 0 .. Len(Plan) : Lasts(p) \in Nat
  /\ \A p \in 0 .. Len(Plan) - 1 :
       /\ Plan[p + 1] = "last" => Lasts(p + 1) = Lasts(p) + 1
       /\ Plan[p + 1] # "last" => Lasts(p + 1) = Lasts(p)
       /\ Lasts(p) < Files
<1> DEFINE L(p) == {i \in 1 .. p : Plan[i] = "last"}
<1>1. ASSUME NEW p \in 0 .. Len(Plan)
      PROVE  IsFiniteSet(L(p)) /\ Cardinality(L(p)) \in Nat
  <2>1. IsFiniteSet(1 .. p)
    BY FS_Interval, PlanShape
  <2>2. L(p) \in SUBSET (1 .. p)
    OBVIOUS
  <2>3. IsFiniteSet(L(p))
    BY <2>1, <2>2, FS_Subset
  <2> QED
    BY <2>3, FS_CardinalityType
<1>2. Lasts(0) = 0 /\ Files = Lasts(Len(Plan))
  <2>1. L(0) = {}
    OBVIOUS
  <2> QED
    BY <2>1, FS_EmptySet DEF Lasts, Files
<1>3. ASSUME NEW p \in 0 .. Len(Plan) - 1
      PROVE  /\ Plan[p + 1] = "last" => Lasts(p + 1) = Lasts(p) + 1
             /\ Plan[p + 1] # "last" => Lasts(p + 1) = Lasts(p)
  <2>1. IsFiniteSet(L(p))
    BY <1>1, PlanShape
  <2>2. CASE Plan[p + 1] = "last"
    <3>1. L(p + 1) = L(p) \cup {p + 1} /\ p + 1 \notin L(p)
      BY <2>2, PlanShape
    <3> QED
      BY <2>1, <2>2, <3>1, FS_AddElement DEF Lasts
  <2>3. CASE Plan[p + 1] # "last"
    <3>1. L(p + 1) = L(p)
      BY <2>3, PlanShape
    <3> QED
      BY <2>3, <3>1 DEF Lasts
  <2> QED
    BY <2>2, <2>3
<1>4. ASSUME NEW p \in 0 .. Len(Plan) - 1
      PROVE  Lasts(p) < Files
  <2>1. /\ IsFiniteSet(L(Len(Plan))) /\ Cardinality(L(Len(Plan))) \in Nat
        /\ IsFiniteSet(L(p)) /\ Cardinality(L(p)) \in Nat
    <3>1. p \in 0 .. Len(Plan) /\ Len(Plan) \in 0 .. Len(Plan)
      BY PlanShape
    <3> QED
      BY <1>1, <3>1
  <2>2. L(p) \in SUBSET L(Len(Plan))
    BY PlanShape
  <2>3. Len(Plan) \in L(Len(Plan)) /\ Len(Plan) \notin L(p)
    BY PlanShape
  <2>4. /\ Cardinality(L(p)) <= Cardinality(L(Len(Plan)))
        /\ Cardinality(L(p)) = Cardinality(L(Len(Plan))) => L(p) = L(Len(Plan))
    BY <2>1, <2>2, FS_Subset
  <2>5. Cardinality(L(p)) # Cardinality(L(Len(Plan)))
    BY <2>3, <2>4
  <2> QED
    BY <2>1, <2>4, <2>5, <1>2 DEF Lasts
<1> QED
  BY <1>1, <1>2, <1>3, <1>4 DEF Lasts

\* Each step of the sender's script sends the next frame up, or reads the next
\* frame down.
LEMMA SenderSteps ==
  /\ Len(SenderScript) = 11
  /\ \A k \in 1 .. 12 : SenderSent[k] \in 0 .. 7 /\ SenderRead[k] \in 0 .. 4
  /\ \A k \in 1 .. 11 :
       /\ SenderScript[k][1] \in {"send", "recv"}
       /\ SenderScript[k][1] = "send" =>
            /\ SenderSent[k + 1] = SenderSent[k] + 1 /\ SenderRead[k + 1] = SenderRead[k]
            /\ SenderScript[k][2] = Up[SenderSent[k] + 1]
       /\ SenderScript[k][1] = "recv" =>
            /\ SenderSent[k + 1] = SenderSent[k] /\ SenderRead[k + 1] = SenderRead[k] + 1
            /\ SenderScript[k][2] = Down[SenderRead[k] + 1]
BY DEF SenderScript, SenderSent, SenderRead, Up, Down, Send, Recv

LEMMA WorkerSteps ==
  /\ Len(ReceiverScript) = 11
  /\ \A k \in 1 .. 12 : WorkerSent[k] \in 0 .. 4 /\ WorkerRead[k] \in 0 .. 7
  /\ \A k \in 1 .. 11 :
       /\ ReceiverScript[k][1] \in {"send", "recv"}
       /\ ReceiverScript[k][1] = "send" =>
            /\ WorkerSent[k + 1] = WorkerSent[k] + 1 /\ WorkerRead[k + 1] = WorkerRead[k]
            /\ ReceiverScript[k][2] = Down[WorkerSent[k] + 1]
       /\ ReceiverScript[k][1] = "recv" =>
            /\ WorkerSent[k + 1] = WorkerSent[k] /\ WorkerRead[k + 1] = WorkerRead[k] + 1
            /\ ReceiverScript[k][2] = Up[WorkerRead[k] + 1]
BY DEF ReceiverScript, WorkerSent, WorkerRead, Up, Down, Send, Recv

\* What the scripts send, and what they have sent at their ends.
LEMMA ScriptFrames ==
  /\ \A k \in 1 .. 11 : SenderScript[k][1] = "send" => SenderScript[k][2] \in ToReceiver
  /\ \A k \in 1 .. 11 : ReceiverScript[k][1] = "send" =>
       ReceiverScript[k][2] \in ToSender \ {"accept", "Disconnection"}
  /\ \A n \in 1 .. 4 : Down[n] # "KeepAlive"
  /\ SenderSent[1] = 0 /\ SenderRead[1] = 0 /\ WorkerSent[1] = 0 /\ WorkerRead[1] = 0
  /\ SenderSent[12] = 7 /\ SenderRead[12] = 4 /\ WorkerSent[12] = 4 /\ WorkerRead[12] = 7
  /\ WorkerRead[11] = 6 /\ WorkerSent[11] = 4 /\ ReceiverScript[11][1] = "recv"
  /\ \A k \in 1 .. 11 : SenderSent[k] <= 6
BY DEF SenderScript, SenderSent, SenderRead, ReceiverScript, WorkerSent, WorkerRead,
       Up, Down, Send, Recv, ToReceiver, ToSender

--------------------------------------------------------------------------
(* The queues.                                                             *)

LEMMA BehindTheHead ==
  ASSUME NEW S, NEW q \in Seq(S), q # <<>>
  PROVE  /\ Head(q) = q[1] /\ Head(q) \in S /\ Tail(q) \in Seq(S)
         /\ Len(q) \in Nat \ {0} /\ Len(Tail(q)) = Len(q) - 1
         /\ \A i \in 1 .. Len(q) - 1 : Tail(q)[i] = q[i + 1]
BY HeadTailProperties, EmptySeq

LEMMA Appended ==
  ASSUME NEW S, NEW q \in Seq(S), NEW m \in S
  PROVE  /\ Append(q, m) \in Seq(S) /\ Len(q) \in Nat
         /\ Len(Append(q, m)) = Len(q) + 1 /\ Append(q, m)[Len(q) + 1] = m
         /\ \A i \in 1 .. Len(q) : Append(q, m)[i] = q[i]
OBVIOUS

LEMMA Prefix ==
  ASSUME NEW S, NEW q \in Seq(S), NEW r \in Prefixes(q)
  PROVE  /\ r \in Seq(S) /\ Len(r) \in 0 .. Len(q)
         /\ \A i \in 1 .. Len(r) : r[i] = q[i]
<1>1. PICK n \in 0 .. Len(q) : r = SubSeq(q, 1, n)
  BY DEF Prefixes
<1>2. Len(q) \in Nat /\ \A i \in 1 .. n : q[i] \in S
  BY LenProperties, ElementOfSeq
<1>3. 1 \in Int /\ n \in Int
  BY <1>2
<1>4. /\ r \in Seq(S) /\ Len(r) = IF 1 <= n THEN n - 1 + 1 ELSE 0
      /\ \A i \in 1 .. n - 1 + 1 : r[i] = q[1 + i - 1]
  BY <1>1, <1>2, <1>3, SubSeqProperties
<1> QED
  BY <1>2, <1>4

LEMMA BetweenRead ==
  ASSUME NEW S, NEW q \in Seq(S), q # <<>>, NEW list, NEW n \in Nat, NEW m \in Nat,
         Between(q, list, n, m)
  PROVE  n < m /\ Head(q) = list[n + 1] /\ Between(Tail(q), list, n + 1, m)
<1>1. /\ Head(q) = q[1] /\ Len(q) \in Nat \ {0} /\ Len(Tail(q)) = Len(q) - 1
      /\ \A i \in 1 .. Len(q) - 1 : Tail(q)[i] = q[i + 1]
  BY BehindTheHead
<1> QED
  BY <1>1 DEF Between

LEMMA BetweenSent ==
  ASSUME NEW S, NEW q \in Seq(S), NEW list, NEW n \in Nat, NEW m \in Nat,
         Between(q, list, n, m), NEW x \in S, x = list[m + 1]
  PROVE  Between(Append(q, x), list, n, m + 1)
<1>1. /\ Len(q) \in Nat
      /\ Len(Append(q, x)) = Len(q) + 1 /\ Append(q, x)[Len(q) + 1] = x
      /\ \A i \in 1 .. Len(q) : Append(q, x)[i] = q[i]
  BY Appended
<1>2. Len(q) = m - n /\ \A i \in 1 .. Len(q) : q[i] = list[n + i]
  BY DEF Between
<1>3. n + (Len(q) + 1) = m + 1 /\ Len(q) + 1 = m + 1 - n
  BY <1>1, <1>2
<1>4. ASSUME NEW i \in 1 .. Len(q) + 1
      PROVE  Append(q, x)[i] = list[n + i]
  <2>1. CASE i = Len(q) + 1
    BY <1>1, <1>3, <2>1
  <2>2. CASE i # Len(q) + 1
    <3>1. i \in 1 .. Len(q)
      BY <1>1, <2>2
    <3> QED
      BY <1>1, <1>2, <3>1
  <2> QED
    BY <2>1, <2>2
<1> QED
  BY <1>1, <1>3, <1>4 DEF Between

LEMMA AllInRead ==
  ASSUME NEW S, NEW q \in Seq(S), q # <<>>, NEW T, AllIn(q, T)
  PROVE  Head(q) \in T /\ AllIn(Tail(q), T)
<1>1. /\ Head(q) = q[1] /\ Len(q) \in Nat \ {0} /\ Len(Tail(q)) = Len(q) - 1
      /\ \A i \in 1 .. Len(q) - 1 : Tail(q)[i] = q[i + 1]
  BY BehindTheHead
<1> QED
  BY <1>1 DEF AllIn

LEMMA AllInSent ==
  ASSUME NEW S, NEW q \in Seq(S), NEW T, AllIn(q, T), NEW m \in S, m \in T
  PROVE  AllIn(Append(q, m), T)
<1>1. /\ Len(q) \in Nat
      /\ Len(Append(q, m)) = Len(q) + 1 /\ Append(q, m)[Len(q) + 1] = m
      /\ \A i \in 1 .. Len(q) : Append(q, m)[i] = q[i]
  BY Appended
<1> QED
  BY <1>1 DEF AllIn

LEMMA NothingIsAllIn == \A S : AllIn(<<>>, S)
BY DEF AllIn

LEMMA FlowIs ==
  ASSUME NEW q, NEW sent, NEW done, NEW d, NEW j \in Nat, NEW p \in Nat,
         p <= sent, done = Lasts(p), Len(q) = j + (sent - p) + d,
         \A i \in 1 .. j : q[i] = "KeepAliveAck",
         \A i \in 1 .. sent - p : q[j + i] = Plan[p + i],
         d = 1 => q[Len(q)] = "Disconnection"
  PROVE  Flow(q, sent, done, d)
BY DEF Flow

\* The stream grows by the next frame of the plan and by the Disconnection.
LEMMA FlowSent ==
  ASSUME NEW S, NEW q \in Seq(S), NEW sent \in Nat, NEW done, Flow(q, sent, done, 0)
  PROVE  /\ Plan[sent + 1] \in S => Flow(Append(q, Plan[sent + 1]), sent + 1, done, 0)
         /\ "Disconnection" \in S => Flow(Append(q, "Disconnection"), sent, done, 1)
<1>1. PICK j \in Nat : \E p \in Nat :
        /\ p <= sent /\ done = Lasts(p)
        /\ Len(q) = j + (sent - p) + 0
        /\ \A i \in 1 .. j : q[i] = "KeepAliveAck"
        /\ \A i \in 1 .. sent - p : q[j + i] = Plan[p + i]
        /\ 0 = 1 => q[Len(q)] = "Disconnection"
  BY DEF Flow
<1>2. PICK p \in Nat :
        /\ p <= sent /\ done = Lasts(p)
        /\ Len(q) = j + (sent - p) + 0
        /\ \A i \in 1 .. j : q[i] = "KeepAliveAck"
        /\ \A i \in 1 .. sent - p : q[j + i] = Plan[p + i]
        /\ 0 = 1 => q[Len(q)] = "Disconnection"
  BY <1>1
<1>3. ASSUME NEW m \in S
      PROVE  /\ Len(Append(q, m)) = Len(q) + 1 /\ Append(q, m)[Len(q) + 1] = m
             /\ \A i \in 1 .. j : Append(q, m)[i] = "KeepAliveAck"
             /\ \A i \in 1 .. sent - p : Append(q, m)[j + i] = Plan[p + i]
  <2>1. /\ Len(q) \in Nat
        /\ Len(Append(q, m)) = Len(q) + 1 /\ Append(q, m)[Len(q) + 1] = m
        /\ \A i \in 1 .. Len(q) : Append(q, m)[i] = q[i]
    BY Appended
  <2>2. /\ \A i \in 1 .. j : i \in 1 .. Len(q)
        /\ \A i \in 1 .. sent - p : j + i \in 1 .. Len(q)
    BY <1>2
  <2> QED
    BY <1>2, <2>1, <2>2
<1>4. ASSUME Plan[sent + 1] \in S
      PROVE  Flow(Append(q, Plan[sent + 1]), sent + 1, done, 0)
  <2> DEFINE r == Append(q, Plan[sent + 1])
             next == sent + 1
  <2>1. /\ Len(r) = Len(q) + 1 /\ r[Len(q) + 1] = Plan[sent + 1]
        /\ \A i \in 1 .. j : r[i] = "KeepAliveAck"
        /\ \A i \in 1 .. sent - p : r[j + i] = Plan[p + i]
    BY <1>3, <1>4
  <2> HIDE DEF r
  <2>2. ASSUME NEW i \in 1 .. next - p PROVE r[j + i] = Plan[p + i]
    <3>1. CASE i = sent + 1 - p
      <4>1. j + i = Len(q) + 1 /\ p + i = sent + 1
        BY <1>2, <3>1
      <4> QED
        BY <2>1, <4>1
    <3>2. CASE i # sent + 1 - p
      <4>1. i \in 1 .. sent - p
        BY <1>2, <3>2
      <4> QED
        BY <2>1, <4>1
    <3> QED
      BY <3>1, <3>2
  <2>3. /\ next \in Nat /\ p <= next /\ Len(r) = j + (next - p) + 0
        /\ done = Lasts(p) /\ (0 = 1 => r[Len(r)] = "Disconnection")
        /\ \A i \in 1 .. j : r[i] = "KeepAliveAck"
    BY <1>2, <2>1
  <2> HIDE DEF next
  <2>4. Flow(r, next, done, 0)
    BY <2>2, <2>3, FlowIs
  <2> QED
    BY <2>4 DEF r, next
<1>5. ASSUME "Disconnection" \in S
      PROVE  Flow(Append(q, "Disconnection"), sent, done, 1)
  <2> DEFINE r == Append(q, "Disconnection")
  <2>1. /\ Len(r) = Len(q) + 1 /\ r[Len(q) + 1] = "Disconnection"
        /\ \A i \in 1 .. j : r[i] = "KeepAliveAck"
        /\ \A i \in 1 .. sent - p : r[j + i] = Plan[p + i]
    BY <1>3, <1>5
  <2> HIDE DEF r
  <2>2. Len(r) = j + (sent - p) + 1 /\ r[Len(r)] = "Disconnection"
    BY <1>2, <2>1
  <2>3. Flow(r, sent, done, 1)
    BY <1>2, <2>1, <2>2 DEF Flow
  <2> QED
    BY <2>3 DEF r
<1> QED
  BY <1>4, <1>5

\* What a worker reads of the stream: an acknowledgement, the next frame of the
\* plan, or, once it has read all that was sent, the Disconnection.
LEMMA FlowRead ==
  ASSUME NEW S, NEW q \in Seq(S), q # <<>>, NEW sent \in 0 .. Len(Plan), NEW done,
         NEW d \in {0, 1}, Flow(q, sent, done, d)
  PROVE  \/ Head(q) = "KeepAliveAck" /\ Flow(Tail(q), sent, done, d)
         \/ Head(q) = "data" /\ Flow(Tail(q), sent, done, d)
         \/ Head(q) = "last" /\ Flow(Tail(q), sent, done + 1, d)
         \/ Head(q) = "Disconnection" /\ d = 1 /\ done = Lasts(sent)
<1>1. PICK j \in Nat : \E p \in Nat :
        /\ p <= sent /\ done = Lasts(p)
        /\ Len(q) = j + (sent - p) + d
        /\ \A i \in 1 .. j : q[i] = "KeepAliveAck"
        /\ \A i \in 1 .. sent - p : q[j + i] = Plan[p + i]
        /\ d = 1 => q[Len(q)] = "Disconnection"
  BY DEF Flow
<1>2. PICK p \in Nat :
        /\ p <= sent /\ done = Lasts(p)
        /\ Len(q) = j + (sent - p) + d
        /\ \A i \in 1 .. j : q[i] = "KeepAliveAck"
        /\ \A i \in 1 .. sent - p : q[j + i] = Plan[p + i]
        /\ d = 1 => q[Len(q)] = "Disconnection"
  BY <1>1
<1> DEFINE r == Tail(q)
<1>3. /\ Head(q) = q[1] /\ Len(q) \in Nat \ {0} /\ Len(r) = Len(q) - 1
      /\ \A i \in 1 .. Len(q) - 1 : r[i] = q[i + 1]
      /\ sent \in Nat /\ Len(Plan) \in Nat
  BY BehindTheHead, PlanShape
<1> HIDE DEF r
<1>4. CASE j > 0
  <2>1. Head(q) = "KeepAliveAck"
    BY <1>2, <1>3, <1>4
  <2>2. /\ j - 1 \in Nat /\ Len(r) = (j - 1) + (sent - p) + d
        /\ \A i \in 1 .. j - 1 : r[i] = "KeepAliveAck"
    BY <1>2, <1>3, <1>4
  <2>3. ASSUME NEW i \in 1 .. sent - p PROVE r[j - 1 + i] = Plan[p + i]
    <3>1. j - 1 + i \in 1 .. Len(q) - 1 /\ j - 1 + i + 1 = j + i
      BY <1>2, <1>4
    <3> QED
      BY <1>2, <1>3, <3>1
  <2>4. d = 1 => r[Len(r)] = "Disconnection"
    <3>1. d = 1 => Len(r) \in 1 .. Len(q) - 1 /\ Len(r) + 1 = Len(q)
      BY <1>2, <1>3, <1>4
    <3> QED
      BY <1>2, <1>3, <3>1
  <2>5. Flow(r, sent, done, d)
    BY <1>2, <2>2, <2>3, <2>4 DEF Flow
  <2> QED
    BY <2>1, <2>5 DEF r
<1>5. CASE j = 0 /\ p < sent
  <2>1. /\ Head(q) = Plan[p + 1] /\ p \in 0 .. Len(Plan) - 1
        /\ Plan[p + 1] \in {"data", "last"}
    <3>1. 1 \in 1 .. sent - p /\ j + 1 = 1 /\ p + 1 \in 1 .. Len(Plan)
      BY <1>2, <1>3, <1>5
    <3>2. q[1] = Plan[p + 1]
      BY <1>2, <3>1
    <3> QED
      BY <1>3, <1>5, <3>1, <3>2, PlanShape
  <2>2. /\ p + 1 \in Nat /\ p + 1 <= sent /\ Len(r) = 0 + (sent - (p + 1)) + d
        /\ \A i \in 1 .. 0 : r[i] = "KeepAliveAck"
    BY <1>2, <1>3, <1>5
  <2>3. ASSUME NEW i \in 1 .. sent - (p + 1) PROVE r[0 + i] = Plan[p + 1 + i]
    <3>1. /\ i \in 1 .. Len(q) - 1 /\ i + 1 \in 1 .. sent - p
          /\ j + (i + 1) = i + 1 /\ p + (i + 1) = p + 1 + i
      BY <1>2, <1>5
    <3>2. q[i + 1] = Plan[p + (i + 1)]
      BY <1>2, <3>1
    <3> QED
      BY <1>3, <3>1, <3>2
  <2>4. d = 1 => r[Len(r)] = "Disconnection"
    <3>1. d = 1 => Len(r) \in 1 .. Len(q) - 1 /\ Len(r) + 1 = Len(q)
      BY <1>2, <1>3, <1>5
    <3> QED
      BY <1>2, <1>3, <3>1
  <2>5. Flow(r, sent, Lasts(p + 1), d)
    BY <2>2, <2>3, <2>4 DEF Flow
  <2>6. Lasts(p + 1) = IF Plan[p + 1] = "last" THEN done + 1 ELSE done
    BY <1>2, <2>1, FilesOfThePlan
  <2> QED
    BY <2>1, <2>5, <2>6 DEF r
<1>6. CASE j = 0 /\ p = sent
  BY <1>2, <1>3, <1>6
<1> QED
  BY <1>2, <1>3, <1>4, <1>5, <1>6

\* What a write, a close and a read leave of the connection.
LEMMA WritingUp ==
  ASSUME TypeOK, NEW a \in Attempts, NEW m \in ToReceiver, PutR(a, m)
  PROVE  /\ toR' \in [Attempts -> Seq(ToReceiver)] /\ reset' \in [Attempts -> BOOLEAN]
         /\ toS' = toS /\ shut' = shut
         /\ \A b \in Attempts \ {a} : toR'[b] = toR[b] /\ reset'[b] = reset[b]
         /\ IF "R" \in shut[a] \/ reset[a]
              THEN reset'[a] /\ toR'[a] = toR[a]
              ELSE reset'[a] = reset[a] /\ toR'[a] = Append(toR[a], m)
<1>1. /\ toR \in [Attempts -> Seq(ToReceiver)] /\ reset \in [Attempts -> BOOLEAN]
      /\ toR[a] \in Seq(ToReceiver)
  BY DEF TypeOK
<1>2. Append(toR[a], m) \in Seq(ToReceiver)
  BY <1>1, Appended
<1> QED
  BY <1>1, <1>2 DEF PutR

LEMMA WritingDown ==
  ASSUME TypeOK, NEW a \in Attempts, NEW m \in ToSender, PutS(a, m)
  PROVE  /\ toS' \in [Attempts -> Seq(ToSender)] /\ reset' \in [Attempts -> BOOLEAN]
         /\ toR' = toR /\ shut' = shut
         /\ \A b \in Attempts \ {a} : toS'[b] = toS[b] /\ reset'[b] = reset[b]
         /\ IF "S" \in shut[a] \/ reset[a]
              THEN reset'[a] /\ toS'[a] = toS[a]
              ELSE reset'[a] = reset[a] /\ toS'[a] = Append(toS[a], m)
<1>1. /\ toS \in [Attempts -> Seq(ToSender)] /\ reset \in [Attempts -> BOOLEAN]
      /\ toS[a] \in Seq(ToSender)
  BY DEF TypeOK
<1>2. Append(toS[a], m) \in Seq(ToSender)
  BY <1>1, Appended
<1> QED
  BY <1>1, <1>2 DEF PutS

LEMMA ClosingS ==
  ASSUME TypeOK, NEW a \in Attempts, NEW unread, CloseS(a, unread)
  PROVE  /\ toR' \in [Attempts -> Seq(ToReceiver)] /\ toS' \in [Attempts -> Seq(ToSender)]
         /\ shut' \in [Attempts -> SUBSET {"S", "R"}] /\ reset' \in [Attempts -> BOOLEAN]
         /\ shut'[a] = shut[a] \cup {"S"} /\ (reset[a] => reset'[a]) /\ toS'[a] = <<>>
         /\ \A b \in Attempts \ {a} : /\ toR'[b] = toR[b] /\ toS'[b] = toS[b]
                                      /\ shut'[b] = shut[b] /\ reset'[b] = reset[b]
<1>1. /\ toR \in [Attempts -> Seq(ToReceiver)] /\ toS \in [Attempts -> Seq(ToSender)]
      /\ shut \in [Attempts -> SUBSET {"S", "R"}] /\ reset \in [Attempts -> BOOLEAN]
      /\ toR[a] \in Seq(ToReceiver)
  BY DEF TypeOK
<1>2. \A q \in Prefixes(toR[a]) : q \in Seq(ToReceiver)
  BY <1>1, Prefix
<1>3. <<>> \in Seq(ToSender)
  OBVIOUS
<1>4. toR' \in [Attempts -> Seq(ToReceiver)] /\ \A b \in Attempts \ {a} : toR'[b] = toR[b]
  BY <1>1, <1>2 DEF CloseS
<1>5. /\ toS' \in [Attempts -> Seq(ToSender)] /\ toS'[a] = <<>>
      /\ \A b \in Attempts \ {a} : toS'[b] = toS[b]
  BY <1>1, <1>3 DEF CloseS
<1>6. /\ shut' \in [Attempts -> SUBSET {"S", "R"}] /\ shut'[a] = shut[a] \cup {"S"}
      /\ \A b \in Attempts \ {a} : shut'[b] = shut[b]
  BY <1>1 DEF CloseS
<1>7. /\ reset' \in [Attempts -> BOOLEAN] /\ (reset[a] => reset'[a])
      /\ \A b \in Attempts \ {a} : reset'[b] = reset[b]
  BY <1>1 DEF CloseS
<1> QED
  BY <1>4, <1>5, <1>6, <1>7

LEMMA ClosingR ==
  ASSUME TypeOK, NEW a \in Attempts, NEW m \in Seq(ToSender), NEW unread,
         CloseR(a, m, unread)
  PROVE  /\ toR' \in [Attempts -> Seq(ToReceiver)] /\ toS' \in [Attempts -> Seq(ToSender)]
         /\ shut' \in [Attempts -> SUBSET {"S", "R"}] /\ reset' \in [Attempts -> BOOLEAN]
         /\ shut'[a] = shut[a] \cup {"R"} /\ (reset[a] => reset'[a]) /\ toR'[a] = <<>>
         /\ \A i \in 1 .. Len(toS'[a]) :
              \/ \E j \in 1 .. Len(toS[a]) : toS'[a][i] = toS[a][j]
              \/ \E j \in 1 .. Len(m) : toS'[a][i] = m[j]
         /\ \A b \in Attempts \ {a} : /\ toR'[b] = toR[b] /\ toS'[b] = toS[b]
                                      /\ shut'[b] = shut[b] /\ reset'[b] = reset[b]
<1> DEFINE sent == IF "S" \in shut[a] \/ reset[a] THEN toS[a] ELSE toS[a] \o m
<1>1. /\ toR \in [Attempts -> Seq(ToReceiver)] /\ toS \in [Attempts -> Seq(ToSender)]
      /\ shut \in [Attempts -> SUBSET {"S", "R"}] /\ reset \in [Attempts -> BOOLEAN]
      /\ toS[a] \in Seq(ToSender) /\ Len(toS[a]) \in Nat /\ Len(m) \in Nat
  BY DEF TypeOK
<1>2. /\ toS[a] \o m \in Seq(ToSender) /\ Len(toS[a] \o m) = Len(toS[a]) + Len(m)
      /\ \A i \in 1 .. Len(toS[a]) + Len(m) : (toS[a] \o m)[i] =
           IF i <= Len(toS[a]) THEN toS[a][i] ELSE m[i - Len(toS[a])]
  BY <1>1, ConcatProperties
<1>3. /\ sent \in Seq(ToSender) /\ Len(sent) \in Nat
      /\ \A i \in 1 .. Len(sent) : \/ \E j \in 1 .. Len(toS[a]) : sent[i] = toS[a][j]
                                  \/ \E j \in 1 .. Len(m) : sent[i] = m[j]
  <2>1. CASE "S" \in shut[a] \/ reset[a]
    BY <1>1, <2>1
  <2>2. CASE ~ ("S" \in shut[a] \/ reset[a])
    <3>1. sent = toS[a] \o m
      BY <2>2
    <3>2. ASSUME NEW i \in 1 .. Len(sent)
          PROVE  \/ \E j \in 1 .. Len(toS[a]) : sent[i] = toS[a][j]
                 \/ \E j \in 1 .. Len(m) : sent[i] = m[j]
      <4>1. CASE i <= Len(toS[a])
        BY <1>1, <1>2, <3>1, <4>1
      <4>2. CASE i > Len(toS[a])
        <5>1. i - Len(toS[a]) \in 1 .. Len(m) /\ sent[i] = m[i - Len(toS[a])]
          BY <1>1, <1>2, <3>1, <4>2
        <5> QED
          BY <5>1
      <4> QED
        BY <1>1, <1>2, <3>1, <4>1, <4>2
    <3> QED
      BY <1>1, <1>2, <3>1, <3>2
  <2> QED
    BY <2>1, <2>2
<1>4. PICK q : /\ toS' = [toS EXCEPT ![a] = q]
               /\ q = sent \/ q \in Prefixes(sent)
  BY DEF CloseR
<1> HIDE DEF sent
<1>5. /\ q \in Seq(ToSender) /\ Len(q) \in 0 .. Len(sent)
      /\ \A i \in 1 .. Len(q) : q[i] = sent[i]
  <2>1. CASE q = sent
    BY <1>3, <2>1
  <2>2. CASE q \in Prefixes(sent)
    BY <1>3, <2>2, Prefix
  <2> QED
    BY <1>4, <2>1, <2>2
<1>6. /\ toS' \in [Attempts -> Seq(ToSender)] /\ toS'[a] = q
      /\ \A b \in Attempts \ {a} : toS'[b] = toS[b]
  BY <1>1, <1>4, <1>5
<1>7. \A i \in 1 .. Len(toS'[a]) :
        \/ \E j \in 1 .. Len(toS[a]) : toS'[a][i] = toS[a][j]
        \/ \E j \in 1 .. Len(m) : toS'[a][i] = m[j]
  BY <1>3, <1>5, <1>6
<1>8. <<>> \in Seq(ToReceiver)
  OBVIOUS
<1>9. /\ toR' \in [Attempts -> Seq(ToReceiver)] /\ toR'[a] = <<>>
      /\ \A b \in Attempts \ {a} : toR'[b] = toR[b]
  BY <1>1, <1>8 DEF CloseR
<1>10. /\ shut' \in [Attempts -> SUBSET {"S", "R"}] /\ shut'[a] = shut[a] \cup {"R"}
       /\ \A b \in Attempts \ {a} : shut'[b] = shut[b]
  BY <1>1 DEF CloseR
<1>11. /\ reset' \in [Attempts -> BOOLEAN] /\ (reset[a] => reset'[a])
       /\ \A b \in Attempts \ {a} : reset'[b] = reset[b]
  BY <1>1 DEF CloseR
<1> QED
  BY <1>6, <1>7, <1>9, <1>10, <1>11

--------------------------------------------------------------------------
(* What a step leaves alone, and what holds while nothing goes wrong.      *)

\* Nothing of connection a changes.
Unmoved(a) ==
  /\ receiver'[a] = receiver[a] /\ rat'[a] = rat[a] /\ decision'[a] = decision[a]
  /\ committed'[a] = committed[a]
  /\ toR'[a] = toR[a] /\ toS'[a] = toS[a] /\ shut'[a] = shut[a]
  /\ reset'[a] = reset[a] /\ cut'[a] = cut[a]

LEMMA OtherConnection ==
  ASSUME Inv, NEW a \in Attempts, Unmoved(a), attempt' = attempt, faults' = faults,
         a # attempt \/ UNCHANGED session
  PROVE  WorkerOK(a)' /\ WireOK(a)' /\ CalmOK(a)'
<1>1. WorkerOK(a) /\ WireOK(a) /\ CalmOK(a) /\ attempt \in Nat /\ a \in Nat
  BY DEF Inv, TypeOK, Attempts
<1>2. WorkerOK(a)'
  BY <1>1 DEF WorkerOK, Unmoved
<1>3. WireOK(a)'
  BY <1>1 DEF WireOK, Unmoved, session
<1>4. CalmOK(a)'
  <2>1. CASE a # attempt
    BY <1>1, <2>1 DEF CalmOK, Unmoved
  <2>2. CASE UNCHANGED session
    <3>1. /\ attempt' = attempt /\ sender' = sender /\ at' = at
      BY <2>2 DEF session
    <3>2. Talk(a) => Talk(a)'
      BY <3>1 DEF Talk, Stream, PlanSent, Unmoved
    <3> QED
      BY <1>1, <3>1, <3>2 DEF CalmOK, Unmoved
  <2> QED
    BY <2>1, <2>2
<1> QED
  BY <1>2, <1>3, <1>4

\* A step of the worker of a, of its user or of the network.
LEMMA WorkerFrame ==
  ASSUME Inv, NEW a \in Attempts, UNCHANGED session, faults' = faults,
         \A b \in Attempts \ {a} : Unmoved(b),
         decision[a] # "none" => decision'[a] = decision[a],
         TypeOK', WorkerOK(a)', WireOK(a)', CalmOK(a)'
  PROVE  Inv'
<1>1. attempt' = attempt /\ sender' = sender /\ at' = at /\ attempt \in Attempts
  BY DEF session, Inv, TypeOK
<1>2. SenderOK'
  <2>1. decision[attempt] = "accept" => decision'[attempt] = "accept"
    BY <1>1 DEF Unmoved
  <2> QED
    BY <1>1, <2>1 DEF Inv, SenderOK
<1>3. \A b \in Attempts \ {a} : WorkerOK(b)' /\ WireOK(b)' /\ CalmOK(b)'
  BY <1>1, OtherConnection
<1>4. \A b \in Attempts : WorkerOK(b)' /\ WireOK(b)' /\ CalmOK(b)'
  BY <1>3
<1> QED
  BY <1>2, <1>4 DEF Inv, Attempts

\* A step of the sender.
LEMMA SenderFrame ==
  ASSUME Inv, UNCHANGED <<attempt, worker, cut, faults>>,
         \A b \in Attempts \ {attempt} : Unmoved(b),
         TypeOK', SenderOK', WireOK(attempt)', CalmOK(attempt)'
  PROVE  Inv'
<1>1. /\ attempt' = attempt /\ faults' = faults /\ attempt \in Attempts
      /\ receiver' = receiver /\ rat' = rat /\ decision' = decision
      /\ committed' = committed
  BY DEF worker, Inv, TypeOK
<1>2. \A b \in Attempts \ {attempt} : WorkerOK(b)' /\ WireOK(b)' /\ CalmOK(b)'
  BY <1>1, OtherConnection
<1>3. WorkerOK(attempt)'
  BY <1>1 DEF Inv, WorkerOK
<1>4. \A b \in Attempts : WorkerOK(b)' /\ WireOK(b)' /\ CalmOK(b)'
  BY <1>1, <1>2, <1>3
<1> QED
  BY <1>4 DEF Inv, Attempts

LEMMA NoFaults ==
  ASSUME faults = {}
  PROVE  ~ Timeouts /\ ~ Cuts /\ ~ IOFaults
BY DEF Timeouts, Cuts, IOFaults

\* When nothing goes wrong, the sender at work finds its connection closed or
\* reset only after the worker has saved everything or refused.
LEMMA CalmSender ==
  ASSUME Inv, faults = {}, sender \in Active
  PROVE  /\ Talk(attempt) /\ "S" \notin shut[attempt] /\ ~ cut[attempt]
         /\ receiver[attempt] # "failed"
         /\ "R" \in shut[attempt] \/ reset[attempt] =>
              receiver[attempt] \in {"saved", "rejected"}
         /\ receiver[attempt] \in {"saved", "rejected"} => "R" \in shut[attempt]
<1>1. attempt \in Attempts /\ attempt \in Nat
  BY DEF Inv, TypeOK, Attempts
<1>2. WireOK(attempt) /\ CalmOK(attempt)
  BY <1>1 DEF Inv
<1>3. Talk(attempt) /\ receiver[attempt] # "failed"
  BY <1>2 DEF CalmOK, Talk
<1>4. "S" \notin shut[attempt] /\ ~ cut[attempt]
  BY <1>1, <1>2 DEF WireOK
<1>5. "R" \in shut[attempt] <=> receiver[attempt] \in {"saved", "rejected"}
  BY <1>2, <1>3 DEF WireOK, Ended
<1> QED
  BY <1>2, <1>3, <1>4, <1>5 DEF WireOK

\* When nothing goes wrong, a worker at work has the sender at work.
LEMMA CalmWorker ==
  ASSUME Inv, faults = {}, NEW a \in Attempts,
         receiver[a] \in {"script", "consent", "receiving"}
  PROVE  /\ a = attempt /\ sender \in Active /\ Talk(a)
         /\ "R" \notin shut[a] /\ "S" \notin shut[a] /\ ~ reset[a]
<1>1. attempt \in Nat /\ a \in Nat /\ WireOK(a) /\ CalmOK(a)
  BY DEF Inv, TypeOK, Attempts
<1>2. "S" \notin shut[a] /\ "R" \notin shut[a]
  BY <1>1 DEF WireOK, CalmOK, Ended
<1>3. a = attempt /\ sender \in Active
  BY <1>1, <1>2 DEF WireOK
<1> QED
  BY <1>1, <1>2, <1>3 DEF WireOK, CalmOK

--------------------------------------------------------------------------
(* The sender.                                                             *)

\* The sender comes to an end.  When nothing goes wrong, its worker has.
LEMMA SenderEnds ==
  ASSUME Inv, sender \in Active, sender' \in {"failed", "complete"}, why' \in Errors,
         attempt' = attempt, at' = at, NEW unread, CloseS(attempt, unread),
         UNCHANGED <<worker, cut, faults>>,
         sender' = "complete" => decision[attempt] = "accept",
         faults = {} => receiver[attempt] \in {"saved", "rejected"}
  PROVE  Inv'
<1>1. /\ TypeOK /\ attempt \in Attempts /\ attempt \in Nat
      /\ WireOK(attempt) /\ CalmOK(attempt)
  BY DEF Inv, TypeOK, Attempts
<1>2. /\ receiver' = receiver /\ rat' = rat /\ decision' = decision
      /\ committed' = committed /\ beats' = beats /\ cut' = cut /\ faults' = faults
      /\ sender' \in SenderPlaces /\ sender' \notin Active /\ sender' # "script"
  BY DEF worker, SenderPlaces, Active
<1>3. /\ toR' \in [Attempts -> Seq(ToReceiver)] /\ toS' \in [Attempts -> Seq(ToSender)]
      /\ shut' \in [Attempts -> SUBSET {"S", "R"}] /\ reset' \in [Attempts -> BOOLEAN]
      /\ shut'[attempt] = shut[attempt] \cup {"S"}
      /\ (reset[attempt] => reset'[attempt]) /\ toS'[attempt] = <<>>
      /\ \A b \in Attempts \ {attempt} : /\ toR'[b] = toR[b] /\ toS'[b] = toS[b]
                                   /\ shut'[b] = shut[b] /\ reset'[b] = reset[b]
  BY <1>1, ClosingS
<1>4. TypeOK'
  BY <1>1, <1>2, <1>3 DEF TypeOK
<1>5. SenderOK'
  BY <1>2 DEF SenderOK, Active
<1>6. WireOK(attempt)'
  BY <1>1, <1>2, <1>3 DEF WireOK
<1>7. CalmOK(attempt)'
  BY <1>1, <1>2 DEF CalmOK
<1>8. \A b \in Attempts \ {attempt} : Unmoved(b)
  BY <1>2, <1>3 DEF Unmoved
<1> QED
  BY <1>4, <1>5, <1>6, <1>7, <1>8, SenderFrame

\* The sender fails: with nothing going wrong, only on a connection its worker
\* has left.
LEMMA SenderFailing ==
  ASSUME Inv, sender \in Active, NEW error \in Errors, NEW unread,
         SenderFails(error, unread), UNCHANGED <<worker, cut, faults>>,
         faults = {} => "R" \in shut[attempt] \/ reset[attempt]
  PROVE  Inv'
<1>1. /\ sender' = "failed" /\ why' = error /\ attempt' = attempt /\ at' = at
      /\ CloseS(attempt, unread)
  BY DEF SenderFails
<1>2. faults = {} => receiver[attempt] \in {"saved", "rejected"}
  BY CalmSender
<1> QED
  BY <1>1, <1>2, SenderEnds

LEMMA WriteFailsInv ==
  ASSUME Inv, WriteFails, UNCHANGED <<cut, faults>>
  PROVE  Inv'
<1>1. sender \in Active /\ SenderFails("io", toS[attempt]) /\ "io" \in Errors
  BY DEF WriteFails, Active, Errors
<1>2. faults = {} => reset[attempt]
  BY NoFaults DEF WriteFails
<1> QED
  BY <1>1, <1>2, SenderFailing DEF WriteFails

LEMMA ScriptReadFailsInv ==
  ASSUME Inv, ScriptReadFails, UNCHANGED <<cut, faults>>
  PROVE  Inv'
<1>1. sender \in Active /\ SenderFails("io", toS[attempt]) /\ "io" \in Errors
  BY DEF ScriptReadFails, Reading, Active, Errors
<1>2. faults = {} => "R" \in shut[attempt] \/ reset[attempt]
  BY NoFaults DEF ScriptReadFails, EndedS, LateS
<1> QED
  BY <1>1, <1>2, SenderFailing DEF ScriptReadFails

LEMMA SourceFailsInv ==
  ASSUME Inv, SourceFails, UNCHANGED <<cut, faults>>
  PROVE  Inv'
<1>1. sender \in Active /\ SenderFails("io", toS[attempt]) /\ "io" \in Errors
  BY DEF SourceFails, Active, Errors
<1> QED
  BY <1>1, NoFaults, SenderFailing DEF SourceFails

LEMMA ConfirmTimesOutInv ==
  ASSUME Inv, ConfirmTimesOut, UNCHANGED <<cut, faults>>
  PROVE  Inv'
<1>1. sender \in Active /\ SenderFails("protocol", <<>>) /\ "protocol" \in Errors
  BY DEF ConfirmTimesOut, Active, Errors
<1> QED
  BY <1>1, NoFaults, SenderFailing DEF ConfirmTimesOut, LateS

LEMMA ConfirmInv ==
  ASSUME Inv, Confirm, UNCHANGED <<cut, faults>>
  PROVE  Inv'
<1>1. /\ sender \in Active /\ sender' = "complete" /\ why' = why /\ attempt' = attempt
      /\ at' = at /\ CloseS(attempt, <<>>) /\ UNCHANGED worker
  BY DEF Confirm, Active
<1>2. why' \in Errors /\ decision[attempt] = "accept"
  BY <1>1 DEF Inv, TypeOK, SenderOK, Active, Confirm
<1>3. faults = {} => "R" \in shut[attempt] \/ reset[attempt]
  <2>1. CASE EndedS(attempt)
    BY <2>1 DEF EndedS
  <2>2. CASE toS[attempt] # <<>> /\ Head(toS[attempt]) = "Disconnection"
    <3>1. attempt \in Attempts /\ toS[attempt] \in Seq(ToSender)
      BY DEF Inv, TypeOK
    <3>2. Head(toS[attempt]) = toS[attempt][1] /\ Len(toS[attempt]) \in Nat \ {0}
      BY <2>2, <3>1, BehindTheHead
    <3>3. 1 \in 1 .. Len(toS[attempt]) /\ toS[attempt][1] = "Disconnection"
      BY <2>2, <3>2
    <3>4. WireOK(attempt)
      BY <3>1 DEF Inv
    <3> QED
      BY <3>3, <3>4 DEF WireOK
  <2> QED
    BY <2>1, <2>2 DEF Confirm
<1>4. faults = {} => receiver[attempt] \in {"saved", "rejected"}
  BY <1>1, <1>3, CalmSender
<1> QED
  BY <1>1, <1>2, <1>4, SenderEnds

\* The sender moves on, and leaves the ends of its connection open or closed as
\* they are.
LEMMA SenderMoves ==
  ASSUME Inv, sender \in Active, sender' \in Active, attempt' = attempt, why' = why,
         at' \in 1 .. Len(SenderScript) + Len(Plan) + 1,
         UNCHANGED <<worker, cut, faults, shut>>,
         toR' \in [Attempts -> Seq(ToReceiver)], toS' \in [Attempts -> Seq(ToSender)],
         reset' \in [Attempts -> BOOLEAN],
         \A b \in Attempts \ {attempt} :
           toR'[b] = toR[b] /\ toS'[b] = toS[b] /\ reset'[b] = reset[b],
         reset[attempt] => reset'[attempt],
         reset'[attempt] => reset[attempt] \/ "R" \in shut[attempt],
         \A i \in 1 .. Len(toS'[attempt]) : \E j \in 1 .. Len(toS[attempt]) :
           toS'[attempt][i] = toS[attempt][j],
         SenderOK',
         faults = {} => Talk(attempt)'
  PROVE  Inv'
<1>1. /\ TypeOK /\ attempt \in Attempts /\ attempt \in Nat
      /\ WireOK(attempt) /\ CalmOK(attempt)
  BY DEF Inv, TypeOK, Attempts
<1>2. /\ receiver' = receiver /\ rat' = rat /\ decision' = decision
      /\ committed' = committed /\ beats' = beats /\ cut' = cut /\ faults' = faults
      /\ shut' = shut /\ sender' \in SenderPlaces
  BY DEF worker, SenderPlaces, Active
<1>3. TypeOK'
  BY <1>1, <1>2 DEF TypeOK
<1>4. WireOK(attempt)'
  <2>1. sender' \in Active /\ sender \in Active
    OBVIOUS
  <2>2. ASSUME NEW i \in 1 .. Len(toS'[attempt])
        PROVE  /\ toS'[attempt][i] = "accept" => decision[attempt] = "accept"
               /\ toS'[attempt][i] = "Disconnection" => "R" \in shut[attempt]
    BY <1>1 DEF WireOK
  <2> QED
    BY <1>1, <1>2, <2>1, <2>2 DEF WireOK
<1>5. CalmOK(attempt)'
  BY <1>1, <1>2 DEF CalmOK
<1>6. \A b \in Attempts \ {attempt} : Unmoved(b)
  BY <1>2 DEF Unmoved
<1> QED
  BY <1>3, <1>4, <1>5, <1>6, SenderFrame

\* The sender writes a frame and moves on.
LEMMA SenderWrites ==
  ASSUME Inv, sender \in Active, sender' \in Active, attempt' = attempt, why' = why,
         at' \in 1 .. Len(SenderScript) + Len(Plan) + 1,
         NEW m \in ToReceiver, PutR(attempt, m),
         UNCHANGED <<worker, cut, faults>>, SenderOK',
         faults = {} => Talk(attempt)'
  PROVE  Inv'
<1>1. TypeOK /\ attempt \in Attempts
  BY DEF Inv, TypeOK
<1>2. /\ toR' \in [Attempts -> Seq(ToReceiver)] /\ reset' \in [Attempts -> BOOLEAN]
      /\ toS' = toS /\ shut' = shut
      /\ \A b \in Attempts \ {attempt} : toR'[b] = toR[b] /\ reset'[b] = reset[b]
      /\ IF "R" \in shut[attempt] \/ reset[attempt]
           THEN reset'[attempt] /\ toR'[attempt] = toR[attempt]
           ELSE reset'[attempt] = reset[attempt] /\ toR'[attempt] = Append(toR[attempt], m)
  BY <1>1, WritingUp
<1>3. toS' \in [Attempts -> Seq(ToSender)]
  BY <1>1, <1>2 DEF TypeOK
<1> QED
  BY <1>2, <1>3, SenderMoves

\* When nothing goes wrong, what the sender writes to a worker that has not
\* ended goes behind what is in flight.
LEMMA CalmWrite ==
  ASSUME Inv, faults = {}, sender \in Active, NEW m \in ToReceiver, PutR(attempt, m),
         receiver[attempt] \notin {"saved", "rejected"}
  PROVE  /\ toS' = toS /\ toR'[attempt] = Append(toR[attempt], m)
         /\ toR[attempt] \in Seq(ToReceiver)
<1>1. TypeOK /\ attempt \in Attempts /\ toR[attempt] \in Seq(ToReceiver)
  BY DEF Inv, TypeOK
<1>2. ~ ("R" \in shut[attempt] \/ reset[attempt])
  BY CalmSender
<1> QED
  BY <1>1, <1>2, WritingUp

LEMMA ScriptSendInv ==
  ASSUME Inv, ScriptSend, UNCHANGED <<cut, faults>>
  PROVE  Inv'
<1>1. /\ attempt \in Attempts /\ rat[attempt] \in 1 .. 12 /\ Len(Plan) \in Nat
      /\ sender = "script" /\ at \in 1 .. 11 /\ SenderScript[at][1] = "send"
      /\ SenderScript[at][2] \in ToReceiver
  <2>1. /\ attempt \in Attempts /\ rat[attempt] \in 1 .. 12 /\ Len(Plan) \in Nat
        /\ sender = "script" /\ at \in 1 .. 11 /\ SenderScript[at][1] = "send"
    BY SenderSteps, WorkerSteps, PlanShape DEF Inv, TypeOK, SenderOK, ScriptSend
  <2> QED
    BY <2>1, ScriptFrames
<1>2. /\ sender' = "script" /\ at' = at + 1 /\ attempt' = attempt /\ why' = why
      /\ UNCHANGED worker /\ PutR(attempt, SenderScript[at][2])
      /\ sender \in Active /\ sender' \in Active
  BY <1>1 DEF ScriptSend, Advance, Active
<1>3. at' \in 1 .. Len(SenderScript) + Len(Plan) + 1 /\ SenderOK'
  BY <1>1, <1>2, SenderSteps DEF SenderOK, Active
<1>4. ASSUME faults = {} PROVE Talk(attempt)'
  <2>1. Talk(attempt) /\ receiver[attempt] \in ReceiverPlaces
    BY <1>1, <1>2, <1>4, CalmSender DEF Inv, TypeOK
  <2>2. receiver[attempt] \in {"idle", "script"}
    BY <1>1, <2>1 DEF Talk, ReceiverPlaces
  <2>3. /\ toS' = toS /\ toR'[attempt] = Append(toR[attempt], SenderScript[at][2])
        /\ toR[attempt] \in Seq(ToReceiver)
    BY <1>1, <1>2, <1>4, <2>2, CalmWrite
  <2>4. /\ Between(toR[attempt], Up, WorkerRead[rat[attempt]], SenderSent[at])
        /\ Between(toS[attempt], Down, SenderRead[at], WorkerSent[rat[attempt]])
    BY <2>1, <2>2 DEF Talk
  <2>5. /\ SenderSent[at + 1] = SenderSent[at] + 1 /\ SenderRead[at + 1] = SenderRead[at]
        /\ SenderScript[at][2] = Up[SenderSent[at] + 1]
        /\ SenderSent[at] \in Nat /\ WorkerRead[rat[attempt]] \in Nat
    <3>1. at \in 1 .. 12 /\ rat[attempt] \in 1 .. 12
      BY <1>1
    <3>2. SenderSent[at] \in 0 .. 7 /\ WorkerRead[rat[attempt]] \in 0 .. 7
      BY <3>1, SenderSteps, WorkerSteps
    <3>3. /\ SenderSent[at + 1] = SenderSent[at] + 1
          /\ SenderRead[at + 1] = SenderRead[at]
          /\ SenderScript[at][2] = Up[SenderSent[at] + 1]
      BY <1>1, SenderSteps
    <3> QED
      BY <3>2, <3>3
  <2>6. Between(Append(toR[attempt], SenderScript[at][2]), Up,
                WorkerRead[rat[attempt]], SenderSent[at] + 1)
    BY <1>1, <2>3, <2>4, <2>5, BetweenSent
  <2>7. receiver' = receiver /\ rat' = rat
    BY <1>2 DEF worker
  <2> QED
    BY <1>2, <2>2, <2>3, <2>4, <2>5, <2>6, <2>7 DEF Talk
<1> QED
  BY <1>1, <1>2, <1>3, <1>4, SenderWrites

LEMMA SendChunkInv ==
  ASSUME Inv, SendChunk, UNCHANGED <<cut, faults>>
  PROVE  Inv'
<1>1. /\ attempt \in Attempts /\ Len(Plan) \in Nat /\ sender = "send"
      /\ at \in 1 .. Len(Plan) /\ Plan[at] \in {"data", "last"}
      /\ decision[attempt] = "accept" /\ Len(SenderScript) = 11
  BY SenderSteps, PlanShape DEF Inv, TypeOK, SenderOK, SendChunk, Active
<1>2. /\ sender' = "check" /\ at' = at + 1 /\ attempt' = attempt /\ why' = why
      /\ UNCHANGED worker /\ decision' = decision
      /\ sender \in Active /\ sender' \in Active
  BY <1>1 DEF SendChunk, Advance, Active, worker
<1>3. at' \in 1 .. Len(SenderScript) + Len(Plan) + 1 /\ SenderOK'
  BY <1>1, <1>2 DEF SenderOK, Active
<1>4. PICK m \in {Plan[at], "wrong"} : PutR(attempt, m) /\ (m # Plan[at] => IOFaults)
  BY DEF SendChunk
<1>5. m \in ToReceiver
  BY <1>1, <1>4 DEF ToReceiver
<1>6. ASSUME faults = {} PROVE Talk(attempt)'
  <2>1. /\ Talk(attempt) /\ receiver[attempt] \in ReceiverPlaces
        /\ receiver[attempt] # "failed"
    BY <1>1, <1>2, <1>6, CalmSender DEF Inv, TypeOK
  <2>2. receiver[attempt] = "receiving"
    BY <1>1, <2>1 DEF Talk, ReceiverPlaces
  <2>3. m = Plan[at]
    BY <1>4, <1>6, NoFaults
  <2>4. /\ toS' = toS /\ toR'[attempt] = Append(toR[attempt], Plan[at])
        /\ toR[attempt] \in Seq(ToReceiver)
    BY <1>1, <1>2, <1>4, <1>5, <1>6, <2>2, <2>3, CalmWrite
  <2>5. toS[attempt] = <<>> /\ Stream(attempt)
    BY <1>1, <2>1, <2>2 DEF Talk
  <2>6. Stream(attempt)'
    <3>1. Flow(toR[attempt], at - 1, committed[attempt], 0)
      BY <1>1, <2>5 DEF Stream, PlanSent
    <3>2. at - 1 \in Nat /\ at - 1 + 1 = at
      BY <1>1
    <3>3. Flow(Append(toR[attempt], Plan[at]), at, committed[attempt], 0)
      BY <1>5, <2>3, <2>4, <3>1, <3>2, FlowSent
    <3>4. PlanSent' = at /\ committed' = committed /\ sender' # "confirm"
      BY <1>1, <1>2 DEF PlanSent, worker
    <3> QED
      BY <1>2, <2>4, <3>3, <3>4 DEF Stream
  <2>7. receiver' = receiver
    BY <1>2 DEF worker
  <2> QED
    BY <1>2, <2>2, <2>4, <2>5, <2>6, <2>7 DEF Talk
<1> QED
  BY <1>1, <1>2, <1>3, <1>4, <1>5, <1>6, SenderWrites

LEMMA FinalizeInv ==
  ASSUME Inv, Finalize, UNCHANGED <<cut, faults>>
  PROVE  Inv'
<1>1. /\ attempt \in Attempts /\ Len(Plan) \in Nat /\ sender = "finalize"
      /\ at = Len(Plan) + 1 /\ decision[attempt] = "accept" /\ Len(SenderScript) = 11
      /\ "Disconnection" \in ToReceiver
  BY SenderSteps, PlanShape
     DEF Inv, TypeOK, SenderOK, Finalize, Active, ToReceiver
<1>2. /\ sender' = "confirm" /\ at' = at /\ attempt' = attempt /\ why' = why
      /\ UNCHANGED worker /\ decision' = decision /\ receiver' = receiver
      /\ sender \in Active /\ sender' \in Active /\ PutR(attempt, "Disconnection")
  BY <1>1 DEF Finalize, Advance, Active, worker
<1>3. at' \in 1 .. Len(SenderScript) + Len(Plan) + 1 /\ SenderOK'
  BY <1>1, <1>2 DEF SenderOK, Active
<1>4. ASSUME faults = {} PROVE Talk(attempt)'
  <2>1. /\ Talk(attempt) /\ receiver[attempt] \in ReceiverPlaces
        /\ receiver[attempt] # "failed"
    BY <1>1, <1>2, <1>4, CalmSender DEF Inv, TypeOK
  <2>2. CASE receiver[attempt] = "receiving"
    <3>1. /\ toS' = toS /\ toR'[attempt] = Append(toR[attempt], "Disconnection")
          /\ toR[attempt] \in Seq(ToReceiver)
      BY <1>1, <1>2, <1>4, <2>2, CalmWrite
    <3>2. toS[attempt] = <<>> /\ Stream(attempt)
      BY <1>1, <2>1, <2>2 DEF Talk
    <3>3. Stream(attempt)'
      <4>1. Flow(toR[attempt], Len(Plan), committed[attempt], 0)
        BY <1>1, <3>2 DEF Stream, PlanSent
      <4>2. Flow(Append(toR[attempt], "Disconnection"), Len(Plan), committed[attempt], 1)
        BY <1>1, <3>1, <4>1, FlowSent
      <4>3. PlanSent' = Len(Plan) /\ committed' = committed
        BY <1>2 DEF PlanSent, worker
      <4> QED
        BY <1>2, <3>1, <4>2, <4>3 DEF Stream
    <3> QED
      BY <1>1, <1>2, <2>2, <3>1, <3>2, <3>3 DEF Talk
  <2>3. CASE receiver[attempt] # "receiving"
    <3>1. receiver[attempt] = "saved"
      BY <1>1, <2>1, <2>3 DEF Talk, ReceiverPlaces
    <3> QED
      BY <1>1, <1>2, <3>1 DEF Talk
  <2> QED
    BY <2>2, <2>3
<1> QED
  BY <1>1, <1>2, <1>3, <1>4, SenderWrites

\* What is left of a queue after its head is some of what was in it.
LEMMA SenderTakes ==
  ASSUME TypeOK, NEW a \in Attempts, toS[a] # <<>>, toS' = [toS EXCEPT ![a] = Tail(@)]
  PROVE  /\ toS' \in [Attempts -> Seq(ToSender)] /\ toS'[a] = Tail(toS[a])
         /\ \A b \in Attempts \ {a} : toS'[b] = toS[b]
         /\ \A i \in 1 .. Len(toS'[a]) : \E j \in 1 .. Len(toS[a]) : toS'[a][i] = toS[a][j]
<1>1. toS \in [Attempts -> Seq(ToSender)] /\ toS[a] \in Seq(ToSender)
  BY DEF TypeOK
<1>2. /\ Tail(toS[a]) \in Seq(ToSender) /\ Len(toS[a]) \in Nat \ {0}
      /\ Len(Tail(toS[a])) = Len(toS[a]) - 1
      /\ \A i \in 1 .. Len(toS[a]) - 1 : Tail(toS[a])[i] = toS[a][i + 1]
  BY <1>1, BehindTheHead
<1>3. toS'[a] = Tail(toS[a])
  BY <1>1
<1>4. ASSUME NEW i \in 1 .. Len(toS'[a])
      PROVE  \E j \in 1 .. Len(toS[a]) : toS'[a][i] = toS[a][j]
  <2>1. Len(toS'[a]) = Len(toS[a]) - 1
    BY <1>2, <1>3
  <2>2. i \in 1 .. Len(toS[a]) - 1 /\ i + 1 \in 1 .. Len(toS[a])
    BY <1>2, <2>1
  <2>3. toS'[a][i] = toS[a][i + 1]
    BY <1>2, <1>3, <2>2
  <2> QED
    BY <2>2, <2>3
<1> QED
  BY <1>1, <1>2, <1>3, <1>4

LEMMA AckKeepAliveInv ==
  ASSUME Inv, AckKeepAlive, UNCHANGED <<cut, faults>>
  PROVE  Inv'
<1>1. /\ TypeOK /\ attempt \in Attempts /\ toS[attempt] \in Seq(ToSender)
      /\ toR[attempt] \in Seq(ToReceiver) /\ "KeepAliveAck" \in ToReceiver
      /\ toR \in [Attempts -> Seq(ToReceiver)] /\ reset \in [Attempts -> BOOLEAN]
  BY DEF Inv, TypeOK, ToReceiver
<1>2. /\ sender' = sender /\ at' = at /\ attempt' = attempt /\ why' = why
      /\ UNCHANGED worker /\ shut' = shut /\ receiver' = receiver /\ decision' = decision
      /\ rat' = rat /\ committed' = committed
      /\ sender \in Active /\ toS[attempt] # <<>> /\ Head(toS[attempt]) = "KeepAlive"
      /\ toS' = [toS EXCEPT ![attempt] = Tail(@)]
  BY DEF AckKeepAlive, Active, session, worker
<1>3. /\ toS' \in [Attempts -> Seq(ToSender)] /\ toS'[attempt] = Tail(toS[attempt])
      /\ \A b \in Attempts \ {attempt} : toS'[b] = toS[b]
      /\ \A i \in 1 .. Len(toS'[attempt]) : \E j \in 1 .. Len(toS[attempt]) :
           toS'[attempt][i] = toS[attempt][j]
  BY <1>1, <1>2, SenderTakes
<1>4. /\ at' \in 1 .. Len(SenderScript) + Len(Plan) + 1 /\ SenderOK'
  BY <1>2 DEF Inv, TypeOK, SenderOK
<1>5. Append(toR[attempt], "KeepAliveAck") \in Seq(ToReceiver)
  BY <1>1, Appended
<1>6. /\ toR' \in [Attempts -> Seq(ToReceiver)] /\ reset' \in [Attempts -> BOOLEAN]
      /\ \A b \in Attempts \ {attempt} : toR'[b] = toR[b] /\ reset'[b] = reset[b]
      /\ reset[attempt] => reset'[attempt]
      /\ reset'[attempt] => reset[attempt] \/ "R" \in shut[attempt]
      /\ "R" \notin shut[attempt] => toR'[attempt] = Append(toR[attempt], "KeepAliveAck")
  BY <1>1, <1>5 DEF AckKeepAlive
<1>7. ASSUME faults = {} PROVE Talk(attempt)'
  <2>1. /\ Talk(attempt) /\ receiver[attempt] \in ReceiverPlaces
        /\ receiver[attempt] # "failed"
        /\ receiver[attempt] \notin {"saved", "rejected"} => "R" \notin shut[attempt]
    BY <1>1, <1>2, <1>7, CalmSender DEF TypeOK
  <2>2. receiver[attempt] \notin {"idle", "script"}
    <3> SUFFICES ASSUME receiver[attempt] \in {"idle", "script"} PROVE FALSE
      OBVIOUS
    <3>1. /\ sender = "script"
          /\ Between(toS[attempt], Down, SenderRead[at], WorkerSent[rat[attempt]])
      BY <2>1 DEF Talk
    <3>2. at \in 1 .. 12 /\ rat[attempt] \in 1 .. 12
      BY <1>1, <3>1, WorkerSteps DEF Inv, TypeOK, SenderOK
    <3>3. SenderRead[at] \in 0 .. 4 /\ WorkerSent[rat[attempt]] \in 0 .. 4
      BY <3>2, SenderSteps, WorkerSteps
    <3>4. SenderRead[at] \in Nat /\ WorkerSent[rat[attempt]] \in Nat
      BY <3>3
    <3>5. /\ SenderRead[at] < WorkerSent[rat[attempt]]
          /\ Head(toS[attempt]) = Down[SenderRead[at] + 1]
      BY <1>1, <1>2, <3>1, <3>4, BetweenRead
    <3>6. SenderRead[at] + 1 \in 1 .. 4
      BY <3>3, <3>5
    <3> QED
      BY <1>2, <3>5, <3>6, ScriptFrames
  <2>3. CASE receiver[attempt] = "consent"
    <3>1. /\ sender = "script" /\ at = 12 /\ AllIn(toR[attempt], {"KeepAliveAck"})
          /\ AllIn(toS[attempt], {"KeepAlive"})
      BY <2>1, <2>3 DEF Talk
    <3>2. AllIn(Append(toR[attempt], "KeepAliveAck"), {"KeepAliveAck"})
      BY <1>1, <3>1, AllInSent
    <3>3. toR'[attempt] = Append(toR[attempt], "KeepAliveAck")
      BY <1>6, <2>1, <2>3
    <3>4. AllIn(toS'[attempt], {"KeepAlive"})
      BY <1>1, <1>2, <1>3, <3>1, AllInRead
    <3> QED
      BY <1>2, <2>3, <3>1, <3>2, <3>3, <3>4 DEF Talk
  <2>4. CASE receiver[attempt] = "receiving"
    <3>1. /\ sender = "script" /\ at = 12 /\ committed[attempt] = 0
          /\ AllIn(toR[attempt], {"KeepAliveAck"})
          /\ toS[attempt][Len(toS[attempt])] = "accept"
          /\ \A i \in 1 .. Len(toS[attempt]) - 1 : toS[attempt][i] = "KeepAlive"
      BY <1>2, <2>1, <2>4 DEF Talk
    <3>2. AllIn(toR'[attempt], {"KeepAliveAck"})
      <4>1. AllIn(Append(toR[attempt], "KeepAliveAck"), {"KeepAliveAck"})
        BY <1>1, <3>1, AllInSent
      <4> QED
        BY <1>6, <2>1, <2>4, <4>1
    <3>3. /\ Head(toS[attempt]) = toS[attempt][1] /\ Len(toS[attempt]) \in Nat \ {0}
          /\ Len(Tail(toS[attempt])) = Len(toS[attempt]) - 1
          /\ \A i \in 1 .. Len(toS[attempt]) - 1 :
               Tail(toS[attempt])[i] = toS[attempt][i + 1]
      BY <1>1, <1>2, BehindTheHead
    <3>4. Len(toS[attempt]) \in Nat /\ Len(toS[attempt]) > 1
      <4>1. toS[attempt][1] # toS[attempt][Len(toS[attempt])]
        BY <1>2, <3>1, <3>3
      <4> DEFINE n == Len(toS[attempt])
      <4>2. n # 1 /\ n # 0 /\ n \in Nat
        BY <3>3, <4>1
      <4> HIDE DEF n
      <4>3. n \in Nat /\ n > 1
        BY <4>2
      <4> QED
        BY <4>3 DEF n
    <3>5. /\ Len(toS'[attempt]) = Len(toS[attempt]) - 1
          /\ Len(toS'[attempt]) \in Nat \ {0}
          /\ toS'[attempt][Len(toS'[attempt])] = "accept"
          /\ \A i \in 1 .. Len(toS'[attempt]) - 1 : toS'[attempt][i] = "KeepAlive"
      <4>1. /\ Len(toS[attempt]) - 1 \in 1 .. Len(toS[attempt]) - 1
            /\ Len(toS[attempt]) - 1 + 1 = Len(toS[attempt])
        BY <3>4
      <4>2. ASSUME NEW i \in 1 .. Len(toS[attempt]) - 2
            PROVE  toS'[attempt][i] = "KeepAlive"
        <5>1. i \in 1 .. Len(toS[attempt]) - 1 /\ i + 1 \in 1 .. Len(toS[attempt]) - 1
          BY <3>3
        <5> QED
          BY <1>3, <3>1, <3>3, <5>1
      <4> QED
        BY <1>3, <3>1, <3>3, <4>1, <4>2
    <3>6. toS'[attempt] # <<>>
      BY <3>5, EmptySeq
    <3> QED
      BY <1>2, <2>4, <3>1, <3>2, <3>5, <3>6 DEF Talk
  <2>5. CASE receiver[attempt] = "rejected"
    <3>1. /\ sender = "script" /\ at = 12 /\ AllIn(toS[attempt], {"KeepAlive", "reject"})
      BY <2>1, <2>5 DEF Talk
    <3>2. AllIn(toS'[attempt], {"KeepAlive", "reject"})
      BY <1>1, <1>2, <1>3, <3>1, AllInRead
    <3> QED
      BY <1>2, <2>5, <3>1, <3>2 DEF Talk
  <2>6. CASE receiver[attempt] = "saved"
    BY <1>2, <2>1, <2>6 DEF Talk
  <2> QED
    BY <2>1, <2>2, <2>3, <2>4, <2>5, <2>6 DEF ReceiverPlaces
<1> QED
  BY <1>2, <1>3, <1>4, <1>6, <1>7, SenderMoves

\* What the sender finds in its script when nothing goes wrong: the frame it
\* waits for, the answer, or nothing more than a refusal.
LEMMA CalmReading ==
  ASSUME Inv, faults = {}, Reading, toS[attempt] # <<>>, Head(toS[attempt]) # "KeepAlive"
  PROVE  IF at <= Len(SenderScript)
           THEN /\ Head(toS[attempt]) = SenderScript[at][2]
                /\ receiver[attempt] \in {"idle", "script"}
           ELSE \/ Head(toS[attempt]) = "accept" /\ receiver[attempt] = "receiving"
                   /\ Tail(toS[attempt]) = <<>>
                \/ Head(toS[attempt]) = "reject" /\ receiver[attempt] = "rejected"
<1>1. /\ TypeOK /\ attempt \in Attempts /\ toS[attempt] \in Seq(ToSender)
      /\ sender = "script" /\ sender \in Active /\ at \in 1 .. 12
      /\ rat[attempt] \in 1 .. 12 /\ Len(SenderScript) = 11
  <2>1. TypeOK /\ SenderOK /\ sender = "script"
    BY DEF Inv, Reading
  <2>2. Len(SenderScript) = 11 /\ Len(ReceiverScript) = 11
    BY SenderSteps, WorkerSteps
  <2> QED
    BY <2>1, <2>2 DEF TypeOK, SenderOK, Active
<1>2. /\ Talk(attempt) /\ receiver[attempt] \in ReceiverPlaces
  BY <1>1, CalmSender DEF TypeOK
<1>3. CASE receiver[attempt] \in {"idle", "script"}
  <2>1. Between(toS[attempt], Down, SenderRead[at], WorkerSent[rat[attempt]])
    BY <1>2, <1>3 DEF Talk
  <2>2. SenderRead[at] \in 0 .. 4 /\ WorkerSent[rat[attempt]] \in 0 .. 4
    BY <1>1, SenderSteps, WorkerSteps
  <2>a. SenderRead[at] \in Nat /\ WorkerSent[rat[attempt]] \in Nat
    BY <2>2
  <2>3. /\ SenderRead[at] < WorkerSent[rat[attempt]]
        /\ Head(toS[attempt]) = Down[SenderRead[at] + 1]
    BY <1>1, <2>1, <2>a, BetweenRead
  <2>4. at # 12
    BY <2>2, <2>3, ScriptFrames
  <2>5. at \in 1 .. 11 /\ SenderScript[at][1] = "recv"
    BY <1>1, <2>4 DEF Reading
  <2>6. SenderScript[at][2] = Down[SenderRead[at] + 1]
    BY <2>5, SenderSteps
  <2> QED
    BY <1>1, <1>3, <2>3, <2>5, <2>6
<1>4. CASE receiver[attempt] \notin {"idle", "script"}
  <2>1. at = 12
    BY <1>1, <1>2, <1>4 DEF Talk, ReceiverPlaces
  <2>2. /\ Head(toS[attempt]) = toS[attempt][1] /\ Len(toS[attempt]) \in Nat \ {0}
        /\ Tail(toS[attempt]) \in Seq(ToSender)
        /\ Len(Tail(toS[attempt])) = Len(toS[attempt]) - 1
    BY <1>1, BehindTheHead
  <2>3. receiver[attempt] # "consent"
    BY <1>2, <2>2 DEF Talk, AllIn
  <2>4. CASE receiver[attempt] = "rejected"
    BY <1>1, <1>2, <2>1, <2>2, <2>4 DEF Talk, AllIn
  <2>5. CASE receiver[attempt] = "receiving"
    <3>1. /\ toS[attempt][Len(toS[attempt])] = "accept"
          /\ \A i \in 1 .. Len(toS[attempt]) - 1 : toS[attempt][i] = "KeepAlive"
      BY <1>1, <1>2, <2>5 DEF Talk
    <3>2. Len(toS[attempt]) = 1
      <4> DEFINE n == Len(toS[attempt])
      <4>1. 1 \notin 1 .. n - 1 /\ n \in Nat /\ n # 0
        BY <2>2, <3>1
      <4> HIDE DEF n
      <4>2. n = 1
        BY <4>1
      <4> QED
        BY <4>2 DEF n
    <3>3. Tail(toS[attempt]) = <<>>
      <4>1. Len(Tail(toS[attempt])) = 0
        BY <2>2, <3>2
      <4> QED
        BY <2>2, <4>1, EmptySeq
    <3> QED
      BY <1>1, <2>1, <2>2, <2>5, <3>1, <3>2, <3>3
  <2> QED
    BY <1>1, <1>2, <1>4, <2>3, <2>4, <2>5 DEF Talk, ReceiverPlaces
<1> QED
  BY <1>3, <1>4

\* The sender takes a frame and moves on.
LEMMA SenderReads ==
  ASSUME Inv, sender \in Active, sender' \in Active, attempt' = attempt, why' = why,
         at' \in 1 .. Len(SenderScript) + Len(Plan) + 1,
         toS[attempt] # <<>>, TakeS,
         UNCHANGED <<worker, cut, faults, toR, shut, reset>>, SenderOK',
         faults = {} => Talk(attempt)'
  PROVE  Inv'
<1>1. /\ TypeOK /\ attempt \in Attempts
      /\ toR \in [Attempts -> Seq(ToReceiver)] /\ reset \in [Attempts -> BOOLEAN]
  BY DEF Inv, TypeOK
<1>2. /\ toS' \in [Attempts -> Seq(ToSender)]
      /\ \A b \in Attempts \ {attempt} : toS'[b] = toS[b]
      /\ \A i \in 1 .. Len(toS'[attempt]) : \E j \in 1 .. Len(toS[attempt]) :
           toS'[attempt][i] = toS[attempt][j]
  BY <1>1, SenderTakes DEF TakeS
<1>3. toR' = toR /\ shut' = shut /\ reset' = reset
  OBVIOUS
<1> QED
  BY <1>1, <1>2, <1>3, SenderMoves

LEMMA ScriptReadInv ==
  ASSUME Inv, ScriptRead, UNCHANGED <<cut, faults>>
  PROVE  Inv'
<1> DEFINE m == Head(toS[attempt])
           rest == Tail(toS[attempt])
<1>1. /\ TypeOK /\ attempt \in Attempts /\ toS[attempt] \in Seq(ToSender)
      /\ Reading /\ toS[attempt] # <<>> /\ m # "KeepAlive" /\ UNCHANGED worker
      /\ sender = "script" /\ sender \in Active /\ at \in 1 .. 12
      /\ rat[attempt] \in 1 .. 12 /\ Len(SenderScript) = 11 /\ Len(Plan) \in Nat \ {0}
  <2>1. /\ TypeOK /\ SenderOK /\ Reading /\ sender = "script" /\ UNCHANGED worker
        /\ toS[attempt] # <<>> /\ m # "KeepAlive"
    BY DEF Inv, ScriptRead, Reading
  <2>2. Len(SenderScript) = 11 /\ Len(ReceiverScript) = 11 /\ Len(Plan) \in Nat \ {0}
    BY SenderSteps, WorkerSteps, PlanShape
  <2> HIDE DEF m
  <2> QED
    BY <2>1, <2>2 DEF TypeOK, SenderOK, Active
<1>2. {"protocol", "rejected"} \subseteq Errors
  BY DEF Errors
<1>3. /\ receiver' = receiver /\ rat' = rat /\ committed' = committed /\ decision' = decision
      /\ receiver[attempt] \in ReceiverPlaces
  BY <1>1 DEF worker, TypeOK
<1>4. CASE at \in 1 .. 11 /\ m = SenderScript[at][2]
  <2>1. /\ TakeS /\ Advance("script", at + 1) /\ UNCHANGED <<toR, shut, reset>>
        /\ SenderScript[at][1] = "recv"
    BY <1>1, <1>4 DEF ScriptRead, Reading
  <2>2. /\ sender' = "script" /\ at' = at + 1 /\ attempt' = attempt /\ why' = why
        /\ sender' \in Active
    BY <2>1 DEF Advance, Active
  <2>3. at' \in 1 .. Len(SenderScript) + Len(Plan) + 1 /\ SenderOK'
    BY <1>1, <1>4, <2>2 DEF SenderOK, Active
  <2>4. ASSUME faults = {} PROVE Talk(attempt)'
    <3>1. receiver[attempt] \in {"idle", "script"} /\ Talk(attempt)
      BY <1>1, <1>4, <2>4, CalmReading, CalmSender
    <3>2. /\ Between(toR[attempt], Up, WorkerRead[rat[attempt]], SenderSent[at])
          /\ Between(toS[attempt], Down, SenderRead[at], WorkerSent[rat[attempt]])
      BY <3>1 DEF Talk
    <3>3. SenderRead[at] \in 0 .. 4 /\ WorkerSent[rat[attempt]] \in 0 .. 4
      BY <1>1, SenderSteps, WorkerSteps
    <3>4. Between(rest, Down, SenderRead[at] + 1, WorkerSent[rat[attempt]])
      <4>1. SenderRead[at] \in Nat /\ WorkerSent[rat[attempt]] \in Nat
        BY <3>3
      <4> QED
        BY <1>1, <3>2, <4>1, BetweenRead
    <3>5. SenderSent[at + 1] = SenderSent[at] /\ SenderRead[at + 1] = SenderRead[at] + 1
      BY <1>4, <2>1, SenderSteps
    <3>6. toS'[attempt] = rest /\ toR' = toR
      BY <1>1, <2>1, SenderTakes DEF TakeS
    <3> QED
      BY <1>3, <2>2, <3>1, <3>2, <3>4, <3>5, <3>6 DEF Talk
  <2> QED
    BY <1>1, <2>1, <2>2, <2>3, <2>4, SenderReads
<1>5. CASE at \in 1 .. 11 /\ m # SenderScript[at][2]
  <2>1. SenderFails("protocol", rest)
    BY <1>1, <1>5 DEF ScriptRead
  <2>2. faults # {}
    BY <1>1, <1>5, CalmReading
  <2> QED
    BY <1>1, <1>2, <2>1, <2>2, SenderFailing
<1>6. CASE at = 12 /\ m = "accept"
  <2>1. TakeS /\ Advance("check", 1) /\ UNCHANGED <<toR, shut, reset>>
    BY <1>1, <1>6 DEF ScriptRead
  <2>2. /\ sender' = "check" /\ at' = 1 /\ attempt' = attempt /\ why' = why
        /\ sender' \in Active
    BY <2>1 DEF Advance, Active
  <2>3. decision[attempt] = "accept"
    <3>1. m = toS[attempt][1] /\ 1 \in 1 .. Len(toS[attempt])
      BY <1>1, BehindTheHead
    <3> QED
      BY <1>1, <1>6, <3>1 DEF Inv, WireOK
  <2>4. at' \in 1 .. Len(SenderScript) + Len(Plan) + 1 /\ SenderOK'
    BY <1>1, <1>3, <2>2, <2>3 DEF SenderOK, Active
  <2>5. ASSUME faults = {} PROVE Talk(attempt)'
    <3>1. receiver[attempt] = "receiving" /\ rest = <<>> /\ Talk(attempt)
      BY <1>1, <1>6, <2>5, CalmReading, CalmSender
    <3>2. committed[attempt] = 0 /\ AllIn(toR[attempt], {"KeepAliveAck"})
      BY <1>1, <3>1 DEF Talk
    <3>3. toS'[attempt] = <<>> /\ toR' = toR
      BY <1>1, <2>1, <3>1, SenderTakes DEF TakeS
    <3>4. Flow(toR[attempt], 0, 0, 0)
      <4>1. toR[attempt] \in Seq(ToReceiver) /\ Len(toR[attempt]) \in Nat
        BY <1>1 DEF TypeOK
      <4>2. \A i \in 1 .. Len(toR[attempt]) : toR[attempt][i] = "KeepAliveAck"
        BY <3>2 DEF AllIn
      <4>3. /\ Len(toR[attempt]) = Len(toR[attempt]) + (0 - 0) + 0 /\ 0 = Lasts(0)
            /\ \A i \in 1 .. 0 - 0 : toR[attempt][Len(toR[attempt]) + i] = Plan[0 + i]
        BY <4>1, FilesOfThePlan
      <4> QED
        BY <4>1, <4>2, <4>3 DEF Flow
    <3>5. Stream(attempt)'
      <4>1. PlanSent' = 0
        BY <2>2 DEF PlanSent
      <4> QED
        BY <1>3, <2>2, <3>2, <3>3, <3>4, <4>1 DEF Stream
    <3> QED
      BY <1>3, <2>2, <3>1, <3>3, <3>5 DEF Talk
  <2> QED
    BY <1>1, <2>1, <2>2, <2>4, <2>5, SenderReads
<1>7. CASE at = 12 /\ m # "accept"
  <2>1. PICK error \in {"protocol", "rejected"} : SenderFails(error, rest)
    <3>1. CASE m = "reject"
      BY <1>1, <1>7, <3>1 DEF ScriptRead
    <3>2. CASE m # "reject"
      BY <1>1, <1>7, <3>2 DEF ScriptRead
    <3> QED
      BY <3>1, <3>2
  <2>2. ASSUME faults = {} PROVE "R" \in shut[attempt]
    <3>1. receiver[attempt] = "rejected"
      BY <1>1, <1>7, <2>2, CalmReading
    <3> QED
      BY <1>1, <2>2, <3>1, CalmSender
  <2> QED
    BY <1>1, <1>2, <2>1, <2>2, SenderFailing
<1> QED
  BY <1>1, <1>4, <1>5, <1>6, <1>7

\* The keep-alives of a queue are counted, and none of an empty queue.
LEMMA BeatsCounted ==
  ASSUME NEW S, NEW q \in Seq(S)
  PROVE  Beats(q) \in Nat /\ (q = <<>> => Beats(q) = 0)
<1> DEFINE B == {i \in 1 .. Len(q) : q[i] = "KeepAlive"}
<1>1. Len(q) \in Nat /\ (q = <<>> => Len(q) = 0)
  OBVIOUS
<1>2. IsFiniteSet(1 .. Len(q)) /\ B \in SUBSET (1 .. Len(q))
  BY <1>1, FS_Interval
<1>3. IsFiniteSet(B)
  BY <1>2, FS_Subset
<1>4. Cardinality(B) \in Nat
  BY <1>3, FS_CardinalityType
<1>5. ASSUME q = <<>> PROVE Cardinality(B) = 0
  <2>1. B = {}
    BY <1>1, <1>5
  <2> QED
    BY <2>1, FS_EmptySet
<1> QED
  BY <1>4, <1>5 DEF Beats

LEMMA CheckPeerInv ==
  ASSUME Inv, CheckPeer, UNCHANGED <<cut, faults>>
  PROVE  Inv'
<1> DEFINE q == toS[attempt]
           Gone == \/ "Disconnection" \in {q[i] : i \in 1 .. Len(q)}
                   \/ "R" \in shut[attempt] \/ reset[attempt]
           acks == [i \in 1 .. Beats(q) |-> "KeepAliveAck"]
<1>1. /\ TypeOK /\ SenderOK /\ attempt \in Attempts /\ UNCHANGED worker
      /\ sender = "check" /\ sender \in Active /\ at \in 1 .. Len(Plan) + 1
      /\ Len(Plan) \in Nat \ {0} /\ Len(SenderScript) = 11
      /\ decision[attempt] = "accept" /\ WireOK(attempt)
  <2>1. /\ TypeOK /\ SenderOK /\ sender = "check" /\ UNCHANGED worker
    BY DEF Inv, CheckPeer
  <2>2. Len(SenderScript) = 11 /\ Len(Plan) \in Nat \ {0}
    BY SenderSteps, PlanShape
  <2> QED
    BY <2>1, <2>2 DEF TypeOK, SenderOK, Active, Inv
<1>2. /\ q \in Seq(ToSender) /\ toR[attempt] \in Seq(ToReceiver)
      /\ toR \in [Attempts -> Seq(ToReceiver)] /\ toS \in [Attempts -> Seq(ToSender)]
      /\ reset \in [Attempts -> BOOLEAN]
  BY <1>1 DEF TypeOK
<1>3. CASE Gone
  <2>1. PICK error \in {"io", "protocol"} : SenderFails(error, <<>>)
    BY <1>3 DEF CheckPeer
  <2>2. "R" \in shut[attempt] \/ reset[attempt]
    BY <1>1, <1>3 DEF WireOK
  <2>3. error \in Errors
    BY DEF Errors
  <2> QED
    BY <1>1, <2>1, <2>2, <2>3, SenderFailing
<1>4. CASE ~ Gone
  <2>1. /\ Advance(IF at <= Len(Plan) THEN "send" ELSE "finalize", at)
        /\ toS' = [toS EXCEPT ![attempt] = <<>>]
        /\ toR' = [toR EXCEPT ![attempt] = @ \o acks]
        /\ shut' = shut /\ reset' = reset
    BY <1>4 DEF CheckPeer
  <2>2. /\ sender' = (IF at <= Len(Plan) THEN "send" ELSE "finalize") /\ at' = at
        /\ attempt' = attempt /\ why' = why /\ sender' \in Active
    BY <2>1 DEF Advance, Active
  <2>3. /\ decision' = decision /\ receiver' = receiver /\ committed' = committed
        /\ receiver[attempt] \in ReceiverPlaces
    BY <1>1 DEF worker, TypeOK
  <2>4. at' \in 1 .. Len(SenderScript) + Len(Plan) + 1 /\ SenderOK'
    BY <1>1, <2>2, <2>3 DEF SenderOK, Active
  <2>5. Beats(q) \in Nat /\ (q = <<>> => Beats(q) = 0)
    BY <1>2, BeatsCounted
  <2>6. acks \in Seq(ToReceiver) /\ (Beats(q) = 0 => acks = <<>>)
    <3>1. acks \in [1 .. Beats(q) -> ToReceiver]
      BY DEF ToReceiver
    <3>2. acks \in Seq(ToReceiver) /\ Len(acks) = Beats(q)
      BY <2>5, <3>1
    <3> QED
      BY <3>2, EmptySeq
  <2>7. /\ toR[attempt] \o acks \in Seq(ToReceiver)
        /\ acks = <<>> => toR[attempt] \o acks = toR[attempt]
    BY <1>2, <2>6, ConcatProperties, ConcatEmptySeq
  <2>8. /\ toR' \in [Attempts -> Seq(ToReceiver)] /\ toR'[attempt] = toR[attempt] \o acks
        /\ \A b \in Attempts \ {attempt} : toR'[b] = toR[b]
    BY <1>1, <1>2, <2>1, <2>7
  <2>9. /\ toS' \in [Attempts -> Seq(ToSender)] /\ toS'[attempt] = <<>>
        /\ \A b \in Attempts \ {attempt} : toS'[b] = toS[b]
    <3>1. <<>> \in Seq(ToSender)
      OBVIOUS
    <3> QED
      BY <1>1, <1>2, <2>1, <3>1
  <2>10. \A i \in 1 .. Len(toS'[attempt]) : \E j \in 1 .. Len(toS[attempt]) :
           toS'[attempt][i] = toS[attempt][j]
    BY <2>9, EmptySeq
  <2>11. ASSUME faults = {} PROVE Talk(attempt)'
    <3>1. /\ Talk(attempt) /\ receiver[attempt] # "failed"
          /\ receiver[attempt] \notin {"saved", "rejected"}
      BY <1>1, <1>4, <2>11, CalmSender
    <3>2. receiver[attempt] = "receiving"
      BY <1>1, <2>3, <3>1 DEF Talk, ReceiverPlaces
    <3>3. toS[attempt] = <<>> /\ Stream(attempt)
      BY <1>1, <3>1, <3>2 DEF Talk
    <3>4. toR'[attempt] = toR[attempt]
      BY <2>5, <2>6, <2>7, <2>8, <3>3
    <3>5. PlanSent' = PlanSent /\ sender # "confirm" /\ sender' # "confirm"
      BY <1>1, <2>2 DEF PlanSent
    <3>6. Stream(attempt)'
      BY <2>2, <2>3, <3>3, <3>4, <3>5 DEF Stream
    <3>7. sender' # "script"
      BY <2>2
    <3> QED
      BY <2>2, <2>3, <2>9, <3>2, <3>6, <3>7 DEF Talk
  <2>12. UNCHANGED <<worker, cut, faults, shut>>
    BY <1>1, <2>1
  <2>13. /\ reset' \in [Attempts -> BOOLEAN] /\ (reset[attempt] => reset'[attempt])
         /\ \A b \in Attempts \ {attempt} : reset'[b] = reset[b]
         /\ reset'[attempt] => reset[attempt] \/ "R" \in shut[attempt]
    BY <1>2, <2>1
  <2> QED
    BY <1>1, <2>2, <2>4, <2>8, <2>9, <2>10, <2>11, <2>12, <2>13, SenderMoves
<1> QED
  BY <1>3, <1>4

\* The second attempt begins on a connection nothing has happened to.
LEMMA RetryInv ==
  ASSUME Inv, Retry, UNCHANGED <<cut, faults>>
  PROVE  Inv'
<1>1. /\ TypeOK /\ attempt \in Attempts /\ attempt \in Nat /\ sender = "failed"
      /\ attempt < MaxAttempts /\ MaxAttempts \in Nat
      /\ \A a \in Attempts : a \in Nat /\ WorkerOK(a) /\ WireOK(a) /\ CalmOK(a)
  <2>1. /\ TypeOK /\ attempt \in Attempts /\ sender = "failed"
        /\ attempt < MaxAttempts /\ MaxAttempts \in Nat
    BY PlanShape DEF Inv, TypeOK, Retry
  <2>2. Attempts \subseteq Nat
    BY DEF Attempts
  <2> QED
    BY <2>1, <2>2 DEF Inv
<1>2. /\ attempt' = attempt + 1 /\ sender' = "script" /\ at' = 1 /\ why' = why
      /\ receiver' = receiver /\ rat' = rat /\ decision' = decision
      /\ committed' = committed /\ beats' = beats /\ toR' = toR /\ toS' = toS
      /\ shut' = shut /\ reset' = reset /\ cut' = cut /\ faults' = faults
      /\ attempt' \in Attempts /\ sender' \in Active
  BY <1>1 DEF Retry, worker, wire, Active, Attempts
<1>3. TypeOK'
  <2>1. 1 \in 1 .. Len(SenderScript) + Len(Plan) + 1
    BY SenderSteps, PlanShape
  <2> QED
    BY <1>1, <1>2, <2>1 DEF TypeOK, SenderPlaces
<1>4. SenderOK'
  BY <1>2 DEF SenderOK, Active
<1>5. ASSUME NEW a \in Attempts
      PROVE  WorkerOK(a)' /\ WireOK(a)' /\ CalmOK(a)'
  <2>1. WorkerOK(a) /\ WireOK(a) /\ CalmOK(a) /\ a \in Nat
    BY <1>1
  <2>2. WorkerOK(a)'
    BY <1>2, <2>1 DEF WorkerOK
  <2>3. WireOK(a)'
    <3>1. "S" \in shut[a] <=> a < attempt + 1
      BY <1>1, <2>1 DEF WireOK, Active
    <3>2. a > attempt + 1 => a > attempt
      BY <1>1, <2>1
    <3>3. ~ (a = attempt' /\ sender' \notin Active)
      BY <1>2
    <3> QED
      BY <1>2, <2>1, <3>1, <3>2, <3>3 DEF WireOK
  <2>4. CalmOK(a)'
    <3>1. ASSUME a = attempt + 1 PROVE Talk(a)'
      <4>1. /\ receiver[a] = "idle" /\ toR[a] = <<>> /\ toS[a] = <<>> /\ rat[a] = 1
        BY <1>1, <2>1, <3>1 DEF WireOK, WorkerOK
      <4>2. /\ Between(<<>>, Up, WorkerRead[1], SenderSent[1])
            /\ Between(<<>>, Down, SenderRead[1], WorkerSent[1])
        BY ScriptFrames, EmptySeq DEF Between
      <4> QED
        BY <1>2, <4>1, <4>2 DEF Talk
    <3> QED
      BY <1>2, <2>1, <3>1 DEF CalmOK
  <2> QED
    BY <2>2, <2>3, <2>4
<1>6. Attempts' = Attempts
  BY DEF Attempts
<1> QED
  BY <1>3, <1>4, <1>5, <1>6 DEF Inv

LEMMA SenderInvariant ==
  ASSUME Inv, SenderStep
  PROVE  Inv'
BY ScriptSendInv, WriteFailsInv, ScriptReadFailsInv, AckKeepAliveInv, ScriptReadInv,
   CheckPeerInv, SendChunkInv, SourceFailsInv, FinalizeInv, ConfirmInv,
   ConfirmTimesOutInv, RetryInv
   DEF SenderStep

--------------------------------------------------------------------------
(* The workers.                                                            *)

\* Only the worker of a moves, from a place that is not an end to another.
LEMMA WorkerMoves ==
  ASSUME Inv, NEW a \in Attempts, a <= attempt, UNCHANGED <<session, shut, cut, faults>>,
         receiver[a] \notin Ended, NEW to \in ReceiverPlaces \ Ended,
         receiver' = [receiver EXCEPT ![a] = to],
         rat' \in [Attempts -> 1 .. Len(ReceiverScript) + 1],
         decision' \in [Attempts -> {"none", "accept", "reject"}],
         committed' \in [Attempts -> 0 .. Files], beats' \in [Attempts -> 0 .. MaxBeats],
         toR' \in [Attempts -> Seq(ToReceiver)], toS' \in [Attempts -> Seq(ToSender)],
         reset' \in [Attempts -> BOOLEAN],
         \A b \in Attempts \ {a} :
           /\ rat'[b] = rat[b] /\ decision'[b] = decision[b] /\ committed'[b] = committed[b]
           /\ toR'[b] = toR[b] /\ toS'[b] = toS[b] /\ reset'[b] = reset[b],
         decision[a] # "none" => decision'[a] = decision[a],
         reset[a] => reset'[a],
         reset'[a] => reset[a] \/ "S" \in shut[a],
         \A i \in 1 .. Len(toS'[a]) :
           \/ \E j \in 1 .. Len(toS[a]) : toS'[a][i] = toS[a][j]
           \/ toS'[a][i] = "accept" /\ decision'[a] = "accept"
           \/ toS'[a][i] \notin {"accept", "Disconnection"},
         WorkerOK(a)',
         faults = {} /\ a = attempt /\ sender \in Active => Talk(a)'
  PROVE  Inv'
<1>1. /\ TypeOK /\ attempt \in Nat /\ a \in Nat /\ WireOK(a) /\ CalmOK(a)
      /\ receiver \in [Attempts -> ReceiverPlaces]
  BY DEF Inv, TypeOK, Attempts
<1>2. /\ attempt' = attempt /\ sender' = sender /\ at' = at /\ why' = why /\ shut' = shut
      /\ cut' = cut /\ faults' = faults /\ receiver'[a] = to
      /\ receiver' \in [Attempts -> ReceiverPlaces]
      /\ \A b \in Attempts \ {a} : receiver'[b] = receiver[b]
  BY <1>1 DEF session
<1>3. TypeOK'
  BY <1>1, <1>2 DEF TypeOK
<1>4. WireOK(a)'
  <2>1. ASSUME NEW i \in 1 .. Len(toS'[a])
        PROVE  /\ toS'[a][i] = "accept" => decision'[a] = "accept"
               /\ toS'[a][i] = "Disconnection" => "R" \in shut[a]
    BY <1>1 DEF WireOK
  <2> QED
    BY <1>1, <1>2, <2>1 DEF WireOK
<1>5. CalmOK(a)'
  <2>1. ASSUME faults = {} PROVE "S" \notin shut[a]
    BY <1>1, <2>1 DEF CalmOK, Ended
  <2> QED
    BY <1>2, <2>1 DEF CalmOK, Ended
<1>6. \A b \in Attempts \ {a} : Unmoved(b)
  BY <1>2 DEF Unmoved
<1> QED
  BY <1>2, <1>3, <1>4, <1>5, <1>6, WorkerFrame

\* The worker of a ends.
LEMMA WorkerEnds ==
  ASSUME Inv, NEW a \in Attempts, UNCHANGED <<session, cut, faults>>,
         UNCHANGED <<rat, decision, committed, beats>>,
         receiver[a] \notin Ended \cup {"idle"}, NEW to \in Ended, Place(a, to),
         NEW m \in Seq(ToSender), NEW unread, CloseR(a, m, unread),
         \A i \in 1 .. Len(m) : m[i] # "accept",
         faults = {} =>
           /\ to # "failed" /\ (to = "saved" => committed[a] = Files)
           /\ a = attempt /\ sender \in Active => Talk(a)'
  PROVE  Inv'
<1>1. /\ TypeOK /\ attempt \in Nat /\ a \in Nat
      /\ WorkerOK(a) /\ WireOK(a) /\ CalmOK(a)
      /\ receiver \in [Attempts -> ReceiverPlaces]
  BY DEF Inv, TypeOK, Attempts
<1>2. to \in ReceiverPlaces /\ to \notin {"idle", "script", "consent", "receiving"}
  BY DEF ReceiverPlaces, Ended
<1>3. /\ attempt' = attempt /\ sender' = sender /\ at' = at /\ why' = why
      /\ rat' = rat /\ decision' = decision /\ committed' = committed /\ beats' = beats
      /\ cut' = cut /\ faults' = faults /\ receiver'[a] = to
      /\ receiver' \in [Attempts -> ReceiverPlaces]
      /\ \A b \in Attempts \ {a} : receiver'[b] = receiver[b]
  BY <1>1, <1>2 DEF session, Place
<1>4. /\ toR' \in [Attempts -> Seq(ToReceiver)] /\ toS' \in [Attempts -> Seq(ToSender)]
      /\ shut' \in [Attempts -> SUBSET {"S", "R"}] /\ reset' \in [Attempts -> BOOLEAN]
      /\ shut'[a] = shut[a] \cup {"R"} /\ (reset[a] => reset'[a])
      /\ \A i \in 1 .. Len(toS'[a]) :
           \/ \E j \in 1 .. Len(toS[a]) : toS'[a][i] = toS[a][j]
           \/ \E j \in 1 .. Len(m) : toS'[a][i] = m[j]
      /\ \A b \in Attempts \ {a} : /\ toR'[b] = toR[b] /\ toS'[b] = toS[b]
                                   /\ shut'[b] = shut[b] /\ reset'[b] = reset[b]
  BY <1>1, ClosingR
<1>5. TypeOK'
  BY <1>1, <1>3, <1>4 DEF TypeOK
<1>6. WorkerOK(a)'
  BY <1>1, <1>2, <1>3 DEF WorkerOK
<1>7. WireOK(a)'
  <2>1. ASSUME NEW i \in 1 .. Len(toS'[a])
        PROVE  toS'[a][i] = "accept" => decision[a] = "accept"
    <3>1. CASE \E j \in 1 .. Len(toS[a]) : toS'[a][i] = toS[a][j]
      BY <1>1, <3>1 DEF WireOK
    <3>2. CASE \E j \in 1 .. Len(m) : toS'[a][i] = m[j]
      BY <3>2
    <3> QED
      BY <1>4, <3>1, <3>2
  <2>2. a <= attempt
    BY <1>1 DEF WireOK
  <2> QED
    BY <1>1, <1>3, <1>4, <2>1, <2>2 DEF WireOK
<1>8. CalmOK(a)'
  <2>1. "S" \in shut'[a] <=> "S" \in shut[a]
    BY <1>4
  <2>2. faults = {} => "S" \notin shut[a]
    BY <1>1 DEF CalmOK, Ended
  <2> QED
    BY <1>3, <2>1, <2>2 DEF CalmOK
<1>9. \A b \in Attempts \ {a} : Unmoved(b)
  BY <1>3, <1>4 DEF Unmoved
<1> QED
  BY <1>3, <1>5, <1>6, <1>7, <1>8, <1>9, WorkerFrame

\* A worker fails only when something goes wrong.
LEMMA WorkerFailing ==
  ASSUME Inv, NEW a \in Attempts, UNCHANGED <<cut, faults>>, faults # {},
         receiver[a] \notin Ended \cup {"idle"}, NEW unread, ReceiverFails(a, unread)
  PROVE  Inv'
<1>1. <<>> \in Seq(ToSender) /\ Len(<<>>) = 0 /\ "failed" \in Ended
  BY DEF Ended
<1>2. \A i \in 1 .. Len(<<>>) : <<>>[i] # "accept"
  BY <1>1
<1>3. Place(a, "failed") /\ CloseR(a, <<>>, unread)
  BY DEF ReceiverFails
<1> QED
  BY <1>1, <1>2, <1>3, WorkerEnds DEF ReceiverFails

LEMMA AdmitInv ==
  ASSUME Inv, NEW a \in Attempts, Admit(a), UNCHANGED <<cut, faults>>
  PROVE  Inv'
<1>1. /\ TypeOK /\ WorkerOK(a) /\ CalmOK(a) /\ receiver[a] = "idle" /\ a <= attempt
      /\ receiver \in [Attempts -> ReceiverPlaces]
  BY DEF Inv, TypeOK, Admit
<1>2. /\ attempt' = attempt /\ sender' = sender /\ at' = at /\ rat' = rat
      /\ decision' = decision /\ committed' = committed /\ beats' = beats
      /\ toR' = toR /\ toS' = toS /\ shut' = shut /\ reset' = reset
      /\ receiver' = [receiver EXCEPT ![a] = "script"] /\ receiver'[a] = "script"
  BY <1>1 DEF Admit, Place, session, wire
<1>3. "script" \in ReceiverPlaces \ Ended /\ "idle" \notin Ended
  BY DEF ReceiverPlaces, Ended
<1>4. WorkerOK(a)'
  BY <1>1, <1>2 DEF WorkerOK
<1>5. Talk(a) => Talk(a)'
  BY <1>1, <1>2 DEF Talk
<1>6. UNCHANGED <<session, shut, cut, faults>>
  BY DEF Admit, wire
<1>7. /\ rat' \in [Attempts -> 1 .. Len(ReceiverScript) + 1]
      /\ decision' \in [Attempts -> {"none", "accept", "reject"}]
      /\ committed' \in [Attempts -> 0 .. Files] /\ beats' \in [Attempts -> 0 .. MaxBeats]
      /\ toR' \in [Attempts -> Seq(ToReceiver)] /\ toS' \in [Attempts -> Seq(ToSender)]
      /\ reset' \in [Attempts -> BOOLEAN]
  BY <1>1, <1>2 DEF TypeOK
<1>8. faults = {} /\ a = attempt /\ sender \in Active => Talk(a)'
  BY <1>1, <1>5 DEF CalmOK
<1> QED
  BY <1>1, <1>2, <1>3, <1>4, <1>6, <1>7, <1>8, WorkerMoves

LEMMA WorkerLosesPeerInv ==
  ASSUME Inv, NEW a \in Attempts, WorkerLosesPeer(a), UNCHANGED <<cut, faults>>
  PROVE  Inv'
<1>1. receiver[a] \in {"script", "consent", "receiving"} /\ ReceiverFails(a, toR[a])
  BY DEF WorkerLosesPeer, ReceiverScripted
<1>2. faults # {}
  <2> SUFFICES ASSUME faults = {} PROVE FALSE
    OBVIOUS
  <2>1. "S" \notin shut[a] /\ ~ reset[a] /\ ~ Timeouts
    BY <1>1, CalmWorker, NoFaults
  <2> QED
    BY <2>1 DEF WorkerLosesPeer, EndedR, LateR
<1>3. receiver[a] \notin Ended \cup {"idle"}
  BY <1>1 DEF Ended
<1> QED
  BY <1>1, <1>2, <1>3, WorkerFailing

\* The worker of a writes a frame and moves on.
LEMMA WorkerWrites ==
  ASSUME Inv, NEW a \in Attempts, UNCHANGED <<session, decision, committed, cut, faults>>,
         receiver[a] \notin Ended \cup {"idle"}, NEW to \in ReceiverPlaces \ Ended,
         receiver' = [receiver EXCEPT ![a] = to],
         rat' \in [Attempts -> 1 .. Len(ReceiverScript) + 1],
         \A b \in Attempts \ {a} : rat'[b] = rat[b],
         beats' \in [Attempts -> 0 .. MaxBeats],
         NEW m \in ToSender, PutS(a, m), m # "Disconnection",
         m = "accept" => decision[a] = "accept",
         WorkerOK(a)',
         faults = {} /\ a = attempt /\ sender \in Active => Talk(a)'
  PROVE  Inv'
<1>1. /\ TypeOK /\ toS[a] \in Seq(ToSender) /\ WireOK(a) /\ attempt \in Nat /\ a \in Nat
  BY DEF Inv, TypeOK, Attempts
<1>2. a <= attempt
  BY <1>1 DEF WireOK
<1>3. /\ toS' \in [Attempts -> Seq(ToSender)] /\ reset' \in [Attempts -> BOOLEAN]
      /\ toR' = toR /\ shut' = shut
      /\ \A b \in Attempts \ {a} : toS'[b] = toS[b] /\ reset'[b] = reset[b]
      /\ IF "S" \in shut[a] \/ reset[a]
           THEN reset'[a] /\ toS'[a] = toS[a]
           ELSE reset'[a] = reset[a] /\ toS'[a] = Append(toS[a], m)
  BY <1>1, WritingDown
<1>4. /\ decision' = decision /\ committed' = committed /\ cut' = cut /\ faults' = faults
      /\ toR' \in [Attempts -> Seq(ToReceiver)]
      /\ decision' \in [Attempts -> {"none", "accept", "reject"}]
      /\ committed' \in [Attempts -> 0 .. Files]
  BY <1>1, <1>3 DEF TypeOK
<1>5. \A i \in 1 .. Len(toS'[a]) :
        \/ \E j \in 1 .. Len(toS[a]) : toS'[a][i] = toS[a][j]
        \/ toS'[a][i] = "accept" /\ decision'[a] = "accept"
        \/ toS'[a][i] \notin {"accept", "Disconnection"}
  <2>1. CASE toS'[a] = toS[a]
    BY <2>1
  <2>2. CASE toS'[a] = Append(toS[a], m)
    <3>1. /\ Len(toS[a]) \in Nat /\ Len(toS'[a]) = Len(toS[a]) + 1
          /\ toS'[a][Len(toS[a]) + 1] = m
          /\ \A i \in 1 .. Len(toS[a]) : toS'[a][i] = toS[a][i]
      BY <1>1, <2>2, Appended
    <3>2. ASSUME NEW i \in 1 .. Len(toS'[a])
          PROVE  i \in 1 .. Len(toS[a]) \/ toS'[a][i] = m
      BY <3>1
    <3> QED
      BY <1>4, <3>1, <3>2
  <2> QED
    BY <1>3, <2>1, <2>2
<1>6. /\ reset[a] => reset'[a]
      /\ reset'[a] => reset[a] \/ "S" \in shut[a]
      /\ \A b \in Attempts \ {a} :
           /\ rat'[b] = rat[b] /\ decision'[b] = decision[b] /\ committed'[b] = committed[b]
           /\ toR'[b] = toR[b] /\ toS'[b] = toS[b] /\ reset'[b] = reset[b]
  BY <1>3, <1>4
<1>7. UNCHANGED <<session, shut, cut, faults>> /\ receiver[a] \notin Ended
  BY <1>3
<1> QED
  BY <1>2, <1>3, <1>4, <1>5, <1>6, <1>7, WorkerMoves

\* When nothing goes wrong, a frame of the worker goes behind what is in flight.
LEMMA CalmReply ==
  ASSUME Inv, faults = {}, NEW a \in Attempts, NEW m \in ToSender, PutS(a, m),
         receiver[a] \in {"script", "consent", "receiving"}
  PROVE  /\ toR' = toR /\ toS'[a] = Append(toS[a], m) /\ toS[a] \in Seq(ToSender)
<1>1. TypeOK /\ toS[a] \in Seq(ToSender)
  BY DEF Inv, TypeOK
<1>2. ~ ("S" \in shut[a] \/ reset[a])
  BY CalmWorker
<1> QED
  BY <1>1, <1>2, WritingDown

\* The worker of a takes a frame and moves on.
LEMMA WorkerTakes ==
  ASSUME Inv, NEW a \in Attempts, UNCHANGED <<session, decision, cut, faults>>,
         receiver[a] \notin Ended \cup {"idle"}, NEW to \in ReceiverPlaces \ Ended,
         receiver' = [receiver EXCEPT ![a] = to],
         rat' \in [Attempts -> 1 .. Len(ReceiverScript) + 1],
         committed' \in [Attempts -> 0 .. Files], beats' = beats,
         \A b \in Attempts \ {a} : rat'[b] = rat[b] /\ committed'[b] = committed[b],
         toR[a] # <<>>, TakeR(a),
         WorkerOK(a)',
         faults = {} /\ a = attempt /\ sender \in Active => Talk(a)'
  PROVE  Inv'
<1>1. /\ TypeOK /\ toR[a] \in Seq(ToReceiver) /\ WireOK(a) /\ attempt \in Nat /\ a \in Nat
      /\ toR \in [Attempts -> Seq(ToReceiver)] /\ toS \in [Attempts -> Seq(ToSender)]
      /\ reset \in [Attempts -> BOOLEAN]
  <2>1. TypeOK /\ WireOK(a)
    BY DEF Inv
  <2>2. Attempts \subseteq Nat
    BY DEF Attempts
  <2> QED
    BY <2>1, <2>2 DEF TypeOK
<1>2. a <= attempt
  BY <1>1 DEF WireOK
<1>3. Tail(toR[a]) \in Seq(ToReceiver)
  BY <1>1, BehindTheHead
<1>4. /\ toR' \in [Attempts -> Seq(ToReceiver)] /\ toS' = toS /\ shut' = shut /\ reset' = reset
      /\ \A b \in Attempts \ {a} : toR'[b] = toR[b]
  BY <1>1, <1>3 DEF TakeR
<1>5. /\ decision' = decision /\ decision' \in [Attempts -> {"none", "accept", "reject"}]
      /\ beats' \in [Attempts -> 0 .. MaxBeats]
      /\ toS' \in [Attempts -> Seq(ToSender)] /\ reset' \in [Attempts -> BOOLEAN]
  BY <1>1, <1>4 DEF TypeOK
<1>6. \A i \in 1 .. Len(toS'[a]) : \E j \in 1 .. Len(toS[a]) : toS'[a][i] = toS[a][j]
  BY <1>4
<1>7. \A b \in Attempts \ {a} :
           /\ rat'[b] = rat[b] /\ decision'[b] = decision[b] /\ committed'[b] = committed[b]
           /\ toR'[b] = toR[b] /\ toS'[b] = toS[b] /\ reset'[b] = reset[b]
  BY <1>4, <1>5
<1>8. /\ UNCHANGED <<session, shut, cut, faults>> /\ receiver[a] \notin Ended
      /\ reset[a] => reset'[a]
      /\ reset'[a] => reset[a] \/ "S" \in shut[a]
  BY <1>4
<1> QED
  BY <1>2, <1>4, <1>5, <1>6, <1>7, <1>8, WorkerMoves

\* Where a worker goes on in its script.
LEMMA Proceeding ==
  ASSUME Inv, NEW a \in Attempts, receiver[a] = "script", Proceed(a)
  PROVE  /\ rat[a] \in 1 .. 11 /\ rat[a] \in 1 .. 12 /\ rat'[a] = rat[a] + 1
         /\ rat' \in [Attempts -> 1 .. Len(ReceiverScript) + 1]
         /\ \A b \in Attempts \ {a} : rat'[b] = rat[b]
         /\ \E to \in {"script", "consent"} :
              /\ receiver' = [receiver EXCEPT ![a] = to] /\ receiver'[a] = to
              /\ to = "consent" <=> rat[a] = 11
         /\ UNCHANGED <<session, decision, committed, beats>> /\ WorkerOK(a)'
         /\ attempt' = attempt /\ sender' = sender /\ at' = at
<1>1. /\ TypeOK /\ WorkerOK(a) /\ rat \in [Attempts -> 1 .. Len(ReceiverScript) + 1]
      /\ Len(ReceiverScript) = 11 /\ receiver \in [Attempts -> ReceiverPlaces]
  BY WorkerSteps DEF Inv, TypeOK
<1>2. rat[a] \in 1 .. 11
  BY <1>1 DEF WorkerOK
<1>3. /\ rat' = [rat EXCEPT ![a] = rat[a] + 1]
      /\ receiver' = [receiver EXCEPT ![a] = IF rat[a] = 11 THEN "consent" ELSE "script"]
      /\ UNCHANGED <<session, decision, committed, beats>>
  BY <1>1 DEF Proceed, Place
<1>4. /\ rat'[a] = rat[a] + 1 /\ rat' \in [Attempts -> 1 .. Len(ReceiverScript) + 1]
      /\ \A b \in Attempts \ {a} : rat'[b] = rat[b]
  BY <1>1, <1>2, <1>3
<1>5. receiver'[a] = IF rat[a] = 11 THEN "consent" ELSE "script"
  BY <1>1, <1>3
<1>6. attempt' = attempt /\ sender' = sender /\ at' = at
  BY <1>3 DEF session
<1>7. WorkerOK(a)'
  BY <1>1, <1>2, <1>3, <1>4, <1>5 DEF WorkerOK
<1>8. \E to \in {"script", "consent"} :
        /\ receiver' = [receiver EXCEPT ![a] = to] /\ receiver'[a] = to
        /\ to = "consent" <=> rat[a] = 11
  BY <1>3, <1>5
<1>9. rat[a] \in 1 .. 12
  BY <1>2
<1> QED
  BY <1>2, <1>3, <1>4, <1>6, <1>7, <1>8, <1>9

LEMMA WorkerSendsInv ==
  ASSUME Inv, NEW a \in Attempts, WorkerSends(a), UNCHANGED <<cut, faults>>
  PROVE  Inv'
<1> DEFINE m == ReceiverScript[rat[a]][2]
<1>1. /\ receiver[a] = "script" /\ ReceiverScript[rat[a]][1] = "send"
      /\ PutS(a, m) /\ Proceed(a)
  BY DEF WorkerSends, ReceiverScripted
<1>2. /\ rat[a] \in 1 .. 11 /\ rat[a] \in 1 .. 12 /\ rat'[a] = rat[a] + 1
      /\ rat' \in [Attempts -> 1 .. Len(ReceiverScript) + 1]
      /\ \A b \in Attempts \ {a} : rat'[b] = rat[b]
      /\ UNCHANGED <<session, decision, committed, beats>> /\ WorkerOK(a)'
      /\ attempt' = attempt /\ sender' = sender /\ at' = at
  BY <1>1, Proceeding
<1>3. rat[a] # 11 /\ m \in ToSender /\ m \notin {"accept", "Disconnection"}
  BY <1>1, <1>2, ScriptFrames
<1>4. receiver' = [receiver EXCEPT ![a] = "script"] /\ receiver'[a] = "script"
  BY <1>1, <1>3, Proceeding
<1>5. ASSUME faults = {}, a = attempt, sender \in Active PROVE Talk(a)'
  <2>1. /\ toR' = toR /\ toS'[a] = Append(toS[a], m) /\ toS[a] \in Seq(ToSender) /\ Talk(a)
    BY <1>1, <1>3, <1>5, CalmReply, CalmWorker
  <2>2. /\ sender = "script"
        /\ Between(toR[a], Up, WorkerRead[rat[a]], SenderSent[at])
        /\ Between(toS[a], Down, SenderRead[at], WorkerSent[rat[a]])
    BY <1>1, <2>1 DEF Talk
  <2>3. at \in 1 .. 12
    BY <2>2 DEF Inv, SenderOK
  <2>4. SenderRead[at] \in 0 .. 4 /\ WorkerSent[rat[a]] \in 0 .. 4
    BY <1>2, <2>3, SenderSteps, WorkerSteps
  <2>5. SenderRead[at] \in Nat /\ WorkerSent[rat[a]] \in Nat
    BY <2>4
  <2>6. /\ WorkerSent[rat[a] + 1] = WorkerSent[rat[a]] + 1
        /\ WorkerRead[rat[a] + 1] = WorkerRead[rat[a]]
        /\ m = Down[WorkerSent[rat[a]] + 1]
    BY <1>1, <1>2, WorkerSteps
  <2>7. Between(Append(toS[a], m), Down, SenderRead[at], WorkerSent[rat[a]] + 1)
    BY <1>3, <2>1, <2>2, <2>5, <2>6, BetweenSent
  <2> QED
    BY <1>2, <1>4, <2>1, <2>2, <2>6, <2>7 DEF Talk
<1>6. "script" \in ReceiverPlaces \ Ended /\ receiver[a] \notin Ended \cup {"idle"}
  BY <1>1 DEF ReceiverPlaces, Ended
<1>7. beats' \in [Attempts -> 0 .. MaxBeats]
  BY <1>2 DEF Inv, TypeOK
<1> HIDE DEF m
<1> QED
  BY <1>1, <1>2, <1>3, <1>4, <1>5, <1>6, <1>7, WorkerWrites

\* The frame a worker finds in its script when nothing goes wrong.
LEMMA FrameForTheWorker ==
  ASSUME Inv, faults = {}, NEW a \in Attempts, receiver[a] = "script",
         ReceiverScript[rat[a]][1] = "recv", toR[a] # <<>>
  PROVE  /\ Head(toR[a]) = ReceiverScript[rat[a]][2]
         /\ Talk(a) /\ sender = "script" /\ at \in 1 .. 12
         /\ Between(Tail(toR[a]), Up, WorkerRead[rat[a]] + 1, SenderSent[at])
         /\ Between(toS[a], Down, SenderRead[at], WorkerSent[rat[a]])
         /\ WorkerRead[rat[a]] < SenderSent[at]
<1> DEFINE m == ReceiverScript[rat[a]][2]
<1>1. rat[a] \in 1 .. 11 /\ rat[a] \in 1 .. 12 /\ toR[a] \in Seq(ToReceiver)
  <2>1. rat[a] \in 1 .. 11
    BY DEF Inv, WorkerOK
  <2> QED
    BY <2>1 DEF Inv, TypeOK
<1>2. Talk(a)
  BY <1>1, CalmWorker
<1>3. /\ sender = "script"
      /\ Between(toR[a], Up, WorkerRead[rat[a]], SenderSent[at])
      /\ Between(toS[a], Down, SenderRead[at], WorkerSent[rat[a]])
  BY <1>1, <1>2 DEF Talk
<1>4. at \in 1 .. 12
  BY <1>3 DEF Inv, SenderOK
<1>5. SenderSent[at] \in 0 .. 7 /\ WorkerRead[rat[a]] \in 0 .. 7
  BY <1>1, <1>4, SenderSteps, WorkerSteps
<1>6. SenderSent[at] \in Nat /\ WorkerRead[rat[a]] \in Nat
  BY <1>5
<1>7. /\ WorkerRead[rat[a]] < SenderSent[at]
      /\ Head(toR[a]) = Up[WorkerRead[rat[a]] + 1]
      /\ Between(Tail(toR[a]), Up, WorkerRead[rat[a]] + 1, SenderSent[at])
  BY <1>1, <1>3, <1>6, BetweenRead
<1>8. m = Up[WorkerRead[rat[a]] + 1]
  BY <1>1, WorkerSteps
<1> QED
  BY <1>2, <1>3, <1>4, <1>7, <1>8

LEMMA WorkerReadsInv ==
  ASSUME Inv, NEW a \in Attempts, WorkerReads(a), UNCHANGED <<cut, faults>>
  PROVE  Inv'
<1> DEFINE m == ReceiverScript[rat[a]][2]
<1>1. /\ receiver[a] = "script" /\ ReceiverScript[rat[a]][1] = "recv" /\ toR[a] # <<>>
      /\ toR[a] \in Seq(ToReceiver) /\ rat[a] \in 1 .. 11 /\ rat[a] \in 1 .. 12
      /\ committed \in [Attempts -> 0 .. Files]
  <2>1. /\ receiver[a] = "script" /\ ReceiverScript[rat[a]][1] = "recv" /\ toR[a] # <<>>
    BY DEF WorkerReads, ReceiverScripted
  <2>2. rat[a] \in 1 .. 11
    BY <2>1 DEF Inv, WorkerOK
  <2> QED
    BY <2>1, <2>2 DEF Inv, TypeOK
<1>2. receiver[a] \notin Ended \cup {"idle"}
  BY <1>1 DEF Ended
<1>3. ASSUME faults = {}
      PROVE  /\ Head(toR[a]) = m /\ Talk(a) /\ sender = "script" /\ at \in 1 .. 12
             /\ Between(Tail(toR[a]), Up, WorkerRead[rat[a]] + 1, SenderSent[at])
             /\ Between(toS[a], Down, SenderRead[at], WorkerSent[rat[a]])
             /\ WorkerRead[rat[a]] < SenderSent[at]
  BY <1>1, <1>3, FrameForTheWorker
<1>4. CASE Head(toR[a]) # m
  <2>1. ReceiverFails(a, Tail(toR[a]))
    BY <1>4 DEF WorkerReads
  <2> QED
    BY <1>2, <1>3, <1>4, <2>1, WorkerFailing
<1>5. CASE Head(toR[a]) = m
  <2>1. TakeR(a) /\ Proceed(a)
    BY <1>5 DEF WorkerReads
  <2>2. /\ rat'[a] = rat[a] + 1
        /\ rat' \in [Attempts -> 1 .. Len(ReceiverScript) + 1]
        /\ \A b \in Attempts \ {a} : rat'[b] = rat[b]
        /\ UNCHANGED <<session, decision, committed, beats>> /\ WorkerOK(a)'
        /\ attempt' = attempt /\ sender' = sender /\ at' = at
    BY <1>1, <2>1, Proceeding
  <2>3. PICK to \in {"script", "consent"} :
          /\ receiver' = [receiver EXCEPT ![a] = to] /\ receiver'[a] = to
          /\ to = "consent" <=> rat[a] = 11
    BY <1>1, <2>1, Proceeding
  <2>4. toR'[a] = Tail(toR[a]) /\ toS' = toS
    BY <2>1 DEF TakeR, Inv, TypeOK
  <2>5. ASSUME faults = {} PROVE Talk(a)'
    <3>1. /\ WorkerSent[rat[a] + 1] = WorkerSent[rat[a]]
          /\ WorkerRead[rat[a] + 1] = WorkerRead[rat[a]] + 1
      BY <1>1, WorkerSteps
    <3>2. CASE to = "script"
      BY <1>3, <2>2, <2>3, <2>4, <2>5, <3>1, <3>2 DEF Talk
    <3>3. CASE to = "consent"
      <4>1. rat[a] = 11 /\ WorkerRead[rat[a]] = 6 /\ WorkerSent[rat[a]] = 4
        BY <2>3, <3>3, ScriptFrames
      <4>2. at = 12
        <5>1. at \in 1 .. 12 /\ 6 < SenderSent[at]
          BY <1>3, <2>5, <4>1
        <5>2. \A k \in 1 .. 11 : SenderSent[k] \in 0 .. 6
          <6>1. \A k \in 1 .. 11 : k \in 1 .. 12
            OBVIOUS
          <6> QED
            BY <6>1, ScriptFrames, SenderSteps
        <5>3. at \notin 1 .. 11
          BY <5>1, <5>2
        <5> QED
          BY <5>1, <5>3
      <4>3. SenderSent[at] = 7 /\ SenderRead[at] = 4
        BY <4>2, ScriptFrames
      <4>4. Len(toR'[a]) = 0 /\ Len(toS'[a]) = 0
        BY <1>3, <2>4, <2>5, <4>1, <4>3 DEF Between
      <4>5. AllIn(toR'[a], {"KeepAliveAck"}) /\ AllIn(toS'[a], {"KeepAlive"})
        BY <4>4 DEF AllIn
      <4> QED
        BY <1>3, <2>2, <2>3, <2>5, <3>3, <4>2, <4>5 DEF Talk
    <3> QED
      BY <3>2, <3>3
  <2>6. to \in ReceiverPlaces \ Ended
    BY <2>3 DEF ReceiverPlaces, Ended
  <2>7. /\ UNCHANGED <<session, decision, cut, faults>> /\ beats' = beats
        /\ committed' \in [Attempts -> 0 .. Files]
        /\ \A b \in Attempts \ {a} : rat'[b] = rat[b] /\ committed'[b] = committed[b]
    BY <1>1, <2>2
  <2> QED
    BY <1>1, <1>2, <2>1, <2>2, <2>3, <2>5, <2>6, <2>7, WorkerTakes
<1> QED
  BY <1>4, <1>5

LEMMA BeatInv ==
  ASSUME Inv, NEW a \in Attempts, Beat(a), UNCHANGED <<cut, faults>>
  PROVE  Inv'
<1>1. /\ receiver[a] = "consent" /\ beats[a] < MaxBeats /\ PutS(a, "KeepAlive")
      /\ beats' = [beats EXCEPT ![a] = @ + 1]
      /\ UNCHANGED <<session, receiver, rat, decision, committed>>
  BY DEF Beat
<1>2. /\ TypeOK /\ WorkerOK(a) /\ "KeepAlive" \in ToSender /\ "consent" \in ReceiverPlaces \ Ended
      /\ receiver[a] \notin Ended \cup {"idle"} /\ MaxBeats \in Nat
      /\ receiver \in [Attempts -> ReceiverPlaces]
      /\ rat \in [Attempts -> 1 .. Len(ReceiverScript) + 1]
      /\ beats \in [Attempts -> 0 .. MaxBeats]
  BY <1>1, PlanShape DEF Inv, TypeOK, ToSender, ReceiverPlaces, Ended
<1>3. /\ attempt' = attempt /\ sender' = sender /\ at' = at /\ receiver' = receiver
      /\ rat' = rat /\ decision' = decision /\ committed' = committed
      /\ receiver' = [receiver EXCEPT ![a] = "consent"]
  BY <1>1, <1>2 DEF session
<1>4. beats' \in [Attempts -> 0 .. MaxBeats]
  BY <1>1, <1>2
<1>5. WorkerOK(a)'
  BY <1>2, <1>3 DEF WorkerOK
<1>6. ASSUME faults = {} PROVE Talk(a)'
  <2>1. /\ toR' = toR /\ toS'[a] = Append(toS[a], "KeepAlive") /\ toS[a] \in Seq(ToSender)
        /\ Talk(a)
    BY <1>1, <1>2, <1>6, CalmReply, CalmWorker
  <2>2. /\ sender = "script" /\ at = 12
        /\ AllIn(toR[a], {"KeepAliveAck"}) /\ AllIn(toS[a], {"KeepAlive"})
    BY <1>1, <2>1 DEF Talk
  <2>3. AllIn(toS'[a], {"KeepAlive"})
    BY <1>2, <2>1, <2>2, AllInSent
  <2> QED
    BY <1>1, <1>3, <2>1, <2>2, <2>3 DEF Talk
<1>7. /\ UNCHANGED <<session, decision, committed, cut, faults>>
      /\ rat' \in [Attempts -> 1 .. Len(ReceiverScript) + 1]
      /\ \A b \in Attempts \ {a} : rat'[b] = rat[b]
  BY <1>1, <1>2, <1>3
<1> QED
  BY <1>1, <1>2, <1>3, <1>4, <1>5, <1>6, <1>7, WorkerWrites

LEMMA ReadInConsentInv ==
  ASSUME Inv, NEW a \in Attempts, ReadInConsent(a), UNCHANGED <<cut, faults>>
  PROVE  Inv'
<1>1. /\ receiver[a] = "consent" /\ toR[a] # <<>> /\ TakeR(a)
      /\ UNCHANGED <<session, worker>>
  BY DEF ReadInConsent
<1>2. /\ TypeOK /\ WorkerOK(a) /\ "consent" \in ReceiverPlaces \ Ended
      /\ receiver[a] \notin Ended \cup {"idle"} /\ toR[a] \in Seq(ToReceiver)
      /\ receiver \in [Attempts -> ReceiverPlaces]
      /\ rat \in [Attempts -> 1 .. Len(ReceiverScript) + 1]
      /\ committed \in [Attempts -> 0 .. Files]
  BY <1>1 DEF Inv, TypeOK, ReceiverPlaces, Ended
<1>3. /\ attempt' = attempt /\ sender' = sender /\ at' = at /\ receiver' = receiver
      /\ rat' = rat /\ decision' = decision /\ committed' = committed /\ beats' = beats
      /\ receiver' = [receiver EXCEPT ![a] = "consent"]
      /\ toR'[a] = Tail(toR[a]) /\ toS' = toS
  BY <1>1, <1>2 DEF session, worker, TakeR, TypeOK
<1>4. WorkerOK(a)'
  BY <1>2, <1>3 DEF WorkerOK
<1>5. ASSUME faults = {} PROVE Talk(a)'
  <2>1. Talk(a)
    BY <1>1, <1>5, CalmWorker
  <2>2. /\ sender = "script" /\ at = 12
        /\ AllIn(toR[a], {"KeepAliveAck"}) /\ AllIn(toS[a], {"KeepAlive"})
    BY <1>1, <2>1 DEF Talk
  <2>3. AllIn(toR'[a], {"KeepAliveAck"})
    BY <1>1, <1>2, <1>3, <2>2, AllInRead
  <2> QED
    BY <1>1, <1>3, <2>2, <2>3 DEF Talk
<1>6. /\ UNCHANGED <<session, decision, cut, faults>>
      /\ rat' \in [Attempts -> 1 .. Len(ReceiverScript) + 1]
      /\ committed' \in [Attempts -> 0 .. Files]
      /\ \A b \in Attempts \ {a} : rat'[b] = rat[b] /\ committed'[b] = committed[b]
  BY <1>1, <1>2, <1>3
<1> QED
  BY <1>1, <1>2, <1>3, <1>4, <1>5, <1>6, WorkerTakes

LEMMA UserDecidesInv ==
  ASSUME Inv, NEW a \in Attempts, NEW d \in {"accept", "reject"}, UserDecides(a, d),
         UNCHANGED <<cut, faults>>
  PROVE  Inv'
<1>1. /\ receiver[a] = "consent" /\ decision[a] = "none"
      /\ decision' = [decision EXCEPT ![a] = d]
      /\ UNCHANGED <<session, receiver, rat, committed, beats, wire>>
  BY DEF UserDecides
<1>2. /\ TypeOK /\ WorkerOK(a) /\ WireOK(a) /\ CalmOK(a) /\ attempt \in Nat /\ a \in Nat
      /\ "consent" \in ReceiverPlaces \ Ended /\ receiver[a] \notin Ended
  BY <1>1 DEF Inv, TypeOK, Attempts, ReceiverPlaces, Ended
<1>3. a <= attempt
  BY <1>1, <1>2 DEF WireOK
<1>4. /\ attempt' = attempt /\ sender' = sender /\ at' = at /\ receiver' = receiver
      /\ rat' = rat /\ committed' = committed /\ beats' = beats
      /\ toR' = toR /\ toS' = toS /\ shut' = shut /\ reset' = reset
      /\ UNCHANGED <<session, shut, cut, faults>>
  BY <1>1 DEF session, wire
<1>5. /\ receiver' = [receiver EXCEPT ![a] = "consent"]
      /\ rat' \in [Attempts -> 1 .. Len(ReceiverScript) + 1]
      /\ decision' \in [Attempts -> {"none", "accept", "reject"}]
      /\ \A b \in Attempts \ {a} : decision'[b] = decision[b]
      /\ committed' \in [Attempts -> 0 .. Files] /\ beats' \in [Attempts -> 0 .. MaxBeats]
      /\ toR' \in [Attempts -> Seq(ToReceiver)] /\ toS' \in [Attempts -> Seq(ToSender)]
      /\ reset' \in [Attempts -> BOOLEAN]
  BY <1>1, <1>2, <1>4 DEF TypeOK
<1>6. WorkerOK(a)'
  BY <1>1, <1>2, <1>4 DEF WorkerOK
<1>7. faults = {} /\ a = attempt /\ sender \in Active => Talk(a)'
  BY <1>1, <1>2, <1>4 DEF CalmOK, Talk
<1>8. \A i \in 1 .. Len(toS'[a]) : \E j \in 1 .. Len(toS[a]) : toS'[a][i] = toS[a][j]
  BY <1>4
<1>9. decision[a] # "none" => decision'[a] = decision[a]
  BY <1>1
<1> QED
  BY <1>2, <1>3, <1>4, <1>5, <1>6, <1>7, <1>8, <1>9, WorkerMoves

LEMMA AcceptInv ==
  ASSUME Inv, NEW a \in Attempts, Accept(a), UNCHANGED <<cut, faults>>
  PROVE  Inv'
<1>1. /\ receiver[a] = "consent" /\ decision[a] = "accept"
      /\ receiver[a] \notin Ended \cup {"idle"}
  BY DEF Accept, Ended
<1>2. CASE (IOFaults \/ reset[a]) /\ ReceiverFails(a, toR[a])
  <2>1. faults # {}
    BY <1>1, <1>2, CalmWorker, NoFaults
  <2> QED
    BY <1>1, <1>2, <2>1, WorkerFailing
<1>3. CASE /\ PutS(a, "accept") /\ Place(a, "receiving")
           /\ UNCHANGED <<session, rat, decision, committed, beats>>
  <2>1. /\ TypeOK /\ WorkerOK(a) /\ "accept" \in ToSender
        /\ "receiving" \in ReceiverPlaces \ Ended
        /\ receiver \in [Attempts -> ReceiverPlaces]
        /\ rat \in [Attempts -> 1 .. Len(ReceiverScript) + 1]
        /\ beats \in [Attempts -> 0 .. MaxBeats]
    BY DEF Inv, TypeOK, ToSender, ReceiverPlaces, Ended
  <2>2. /\ attempt' = attempt /\ sender' = sender /\ at' = at /\ receiver'[a] = "receiving"
        /\ rat' = rat /\ decision' = decision /\ committed' = committed /\ beats' = beats
        /\ receiver' = [receiver EXCEPT ![a] = "receiving"]
    BY <1>3, <2>1 DEF session, Place
  <2>3. WorkerOK(a)'
    BY <1>1, <2>1, <2>2 DEF WorkerOK
  <2>4. ASSUME faults = {} PROVE Talk(a)'
    <3>1. /\ toR' = toR /\ toS'[a] = Append(toS[a], "accept") /\ toS[a] \in Seq(ToSender)
          /\ Talk(a)
      BY <1>1, <1>3, <2>1, <2>4, CalmReply, CalmWorker
    <3>2. /\ sender = "script" /\ at = 12
          /\ AllIn(toR[a], {"KeepAliveAck"}) /\ AllIn(toS[a], {"KeepAlive"})
      BY <1>1, <3>1 DEF Talk
    <3>3. committed[a] = 0
      BY <1>1, <2>1 DEF WorkerOK
    <3>4. /\ Len(toS[a]) \in Nat /\ Len(toS'[a]) = Len(toS[a]) + 1
          /\ toS'[a][Len(toS[a]) + 1] = "accept"
          /\ \A i \in 1 .. Len(toS[a]) : toS'[a][i] = toS[a][i]
      BY <2>1, <3>1, Appended
    <3>5. /\ toS'[a] # <<>> /\ toS'[a][Len(toS'[a])] = "accept"
          /\ \A i \in 1 .. Len(toS'[a]) - 1 : toS'[a][i] = "KeepAlive"
      BY <3>2, <3>4, EmptySeq DEF AllIn
    <3> QED
      BY <2>2, <3>1, <3>2, <3>3, <3>5 DEF Talk
  <2>5. /\ UNCHANGED <<session, decision, committed, cut, faults>>
        /\ rat' \in [Attempts -> 1 .. Len(ReceiverScript) + 1]
        /\ \A b \in Attempts \ {a} : rat'[b] = rat[b]
        /\ beats' \in [Attempts -> 0 .. MaxBeats]
    BY <1>3, <2>1, <2>2
  <2> QED
    BY <1>1, <1>3, <2>1, <2>2, <2>3, <2>4, <2>5, WorkerWrites
<1> QED
  BY <1>2, <1>3 DEF Accept

\* Whatever the sender still gets from an end the worker closed was in flight,
\* or is the worker's last word.
LEMMA LastWord ==
  ASSUME TypeOK, NEW a \in Attempts, NEW w \in ToSender, NEW unread,
         CloseR(a, <<w>>, unread), NEW T, AllIn(toS[a], T)
  PROVE  AllIn(toS'[a], T \cup {w})
<1>1. <<w>> \in Seq(ToSender) /\ Len(<<w>>) = 1 /\ <<w>>[1] = w
  OBVIOUS
<1>2. \A i \in 1 .. Len(toS'[a]) :
        \/ \E j \in 1 .. Len(toS[a]) : toS'[a][i] = toS[a][j]
        \/ \E j \in 1 .. Len(<<w>>) : toS'[a][i] = <<w>>[j]
  BY <1>1, ClosingR
<1>3. \A j \in 1 .. Len(<<w>>) : <<w>>[j] = w
  BY <1>1
<1> QED
  BY <1>2, <1>3 DEF AllIn

LEMMA RejectInv ==
  ASSUME Inv, NEW a \in Attempts, Reject(a), UNCHANGED <<cut, faults>>
  PROVE  Inv'
<1>1. /\ receiver[a] = "consent" /\ decision[a] = "reject" /\ Place(a, "rejected")
      /\ CloseR(a, <<"reject">>, toR[a])
      /\ UNCHANGED <<session, rat, decision, committed, beats>>
  BY DEF Reject
<1>2. /\ receiver[a] \notin Ended \cup {"idle"} /\ "rejected" \in Ended
      /\ "reject" \in ToSender /\ TypeOK
  BY <1>1 DEF Ended, ToSender, Inv
<1>3. /\ <<"reject">> \in Seq(ToSender)
      /\ \A i \in 1 .. Len(<<"reject">>) : <<"reject">>[i] # "accept"
  BY <1>2
<1>4. ASSUME faults = {} PROVE Talk(a)'
  <2>1. Talk(a)
    BY <1>1, <1>4, CalmWorker
  <2>2. sender = "script" /\ at = 12 /\ AllIn(toS[a], {"KeepAlive"})
    BY <1>1, <2>1 DEF Talk
  <2>3. AllIn(toS'[a], {"KeepAlive"} \cup {"reject"})
    BY <1>1, <1>2, <2>2, LastWord
  <2>4. AllIn(toS'[a], {"KeepAlive", "reject"})
    BY <2>3 DEF AllIn
  <2>5. receiver'[a] = "rejected" /\ sender' = sender /\ at' = at
    BY <1>1, <1>2 DEF Place, session, TypeOK
  <2> QED
    BY <2>2, <2>4, <2>5 DEF Talk
<1>5. UNCHANGED <<session, cut, faults>> /\ UNCHANGED <<rat, decision, committed, beats>>
  BY <1>1
<1> QED
  BY <1>1, <1>2, <1>3, <1>4, <1>5, WorkerEnds

LEMMA ReceivingShape ==
  ASSUME Inv, NEW a \in Attempts
  PROVE  /\ TypeOK /\ SenderOK /\ WorkerOK(a) /\ toR[a] \in Seq(ToReceiver)
         /\ committed \in [Attempts -> 0 .. Files] /\ committed[a] \in Nat
         /\ receiver \in [Attempts -> ReceiverPlaces]
         /\ rat \in [Attempts -> 1 .. Len(ReceiverScript) + 1]
         /\ Len(Plan) \in Nat \ {0} /\ Files \in Nat
<1>1. TypeOK /\ SenderOK /\ WorkerOK(a)
  BY DEF Inv
<1>2. Len(Plan) \in Nat \ {0} /\ Len(Plan) \in 0 .. Len(Plan)
  BY PlanShape
<1>3. Files \in Nat
  BY <1>2, FilesOfThePlan
<1>4. /\ toR[a] \in Seq(ToReceiver) /\ committed \in [Attempts -> 0 .. Files]
      /\ receiver \in [Attempts -> ReceiverPlaces]
      /\ rat \in [Attempts -> 1 .. Len(ReceiverScript) + 1]
  BY <1>1 DEF TypeOK
<1>5. committed[a] \in 0 .. Files
  BY <1>4
<1>6. committed[a] \in Nat
  BY <1>3, <1>5
<1> QED
  BY <1>1, <1>2, <1>3, <1>4, <1>6

\* The frame a worker finds in the stream when nothing goes wrong.
LEMMA FrameToReceive ==
  ASSUME Inv, faults = {}, NEW a \in Attempts, receiver[a] = "receiving",
         committed[a] < Files, toR[a] # <<>>
  PROVE  LET m == Head(toR[a]) IN
         \/ /\ m = "KeepAliveAck" /\ sender = "script" /\ at = 12 /\ committed[a] = 0
            /\ AllIn(Tail(toR[a]), {"KeepAliveAck"}) /\ toS[a] # <<>>
            /\ toS[a][Len(toS[a])] = "accept"
            /\ \A i \in 1 .. Len(toS[a]) - 1 : toS[a][i] = "KeepAlive"
         \/ /\ m \in {"KeepAliveAck", "data", "last"}
            /\ sender # "script" /\ toS[a] = <<>>
            /\ Flow(Tail(toR[a]), PlanSent,
                    IF m = "last" THEN committed[a] + 1 ELSE committed[a],
                    IF sender = "confirm" THEN 1 ELSE 0)
<1> DEFINE m == Head(toR[a])
<1>1. /\ TypeOK /\ SenderOK /\ WorkerOK(a) /\ toR[a] \in Seq(ToReceiver)
      /\ committed \in [Attempts -> 0 .. Files] /\ committed[a] \in Nat
      /\ receiver \in [Attempts -> ReceiverPlaces]
      /\ rat \in [Attempts -> 1 .. Len(ReceiverScript) + 1]
      /\ Len(Plan) \in Nat \ {0} /\ Files \in Nat
  BY ReceivingShape
<1>2. /\ Talk(a) /\ sender \in Active /\ a = attempt
  BY <1>1, CalmWorker
<1>3. CASE /\ sender = "script" /\ at = 12 /\ committed[a] = 0
           /\ AllIn(toR[a], {"KeepAliveAck"})
           /\ toS[a] # <<>> /\ toS[a][Len(toS[a])] = "accept"
           /\ \A i \in 1 .. Len(toS[a]) - 1 : toS[a][i] = "KeepAlive"
  <2>1. m \in {"KeepAliveAck"} /\ AllIn(Tail(toR[a]), {"KeepAliveAck"})
    BY <1>1, <1>3, AllInRead
  <2> QED
    BY <1>3, <2>1
<1>4. CASE sender # "script" /\ toS[a] = <<>> /\ Stream(a)
  <2> DEFINE d == IF sender = "confirm" THEN 1 ELSE 0
  <2>1. Flow(toR[a], PlanSent, committed[a], d) /\ d \in {0, 1}
    BY <1>4 DEF Stream
  <2>2. PlanSent \in 0 .. Len(Plan) /\ (d = 1 => PlanSent = Len(Plan))
    BY <1>1 DEF PlanSent, SenderOK
  <2> HIDE DEF d
  <2>3. \/ m = "KeepAliveAck" /\ Flow(Tail(toR[a]), PlanSent, committed[a], d)
        \/ m = "data" /\ Flow(Tail(toR[a]), PlanSent, committed[a], d)
        \/ m = "last" /\ Flow(Tail(toR[a]), PlanSent, committed[a] + 1, d)
        \/ m = "Disconnection" /\ d = 1 /\ committed[a] = Lasts(PlanSent)
    BY <1>1, <2>1, <2>2, FlowRead
  <2>4. ~ (d = 1 /\ committed[a] = Lasts(PlanSent))
    BY <1>1, <2>2, FilesOfThePlan
  <2> QED
    BY <1>4, <2>3, <2>4 DEF d
<1> QED
  BY <1>1, <1>2, <1>3, <1>4 DEF Talk

LEMMA ReceiveInv ==
  ASSUME Inv, NEW a \in Attempts, Receive(a), UNCHANGED <<cut, faults>>
  PROVE  Inv'
<1> DEFINE m == Head(toR[a])
<1>1. /\ receiver[a] = "receiving" /\ committed[a] < Files /\ toR[a] # <<>>
      /\ receiver[a] \notin Ended \cup {"idle"} /\ "receiving" \in ReceiverPlaces \ Ended
  BY DEF Receive, Ended, ReceiverPlaces
<1>2. /\ TypeOK /\ SenderOK /\ WorkerOK(a) /\ toR[a] \in Seq(ToReceiver)
      /\ committed \in [Attempts -> 0 .. Files] /\ committed[a] \in Nat
      /\ receiver \in [Attempts -> ReceiverPlaces]
      /\ rat \in [Attempts -> 1 .. Len(ReceiverScript) + 1]
      /\ Len(Plan) \in Nat \ {0} /\ Files \in Nat
  BY ReceivingShape
<1>3. ASSUME faults = {}
      PROVE  \/ /\ m = "KeepAliveAck" /\ sender = "script" /\ at = 12 /\ committed[a] = 0
                /\ AllIn(Tail(toR[a]), {"KeepAliveAck"}) /\ toS[a] # <<>>
                /\ toS[a][Len(toS[a])] = "accept"
                /\ \A i \in 1 .. Len(toS[a]) - 1 : toS[a][i] = "KeepAlive"
             \/ /\ m \in {"KeepAliveAck", "data", "last"}
                /\ sender # "script" /\ toS[a] = <<>>
                /\ Flow(Tail(toR[a]), PlanSent,
                        IF m = "last" THEN committed[a] + 1 ELSE committed[a],
                        IF sender = "confirm" THEN 1 ELSE 0)
  BY <1>1, <1>3, FrameToReceive
<1>4. CASE ReceiverFails(a, Tail(toR[a]))
  <2>1. m \notin {"data", "last", "KeepAliveAck"} \/ IOFaults
    <3>1. CASE m \in {"data", "last", "KeepAliveAck"}
      <4>1. receiver'[a] = "failed"
        BY <1>2, <1>4 DEF ReceiverFails, Place
      <4>2. ~ UNCHANGED worker /\ receiver' # receiver
        BY <1>1, <4>1 DEF worker
      <4> QED
        BY <3>1, <4>2 DEF Receive
    <3>2. CASE m \notin {"data", "last", "KeepAliveAck"}
      BY <3>2
    <3> QED
      BY <3>1, <3>2
  <2>2. faults # {}
    BY <1>3, <2>1, NoFaults
  <2> QED
    BY <1>1, <1>4, <2>2, WorkerFailing
<1>5. CASE /\ m \in {"data", "last", "KeepAliveAck"} /\ TakeR(a)
           /\ committed' = IF m = "last" THEN [committed EXCEPT ![a] = @ + 1] ELSE committed
           /\ UNCHANGED <<session, receiver, rat, decision, beats>>
  <2>1. /\ attempt' = attempt /\ sender' = sender /\ at' = at /\ receiver' = receiver
        /\ rat' = rat /\ decision' = decision /\ beats' = beats
        /\ receiver' = [receiver EXCEPT ![a] = "receiving"]
        /\ toR'[a] = Tail(toR[a]) /\ toS' = toS
    BY <1>1, <1>2, <1>5 DEF session, TakeR, TypeOK
  <2>2. /\ committed' \in [Attempts -> 0 .. Files]
        /\ committed'[a] = IF m = "last" THEN committed[a] + 1 ELSE committed[a]
        /\ \A b \in Attempts \ {a} : committed'[b] = committed[b]
    <3>1. CASE m = "last"
      BY <1>1, <1>2, <1>5, <3>1
    <3>2. CASE m # "last"
      BY <1>2, <1>5, <3>2
    <3> QED
      BY <3>1, <3>2
  <2>3. WorkerOK(a)'
    BY <1>1, <1>2, <2>1 DEF WorkerOK
  <2>4. ASSUME faults = {} PROVE Talk(a)'
    <3>1. CASE sender = "script"
      <4>1. /\ m = "KeepAliveAck" /\ at = 12 /\ committed[a] = 0
            /\ AllIn(Tail(toR[a]), {"KeepAliveAck"}) /\ toS[a] # <<>>
            /\ toS[a][Len(toS[a])] = "accept"
            /\ \A i \in 1 .. Len(toS[a]) - 1 : toS[a][i] = "KeepAlive"
        BY <1>3, <2>4, <3>1
      <4>2. committed'[a] = 0
        BY <2>2, <4>1
      <4> QED
        BY <1>1, <2>1, <3>1, <4>1, <4>2 DEF Talk
    <3>2. CASE sender # "script"
      <4>1. /\ toS[a] = <<>>
            /\ Flow(Tail(toR[a]), PlanSent,
                    IF m = "last" THEN committed[a] + 1 ELSE committed[a],
                    IF sender = "confirm" THEN 1 ELSE 0)
        BY <1>3, <2>4, <3>2
      <4>2. PlanSent' = PlanSent
        BY <2>1 DEF PlanSent
      <4>3. Stream(a)'
        BY <2>1, <2>2, <4>1, <4>2 DEF Stream
      <4> QED
        BY <1>1, <2>1, <3>2, <4>1, <4>3 DEF Talk
    <3> QED
      BY <3>1, <3>2
  <2>5. /\ UNCHANGED <<session, decision, cut, faults>>
        /\ rat' \in [Attempts -> 1 .. Len(ReceiverScript) + 1]
        /\ \A b \in Attempts \ {a} : rat'[b] = rat[b] /\ committed'[b] = committed[b]
    BY <1>2, <1>5, <2>1, <2>2
  <2> QED
    BY <1>1, <1>5, <2>1, <2>2, <2>3, <2>4, <2>5, WorkerTakes
<1>6. \/ ReceiverFails(a, Tail(toR[a]))
      \/ /\ m \in {"data", "last", "KeepAliveAck"} /\ TakeR(a)
         /\ committed' = IF m = "last" THEN [committed EXCEPT ![a] = @ + 1] ELSE committed
         /\ UNCHANGED <<session, receiver, rat, decision, beats>>
  BY DEF Receive, worker
<1> QED
  BY <1>4, <1>5, <1>6

LEMMA FinishInv ==
  ASSUME Inv, NEW a \in Attempts, Finish(a), UNCHANGED <<cut, faults>>
  PROVE  Inv'
<1>1. /\ receiver[a] = "receiving" /\ committed[a] = Files
      /\ UNCHANGED <<session, rat, decision, committed, beats>>
      /\ receiver[a] \notin Ended \cup {"idle"} /\ TypeOK /\ SenderOK
      /\ {"saved", "failed"} \subseteq Ended /\ "Disconnection" \in ToSender
  BY DEF Finish, Ended, ToSender, Inv
<1>2. CASE reset[a] /\ Place(a, "failed") /\ CloseR(a, <<>>, toR[a])
  <2>1. faults # {}
    BY <1>1, <1>2, CalmWorker
  <2>2. ReceiverFails(a, toR[a])
    BY <1>1, <1>2 DEF ReceiverFails
  <2> QED
    BY <1>1, <2>1, <2>2, WorkerFailing
<1>3. CASE Place(a, "saved") /\ CloseR(a, <<"Disconnection">>, toR[a])
  <2>1. /\ <<"Disconnection">> \in Seq(ToSender)
        /\ \A i \in 1 .. Len(<<"Disconnection">>) : <<"Disconnection">>[i] # "accept"
    BY <1>1
  <2>2. ASSUME faults = {} PROVE Talk(a)'
    <3>1. Talk(a) /\ sender \in Active
      BY <1>1, <2>2, CalmWorker
    <3>2. /\ Len(Plan) \in Nat \ {0} /\ Len(Plan) \in 0 .. Len(Plan)
          /\ 0 \in 0 .. Len(Plan) - 1
      BY PlanShape
    <3>3. committed[a] # 0
      BY <1>1, <3>2, FilesOfThePlan
    <3>4. sender # "script" /\ Stream(a)
      BY <1>1, <3>1, <3>3 DEF Talk
    <3>5. PICK p \in Nat : p <= PlanSent /\ committed[a] = Lasts(p)
      BY <3>4 DEF Stream, Flow
    <3>6. PlanSent \in 0 .. Len(Plan) /\ (PlanSent = Len(Plan) => at = Len(Plan) + 1)
      BY <1>1, <3>1, <3>2, <3>4 DEF PlanSent, SenderOK, Active
    <3>7. p \notin 0 .. Len(Plan) - 1
      <4>1. ASSUME p \in 0 .. Len(Plan) - 1 PROVE FALSE
        <5>1. Lasts(p) < Files /\ Lasts(p) = Files
          BY <1>1, <3>5, <4>1, FilesOfThePlan
        <5>2. Files \in Nat
          BY <3>2, FilesOfThePlan
        <5> QED
          BY <5>1, <5>2
      <4> QED
        BY <4>1
    <3>8. at = Len(Plan) + 1
      BY <3>2, <3>5, <3>6, <3>7
    <3>9. receiver'[a] = "saved" /\ sender' = sender /\ at' = at
      BY <1>1, <1>3 DEF Place, session, TypeOK
    <3> QED
      BY <3>4, <3>8, <3>9 DEF Talk
  <2>3. UNCHANGED <<session, cut, faults>> /\ UNCHANGED <<rat, decision, committed, beats>>
    BY <1>1
  <2> QED
    BY <1>1, <1>3, <2>1, <2>2, <2>3, WorkerEnds
<1> QED
  BY <1>2, <1>3 DEF Finish

\* The network breaks a connection.
LEMMA CutInv ==
  ASSUME Inv, NEW a \in Attempts, Cut(a)
  PROVE  Inv'
<1>1. /\ TypeOK /\ WorkerOK(a) /\ WireOK(a) /\ CalmOK(a) /\ attempt \in Nat /\ a \in Nat
      /\ toR \in [Attempts -> Seq(ToReceiver)] /\ toS \in [Attempts -> Seq(ToSender)]
      /\ reset \in [Attempts -> BOOLEAN] /\ cut \in [Attempts -> BOOLEAN]
  <2>1. TypeOK /\ WorkerOK(a) /\ WireOK(a) /\ CalmOK(a)
    BY DEF Inv
  <2>2. Attempts \subseteq Nat
    BY DEF Attempts
  <2> QED
    BY <2>1, <2>2 DEF TypeOK
<1>2. /\ Cuts /\ a <= attempt /\ "cut" \in faults /\ faults # {}
      /\ reset' = [reset EXCEPT ![a] = TRUE] /\ cut' = [cut EXCEPT ![a] = TRUE]
      /\ toR' = [toR EXCEPT ![a] = <<>>] /\ toS' = [toS EXCEPT ![a] = <<>>]
      /\ UNCHANGED <<session, worker, shut, faults>>
  BY DEF Cut, Cuts
<1>3. /\ attempt' = attempt /\ sender' = sender /\ at' = at /\ why' = why
      /\ receiver' = receiver /\ rat' = rat /\ decision' = decision
      /\ committed' = committed /\ beats' = beats /\ shut' = shut /\ faults' = faults
  BY <1>2 DEF session, worker
<1>4. <<>> \in Seq(ToReceiver) /\ <<>> \in Seq(ToSender) /\ Len(<<>>) = 0
  OBVIOUS
<1>5. /\ toR' \in [Attempts -> Seq(ToReceiver)] /\ toS' \in [Attempts -> Seq(ToSender)]
      /\ reset' \in [Attempts -> BOOLEAN] /\ cut' \in [Attempts -> BOOLEAN]
      /\ toS'[a] = <<>> /\ reset'[a] /\ cut'[a]
      /\ \A b \in Attempts \ {a} : /\ toR'[b] = toR[b] /\ toS'[b] = toS[b]
                                   /\ reset'[b] = reset[b] /\ cut'[b] = cut[b]
  BY <1>1, <1>2, <1>4
<1>6. TypeOK'
  BY <1>1, <1>3, <1>5 DEF TypeOK
<1>7. WorkerOK(a)'
  BY <1>1, <1>3 DEF WorkerOK
<1>8. WireOK(a)'
  BY <1>1, <1>2, <1>3, <1>4, <1>5 DEF WireOK
<1>9. CalmOK(a)'
  BY <1>2, <1>3 DEF CalmOK
<1>10. \A b \in Attempts \ {a} : Unmoved(b)
  BY <1>3, <1>5 DEF Unmoved
<1>11. UNCHANGED session
  BY <1>2
<1> QED
  BY <1>3, <1>6, <1>7, <1>8, <1>9, <1>10, <1>11, WorkerFrame

LEMMA WorkerInvariant ==
  ASSUME Inv, NEW a \in Attempts, WorkerStep(a)
  PROVE  Inv'
BY AdmitInv, WorkerSendsInv, WorkerReadsInv, WorkerLosesPeerInv, ReadInConsentInv,
   AcceptInv, RejectInv, ReceiveInv, FinishInv
   DEF WorkerStep

--------------------------------------------------------------------------
(* The invariants.                                                         *)

LEMMA InitInvariant ==
  ASSUME Init
  PROVE  Inv
<1>1. /\ 1 \in Attempts /\ Attempts \subseteq Nat /\ \A a \in Attempts : a >= 1
      /\ MaxBeats \in Nat /\ Len(Plan) \in Nat \ {0} /\ Files \in Nat
      /\ Len(SenderScript) = 11 /\ Len(ReceiverScript) = 11
  <2>1. Len(Plan) \in 0 .. Len(Plan)
    BY PlanShape
  <2> QED
    BY <2>1, PlanShape, FilesOfThePlan, SenderSteps, WorkerSteps DEF Attempts
<1>2. <<>> \in Seq(ToReceiver) /\ <<>> \in Seq(ToSender) /\ Len(<<>>) = 0
  OBVIOUS
<1>3. TypeOK
  <2>1. /\ attempt \in Attempts /\ sender \in SenderPlaces /\ why \in Errors
        /\ at \in 1 .. Len(SenderScript) + Len(Plan) + 1 /\ faults \in FaultModes
    BY <1>1 DEF Init, SenderPlaces, Errors
  <2>2. /\ receiver \in [Attempts -> ReceiverPlaces]
        /\ rat \in [Attempts -> 1 .. Len(ReceiverScript) + 1]
        /\ decision \in [Attempts -> {"none", "accept", "reject"}]
        /\ committed \in [Attempts -> 0 .. Files] /\ beats \in [Attempts -> 0 .. MaxBeats]
    BY <1>1 DEF Init, ReceiverPlaces
  <2>3. /\ toR \in [Attempts -> Seq(ToReceiver)] /\ toS \in [Attempts -> Seq(ToSender)]
        /\ shut \in [Attempts -> SUBSET {"S", "R"}]
        /\ reset \in [Attempts -> BOOLEAN] /\ cut \in [Attempts -> BOOLEAN]
    BY <1>2 DEF Init
  <2> QED
    BY <2>1, <2>2, <2>3 DEF TypeOK
<1>4. SenderOK
  BY DEF Init, SenderOK, Active
<1>5. ASSUME NEW a \in Attempts
      PROVE  WorkerOK(a) /\ WireOK(a) /\ CalmOK(a)
  <2>1. /\ attempt = 1 /\ sender = "script" /\ at = 1 /\ receiver[a] = "idle"
        /\ rat[a] = 1 /\ decision[a] = "none" /\ committed[a] = 0 /\ toR[a] = <<>>
        /\ toS[a] = <<>> /\ shut[a] = {} /\ ~ reset[a] /\ ~ cut[a]
    BY DEF Init
  <2>2. WorkerOK(a)
    BY <2>1 DEF WorkerOK
  <2>3. WireOK(a)
    BY <1>1, <1>2, <2>1 DEF WireOK, Active, Ended
  <2>4. /\ Between(<<>>, Up, WorkerRead[1], SenderSent[1])
        /\ Between(<<>>, Down, SenderRead[1], WorkerSent[1])
    BY <1>2, ScriptFrames DEF Between
  <2>5. CalmOK(a)
    BY <2>1, <2>4 DEF CalmOK, Talk
  <2> QED
    BY <2>2, <2>3, <2>5
<1> QED
  BY <1>3, <1>4, <1>5 DEF Inv

LEMMA NextInvariant ==
  ASSUME Inv, [Next]_vars
  PROVE  Inv'
<1>1. CASE SenderStep
  BY <1>1, SenderInvariant
<1>2. CASE \E a \in Attempts :
             \/ WorkerStep(a) \/ UserAnswers(a) \/ Cut(a)
             \/ Beat(a) /\ UNCHANGED <<cut, faults>>
  <2>1. PICK a \in Attempts : \/ WorkerStep(a) \/ UserAnswers(a) \/ Cut(a)
                              \/ Beat(a) /\ UNCHANGED <<cut, faults>>
    BY <1>2
  <2>2. CASE UserAnswers(a)
    BY <2>2, UserDecidesInv DEF UserAnswers
  <2> QED
    BY <2>1, <2>2, WorkerInvariant, CutInv, BeatInv
<1>3. CASE UNCHANGED vars
  <2>1. /\ UNCHANGED session /\ faults' = faults /\ attempt \in Attempts
        /\ \A b \in Attempts : Unmoved(b)
    BY <1>3 DEF vars, worker, wire, Unmoved, Inv, TypeOK
  <2>2. TypeOK' /\ decision'[attempt] = decision[attempt]
    BY <1>3 DEF vars, session, worker, wire, Inv, TypeOK
  <2>3. attempt' = attempt
    BY <2>1 DEF session
  <2>4. WorkerOK(attempt)' /\ WireOK(attempt)' /\ CalmOK(attempt)'
    <3>1. \A a \in Attempts : WorkerOK(a)' /\ WireOK(a)' /\ CalmOK(a)'
      BY <2>1, <2>3, OtherConnection
    <3> QED
      BY <2>1, <2>3, <3>1
  <2> QED
    BY <2>1, <2>2, <2>3, <2>4, WorkerFrame
<1> QED
  BY <1>1, <1>2, <1>3 DEF Next

\* The two programs and their connections keep the inductive invariant, whatever
\* the plan, the number of attempts and the faults.
THEOREM Invariance == Spec => []Inv
<1>1. Init => Inv
  BY InitInvariant
<1>2. Inv /\ [Next]_vars => Inv'
  BY NextInvariant
<1> QED
  BY <1>1, <1>2, PTL DEF Spec

\* Every variable has the shape its declaration says.
THEOREM TypeCorrect == Spec => []TypeOK
<1>1. Inv => TypeOK
  BY DEF Inv
<1> QED
  BY <1>1, Invariance, PTL

\* receive_connection: nothing is saved on the strength of the answer to another
\* attempt, and a rejected attempt saves nothing.
THEOREM ConsentIsPerAttempt == Spec => []CommitsOnlyIfAccepted
<1>1. Inv => CommitsOnlyIfAccepted
  BY DEF Inv, WorkerOK, CommitsOnlyIfAccepted
<1> QED
  BY <1>1, Invariance, PTL

\* send_prepared_files and receive_connection follow the same protocol: when
\* nothing goes wrong, each reads the frame it expects.
THEOREM SidesAgree == Spec => []ScriptsAgree
<1>1. ASSUME Inv, faults = {}, Reading, toS[attempt] # <<>>
      PROVE  Head(toS[attempt]) \in {"KeepAlive"} \cup
               (IF at <= Len(SenderScript) THEN {SenderScript[at][2]}
                ELSE {"accept", "reject"})
  BY <1>1, CalmReading
<1>2. ASSUME Inv, faults = {}, NEW a \in Attempts, toR[a] # <<>>
      PROVE  /\ ReceiverScripted(a, "recv") => Head(toR[a]) = ReceiverScript[rat[a]][2]
             /\ receiver[a] = "consent" => Head(toR[a]) = "KeepAliveAck"
             /\ receiver[a] = "receiving" /\ committed[a] < Files =>
                  Head(toR[a]) \in {"KeepAliveAck", "data", "last", "wrong"}
  <2>1. toR[a] \in Seq(ToReceiver)
    BY <1>2 DEF Inv, TypeOK
  <2>2. ASSUME ReceiverScripted(a, "recv") PROVE Head(toR[a]) = ReceiverScript[rat[a]][2]
    BY <1>2, <2>2, FrameForTheWorker DEF ReceiverScripted
  <2>3. ASSUME receiver[a] = "consent" PROVE Head(toR[a]) = "KeepAliveAck"
    <3>1. Talk(a)
      BY <1>2, <2>3, CalmWorker
    <3>2. AllIn(toR[a], {"KeepAliveAck"})
      BY <2>3, <3>1 DEF Talk
    <3>3. Head(toR[a]) \in {"KeepAliveAck"}
      BY <1>2, <2>1, <3>2, AllInRead
    <3> QED
      BY <3>3
  <2>4. ASSUME receiver[a] = "receiving", committed[a] < Files
        PROVE  Head(toR[a]) \in {"KeepAliveAck", "data", "last", "wrong"}
    BY <1>2, <2>4, FrameToReceive
  <2> QED
    BY <2>2, <2>3, <2>4
<1>3. Inv => ScriptsAgree
  BY <1>1, <1>2 DEF ScriptsAgree
<1> QED
  BY <1>3, Invariance, PTL

--------------------------------------------------------------------------
(* The promise of FileDelivery.                                            *)

\* What the refinement mapping says of the sender and of the workers.
Report == IF sender \in {"complete", "failed"} THEN sender ELSE "open"
Done == [a \in Attempts |-> receiver[a] \in {"saved", "rejected", "failed"}]

LEMMA NothingPromised ==
  ASSUME attempt' = attempt, Report' = Report, Done' = Done,
         UNCHANGED <<decision, committed, cut, faults>>
  PROVE  UNCHANGED Delivery!promise
BY DEF Delivery!promise, Report, Done

LEMMA TriesAreAttempts == Delivery!Tries = Attempts
BY DEF Delivery!Tries, Attempts

LEMMA OpenReport ==
  ASSUME sender \in Active
  PROVE  Report = "open"
BY DEF Active, Report

\* A worker that ends is done; one that moves on is no more done than before.
LEMMA DoneMoves ==
  ASSUME Inv, NEW a \in Attempts, receiver[a] \notin Ended, NEW to, Place(a, to)
  PROVE  /\ ~ Done[a]
         /\ to \in Ended => Done' = [Done EXCEPT ![a] = TRUE]
         /\ to \notin Ended => Done' = Done
<1>1. receiver \in [Attempts -> ReceiverPlaces]
  BY DEF Inv, TypeOK
<1>2. receiver' = [receiver EXCEPT ![a] = to]
  BY DEF Place
<1>3. ~ Done[a]
  BY DEF Done, Ended
<1>4. ASSUME NEW b \in Attempts
      PROVE  Done'[b] <=> IF b = a THEN to \in Ended ELSE Done[b]
  BY <1>1, <1>2, <1>4 DEF Done, Ended
<1>5. ASSUME to \in Ended PROVE Done' = [Done EXCEPT ![a] = TRUE]
  BY <1>1, <1>2, <1>5 DEF Done, Ended
<1>6. ASSUME to \notin Ended PROVE Done' = Done
  BY <1>1, <1>2, <1>6 DEF Done, Ended
<1> QED
  BY <1>3, <1>5, <1>6

LEMMA FailsAsPromised ==
  ASSUME sender \in Active, NEW error, NEW unread, SenderFails(error, unread),
         UNCHANGED <<worker, cut, faults>>
  PROVE  Delivery!Fail
<1>1. Report = "open" /\ Report' = "failed" /\ attempt' = attempt
  BY OpenReport DEF SenderFails, Report
<1>2. /\ decision' = decision /\ committed' = committed /\ Done' = Done
      /\ cut' = cut /\ faults' = faults
  BY DEF worker, Done
<1> QED
  BY <1>1, <1>2 DEF Delivery!Fail, Report, Done

LEMMA SenderAsPromised ==
  ASSUME Inv, SenderStep
  PROVE  [Delivery!Next]_(Delivery!promise)
<1>1. cut' = cut /\ faults' = faults
  BY DEF SenderStep
<1>2. ASSUME sender \in Active, sender' \in Active, attempt' = attempt, UNCHANGED worker
      PROVE  UNCHANGED Delivery!promise
  <2>1. Report' = Report /\ Done' = Done /\ decision' = decision /\ committed' = committed
    BY <1>2, OpenReport DEF Report, Active, Done, worker
  <2> QED
    BY <1>1, <1>2, <2>1, NothingPromised
<1>3. ASSUME sender \in Active, NEW error, NEW unread, SenderFails(error, unread),
             UNCHANGED worker
      PROVE  Delivery!Next
  BY <1>1, <1>3, FailsAsPromised DEF Delivery!Next
<1>4. CASE ScriptSend
  BY <1>2, <1>4 DEF ScriptSend, Advance, Active
<1>5. CASE WriteFails
  BY <1>3, <1>5 DEF WriteFails, Active
<1>6. CASE ScriptReadFails
  BY <1>3, <1>6 DEF ScriptReadFails, Reading, Active
<1>7. CASE AckKeepAlive
  BY <1>2, <1>7 DEF AckKeepAlive, Active, session
<1>8. CASE ScriptRead
  <2>1. sender \in Active /\ UNCHANGED worker
    BY <1>8 DEF ScriptRead, Reading, Active
  <2>2. \/ \E place \in {"script", "check"}, position \in {at + 1, 1} : Advance(place, position)
        \/ \E error \in {"protocol", "rejected"} : SenderFails(error, Tail(toS[attempt]))
    <3> DEFINE m == Head(toS[attempt])
    <3>1. CASE at <= Len(SenderScript)
      BY <1>8, <3>1 DEF ScriptRead
    <3>2. CASE ~ (at <= Len(SenderScript)) /\ m = "accept"
      BY <1>8, <3>2 DEF ScriptRead
    <3>3. CASE ~ (at <= Len(SenderScript)) /\ m = "reject"
      BY <1>8, <3>3 DEF ScriptRead
    <3>4. CASE ~ (at <= Len(SenderScript)) /\ m \notin {"accept", "reject"}
      BY <1>8, <3>4 DEF ScriptRead
    <3> QED
      BY <3>1, <3>2, <3>3, <3>4
  <2> QED
    BY <1>2, <1>3, <2>1, <2>2 DEF Advance, Active
<1>9. CASE CheckPeer
  <2>1. sender \in Active /\ UNCHANGED worker
    BY <1>9 DEF CheckPeer, Active
  <2>2. \/ \E place \in {"send", "finalize"} : Advance(place, at)
        \/ \E error \in {"protocol", "io"} : SenderFails(error, <<>>)
    BY <1>9 DEF CheckPeer
  <2> QED
    BY <1>2, <1>3, <2>1, <2>2 DEF Advance, Active
<1>10. CASE SendChunk
  BY <1>2, <1>10 DEF SendChunk, Advance, Active
<1>11. CASE SourceFails
  BY <1>3, <1>11 DEF SourceFails, Active
<1>12. CASE Finalize
  BY <1>2, <1>12 DEF Finalize, Advance, Active
<1>13. CASE Confirm
  <2>1. /\ attempt \in Attempts /\ sender \in Active /\ sender' = "complete"
        /\ attempt' = attempt /\ UNCHANGED worker /\ decision[attempt] = "accept"
        /\ WireOK(attempt) /\ CalmOK(attempt) /\ toS[attempt] \in Seq(ToSender)
    BY <1>13 DEF Inv, TypeOK, SenderOK, Confirm, Active
  <2>2. receiver[attempt] \in Ended \/ cut[attempt]
    <3>1. CASE EndedS(attempt)
      <4>1. "S" \notin shut[attempt]
        BY <2>1, <3>1 DEF WireOK, Inv, TypeOK, Attempts
      <4> QED
        BY <2>1, <3>1, <4>1 DEF WireOK, EndedS
    <3>2. CASE toS[attempt] # <<>> /\ Head(toS[attempt]) = "Disconnection"
      <4>1. toS[attempt][1] = "Disconnection" /\ 1 \in 1 .. Len(toS[attempt])
        BY <2>1, <3>2, BehindTheHead
      <4> QED
        BY <2>1, <4>1 DEF WireOK
    <3> QED
      BY <1>13, <3>1, <3>2 DEF Confirm
  <2>3. faults = {} => committed[attempt] = Files
    <3>1. ASSUME faults = {} PROVE committed[attempt] = Files
      <4>1. /\ Talk(attempt) /\ ~ cut[attempt] /\ receiver[attempt] # "failed"
            /\ sender = "confirm"
        BY <1>13, <2>1, <3>1, CalmSender DEF Confirm
      <4>2. receiver[attempt] = "saved"
        BY <2>2, <4>1 DEF Ended, Talk
      <4> QED
        BY <2>1, <3>1, <4>2 DEF CalmOK
    <3> QED
      BY <3>1
  <2>4. Report = "open" /\ Report' = "complete"
    BY <2>1, OpenReport DEF Report
  <2>5. decision' = decision /\ committed' = committed /\ Done' = Done
    BY <2>1 DEF worker, Done
  <2>6. Done[attempt] \/ cut[attempt]
    BY <2>1, <2>2 DEF Done, Ended
  <2>7. Delivery!Succeed
    BY <1>1, <2>1, <2>3, <2>4, <2>5, <2>6 DEF Delivery!Succeed, Report, Done
  <2> QED
    BY <2>7 DEF Delivery!Next
<1>14. CASE ConfirmTimesOut
  BY <1>3, <1>14 DEF ConfirmTimesOut, Active
<1>15. CASE Retry
  <2>1. /\ sender = "failed" /\ attempt < MaxAttempts /\ attempt' = attempt + 1
        /\ sender' = "script" /\ UNCHANGED worker
    BY <1>15 DEF Retry
  <2>2. Report = "failed" /\ Report' = "open"
    BY <2>1 DEF Report
  <2>3. decision' = decision /\ committed' = committed /\ Done' = Done
    BY <2>1 DEF worker, Done
  <2>4. Delivery!Retry
    BY <1>1, <2>1, <2>2, <2>3 DEF Delivery!Retry, Report, Done
  <2> QED
    BY <2>4 DEF Delivery!Next
<1> QED
  BY <1>4, <1>5, <1>6, <1>7, <1>8, <1>9, <1>10, <1>11, <1>12, <1>13, <1>14, <1>15
     DEF SenderStep

\* A worker moves on.
LEMMA WorkerMovesOn ==
  ASSUME Inv, NEW a \in Attempts, receiver[a] \notin Ended, NEW to, to \notin Ended,
         Place(a, to), UNCHANGED <<session, decision, committed, cut, faults>>
  PROVE  UNCHANGED Delivery!promise
<1>1. Done' = Done
  BY DoneMoves
<1>2. attempt' = attempt /\ Report' = Report
  BY DEF session, Report
<1> QED
  BY <1>1, <1>2, NothingPromised

\* A worker changes neither its place nor what it saved.
LEMMA WorkerStays ==
  ASSUME UNCHANGED <<session, receiver, decision, committed, cut, faults>>
  PROVE  UNCHANGED Delivery!promise
<1>1. attempt' = attempt /\ Report' = Report /\ Done' = Done
  BY DEF session, Report, Done
<1> QED
  BY <1>1, NothingPromised

\* A worker that ends keeps the promise: an accepted offer ends early only if
\* something went wrong.
LEMMA EndsAsPromised ==
  ASSUME Inv, NEW a \in Attempts, receiver[a] \notin Ended \cup {"idle"},
         NEW to \in Ended, Place(a, to),
         UNCHANGED <<session, decision, committed, cut, faults>>,
         faults = {} /\ decision[a] = "accept" => committed[a] = Files
  PROVE  Delivery!End(a)
<1>1. a <= attempt
  <2>1. WireOK(a) /\ attempt \in Nat /\ a \in Nat
    BY DEF Inv, TypeOK, Attempts
  <2> QED
    BY <2>1 DEF WireOK
<1>2. ~ Done[a] /\ Done' = [Done EXCEPT ![a] = TRUE]
  BY DoneMoves
<1>3. attempt' = attempt /\ Report' = Report
  BY DEF session, Report
<1> QED
  BY <1>1, <1>2, <1>3 DEF Delivery!End, Report, Done

LEMMA LosesPeerAsPromised ==
  ASSUME Inv, NEW a \in Attempts, WorkerLosesPeer(a), UNCHANGED <<cut, faults>>
  PROVE  Delivery!End(a)
<1>1. /\ receiver[a] \in {"script", "consent", "receiving"} /\ ReceiverFails(a, toR[a])
      /\ receiver[a] \notin Ended \cup {"idle"} /\ "failed" \in Ended
  BY DEF WorkerLosesPeer, ReceiverScripted, Ended
<1>2. faults # {}
  <2> SUFFICES ASSUME faults = {} PROVE FALSE
    OBVIOUS
  <2>1. "S" \notin shut[a] /\ ~ reset[a] /\ ~ Timeouts
    BY <1>1, CalmWorker, NoFaults
  <2> QED
    BY <2>1 DEF WorkerLosesPeer, EndedR, LateR
<1>3. Place(a, "failed") /\ UNCHANGED <<session, decision, committed, cut, faults>>
  BY <1>1 DEF ReceiverFails
<1> QED
  BY <1>1, <1>2, <1>3, EndsAsPromised

LEMMA ReadsAsPromised ==
  ASSUME Inv, NEW a \in Attempts, WorkerReads(a), UNCHANGED <<cut, faults>>
  PROVE  Delivery!End(a) \/ UNCHANGED Delivery!promise
<1>1. /\ receiver[a] = "script" /\ receiver[a] \notin Ended \cup {"idle"}
      /\ decision[a] = "none" /\ "failed" \in Ended
      /\ "consent" \notin Ended /\ "script" \notin Ended
  BY DEF WorkerReads, ReceiverScripted, Inv, WorkerOK, Ended
<1>2. CASE ReceiverFails(a, Tail(toR[a]))
  <2>1. Place(a, "failed") /\ UNCHANGED <<session, decision, committed, cut, faults>>
    BY <1>2 DEF ReceiverFails
  <2> QED
    BY <1>1, <2>1, EndsAsPromised
<1>3. CASE Proceed(a)
  <2>1. PICK to \in {"consent", "script"} : Place(a, to)
    BY <1>3 DEF Proceed
  <2>2. UNCHANGED <<session, decision, committed, cut, faults>> /\ to \notin Ended
    BY <1>1, <1>3 DEF Proceed
  <2> QED
    BY <1>1, <2>1, <2>2, WorkerMovesOn
<1> QED
  BY <1>2, <1>3 DEF WorkerReads

LEMMA SendsAsPromised ==
  ASSUME Inv, NEW a \in Attempts, WorkerSends(a), UNCHANGED <<cut, faults>>
  PROVE  UNCHANGED Delivery!promise
<1>1. /\ receiver[a] \notin Ended /\ "consent" \notin Ended /\ "script" \notin Ended
      /\ Proceed(a)
  BY DEF WorkerSends, ReceiverScripted, Ended
<1>2. PICK to \in {"consent", "script"} : Place(a, to)
  BY <1>1 DEF Proceed
<1>3. UNCHANGED <<session, decision, committed, cut, faults>> /\ to \notin Ended
  BY <1>1 DEF Proceed
<1> QED
  BY <1>1, <1>2, <1>3, WorkerMovesOn

LEMMA AcceptsAsPromised ==
  ASSUME Inv, NEW a \in Attempts, Accept(a), UNCHANGED <<cut, faults>>
  PROVE  Delivery!End(a) \/ UNCHANGED Delivery!promise
<1>1. /\ receiver[a] = "consent" /\ receiver[a] \notin Ended \cup {"idle"}
      /\ "failed" \in Ended /\ "receiving" \notin Ended
  BY DEF Accept, Ended
<1>2. CASE (IOFaults \/ reset[a]) /\ ReceiverFails(a, toR[a])
  <2>1. faults # {}
    BY <1>1, <1>2, CalmWorker, NoFaults
  <2>2. Place(a, "failed") /\ UNCHANGED <<session, decision, committed, cut, faults>>
    BY <1>2 DEF ReceiverFails
  <2> QED
    BY <1>1, <2>1, <2>2, EndsAsPromised
<1>3. CASE /\ PutS(a, "accept") /\ Place(a, "receiving")
           /\ UNCHANGED <<session, rat, decision, committed, beats>>
  <2>1. UNCHANGED <<session, decision, committed, cut, faults>>
    BY <1>3
  <2> QED
    BY <1>1, <1>3, <2>1, WorkerMovesOn
<1> QED
  BY <1>2, <1>3 DEF Accept

LEMMA ReceivesAsPromised ==
  ASSUME Inv, NEW a \in Attempts, Receive(a), UNCHANGED <<cut, faults>>
  PROVE  Delivery!End(a) \/ Delivery!Save(a) \/ UNCHANGED Delivery!promise
<1> DEFINE m == Head(toR[a])
<1>1. /\ receiver[a] = "receiving" /\ committed[a] < Files /\ toR[a] # <<>>
      /\ receiver[a] \notin Ended \cup {"idle"} /\ "failed" \in Ended
      /\ decision[a] = "accept"
  BY DEF Receive, Inv, WorkerOK, Ended
<1>2. CASE ReceiverFails(a, Tail(toR[a]))
  <2>1. receiver \in [Attempts -> ReceiverPlaces]
    BY DEF Inv, TypeOK
  <2>2. m \notin {"data", "last", "KeepAliveAck"} \/ IOFaults
    <3>1. receiver'[a] = "failed" /\ receiver' # receiver
      BY <1>1, <1>2, <2>1 DEF ReceiverFails, Place
    <3> QED
      BY <3>1 DEF Receive, worker
  <2>3. faults = {} => m \in {"data", "last", "KeepAliveAck"}
    BY <1>1, FrameToReceive
  <2>4. faults # {}
    BY <2>2, <2>3, NoFaults
  <2>5. Place(a, "failed") /\ UNCHANGED <<session, decision, committed, cut, faults>>
    BY <1>2 DEF ReceiverFails
  <2> QED
    BY <1>1, <2>4, <2>5, EndsAsPromised
<1>3. CASE UNCHANGED <<session, worker>>
  <2>1. UNCHANGED <<session, receiver, decision, committed, cut, faults>>
    BY <1>3 DEF worker
  <2> QED
    BY <2>1, WorkerStays
<1>4. CASE /\ committed' = [committed EXCEPT ![a] = @ + 1]
           /\ UNCHANGED <<session, receiver, rat, decision, beats>>
  <2>1. /\ attempt' = attempt /\ Report' = Report /\ Done' = Done /\ ~ Done[a]
        /\ decision' = decision
    BY <1>1, <1>4 DEF session, Report, Done, Ended
  <2>2. Delivery!Save(a)
    BY <1>1, <1>4, <2>1 DEF Delivery!Save, Report, Done
  <2> QED
    BY <2>2
<1> QED
  BY <1>2, <1>3, <1>4 DEF Receive

LEMMA FinishesAsPromised ==
  ASSUME Inv, NEW a \in Attempts, Reject(a) \/ Finish(a), UNCHANGED <<cut, faults>>
  PROVE  Delivery!End(a)
<1>1. /\ receiver[a] \notin Ended \cup {"idle"}
      /\ decision[a] = "accept" => committed[a] = Files
      /\ UNCHANGED <<session, decision, committed, cut, faults>>
  BY DEF Reject, Finish, Ended
<1>2. PICK to \in Ended : Place(a, to)
  BY DEF Reject, Finish, Ended
<1> QED
  BY <1>1, <1>2, EndsAsPromised

LEMMA WorkerAsPromised ==
  ASSUME Inv, NEW a \in Attempts, WorkerStep(a)
  PROVE  Delivery!End(a) \/ Delivery!Save(a) \/ UNCHANGED Delivery!promise
<1>1. UNCHANGED <<cut, faults>>
  BY DEF WorkerStep
<1>2. CASE Admit(a)
  <2>1. /\ receiver[a] \notin Ended /\ "script" \notin Ended /\ Place(a, "script")
        /\ UNCHANGED <<session, decision, committed, cut, faults>>
    BY <1>1, <1>2 DEF Admit, Ended
  <2> QED
    BY <2>1, WorkerMovesOn
<1>3. CASE ReadInConsent(a)
  BY <1>1, <1>3, WorkerStays DEF ReadInConsent, worker
<1> QED
  BY <1>1, <1>2, <1>3, SendsAsPromised, ReadsAsPromised, LosesPeerAsPromised,
     AcceptsAsPromised, ReceivesAsPromised, FinishesAsPromised DEF WorkerStep

LEMMA AnswersAsPromised ==
  ASSUME Inv, NEW a \in Attempts, UserAnswers(a)
  PROVE  Delivery!Answer(a)
<1>1. PICK d \in {"accept", "reject"} : UserDecides(a, d)
  BY DEF UserAnswers
<1>2. a <= attempt
  <2>1. WireOK(a) /\ attempt \in Nat /\ a \in Nat /\ receiver[a] = "consent"
    BY <1>1 DEF Inv, TypeOK, Attempts, UserDecides
  <2> QED
    BY <2>1 DEF WireOK
<1>3. /\ attempt' = attempt /\ Report' = Report /\ Done' = Done /\ ~ Done[a]
      /\ committed' = committed /\ cut' = cut /\ faults' = faults
      /\ decision[a] = "none" /\ decision' = [decision EXCEPT ![a] = d]
  BY <1>1 DEF UserDecides, UserAnswers, session, Report, Done
<1> QED
  BY <1>2, <1>3 DEF Delivery!Answer, Report, Done

LEMMA BreaksAsPromised ==
  ASSUME Inv, NEW a \in Attempts, Cut(a)
  PROVE  Delivery!Break(a)
<1>1. ~ cut[a]
  BY DEF Cut, Inv, WireOK
<1>2. faults # {}
  BY DEF Cut, Cuts
<1>3. /\ attempt' = attempt /\ Report' = Report /\ Done' = Done
      /\ committed' = committed /\ decision' = decision /\ faults' = faults
      /\ cut' = [cut EXCEPT ![a] = TRUE]
  BY DEF Cut, session, worker, Report, Done
<1> QED
  BY <1>1, <1>2, <1>3 DEF Delivery!Break, Report, Done

\* Whatever the network, the disk and the interleaving of the two programs do,
\* a direct send keeps the promise of FileDelivery: success is reported for an
\* offer its user accepted, after the receiver is done with it or can no longer
\* be heard, and with nothing going wrong only if every file is saved; nothing
\* is saved after a worker ended or without its own offer's acceptance.
THEOREM PromiseKept == Spec => ImplementsFileDelivery
<1>1. Init => Delivery!Init
  <2> SUFFICES ASSUME Init PROVE Delivery!Init
    OBVIOUS
  <2>1. (faults = {}) \in BOOLEAN
    OBVIOUS
  <2>2. attempt = 1 /\ Report = "open"
    BY DEF Init, Report
  <2>3. /\ decision = [a \in Attempts |-> "none"] /\ committed = [a \in Attempts |-> 0]
        /\ cut = [a \in Attempts |-> FALSE]
    BY DEF Init
  <2>4. Done = [a \in Attempts |-> FALSE]
    <3>1. \A a \in Attempts : (receiver[a] \in {"saved", "rejected", "failed"}) = FALSE
      BY DEF Init
    <3> QED
      BY <3>1, Zenon DEF Done
  <2> QED
    BY <2>1, <2>2, <2>3, <2>4, TriesAreAttempts DEF Delivery!Init, Report, Done
<1>2. Inv /\ [Next]_vars => [Delivery!Next]_(Delivery!promise)
  <2> SUFFICES ASSUME Inv, [Next]_vars
               PROVE  Delivery!Next \/ UNCHANGED Delivery!promise
    OBVIOUS
  <2>1. ASSUME NEW a \in Attempts,
               Delivery!Answer(a) \/ Delivery!Save(a) \/ Delivery!End(a) \/ Delivery!Break(a)
        PROVE  Delivery!Next
    BY <2>1, TriesAreAttempts DEF Delivery!Next
  <2>2. CASE SenderStep
    BY <2>2, SenderAsPromised
  <2>3. ASSUME NEW a \in Attempts, WorkerStep(a)
        PROVE  Delivery!Next \/ UNCHANGED Delivery!promise
    BY <2>1, <2>3, WorkerAsPromised
  <2>4. ASSUME NEW a \in Attempts, UserAnswers(a) \/ Cut(a)
        PROVE  Delivery!Next
    BY <2>1, <2>4, AnswersAsPromised, BreaksAsPromised
  <2>5. ASSUME NEW a \in Attempts, Beat(a), UNCHANGED <<cut, faults>>
        PROVE  UNCHANGED Delivery!promise
    BY <2>5, WorkerStays DEF Beat
  <2>6. CASE UNCHANGED vars
    BY <2>6, WorkerStays DEF vars, worker
  <2> QED
    BY <2>2, <2>3, <2>4, <2>5, <2>6 DEF Next
<1> QED
  BY <1>1, <1>2, Invariance, PTL DEF Spec, ImplementsFileDelivery, Delivery!Spec

=============================================================================
