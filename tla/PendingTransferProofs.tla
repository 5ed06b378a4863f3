----------------------- MODULE PendingTransferProofs -----------------------
(***************************************************************************)
(* PendingTransfer for any number of workers, any introductions, any names  *)
(* and any payload sizes: the inductive invariant Inv, and what follows     *)
(* from it.                                                                 *)
(***************************************************************************)
EXTENDS PendingTransfer, Sums, FiniteSetTheorems, TLAPS

USE DEF Slots, Absent, NoText, Live, history

\* The sizes an introduction declares are naturals.
LEMMA Sizes ==
  ASSUME TypeOK, NEW t \in Transfers
  PROVE  /\ Len(intro[t].files) \in Nat /\ Len(intro[t].texts) \in Nat
         /\ FileSlots(t) \subseteq Slots /\ TextSlots(t) \subseteq Slots
         /\ \A k \in FileSlots(t) : /\ FileAt(t, k).size \in Nat
                                    /\ FileAt(t, k).name \in Names
         /\ \A k \in TextSlots(t) : TextAt(t, k).size \in Nat
<1>1. intro[t] \in Introductions
  BY DEF TypeOK
<1> QED
  BY <1>1, IntroductionsAssumption, BoundsAssumption
  DEF FileSlots, TextSlots, FileAt, TextAt, FileMetadata, TextMetadata

\* The initial state satisfies the invariant.
LEMMA InitInv == Init => Inv
<1> SUFFICES ASSUME Init PROVE Inv
  OBVIOUS
<1> USE BoundsAssumption, NamesAssumption DEF Init
<1>1. TypeOK
  <2>1. completed \in [Transfers -> Seq(Finals)]
    OBVIOUS
  <2>2. dest \in [Transfers -> [Slots -> Finals]]
    BY DEF Finals
  <2>3. saved \in [Finals -> Contents]
    BY DEF Contents, Content, Nobody
  <2>4. naming \in [Transfers -> {NoText} \cup (Slots \X Finals)]
    OBVIOUS
  <2>5. /\ phase \in [Transfers -> Phases] /\ intro \in [Transfers -> Introductions]
        /\ prepared \in [Transfers -> 0 .. MaxSlots]
        /\ open \in [Transfers -> SUBSET Slots]
        /\ texts \in [Transfers -> SUBSET Slots]
    BY DEF Phases
  <2>6. /\ got \in [Transfers -> [Slots -> Nat]] /\ received \in [Transfers -> Nat]
        /\ parts \in [Transfers -> [Slots -> Nat \cup {Absent}]]
        /\ inBytes \in [Transfers -> SUBSET Slots]
        /\ stuck \in [Transfers -> SUBSET Slots]
    OBVIOUS
  <2> QED
    BY <2>1, <2>2, <2>3, <2>4, <2>5, <2>6 DEF TypeOK
<1>2. TablesOK
  BY <1>1, Sizes DEF TablesOK
<1>3. PartsOK
  BY DEF PartsOK, Tracked, PartsOf
<1>4. DoneLeavesNoPart
  BY DEF DoneLeavesNoPart
<1> QED
  BY <1>1, <1>2, <1>3, <1>4 DEF Inv

--------------------------------------------------------------------------
(* What the two ways a file leaves the table do to the invariant.          *)

\* A step of one worker leaves the accounts of another alone.
LEMMA Untouched ==
  ASSUME NEW u, Tracked(u), UNCHANGED <<intro, prepared>>,
         phase'[u] = phase[u], open'[u] = open[u],
         parts'[u] = parts[u], got'[u] = got[u]
  PROVE  Tracked(u)'
BY DEF Tracked, PartsOf, FileAt

\* cleanup_parts on the entries left in the table keeps the invariant,
\* whatever the part files of those entries held.
LEMMA Failing ==
  ASSUME Inv, NEW t \in Transfers, phase[t] \in {"receiving", "naming"},
         NEW left \in SUBSET open[t],
         NEW partsNow \in [Slots -> Nat \cup {Absent}],
         FailReceiving(t, left, partsNow),
         UNCHANGED <<intro, prepared, dest>>,
         got' \in [Transfers -> [Slots -> Nat]],
         \A k \in Slots : k > prepared[t] => got'[t][k] = 0,
         \A u \in Transfers \ {t} : got'[u] = got[u] /\ naming'[u] = naming[u],
         texts' \in [Transfers -> SUBSET Slots],
         \A u \in Transfers : texts'[u] \subseteq texts[u],
         \A u \in Transfers \ {t} : texts'[u] = texts[u],
         naming' \in [Transfers -> {NoText} \cup (Slots \X Finals)],
         received' \in [Transfers -> Nat],
         completed' \in [Transfers -> Seq(Finals)],
         saved' \in [Finals -> Contents],
         inBytes' \in [Transfers -> SUBSET Slots], inBytes'[t] \cap left = {},
         \A u \in Transfers \ {t} : inBytes'[u] = inBytes[u]
  PROVE  Inv'
<1> USE DEF Inv
<1>1. /\ phase' = [phase EXCEPT ![t] = "failed"]
      /\ open' = [open EXCEPT ![t] = left]
      /\ \A u \in Transfers \ {t} : parts'[u] = parts[u]
      /\ parts' \in [Transfers -> [Slots -> Nat \cup {Absent}]]
      /\ stuck' \in [Transfers -> SUBSET Slots]
  <2>1. PICK kept \in SUBSET left :
          /\ stuck' = [stuck EXCEPT ![t] = kept]
          /\ parts' = [parts EXCEPT ![t] =
               [k \in Slots |-> IF k \in left \ kept THEN Absent ELSE partsNow[k]]]
    BY DEF FailReceiving
  <2>2. /\ phase' = [phase EXCEPT ![t] = "failed"]
        /\ open' = [open EXCEPT ![t] = left]
    BY DEF FailReceiving
  <2>3. kept \in SUBSET Slots
    BY DEF TypeOK
  <2> QED
    BY <2>1, <2>2, <2>3 DEF TypeOK
<1>2. TypeOK'
  BY <1>1 DEF TypeOK, Phases
<1>3. TablesOK'
  <2>1. /\ phase'[t] = "failed" /\ open'[t] = left
        /\ \A u \in Transfers \ {t} : phase'[u] = phase[u] /\ open'[u] = open[u]
    BY <1>1 DEF TypeOK
  <2>2. \A u \in Transfers : /\ open'[u] \subseteq open[u]
                             /\ inBytes'[u] \cap open'[u] = {}
                             /\ phase'[u] \in {"offered", "preparing"}
                                  => inBytes'[u] = {}
    BY <2>1 DEF TablesOK
  <2>3. \A u \in Transfers : phase'[u] = "naming" =>
                             naming'[u] \in TextSlots(u) \X Finals
    BY <2>1 DEF TablesOK
  <2> QED
    BY <2>2, <2>3 DEF TablesOK, TextSlots
<1>4. PartsOK'
  <2> SUFFICES ASSUME NEW u \in Transfers PROVE Tracked(u)'
    BY DEF PartsOK
  <2>1. CASE u = t
    BY <1>1, <2>1 DEF TypeOK, Tracked
  <2>2. CASE u # t
    <3>1. /\ phase'[u] = phase[u] /\ open'[u] = open[u]
          /\ parts'[u] = parts[u] /\ got'[u] = got[u]
      BY <1>1, <2>2 DEF TypeOK
    <3> QED
      BY <3>1, Untouched DEF PartsOK
  <2> QED
    BY <2>1, <2>2
<1>5. DoneLeavesNoPart'
  BY <1>1 DEF DoneLeavesNoPart, PartsOf, TypeOK
<1> QED
  BY <1>2, <1>3, <1>4, <1>5

\* Renaming the part of an entry to its destination keeps the invariant.
LEMMA Committing ==
  ASSUME Inv, NEW t \in Transfers, phase[t] = "receiving",
         NEW k \in open[t], NEW size \in Nat, Commit(t, k, size),
         UNCHANGED <<intro, prepared, texts, dest, naming>>,
         got' \in [Transfers -> [Slots -> Nat]],
         \A u \in Transfers \ {t} : got'[u] = got[u],
         \A j \in Slots \ {k} : got'[t][j] = got[t][j],
         received' \in [Transfers -> Nat],
         inBytes' \in [Transfers -> SUBSET Slots],
         inBytes'[t] \subseteq inBytes[t] \cup {k},
         \A u \in Transfers \ {t} : inBytes'[u] = inBytes[u]
  PROVE  Inv'
<1> USE BoundsAssumption DEF Inv
<1>1. k \in Slots /\ k <= prepared[t] /\ dest[t][k] \in Finals
  BY DEF TypeOK, TablesOK
<1>2. /\ phase' = phase /\ stuck' = stuck
      /\ open' = [open EXCEPT ![t] = open[t] \ {k}]
      /\ parts' = [parts EXCEPT ![t] = [parts[t] EXCEPT ![k] = Absent]]
      /\ saved' = [saved EXCEPT ![dest[t][k]] = Content("file", t, k, size)]
      /\ completed' = [completed EXCEPT ![t] = Append(completed[t], dest[t][k])]
  BY DEF Commit
<1>3. TypeOK'
  <2>1. parts' \in [Transfers -> [Slots -> Nat \cup {Absent}]]
    BY <1>2 DEF TypeOK
  <2>2. saved' \in [Finals -> Contents]
    BY <1>1, <1>2 DEF TypeOK, Contents, Content
  <2>3. completed' \in [Transfers -> Seq(Finals)]
    <3>1. completed[t] \in Seq(Finals)
      BY DEF TypeOK
    <3>2. Append(completed[t], dest[t][k]) \in Seq(Finals)
      BY <1>1, <3>1
    <3> QED
      BY <1>2, <3>2 DEF TypeOK
  <2>4. open' \in [Transfers -> SUBSET Slots]
    BY <1>2 DEF TypeOK
  <2> QED
    BY <1>2, <2>1, <2>2, <2>3, <2>4 DEF TypeOK
<1>4. TablesOK'
  BY <1>2 DEF TablesOK, TypeOK, TextSlots
<1>5. PartsOK'
  <2> SUFFICES ASSUME NEW u \in Transfers PROVE Tracked(u)'
    BY DEF PartsOK
  <2>1. CASE u = t
    <3>1. \A j \in Slots : parts'[t][j] = IF j = k THEN Absent ELSE parts[t][j]
      BY <1>2 DEF TypeOK
    <3>2. \A j \in Slots : j > prepared'[t] => got'[t][j] = 0
      <4>1. \A j \in Slots : j > prepared[t] => j # k /\ got[t][j] = 0
        BY <1>1 DEF PartsOK, Tracked, TypeOK
      <4> QED
        BY <4>1
    <3>3. open'[t] = open[t] \ {k}
      BY <1>2 DEF TypeOK
    <3>4. /\ PartsOf(t) = open[t]
          /\ \A j \in open[t] : /\ parts[t][j] = got[t][j]
                                /\ got[t][j] <= FileAt(t, j).size
      BY DEF PartsOK, Tracked
    <3>5. PartsOf(t)' = open'[t]
      BY <3>1, <3>3, <3>4 DEF PartsOf, TypeOK
    <3>6. \A j \in open'[t] : /\ parts'[t][j] = got'[t][j]
                              /\ got'[t][j] <= FileAt(t, j)'.size
      BY <3>1, <3>3, <3>4 DEF FileAt, TypeOK
    <3> QED
      BY <2>1, <3>2, <3>5, <3>6 DEF Tracked
  <2>2. CASE u # t
    <3>1. /\ phase'[u] = phase[u] /\ open'[u] = open[u]
          /\ parts'[u] = parts[u] /\ got'[u] = got[u]
      BY <1>2, <2>2 DEF TypeOK
    <3> QED
      BY <3>1, Untouched DEF PartsOK
  <2> QED
    BY <2>1, <2>2
<1>6. DoneLeavesNoPart'
  BY <1>2 DEF DoneLeavesNoPart, PartsOf, TypeOK
<1> QED
  BY <1>3, <1>4, <1>5, <1>6

\* Bytes counted for an entry of the table, and for the transfer.
LEMMA Counting ==
  ASSUME TypeOK, NEW t \in Transfers, NEW len \in 0 .. MaxBody
  PROVE  Count(t, len) \in [Transfers -> Nat]
BY BoundsAssumption DEF TypeOK, Count

\* Counting len more bytes for one open entry leaves the other transfers alone.
LEMMA Crediting ==
  ASSUME Inv, NEW t \in Transfers, NEW k \in open[t], NEW len \in 0 .. MaxBody,
         got' = [got EXCEPT ![t] = [got[t] EXCEPT ![k] = @ + len]]
  PROVE  /\ got' \in [Transfers -> [Slots -> Nat]]
         /\ \A u \in Transfers \ {t} : got'[u] = got[u]
         /\ \A j \in Slots \ {k} : got'[t][j] = got[t][j]
         /\ \A j \in Slots : j > prepared[t] => got'[t][j] = 0
<1>1. k \in Slots /\ k <= prepared[t] /\ prepared[t] \in Nat
  BY BoundsAssumption DEF Inv, TypeOK, TablesOK
<1>2. got'[t] = [got[t] EXCEPT ![k] = @ + len]
  BY DEF Inv, TypeOK
<1>3. /\ got[t] \in [Slots -> Nat]
      /\ \A j \in Slots : j > prepared[t] => j # k /\ got[t][j] = 0
  BY <1>1 DEF Inv, TypeOK, PartsOK, Tracked
<1>4. /\ got'[t] \in [Slots -> Nat] /\ got'[t][k] = got[t][k] + len
      /\ \A j \in Slots \ {k} : got'[t][j] = got[t][j]
  BY <1>1, <1>2, <1>3, BoundsAssumption
<1>5. /\ got' \in [Transfers -> [Slots -> Nat]]
      /\ \A u \in Transfers \ {t} : got'[u] = got[u]
  BY <1>2, <1>4 DEF Inv, TypeOK
<1> QED
  BY <1>3, <1>4, <1>5

\* The part of an entry that is being received is as long as its count.
LEMMA PartLength ==
  ASSUME Inv, NEW t \in Transfers, phase[t] \in {"receiving", "naming"},
         NEW k \in open[t], NEW len \in 0 .. MaxBody
  PROVE  /\ k \in Slots /\ k \in FileSlots(t)
         /\ parts[t][k] = got[t][k] /\ got[t][k] \in Nat
         /\ [parts[t] EXCEPT ![k] = @ + len] \in [Slots -> Nat \cup {Absent}]
         /\ [parts[t] EXCEPT ![k] = @ + len][k] = got[t][k] + len
<1>1. /\ k \in Slots /\ k \in 1 .. prepared[t] /\ prepared[t] <= Len(intro[t].files)
      /\ prepared[t] \in Nat /\ Len(intro[t].files) \in Nat
  <2>1. Len(intro[t].files) \in Nat
    BY Sizes DEF Inv
  <2>2. prepared[t] \in Nat /\ k \in Slots
    BY BoundsAssumption DEF Inv, TypeOK
  <2>3. k \in 1 .. prepared[t] /\ prepared[t] <= Len(intro[t].files)
    BY DEF Inv, TablesOK
  <2> QED
    BY <2>1, <2>2, <2>3
<1>2. parts[t][k] = got[t][k] /\ got[t][k] \in Nat
  BY <1>1 DEF Inv, PartsOK, Tracked, TypeOK
<1>3. parts[t] \in [Slots -> Nat \cup {Absent}]
  BY DEF Inv, TypeOK
<1> DEFINE longer == [parts[t] EXCEPT ![k] = @ + len]
<1>4. parts[t][k] + len \in Nat /\ parts[t][k] + len = got[t][k] + len
  BY <1>2, BoundsAssumption
<1>5. longer \in [Slots -> Nat \cup {Absent}] /\ longer[k] = got[t][k] + len
  BY <1>1, <1>3, <1>4
<1>6. k \in FileSlots(t)
  BY <1>1 DEF FileSlots
<1> QED
  BY <1>1, <1>2, <1>5, <1>6

--------------------------------------------------------------------------
(* The steps.                                                              *)

\* A step that only moves workers from one phase to another, none of them
\* back to life, keeps the invariant.
LEMMA Moving ==
  ASSUME Inv, UNCHANGED <<worker, disk>>, phase' \in [Transfers -> Phases],
         \A u \in Transfers :
           /\ phase'[u] \in Live => phase[u] \in Live
           /\ phase'[u] \in {"offered", "preparing"}
                => phase[u] \in {"offered", "preparing"}
           /\ phase'[u] = "naming" => phase[u] = "naming"
           /\ phase'[u] = "done" => phase[u] = "done" \/ PartsOf(u) = {}
  PROVE  Inv'
<1> USE DEF Inv, worker, disk
<1>1. TypeOK'
  BY DEF TypeOK
<1>2. TablesOK'
  BY DEF TablesOK, TextSlots
<1>3. PartsOK'
  BY DEF PartsOK, Tracked, PartsOf, FileAt
<1>4. DoneLeavesNoPart'
  BY DEF DoneLeavesNoPart, PartsOf
<1> QED
  BY <1>1, <1>2, <1>3, <1>4

\* A file saved by somebody else touches no table and no part.
LEMMA UserSavesInv ==
  ASSUME Inv, NEW p \in UserPaths, UserSaves(p)
  PROVE  Inv'
<1> USE DEF Inv, worker
<1>1. UNCHANGED <<phase, worker, parts>>
  BY DEF UserSaves
<1>2. saved' \in [Finals -> Contents]
  <2>1. Users \in Contents
    BY BoundsAssumption DEF Contents, Content, Users
  <2>2. saved \in [Finals -> Contents] /\ saved' = [saved EXCEPT ![p] = Users]
    BY DEF UserSaves, TypeOK
  <2> QED
    BY <2>1, <2>2
<1>3. TypeOK'
  BY <1>1, <1>2 DEF TypeOK
<1>4. TablesOK' /\ PartsOK' /\ DoneLeavesNoPart'
  BY <1>1 DEF TablesOK, TextSlots, PartsOK, Tracked, PartsOf, FileAt,
     DoneLeavesNoPart
<1> QED
  BY <1>3, <1>4

\* One worker t leaves phase "offered" or "preparing" and touches no file.
LEMMA EarlyStep ==
  ASSUME Inv, NEW t \in Transfers, phase[t] \in {"offered", "preparing"},
         NEW p \in {"rejected", "preparing", "failed"},
         phase' = [phase EXCEPT ![t] = p], UNCHANGED <<worker, disk>>
  PROVE  Inv'
<1>1. phase' \in [Transfers -> Phases]
  BY DEF Inv, TypeOK, Phases
<1>2. \A u \in Transfers : IF u = t THEN phase'[u] = p ELSE phase'[u] = phase[u]
  BY DEF Inv, TypeOK
<1> QED
  BY <1>1, <1>2, Moving

\* One entry of prepare keeps the invariant (unique_destination, File::create).
LEMMA PrepareFileInv ==
  ASSUME Inv, NEW t \in Transfers, PrepareFile(t)
  PROVE  Inv'
<1> DEFINE k == prepared[t] + 1
<1> USE BoundsAssumption DEF Inv
<1>1. /\ k \in Nat /\ k <= Len(intro[t].files) /\ k \in FileSlots(t) /\ k \in Slots
      /\ prepared[t] \in Nat /\ k > prepared[t]
  <2>1. prepared[t] \in Nat /\ Len(intro[t].files) \in Nat
    BY Sizes DEF TypeOK
  <2>2. prepared[t] < Len(intro[t].files)
    BY DEF PrepareFile
  <2>3. k \in FileSlots(t)
    BY <2>1, <2>2 DEF FileSlots
  <2> QED
    BY <2>1, <2>2, <2>3, Sizes
<1>2. PICK p \in Finals : /\ UniqueDestination(FileAt(t, k).name, p)
                          /\ dest' = [dest EXCEPT ![t] = [dest[t] EXCEPT ![k] = p]]
  BY DEF PrepareFile
<1>4. /\ parts' = [parts EXCEPT ![t] = [parts[t] EXCEPT ![k] = 0]]
      /\ prepared' = [prepared EXCEPT ![t] = k]
      /\ open' = [open EXCEPT ![t] = open[t] \cup {k}]
      /\ phase[t] = "preparing"
      /\ phase' = phase \/ phase' = [phase EXCEPT ![t] = "failed"]
      /\ UNCHANGED <<intro, texts, got, received, completed, naming, saved, history>>
  BY DEF PrepareFile
<1> HIDE DEF k
<1>5. TypeOK'
  <2>1. dest' \in [Transfers -> [Slots -> Finals]]
    BY <1>1, <1>2 DEF TypeOK
  <2>2. phase' \in [Transfers -> Phases]
    BY <1>4 DEF TypeOK, Phases
  <2>3. prepared' \in [Transfers -> 0 .. MaxSlots]
    BY <1>1, <1>4 DEF TypeOK
  <2>4. open' \in [Transfers -> SUBSET Slots]
    BY <1>1, <1>4 DEF TypeOK
  <2>5. parts' \in [Transfers -> [Slots -> Nat \cup {Absent}]]
    BY <1>1, <1>4 DEF TypeOK
  <2> QED
    BY <1>4, <2>1, <2>2, <2>3, <2>4, <2>5 DEF TypeOK
<1>6. TablesOK'
  <2> SUFFICES ASSUME NEW u \in Transfers
               PROVE  /\ prepared'[u] <= Len(intro[u].files)
                      /\ open'[u] \subseteq 1 .. prepared'[u]
                      /\ texts[u] \subseteq TextSlots(u)
                      /\ phase'[u] = "naming" =>
                           naming[u] \in TextSlots(u) \X Finals
                      /\ inBytes[u] \cap open'[u] = {}
                      /\ phase'[u] \in {"offered", "preparing"}
                           => inBytes[u] = {}
    BY <1>4 DEF TablesOK, TextSlots
  <2>1. CASE u = t
    BY <1>1, <1>4, <2>1 DEF TablesOK, TypeOK
  <2>2. CASE u # t
    BY <1>4, <2>2 DEF TablesOK, TypeOK
  <2> QED
    BY <2>1, <2>2
<1>7. PartsOK'
  <2> SUFFICES ASSUME NEW u \in Transfers PROVE Tracked(u)'
    BY DEF PartsOK
  <2>1. CASE u = t
    <3>1. /\ prepared'[t] = k /\ open'[t] = open[t] \cup {k}
          /\ parts'[t] = [parts[t] EXCEPT ![k] = 0]
      BY <1>4 DEF TypeOK
    <3>2. /\ \A j \in Slots : j > prepared[t] => got[t][j] = 0
          /\ PartsOf(t) = open[t]
          /\ \A j \in open[t] : /\ parts[t][j] = got[t][j]
                                /\ got[t][j] <= FileAt(t, j).size
      BY <1>4 DEF PartsOK, Tracked
    <3>3. \A j \in Slots : j > prepared'[t] => got'[t][j] = 0
      <4>1. prepared[t] \in Nat /\ \A j \in Slots : j \in Nat
        BY DEF TypeOK
      <4>2. \A j \in Slots : j > k => j > prepared[t]
        BY <1>1, <4>1
      <4> QED
        BY <1>4, <3>1, <3>2, <4>2
    <3>4. \A j \in Slots : parts'[t][j] = IF j = k THEN 0 ELSE parts[t][j]
      <4>1. parts[t] \in [Slots -> Nat \cup {Absent}]
        BY DEF TypeOK
      <4> QED
        BY <3>1, <4>1
    <3>5. PartsOf(t)' = open'[t]
      BY <1>1, <3>1, <3>2, <3>4 DEF PartsOf
    <3>6. got[t][k] = 0 /\ 0 <= FileAt(t, k).size
      <4>1. FileAt(t, k).size \in Nat
        BY <1>1, Sizes
      <4> QED
        BY <1>1, <3>2, <4>1
    <3>7. \A j \in open'[t] : /\ parts'[t][j] = got'[t][j]
                              /\ got'[t][j] <= FileAt(t, j)'.size
      BY <1>1, <1>4, <3>1, <3>2, <3>4, <3>6 DEF FileAt, TypeOK
    <3> QED
      BY <2>1, <3>3, <3>5, <3>7 DEF Tracked
  <2>2. CASE u # t
    <3>1. /\ phase'[u] = phase[u] /\ open'[u] = open[u]
          /\ parts'[u] = parts[u] /\ got'[u] = got[u]
          /\ prepared'[u] = prepared[u]
      BY <1>4, <2>2 DEF TypeOK
    <3> QED
      BY <1>4, <3>1 DEF PartsOK, Tracked, PartsOf, FileAt
  <2> QED
    BY <2>1, <2>2
<1>8. DoneLeavesNoPart'
  BY <1>4 DEF DoneLeavesNoPart, PartsOf, TypeOK
<1> QED
  BY <1>5, <1>6, <1>7, <1>8

\* The end of prepare keeps the invariant, complete or refused.
LEMMA FinishPrepareInv ==
  ASSUME Inv, NEW t \in Transfers, FinishPrepare(t)
  PROVE  Inv'
<1> USE DEF Inv
<1>1. CASE /\ phase' = [phase EXCEPT ![t] = "receiving"]
           /\ texts' = [texts EXCEPT ![t] = TextSlots(t)]
  <2>1. /\ UNCHANGED <<intro, prepared, open, got, dest, received, completed,
                       naming, parts, saved, history>>
        /\ phase[t] = "preparing"
    BY DEF FinishPrepare, disk
  <2>2. TypeOK'
    BY <1>1, <2>1, Sizes DEF TypeOK, Phases
  <2>3. TablesOK'
    BY <1>1, <2>1 DEF TablesOK, TypeOK, TextSlots
  <2>4. PartsOK'
    <3> SUFFICES ASSUME NEW u \in Transfers PROVE Tracked(u)'
      BY DEF PartsOK
    <3>1. phase'[u] \in Live => phase[u] \in Live
      BY <1>1, <2>1 DEF TypeOK
    <3> QED
      BY <2>1, <3>1 DEF PartsOK, Tracked, PartsOf, FileAt
  <2>5. DoneLeavesNoPart'
    BY <1>1, <2>1 DEF DoneLeavesNoPart, PartsOf, TypeOK
  <2> QED
    BY <2>2, <2>3, <2>4, <2>5
<1>2. CASE /\ phase' = [phase EXCEPT ![t] = "failed"]
           /\ UNCHANGED texts
  BY <1>2, EarlyStep DEF FinishPrepare, worker
<1> QED
  BY <1>1, <1>2 DEF FinishPrepare

\* The ways receive_all ends before it has changed anything.
LEMMA RefusalsInv ==
  ASSUME Inv, NEW t \in Transfers, NEW id, NEW len, NEW inOrder,
         PeerFails(t) \/ RefuseChunk(t, id, len, inOrder)
  PROVE  Inv'
<1>1. /\ phase[t] = "receiving" /\ FailReceiving(t, open[t], parts[t])
      /\ UNCHANGED <<intro, prepared, texts, got, dest, received, completed,
                     naming, saved, inBytes>>
  BY DEF PeerFails, RefuseChunk
<1>2. /\ parts[t] \in [Slots -> Nat \cup {Absent}]
      /\ \A j \in Slots : j > prepared[t] => got[t][j] = 0
      /\ inBytes[t] \cap open[t] = {}
  BY DEF Inv, TypeOK, PartsOK, Tracked, TablesOK
<1> QED
  BY <1>1, <1>2, Failing DEF Inv, TypeOK

\* A write that fails leaves part of the chunk in the part.
LEMMA WriteChunkFailsInv ==
  ASSUME Inv, NEW t \in Transfers, NEW k \in Slots, NEW len \in 0 .. MaxBody,
         WriteChunkFails(t, k, len)
  PROVE  Inv'
<1>1. /\ phase[t] = "receiving" /\ k \in open[t]
      /\ UNCHANGED <<intro, prepared, texts, got, dest, received, completed,
                     naming, saved, inBytes>>
  BY DEF WriteChunkFails
<1>2. PICK n \in 0 .. len :
        FailReceiving(t, open[t], [parts[t] EXCEPT ![k] = @ + n])
  BY DEF WriteChunkFails
<1>3. n \in 0 .. MaxBody
  BY BoundsAssumption
<1>4. [parts[t] EXCEPT ![k] = @ + n] \in [Slots -> Nat \cup {Absent}]
  BY <1>1, <1>3, PartLength
<1>5. /\ \A j \in Slots : j > prepared[t] => got[t][j] = 0
      /\ inBytes[t] \cap open[t] = {}
  BY DEF Inv, PartsOK, Tracked, TablesOK
<1> QED
  BY <1>1, <1>2, <1>4, <1>5, Failing DEF Inv, TypeOK

\* The chunk before the last leaves the entry in the table with its part.
LEMMA WritingInv ==
  ASSUME Inv, NEW t \in Transfers, NEW k \in open[t], NEW len \in 0 .. MaxBody,
         phase[t] = "receiving", Fits(t, k, len),
         got' = [got EXCEPT ![t] = [got[t] EXCEPT ![k] = @ + len]],
         parts' = [parts EXCEPT ![t] = [parts[t] EXCEPT ![k] = @ + len]],
         received' = Count(t, len),
         UNCHANGED <<phase, intro, prepared, open, texts, dest, completed,
                     naming, saved, history>>
  PROVE  Inv'
<1>1. /\ got' \in [Transfers -> [Slots -> Nat]]
      /\ received' \in [Transfers -> Nat]
      /\ \A j \in Slots : j > prepared[t] => got'[t][j] = 0
      /\ \A j \in Slots \ {k} : got'[t][j] = got[t][j]
      /\ got'[t][k] = got[t][k] + len
  <2>1. received' \in [Transfers -> Nat]
    BY Counting DEF Inv
  <2>2. /\ got' \in [Transfers -> [Slots -> Nat]]
        /\ \A j \in Slots : j > prepared[t] => got'[t][j] = 0
        /\ \A j \in Slots \ {k} : got'[t][j] = got[t][j]
    BY Crediting
  <2>3. got'[t][k] = got[t][k] + len
    <3>1. k \in Slots /\ got[t] \in [Slots -> Nat]
      BY DEF Inv, TypeOK
    <3>2. got'[t] = [got[t] EXCEPT ![k] = @ + len]
      BY DEF Inv, TypeOK
    <3> QED
      BY <3>1, <3>2
  <2> QED
    BY <2>1, <2>2, <2>3
<1>2. /\ k \in Slots /\ parts[t][k] = got[t][k]
      /\ [parts[t] EXCEPT ![k] = @ + len] \in [Slots -> Nat \cup {Absent}]
      /\ [parts[t] EXCEPT ![k] = @ + len][k] = got[t][k] + len
      /\ got[t][k] + len # Absent
  BY PartLength
<1> USE DEF Inv
<1>3. TypeOK'
  BY <1>1, <1>2 DEF TypeOK
<1>4. TablesOK'
  BY DEF TablesOK, TextSlots
<1>5. PartsOK'
  <2> SUFFICES ASSUME NEW u \in Transfers PROVE Tracked(u)'
    BY DEF PartsOK
  <2>1. CASE u = t
    <3>1. /\ PartsOf(t) = open[t]
          /\ \A j \in open[t] : /\ parts[t][j] = got[t][j]
                                /\ got[t][j] <= FileAt(t, j).size
      BY DEF PartsOK, Tracked
    <3>2. \A j \in Slots :
            parts'[t][j] = IF j = k THEN got[t][k] + len ELSE parts[t][j]
      BY <1>2 DEF TypeOK
    <3>3. PartsOf(t)' = open[t]
      BY <1>2, <3>1, <3>2 DEF PartsOf
    <3>4. \A j \in open[t] : /\ parts'[t][j] = got'[t][j]
                             /\ got'[t][j] <= FileAt(t, j)'.size
      BY <1>1, <1>2, <3>1, <3>2 DEF Fits, FileAt, TypeOK
    <3> QED
      BY <1>1, <2>1, <3>3, <3>4 DEF Tracked
  <2>2. CASE u # t
    <3>1. parts'[u] = parts[u] /\ got'[u] = got[u]
      BY <2>2 DEF TypeOK
    <3> QED
      BY <3>1, Untouched DEF PartsOK
  <2> QED
    BY <2>1, <2>2
<1>6. DoneLeavesNoPart'
  <2> SUFFICES ASSUME NEW u \in Transfers, phase[u] = "done"
               PROVE  PartsOf(u)' = {}
    BY DEF DoneLeavesNoPart
  <2>1. parts'[u] = parts[u]
    BY DEF TypeOK
  <2> QED
    BY <2>1 DEF DoneLeavesNoPart, PartsOf
<1> QED
  BY <1>3, <1>4, <1>5, <1>6

\* receive_file_chunk keeps the invariant: write, count, rename at the last one.
LEMMA ReceiveFileChunkInv ==
  ASSUME Inv, NEW t \in Transfers, NEW k \in Slots, NEW len \in 0 .. MaxBody,
         NEW last, ReceiveFileChunk(t, k, len, last)
  PROVE  Inv'
<1> DEFINE written == [parts[t] EXCEPT ![k] = @ + len]
<1>1. /\ phase[t] = "receiving" /\ k \in open[t] /\ Fits(t, k, len)
      /\ got' = [got EXCEPT ![t] = [got[t] EXCEPT ![k] = @ + len]]
      /\ received' = Count(t, len)
      /\ UNCHANGED <<intro, prepared, texts, dest, naming, inBytes>>
  BY DEF ReceiveFileChunk
<1>2. /\ got' \in [Transfers -> [Slots -> Nat]]
      /\ \A u \in Transfers \ {t} : got'[u] = got[u]
      /\ \A j \in Slots \ {k} : got'[t][j] = got[t][j]
      /\ \A j \in Slots : j > prepared[t] => got'[t][j] = 0
      /\ received' \in [Transfers -> Nat]
  BY <1>1, Crediting, Counting DEF Inv
<1>3. written \in [Slots -> Nat \cup {Absent}] /\ written[k] \in Nat
  BY <1>1, PartLength
<1>4. CASE /\ parts' = [parts EXCEPT ![t] = written]
           /\ UNCHANGED <<phase, open, completed, saved, stuck>>
  BY <1>1, <1>4, WritingInv
<1>5. CASE Commit(t, k, written[k])
  <2>1. inBytes' \in [Transfers -> SUBSET Slots] /\ inBytes' = inBytes
    BY <1>1 DEF Inv, TypeOK
  <2> QED
    BY <1>1, <1>2, <1>3, <1>5, <2>1, Committing
<1>6. ASSUME NEW left \in SUBSET open[t], FailReceiving(t, left, written),
             UNCHANGED <<completed, saved>>
      PROVE  Inv'
  <2>1. /\ inBytes' = inBytes /\ inBytes' \in [Transfers -> SUBSET Slots]
        /\ inBytes'[t] \cap left = {}
    BY <1>1, <1>6 DEF Inv, TypeOK, TablesOK
  <2>2. /\ texts' \in [Transfers -> SUBSET Slots]
        /\ naming' \in [Transfers -> {NoText} \cup (Slots \X Finals)]
        /\ completed' \in [Transfers -> Seq(Finals)]
        /\ saved' \in [Finals -> Contents]
    BY <1>1, <1>6 DEF Inv, TypeOK
  <2> HIDE DEF written
  <2> QED
    BY <1>1, <1>2, <1>3, <1>6, <2>1, <2>2, Failing
<1> QED
  <2> HIDE DEF written
  <2>1. \/ /\ parts' = [parts EXCEPT ![t] = written]
           /\ UNCHANGED <<phase, open, completed, saved, stuck>>
        \/ Commit(t, k, written[k])
        \/ \E left \in SUBSET open[t] : /\ FailReceiving(t, left, written)
                                        /\ UNCHANGED <<completed, saved>>
    BY DEF ReceiveFileChunk, written
  <2> QED
    BY <2>1, <1>4, <1>5, <1>6

\* receive_file_bytes keeps the invariant (a FILE payload sent as bytes).
LEMMA ReceiveFileBytesInv ==
  ASSUME Inv, NEW t \in Transfers, NEW k \in Slots, NEW len \in 0 .. MaxBody,
         ReceiveFileBytes(t, k, len)
  PROVE  Inv'
<1>1. /\ phase[t] = "receiving" /\ k \in open[t]
      /\ UNCHANGED <<intro, prepared, texts, got, dest, naming>>
  BY DEF ReceiveFileBytes
<1>2. /\ got' \in [Transfers -> [Slots -> Nat]]
      /\ \A j \in Slots : j > prepared[t] => got'[t][j] = 0
      /\ Count(t, len) \in [Transfers -> Nat] /\ received \in [Transfers -> Nat]
      /\ parts[t] \in [Slots -> Nat \cup {Absent}]
  BY <1>1, Counting DEF Inv, TypeOK, PartsOK, Tracked
<1>3. inBytes \in [Transfers -> SUBSET Slots] /\ inBytes[t] \cap open[t] = {}
  BY DEF Inv, TypeOK, TablesOK
<1>4. ASSUME inBytes' \in {inBytes, [inBytes EXCEPT ![t] = inBytes[t] \cup {k}]}
      PROVE  /\ inBytes' \in [Transfers -> SUBSET Slots]
             /\ inBytes'[t] \subseteq inBytes[t] \cup {k}
             /\ inBytes'[t] \cap (open[t] \ {k}) = {}
             /\ \A u \in Transfers \ {t} : inBytes'[u] = inBytes[u]
  BY <1>3, <1>4
<1>5. CASE /\ received' = Count(t, len) /\ Commit(t, k, parts[t][k] + len)
           /\ inBytes' = [inBytes EXCEPT ![t] = inBytes[t] \cup {k}]
  <2>1. parts[t][k] + len \in Nat
    BY <1>1, PartLength, BoundsAssumption
  <2> QED
    BY <1>1, <1>2, <1>4, <1>5, <2>1, Committing
<1>6. ASSUME NEW now \in [Slots -> Nat \cup {Absent}],
             received' \in {received, Count(t, len)},
             inBytes' \in {inBytes, [inBytes EXCEPT ![t] = inBytes[t] \cup {k}]},
             FailReceiving(t, open[t] \ {k}, now), UNCHANGED <<completed, saved>>
      PROVE  Inv'
  <2>1. received' \in [Transfers -> Nat]
    BY <1>2, <1>6
  <2>2. open[t] \ {k} \in SUBSET open[t]
    OBVIOUS
  <2> QED
    BY <1>1, <1>2, <1>4, <1>6, <2>1, <2>2, Failing DEF Inv, TypeOK
<1>7. \A n \in 0 .. len : [parts[t] EXCEPT ![k] = @ + n] \in [Slots -> Nat \cup {Absent}]
  <2> SUFFICES ASSUME NEW n \in 0 .. len
               PROVE  [parts[t] EXCEPT ![k] = @ + n] \in [Slots -> Nat \cup {Absent}]
    OBVIOUS
  <2>1. n \in 0 .. MaxBody
    BY BoundsAssumption
  <2> QED
    BY <1>1, <2>1, PartLength
<1> QED
  BY <1>2, <1>5, <1>6, <1>7 DEF ReceiveFileBytes

\* receive_text keeps the invariant up to the choice of the text's file name.
LEMMA NameTextInv ==
  ASSUME Inv, NEW t \in Transfers, NEW k \in Slots, NEW len \in 0 .. MaxBody,
         NameText(t, k, len)
  PROVE  Inv'
<1>1. /\ phase[t] = "receiving" /\ k \in texts[t]
      /\ texts' = [texts EXCEPT ![t] = texts[t] \ {k}]
      /\ UNCHANGED <<intro, prepared, got, dest, completed, saved, inBytes>>
  BY DEF NameText
<1>2. /\ texts' \in [Transfers -> SUBSET Slots]
      /\ \A u \in Transfers : texts'[u] \subseteq texts[u]
      /\ \A u \in Transfers \ {t} : texts'[u] = texts[u]
  BY <1>1 DEF Inv, TypeOK
<1>4. CASE FailReceiving(t, open[t], parts[t]) /\ UNCHANGED <<received, naming>>
  <2>1. /\ parts[t] \in [Slots -> Nat \cup {Absent}]
        /\ \A j \in Slots : j > prepared[t] => got[t][j] = 0
        /\ inBytes[t] \cap open[t] = {}
    BY DEF Inv, TypeOK, PartsOK, Tracked, TablesOK
  <2> QED
    BY <1>1, <1>2, <1>4, <2>1, Failing DEF Inv, TypeOK
<1>5. ASSUME NEW p \in Finals,
             naming' = [naming EXCEPT ![t] = <<k, p>>],
             received' = Count(t, len),
             phase' = [phase EXCEPT ![t] = "naming"], UNCHANGED <<open, parts, stuck>>
      PROVE  Inv'
  <2> USE DEF Inv
  <2>2. /\ naming'[t] = <<k, p>>
        /\ \A u \in Transfers \ {t} : naming'[u] = naming[u] /\ phase'[u] = phase[u]
        /\ phase'[t] = "naming"
    BY <1>5 DEF TypeOK
  <2>3. TypeOK'
    <3>1. received' \in [Transfers -> Nat]
      BY <1>5, Counting
    <3>2. naming' \in [Transfers -> {NoText} \cup (Slots \X Finals)]
      BY <1>5 DEF TypeOK
    <3>3. phase' \in [Transfers -> Phases]
      BY <1>5 DEF TypeOK, Phases
    <3> QED
      BY <1>1, <1>2, <1>5, <3>1, <3>2, <3>3 DEF TypeOK
  <2>4. TablesOK'
    <3> SUFFICES ASSUME NEW u \in Transfers
                 PROVE  phase'[u] = "naming" =>
                          naming'[u] \in TextSlots(u) \X Finals
      BY <1>1, <1>2, <1>5, <2>2 DEF TablesOK, TextSlots
    <3>1. k \in TextSlots(t)
      BY <1>1 DEF TablesOK
    <3>2. CASE u = t
      BY <1>5, <2>2, <3>1, <3>2
    <3>3. CASE u # t
      BY <2>2, <3>3 DEF TablesOK
    <3> QED
      BY <3>2, <3>3
  <2>5. PartsOK'
    BY <1>1, <1>5, <2>2 DEF PartsOK, Tracked, PartsOf, FileAt
  <2>7. DoneLeavesNoPart'
    BY <1>5, <2>2 DEF DoneLeavesNoPart, PartsOf
  <2> QED
    BY <2>3, <2>4, <2>5, <2>7
<1> QED
  BY <1>4, <1>5 DEF NameText

\* receive_text keeps the invariant when it writes the text.
LEMMA WriteTextInv ==
  ASSUME Inv, NEW t \in Transfers, WriteText(t)
  PROVE  Inv'
<1> DEFINE k == naming[t][1]
           p == naming[t][2]
<1>1. /\ phase[t] = "naming" /\ naming' = [naming EXCEPT ![t] = NoText]
      /\ UNCHANGED <<intro, prepared, texts, got, dest, received, inBytes>>
  BY DEF WriteText
<1>2. k \in TextSlots(t) /\ p \in Finals
  BY <1>1 DEF Inv, TablesOK
<1>3. k \in Slots /\ TextAt(t, k).size \in Nat
  BY <1>2, Sizes DEF Inv
<1>4. /\ naming' \in [Transfers -> {NoText} \cup (Slots \X Finals)]
      /\ \A u \in Transfers \ {t} : naming'[u] = naming[u]
  BY <1>1 DEF Inv, TypeOK
<1> HIDE DEF k, p
<1>5. \A n \in Nat :
        Content("text", t, k, n) \in Contents
  BY <1>3, BoundsAssumption DEF Content, Contents
<1>6. ASSUME NEW n \in Nat,
             saved' \in {saved, [saved EXCEPT ![p] = Content("text", t, k, n)]}
      PROVE  saved' \in [Finals -> Contents]
  <2>1. saved \in [Finals -> Contents] /\ Content("text", t, k, n) \in Contents
    BY <1>5 DEF Inv, TypeOK
  <2> QED
    BY <1>6, <2>1
<1>7. CASE /\ saved' = [saved EXCEPT ![p] = Content("text", t, k, TextAt(t, k).size)]
           /\ completed' = [completed EXCEPT ![t] = Append(completed[t], p)]
           /\ phase' = [phase EXCEPT ![t] = "receiving"]
           /\ UNCHANGED <<open, parts, stuck>>
  <2> USE DEF Inv
  <2>1. saved' \in [Finals -> Contents]
    BY <1>3, <1>6, <1>7
  <2>2. TypeOK'
    <3>1. completed[t] \in Seq(Finals)
      BY DEF TypeOK
    <3>2. Append(completed[t], p) \in Seq(Finals)
      BY <1>2, <3>1
    <3>3. completed' \in [Transfers -> Seq(Finals)]
      BY <1>7, <3>2 DEF TypeOK
    <3>4. phase' \in [Transfers -> Phases]
      BY <1>7 DEF TypeOK, Phases
    <3> QED
      BY <1>1, <1>4, <1>7, <2>1, <3>3, <3>4 DEF TypeOK
  <2>3. \A u \in Transfers : IF u = t THEN phase'[u] = "receiving"
                                      ELSE phase'[u] = phase[u]
    BY <1>7 DEF TypeOK
  <2>4. TablesOK'
    BY <1>1, <1>4, <1>7, <2>3 DEF TablesOK, TextSlots
  <2>5. PartsOK'
    BY <1>1, <1>7, <2>3 DEF PartsOK, Tracked, PartsOf, FileAt
  <2>7. DoneLeavesNoPart'
    BY <1>7, <2>3 DEF DoneLeavesNoPart, PartsOf
  <2> QED
    BY <2>1, <2>2, <2>4, <2>5, <2>7
<1>8. CASE /\ \/ UNCHANGED saved
              \/ \E n \in 0 .. TextAt(t, k).size - 1 :
                   saved' = [saved EXCEPT ![p] = Content("text", t, k, n)]
           /\ FailReceiving(t, open[t], parts[t]) /\ UNCHANGED completed
  <2>1. saved' \in [Finals -> Contents]
    <3>1. 0 \in Nat /\ \A n \in 0 .. TextAt(t, k).size - 1 : n \in Nat
      BY <1>3
    <3> QED
      BY <1>6, <1>8, <3>1
  <2>2. /\ parts[t] \in [Slots -> Nat \cup {Absent}]
        /\ \A j \in Slots : j > prepared[t] => got[t][j] = 0
        /\ inBytes[t] \cap open[t] = {}
    BY DEF Inv, TypeOK, PartsOK, Tracked, TablesOK
  <2> QED
    BY <1>1, <1>4, <1>8, <2>1, <2>2, Failing DEF Inv, TypeOK
<1> QED
  BY <1>7, <1>8 DEF WriteText, k, p

\* Finishing a transfer with an empty table keeps the invariant.
LEMMA FinishInv ==
  ASSUME Inv, NEW t \in Transfers, Finish(t)
  PROVE  Inv'
<1>1. PartsOf(t) = {} /\ phase[t] = "receiving" /\ UNCHANGED <<worker, disk>>
  BY DEF Inv, PartsOK, Tracked, Finish
<1>2. PICK p \in {"done", "failed"} : phase' = [phase EXCEPT ![t] = p]
  BY DEF Finish
<1>3. phase' \in [Transfers -> Phases]
  BY <1>2 DEF Inv, TypeOK, Phases
<1>4. \A u \in Transfers : IF u = t THEN phase'[u] = p ELSE phase'[u] = phase[u]
  BY <1>2 DEF Inv, TypeOK
<1> QED
  BY <1>1, <1>3, <1>4, Moving

\* The end of the process keeps the invariant: nothing cleans up.
LEMMA QuitInv == Inv /\ Quit => Inv'
<1> SUFFICES ASSUME Inv, Quit PROVE Inv'
  OBVIOUS
<1>1. /\ phase' = [t \in Transfers |->
                     IF phase[t] \in Live THEN "killed" ELSE phase[t]]
      /\ UNCHANGED <<worker, disk>>
  BY DEF Quit
<1>2. phase' \in [Transfers -> Phases]
  BY <1>1 DEF Inv, TypeOK, Phases
<1> QED
  BY <1>1, <1>2, Moving

--------------------------------------------------------------------------
(* The theorems.                                                           *)

\* No step of any worker breaks the invariant.
LEMMA NextInv == Inv /\ [Next]_vars => Inv'
<1> SUFFICES ASSUME Inv, [Next]_vars PROVE Inv'
  OBVIOUS
<1>1. ASSUME NEW t \in Transfers, Reject(t) \/ Accept(t) \/ RefuseFile(t) PROVE Inv'
  BY <1>1, EarlyStep DEF Reject, Accept, RefuseFile
<1>2. ASSUME NEW t \in Transfers, PrepareFile(t) \/ FinishPrepare(t) PROVE Inv'
  BY <1>2, PrepareFileInv, FinishPrepareInv
<1>3. ASSUME NEW t \in Transfers, ReceiveAll(t) PROVE Inv'
  BY <1>3, RefusalsInv, WriteChunkFailsInv, ReceiveFileChunkInv,
     ReceiveFileBytesInv, NameTextInv, WriteTextInv, FinishInv DEF ReceiveAll
<1>4. ASSUME NEW p \in UserPaths, UserSaves(p) PROVE Inv'
  BY <1>4, UserSavesInv
<1>5. CASE Quit
  BY <1>5, QuitInv
<1>6. CASE UNCHANGED vars
  <2>1. UNCHANGED <<worker, disk>> /\ UNCHANGED phase
    BY <1>6 DEF vars, worker, disk
  <2>2. phase' \in [Transfers -> Phases]
    BY <2>1 DEF Inv, TypeOK
  <2> QED
    BY <2>1, <2>2, Moving
<1> QED
  BY <1>1, <1>2, <1>3, <1>4, <1>5, <1>6 DEF Next

\* The invariant holds of every state the workers can reach, whatever the
\* peers send, however the workers interleave and whichever call fails.
THEOREM Invariance == Spec => []Inv
BY InitInv, NextInv, PTL DEF Spec

\* Every variable keeps its type (receive_connection, PendingTransfer).
THEOREM TypeCorrect == Spec => []TypeOK
<1>1. Inv => TypeOK
  BY DEF Inv
<1> QED
  BY <1>1, Invariance, PTL

\* Every part file on disk belongs to an entry of its transfer's table and is
\* exactly as long as the bytes counted for it (prepare, receive_file_chunk).
THEOREM PartsAccountedFor == Spec => []PartsTrackReceived
<1>1. Inv => PartsTrackReceived
  BY DEF Inv, PartsOK, Tracked, PartsTrackReceived
<1> QED
  BY <1>1, Invariance, PTL

\* A transfer that completes leaves no part file (receive_all).
THEOREM NoPartAfterDone == Spec => []DoneLeavesNoPart
<1>1. Inv => DoneLeavesNoPart
  BY DEF Inv
<1> QED
  BY <1>1, Invariance, PTL

--------------------------------------------------------------------------
(* The files of the user.                                                  *)

\* Nobody begins to wait for a path when no destination is chosen.
LEMMA Waits ==
  ASSUME NEW p,
         \A u \in Transfers :
           /\ phase'[u] \in Live => phase[u] \in Live
           /\ open'[u] \subseteq open[u]
           /\ dest'[u] = dest[u]
           /\ phase'[u] = "naming" => phase[u] = "naming" /\ naming'[u] = naming[u]
  PROVE  Awaited(p)' => Awaited(p)
BY DEF Awaited

\* A transfer that fails while receiving waits for nothing any more.
LEMMA FailedWaits ==
  ASSUME TypeOK, NEW p, NEW t \in Transfers, NEW left, left \subseteq open[t],
         NEW now, FailReceiving(t, left, now), dest' = dest,
         \A u \in Transfers \ {t} : naming'[u] = naming[u]
  PROVE  Awaited(p)' => Awaited(p)
<1>1. /\ phase' = [phase EXCEPT ![t] = "failed"]
      /\ open' = [open EXCEPT ![t] = left]
  BY DEF FailReceiving
<1>2. /\ phase'[t] = "failed" /\ open'[t] = left
      /\ \A u \in Transfers \ {t} : phase'[u] = phase[u] /\ open'[u] = open[u]
  BY <1>1 DEF TypeOK
<1> QED
  BY <1>2, Waits

\* The rename of a file fills a path that was awaited, and chooses none.
LEMMA CommitKeeps ==
  ASSUME Inv, NEW p \in Finals, Secure(p), NEW t \in Transfers, NEW k \in open[t],
         phase[t] = "receiving", NEW size, Commit(t, k, size),
         dest' = dest, naming' = naming
  PROVE  Secure(p)'
<1>1. /\ phase' = phase /\ open' = [open EXCEPT ![t] = open[t] \ {k}]
      /\ saved' = [saved EXCEPT ![dest[t][k]] = Content("file", t, k, size)]
  BY DEF Commit
<1>2. dest[t][k] # p
  BY DEF Secure, Awaited
<1>3. saved'[p] = saved[p]
  BY <1>1, <1>2 DEF Inv, TypeOK
<1>4. \A u \in Transfers : open'[u] \subseteq open[u]
  BY <1>1 DEF Inv, TypeOK
<1>5. Awaited(p)' => Awaited(p)
  BY <1>1, <1>4, Waits
<1> QED
  BY <1>3, <1>5 DEF Secure

\* A destination is chosen only among the free paths (prepare).
LEMMA PrepareKeeps ==
  ASSUME Inv, NEW p \in Finals, Secure(p), NEW t \in Transfers, PrepareFile(t)
  PROVE  Secure(p)'
<1> DEFINE k == prepared[t] + 1
<1>1. PICK q \in Finals : /\ saved[q] = Nobody
                          /\ dest' = [dest EXCEPT ![t] = [dest[t] EXCEPT ![k] = q]]
  BY DEF PrepareFile, UniqueDestination
<1>2. /\ open' = [open EXCEPT ![t] = open[t] \cup {k}]
      /\ phase' = phase \/ phase' = [phase EXCEPT ![t] = "failed"]
      /\ phase[t] = "preparing" /\ UNCHANGED <<naming, saved>>
  BY DEF PrepareFile
<1>3. q # p
  BY <1>1 DEF Secure, Users, Nobody, Content
<1> HIDE DEF k
<1>4. \A u \in Transfers \ {t} : /\ phase'[u] = phase[u] /\ open'[u] = open[u]
                                 /\ dest'[u] = dest[u]
  BY <1>1, <1>2 DEF Inv, TypeOK
<1>5. \A j \in open'[t] : dest'[t][j] = p => j \in open[t] /\ dest[t][j] = p
  <2>1. /\ open'[t] = open[t] \cup {k} /\ dest'[t] = [dest[t] EXCEPT ![k] = q]
        /\ dest[t] \in [Slots -> Finals] /\ open[t] \subseteq Slots
        /\ open'[t] \subseteq Slots
    BY <1>1, <1>2, PrepareFileInv DEF Inv, TypeOK
  <2> QED
    BY <1>3, <2>1
<1>6. Awaited(p)' => Awaited(p)
  <2> SUFFICES ASSUME NEW u \in Transfers,
                      \/ phase'[u] \in Live /\ \E j \in open'[u] : dest'[u][j] = p
                      \/ phase'[u] = "naming" /\ naming'[u][2] = p
               PROVE  Awaited(p)
    BY DEF Awaited
  <2>1. CASE u = t
    <3>1. phase'[t] # "naming"
      BY <1>2 DEF Inv, TypeOK
    <3>2. \E j \in open[t] : dest[t][j] = p
      BY <1>5, <2>1, <3>1
    <3> QED
      BY <1>2, <3>2 DEF Awaited
  <2>2. CASE u # t
    BY <1>2, <1>4, <2>2 DEF Awaited
  <2> QED
    BY <2>1, <2>2
<1> QED
  BY <1>2, <1>6 DEF Secure

\* The name of a text is chosen only among the free paths (receive_text).
LEMMA NameTextKeeps ==
  ASSUME Inv, NEW p \in Finals, Secure(p), NEW t \in Transfers, NEW k, NEW len,
         NameText(t, k, len)
  PROVE  Secure(p)'
<1>1. phase[t] = "receiving" /\ UNCHANGED <<dest, saved>>
  BY DEF NameText
<1>2. CASE FailReceiving(t, open[t], parts[t]) /\ naming' = naming
  BY <1>1, <1>2, FailedWaits DEF Inv, Secure
<1>3. ASSUME NEW q \in Finals, UniqueDestination(TextName, q),
             naming' = [naming EXCEPT ![t] = <<k, q>>],
             phase' = [phase EXCEPT ![t] = "naming"], open' = open
      PROVE  Secure(p)'
  <2>1. q # p
    BY <1>3 DEF Secure, UniqueDestination, Users, Nobody, Content
  <2>2. /\ phase'[t] = "naming" /\ naming'[t] = <<k, q>>
        /\ \A u \in Transfers \ {t} : phase'[u] = phase[u] /\ naming'[u] = naming[u]
    BY <1>3 DEF Inv, TypeOK
  <2>3. Awaited(p)' => Awaited(p)
    BY <1>1, <1>3, <2>1, <2>2 DEF Awaited
  <2> QED
    BY <1>1, <2>3 DEF Secure
<1> QED
  BY <1>2, <1>3 DEF NameText

\* The write of a text fills a path that was awaited (receive_text).
LEMMA WriteTextKeeps ==
  ASSUME Inv, NEW p \in Finals, Secure(p), NEW t \in Transfers, WriteText(t)
  PROVE  Secure(p)'
<1> DEFINE q == naming[t][2]
<1>1. /\ phase[t] = "naming" /\ naming' = [naming EXCEPT ![t] = NoText]
      /\ dest' = dest
  BY DEF WriteText
<1>2. q # p
  BY <1>1 DEF Secure, Awaited
<1>3. saved' = saved \/ \E c : saved' = [saved EXCEPT ![q] = c]
  BY DEF WriteText
<1> HIDE DEF q
<1>4. saved'[p] = saved[p]
  BY <1>2, <1>3 DEF Inv, TypeOK
<1>5. \A u \in Transfers \ {t} : naming'[u] = naming[u]
  BY <1>1 DEF Inv, TypeOK
<1>6. CASE phase' = [phase EXCEPT ![t] = "receiving"] /\ open' = open
  <2>1. \A u \in Transfers : IF u = t THEN phase'[u] = "receiving"
                                       ELSE phase'[u] = phase[u]
    BY <1>6 DEF Inv, TypeOK
  <2>2. Awaited(p)' => Awaited(p)
    BY <1>1, <1>5, <1>6, <2>1, Waits
  <2> QED
    BY <1>4, <2>2 DEF Secure
<1>7. CASE FailReceiving(t, open[t], parts[t])
  BY <1>1, <1>4, <1>5, <1>7, FailedWaits DEF Inv, Secure
<1> QED
  BY <1>6, <1>7 DEF WriteText

\* A file of the user's that no live transfer has for a destination is safe
\* for ever, from every transfer: unique_destination looks long before the
\* rename or the write, but what it saw there it never chooses.
THEOREM UserFilesSafe == Spec => UserFilesKept
<1>1. ASSUME Inv, NEW p \in Finals, Secure(p), Next PROVE Secure(p)'
  <2>1. ASSUME NEW t \in Transfers,
               Reject(t) \/ Accept(t) \/ RefuseFile(t) \/ FinishPrepare(t) \/ Finish(t)
        PROVE  Secure(p)'
    <3>1. /\ UNCHANGED <<open, dest, naming, saved>> /\ phase[t] \in Live
          /\ \E x : phase' = [phase EXCEPT ![t] = x] /\ x # "naming"
      BY <2>1 DEF Reject, Accept, RefuseFile, FinishPrepare, Finish, worker, disk
    <3>2. \A u \in Transfers : /\ phase'[u] \in Live => phase[u] \in Live
                               /\ phase'[u] = "naming" => phase[u] = "naming"
      BY <3>1 DEF Inv, TypeOK
    <3>3. Awaited(p)' => Awaited(p)
      BY <3>1, <3>2, Waits
    <3> QED
      BY <1>1, <3>1, <3>3 DEF Secure
  <2>2. ASSUME NEW t \in Transfers, NEW left, left \subseteq open[t], NEW now,
               FailReceiving(t, left, now), UNCHANGED <<dest, naming, saved>>
        PROVE  Secure(p)'
    BY <1>1, <2>2, FailedWaits DEF Inv, Secure
  <2>3. ASSUME NEW t \in Transfers, NEW id, NEW k, NEW len, NEW inOrder,
               PeerFails(t) \/ RefuseChunk(t, id, len, inOrder) \/ WriteChunkFails(t, k, len)
        PROVE  Secure(p)'
    BY <2>2, <2>3 DEF PeerFails, RefuseChunk, WriteChunkFails
  <2>4. ASSUME NEW t \in Transfers, NEW k, NEW len, NEW last,
               ReceiveFileChunk(t, k, len, last) \/ ReceiveFileBytes(t, k, len)
        PROVE  Secure(p)'
    <3>1. phase[t] = "receiving" /\ k \in open[t] /\ UNCHANGED <<dest, naming>>
      BY <2>4 DEF ReceiveFileChunk, ReceiveFileBytes
    <3>2. ASSUME NEW size, Commit(t, k, size) PROVE Secure(p)'
      BY <1>1, <3>1, <3>2, CommitKeeps
    <3>3. CASE UNCHANGED <<phase, open, saved>>
      <4>1. Awaited(p)' => Awaited(p)
        BY <3>1, <3>3, Waits
      <4> QED
        BY <1>1, <3>3, <4>1 DEF Secure
    <3>4. ASSUME NEW left, left \subseteq open[t], NEW now,
                 FailReceiving(t, left, now), saved' = saved
          PROVE  Secure(p)'
      BY <2>2, <3>1, <3>4
    <3>5. open[t] \ {k} \subseteq open[t]
      OBVIOUS
    <3> QED
      BY <2>4, <3>2, <3>3, <3>4, <3>5 DEF ReceiveFileChunk, ReceiveFileBytes
  <2>5. ASSUME NEW q \in UserPaths, UserSaves(q) PROVE Secure(p)'
    <3>1. q # p /\ saved' = [saved EXCEPT ![q] = Users]
          /\ UNCHANGED <<phase, open, dest, naming>>
      BY <1>1, <2>5 DEF UserSaves, worker, Secure, Users, Nobody, Content
    <3>2. saved'[p] = saved[p]
      BY <3>1 DEF Inv, TypeOK
    <3>3. Awaited(p)' => Awaited(p)
      BY <3>1, Waits
    <3> QED
      BY <1>1, <3>2, <3>3 DEF Secure
  <2>6. CASE Quit
    <3>1. /\ UNCHANGED <<open, dest, naming, saved>>
          /\ \A u \in Transfers :
               phase'[u] = IF phase[u] \in Live THEN "killed" ELSE phase[u]
      BY <2>6 DEF Quit, worker, disk
    <3>2. Awaited(p)' => Awaited(p)
      BY <3>1, Waits
    <3> QED
      BY <1>1, <3>1, <3>2 DEF Secure
  <2> QED
    BY <1>1, <2>1, <2>3, <2>4, <2>5, <2>6, PrepareKeeps, NameTextKeeps,
       WriteTextKeeps DEF Next, ReceiveAll
<1>2. Inv /\ [Next]_vars => [\A p \in Finals : Secure(p) => Secure(p)']_vars
  BY <1>1
<1> QED
  BY <1>2, Invariance, PTL DEF Spec, UserFilesKept

--------------------------------------------------------------------------
(* What is saved.                                                          *)

Early == {"offered", "preparing"}

\* A saved file is of an entry that has left its table, whole.
Saved(p) ==
  saved[p].kind = "file" =>
    LET t == saved[p].by
        k == saved[p].slot
    IN  /\ t \in Transfers /\ k \in Slots
        /\ phase[t] \notin Early /\ k \notin open[t]
        /\ saved[p].size = FileAt(t, k).size + Doubled(t, k)

SavedOK == \A p \in Finals : Saved(p)

\* What a transfer counted for entries that have left its table stays.
Settled(u) ==
  phase[u] \notin Early =>
    /\ phase'[u] \notin Early /\ open'[u] \subseteq open[u]
    /\ \A k \in Slots \ open[u] : Doubled(u, k)' = Doubled(u, k)

\* A saved file that is not touched stays whole.
LEMMA SavedStays ==
  ASSUME NEW p, Saved(p), saved'[p] = saved[p], intro' = intro,
         \A u \in Transfers : Settled(u)
  PROVE  Saved(p)'
BY DEF Saved, Settled, FileAt

\* A commit of a complete part saves a whole file.
LEMMA CommitWhole ==
  ASSUME TypeOK, NEW t \in Transfers, NEW k \in Slots, phase[t] = "receiving",
         NEW size, size = FileAt(t, k).size + Doubled(t, k)',
         Commit(t, k, size), intro' = intro
  PROVE  \A p \in Finals : IF p = dest[t][k] THEN Saved(p)' ELSE saved'[p] = saved[p]
<1> DEFINE q == dest[t][k]
<1>1. /\ saved' = [saved EXCEPT ![q] = Content("file", t, k, size)]
      /\ phase' = phase /\ open'[t] = open[t] \ {k}
  BY DEF Commit, TypeOK
<1>2. q \in Finals /\ saved \in [Finals -> Contents]
  <2>1. dest[t] \in [Slots -> Finals]
    BY DEF TypeOK
  <2>2. saved \in [Finals -> Contents]
    BY DEF TypeOK
  <2> QED
    BY <2>1, <2>2
<1> HIDE DEF q
<1>3. ASSUME NEW p \in Finals, p # q PROVE saved'[p] = saved[p]
  BY <1>1, <1>2, <1>3
<1>4. ASSUME NEW p \in Finals, p = q PROVE Saved(p)'
  <2>1. /\ saved'[p].by = t /\ saved'[p].slot = k /\ saved'[p].size = size
    BY <1>1, <1>2, <1>4 DEF Content
  <2>2. phase'[t] \notin Early /\ k \notin open'[t]
    BY <1>1 DEF Early
  <2> QED
    BY <2>1, <2>2 DEF Saved, FileAt, Doubled
<1> QED
  BY <1>3, <1>4 DEF q

\* A step of one worker keeps what every worker has counted for entries out
\* of its table: only an entry in the table is counted for.
LEMMA AllSettled ==
  ASSUME Inv, NEW t \in Transfers, intro' = intro, NEW k, k \in open[t],
         phase[t] \notin Early, phase'[t] \notin Early, open'[t] \subseteq open[t],
         \A u \in Transfers \ {t} : /\ phase'[u] = phase[u] /\ open'[u] = open[u]
                                   /\ got'[u] = got[u] /\ inBytes'[u] = inBytes[u],
         \A j \in Slots \ {k} : got'[t][j] = got[t][j],
         inBytes'[t] \in {inBytes[t], inBytes[t] \cup {k}}
  PROVE  \A u \in Transfers : Settled(u)
BY DEF Settled, Doubled

\* A file appears under its final name only when every declared byte is in its
\* part, and longer only by chunks that a BYTES payload of the same id followed
\* (receive_file_chunk, receive_file_bytes).
THEOREM SavedFilesWhole == Spec => []SavedWhole
<1>1. Init => SavedOK
  BY DEF Init, SavedOK, Saved, Nobody, Content
<1>2. Inv /\ SavedOK /\ [Next]_vars => SavedOK'
  <2> SUFFICES ASSUME Inv, SavedOK, [Next]_vars PROVE SavedOK'
    OBVIOUS
  <2>1. ASSUME intro' = intro, \A u \in Transfers : Settled(u),
               \A p \in Finals : saved'[p] = saved[p] \/ saved'[p].kind # "file"
        PROVE  SavedOK'
    <3> SUFFICES ASSUME NEW p \in Finals PROVE Saved(p)'
      BY DEF SavedOK
    <3>1. CASE saved'[p] = saved[p]
      BY <2>1, <3>1, SavedStays DEF SavedOK
    <3>2. CASE saved'[p].kind # "file"
      BY <3>2 DEF Saved
    <3> QED
      BY <2>1, <3>1, <3>2
  <2>2. ASSUME NEW t \in Transfers,
               Reject(t) \/ Accept(t) \/ RefuseFile(t) \/ PrepareFile(t)
                 \/ FinishPrepare(t) \/ Finish(t)
        PROVE  SavedOK'
    <3>1. UNCHANGED <<intro, saved, got, inBytes>>
      BY <2>2 DEF Reject, Accept, RefuseFile, PrepareFile, FinishPrepare, Finish,
         worker, disk
    <3>2. \A u \in Transfers \ {t} : phase'[u] = phase[u] /\ open'[u] = open[u]
      BY <2>2 DEF Reject, Accept, RefuseFile, PrepareFile, FinishPrepare, Finish,
         worker, disk, Inv, TypeOK
    <3>3. phase[t] \notin Early => phase'[t] \notin Early /\ open' = open
      BY <2>2 DEF Reject, Accept, RefuseFile, PrepareFile, FinishPrepare, Finish,
         worker, Early, Inv, TypeOK
    <3>4. \A u \in Transfers : Settled(u)
      BY <3>1, <3>2, <3>3 DEF Settled, Doubled
    <3> QED
      BY <2>1, <3>1, <3>4
  <2>3. ASSUME NEW t \in Transfers, phase[t] \notin Early,
               NEW left, left \subseteq open[t], NEW now, FailReceiving(t, left, now),
               UNCHANGED <<intro, got, inBytes>>,
               \A p \in Finals : saved'[p] = saved[p] \/ saved'[p].kind # "file"
        PROVE  SavedOK'
    <3>1. /\ phase'[t] = "failed" /\ open'[t] = left
          /\ \A u \in Transfers \ {t} : phase'[u] = phase[u] /\ open'[u] = open[u]
      BY <2>3 DEF FailReceiving, Inv, TypeOK
    <3>2. \A u \in Transfers : Settled(u)
      BY <2>3, <3>1 DEF Settled, Doubled, Early
    <3> QED
      BY <2>1, <2>3, <3>2
  <2>4. ASSUME NEW t \in Transfers, NEW id, NEW k, NEW len, NEW inOrder,
               \/ PeerFails(t) \/ RefuseChunk(t, id, len, inOrder)
               \/ WriteChunkFails(t, k, len)
        PROVE  SavedOK'
    <3>1. UNCHANGED <<intro, got, inBytes, saved>> /\ phase[t] = "receiving"
          /\ \E now : FailReceiving(t, open[t], now)
      BY <2>4 DEF PeerFails, RefuseChunk, WriteChunkFails
    <3> QED
      BY <2>3, <3>1 DEF Early
  <2>5. ASSUME NEW t \in Transfers, NEW k \in Slots, NEW len, NameText(t, k, len)
        PROVE  SavedOK'
    <3>1. UNCHANGED <<intro, got, inBytes, saved>> /\ phase[t] = "receiving"
      BY <2>5 DEF NameText
    <3>2. CASE FailReceiving(t, open[t], parts[t])
      BY <2>3, <3>1, <3>2 DEF Early
    <3>3. CASE phase' = [phase EXCEPT ![t] = "naming"] /\ open' = open
      <4>1. \A u \in Transfers : phase'[u] = IF u = t THEN "naming" ELSE phase[u]
        BY <3>3 DEF Inv, TypeOK
      <4>2. \A u \in Transfers : Settled(u)
        BY <3>1, <3>3, <4>1 DEF Settled, Doubled, Early
      <4> QED
        BY <2>1, <3>1, <4>2
    <3> QED
      BY <2>5, <3>2, <3>3 DEF NameText
  <2>6. ASSUME NEW t \in Transfers, WriteText(t) PROVE SavedOK'
    <3>1. UNCHANGED <<intro, got, inBytes>> /\ phase[t] = "naming"
      BY <2>6 DEF WriteText
    <3>2. \A p \in Finals : saved'[p] = saved[p] \/ saved'[p].kind # "file"
      <4> DEFINE k == naming[t][1]
                 q == naming[t][2]
      <4>1. \/ saved' = saved
            \/ \E n : saved' = [saved EXCEPT ![q] = Content("text", t, k, n)]
        BY <2>6 DEF WriteText
      <4>2. saved \in [Finals -> Contents]
        BY DEF Inv, TypeOK
      <4>3. \A n : Content("text", t, k, n).kind = "text"
        BY DEF Content
      <4> HIDE DEF k, q
      <4> QED
        BY <4>1, <4>2, <4>3
    <3>3. CASE FailReceiving(t, open[t], parts[t])
      BY <2>3, <3>1, <3>2, <3>3 DEF Early
    <3>4. CASE phase' = [phase EXCEPT ![t] = "receiving"] /\ open' = open
      <4>1. \A u \in Transfers : phase'[u] = IF u = t THEN "receiving" ELSE phase[u]
        BY <3>4 DEF Inv, TypeOK
      <4>2. \A u \in Transfers : Settled(u)
        BY <3>1, <3>4, <4>1 DEF Settled, Doubled, Early
      <4> QED
        BY <2>1, <3>1, <3>2, <4>2
    <3> QED
      BY <2>6, <3>3, <3>4 DEF WriteText
  <2>7. ASSUME NEW t \in Transfers, NEW k \in Slots, NEW size, Commit(t, k, size),
               phase[t] = "receiving", size = FileAt(t, k).size + Doubled(t, k)',
               intro' = intro, \A u \in Transfers : Settled(u)
        PROVE  SavedOK'
    <3>1. \A p \in Finals : IF p = dest[t][k] THEN Saved(p)'
                                               ELSE saved'[p] = saved[p]
      BY <2>7, CommitWhole DEF Inv
    <3> SUFFICES ASSUME NEW p \in Finals PROVE Saved(p)'
      BY DEF SavedOK
    <3>2. CASE p = dest[t][k]
      BY <3>1, <3>2
    <3>3. CASE p # dest[t][k]
      BY <2>7, <3>1, <3>3, SavedStays DEF SavedOK
    <3> QED
      BY <3>2, <3>3
  <2>8. ASSUME NEW t \in Transfers, NEW k \in Slots, NEW len \in 0 .. MaxBody,
               NEW last, ReceiveFileChunk(t, k, len, last)
        PROVE  SavedOK'
    <3> DEFINE written == [parts[t] EXCEPT ![k] = @ + len]
    <3>1. /\ phase[t] = "receiving" /\ k \in open[t] /\ UNCHANGED <<intro, inBytes>>
          /\ got' = [got EXCEPT ![t] = [got[t] EXCEPT ![k] = @ + len]]
      BY <2>8 DEF ReceiveFileChunk
    <3>2. /\ \A u \in Transfers \ {t} : got'[u] = got[u]
          /\ \A j \in Slots \ {k} : got'[t][j] = got[t][j]
      BY <3>1, Crediting
    <3>3. ASSUME phase'[t] \notin Early, open'[t] \subseteq open[t],
                 \A u \in Transfers \ {t} : phase'[u] = phase[u] /\ open'[u] = open[u]
          PROVE  \A u \in Transfers : Settled(u)
      BY <3>1, <3>2, <3>3, AllSettled DEF Early
    <3>4. CASE UNCHANGED <<phase, open, saved>>
      <4>1. \A u \in Transfers : Settled(u)
        BY <3>1, <3>3, <3>4 DEF Early
      <4> QED
        BY <2>1, <3>1, <3>4, <4>1
    <3>5. ASSUME NEW left, left \subseteq open[t], FailReceiving(t, left, written),
                 saved' = saved
          PROVE  SavedOK'
      <4>1. /\ phase'[t] = "failed" /\ open'[t] = left
            /\ \A u \in Transfers \ {t} : phase'[u] = phase[u] /\ open'[u] = open[u]
        BY <3>5 DEF FailReceiving, Inv, TypeOK
      <4>2. \A u \in Transfers : Settled(u)
        BY <3>3, <3>5, <4>1 DEF Early
      <4> QED
        BY <2>1, <3>1, <3>5, <4>2
    <3>6. CASE Whole(t, k, len) /\ Commit(t, k, written[k])
      <4>1. written[k] = FileAt(t, k).size /\ FileAt(t, k).size \in Nat
        <5>1. /\ k \in FileSlots(t)
              /\ [parts[t] EXCEPT ![k] = @ + len][k] = got[t][k] + len
          BY <3>1, PartLength
        <5>2. FileAt(t, k).size \in Nat
          BY <5>1, Sizes DEF Inv
        <5> QED
          BY <3>6, <5>1, <5>2 DEF Whole
      <4>2. Doubled(t, k)' = 0
        BY <3>1 DEF Doubled, Inv, TablesOK
      <4>3. written[k] = FileAt(t, k).size + Doubled(t, k)'
        BY <4>1, <4>2
      <4>4. /\ phase' = phase
            /\ \A u \in Transfers : open'[u] \subseteq open[u]
            /\ \A u \in Transfers \ {t} : open'[u] = open[u]
        BY <3>6 DEF Commit, Inv, TypeOK
      <4>5. \A u \in Transfers : Settled(u)
        BY <3>1, <3>3, <4>4 DEF Early
      <4> HIDE DEF written
      <4> QED
        BY <2>7, <3>1, <3>6, <4>3, <4>5
    <3>7. open[t] \ {k} \subseteq open[t]
      OBVIOUS
    <3> QED
      BY <2>8, <3>4, <3>5, <3>6, <3>7 DEF ReceiveFileChunk
  <2>9. ASSUME NEW t \in Transfers, NEW k \in Slots, NEW len \in 0 .. MaxBody,
               ReceiveFileBytes(t, k, len)
        PROVE  SavedOK'
    <3>1. /\ phase[t] = "receiving" /\ k \in open[t] /\ UNCHANGED <<intro, got>>
          /\ inBytes' \in {inBytes, [inBytes EXCEPT ![t] = inBytes[t] \cup {k}]}
      BY <2>9 DEF ReceiveFileBytes
    <3>2. /\ \A u \in Transfers \ {t} : inBytes'[u] = inBytes[u]
          /\ inBytes'[t] \in {inBytes[t], inBytes[t] \cup {k}}
      BY <3>1 DEF Inv, TypeOK
    <3>3. ASSUME phase'[t] \notin Early, open'[t] \subseteq open[t],
                 \A u \in Transfers \ {t} : phase'[u] = phase[u] /\ open'[u] = open[u]
          PROVE  \A u \in Transfers : Settled(u)
      BY <3>1, <3>2, <3>3, AllSettled DEF Early
    <3>4. ASSUME NEW now, FailReceiving(t, open[t] \ {k}, now), saved' = saved
          PROVE  SavedOK'
      <4>1. /\ phase'[t] = "failed" /\ open'[t] = open[t] \ {k}
            /\ \A u \in Transfers \ {t} : phase'[u] = phase[u] /\ open'[u] = open[u]
        BY <3>4 DEF FailReceiving, Inv, TypeOK
      <4>2. \A u \in Transfers : Settled(u)
        BY <3>3, <4>1 DEF Early
      <4> QED
        BY <2>1, <3>1, <3>4, <4>2
    <3>5. CASE /\ len = FileAt(t, k).size /\ Commit(t, k, parts[t][k] + len)
               /\ inBytes' = [inBytes EXCEPT ![t] = inBytes[t] \cup {k}]
      <4>1. Doubled(t, k)' = got[t][k] /\ parts[t][k] = got[t][k] /\ got[t][k] \in Nat
        BY <3>1, <3>5, PartLength DEF Doubled, Inv, TypeOK
      <4>2. parts[t][k] + len = FileAt(t, k).size + Doubled(t, k)'
        <5>1. len \in Nat
          BY BoundsAssumption
        <5> QED
          BY <3>5, <4>1, <5>1
      <4>3. /\ phase' = phase
            /\ \A u \in Transfers : open'[u] \subseteq open[u]
            /\ \A u \in Transfers \ {t} : open'[u] = open[u]
        BY <3>5 DEF Commit, Inv, TypeOK
      <4>4. \A u \in Transfers : Settled(u)
        BY <3>1, <3>3, <4>3 DEF Early
      <4> QED
        BY <2>7, <3>1, <3>5, <4>2, <4>4
    <3> QED
      BY <2>9, <3>4, <3>5 DEF ReceiveFileBytes
  <2>10. ASSUME NEW q \in UserPaths, UserSaves(q) PROVE SavedOK'
    <3>1. /\ saved' = [saved EXCEPT ![q] = Users]
          /\ UNCHANGED <<phase, intro, open, got, inBytes>>
      BY <2>10 DEF UserSaves, worker
    <3>2. \A p \in Finals : saved'[p] = saved[p] \/ saved'[p].kind # "file"
      BY <3>1 DEF Inv, TypeOK, Users, Content
    <3>3. \A u \in Transfers : Settled(u)
      BY <3>1 DEF Settled, Doubled
    <3> QED
      BY <2>1, <3>1, <3>2, <3>3
  <2>11. CASE Quit \/ UNCHANGED vars
    <3>1. UNCHANGED <<intro, open, got, inBytes, saved>>
      BY <2>11 DEF Quit, vars, worker, disk
    <3>2. \A u \in Transfers : phase[u] \notin Early => phase'[u] \notin Early
      BY <2>11 DEF Quit, vars, Early, Inv, TypeOK
    <3>3. \A u \in Transfers : Settled(u)
      BY <3>1, <3>2 DEF Settled, Doubled
    <3> QED
      BY <2>1, <3>1, <3>3
  <2> QED
    BY <2>2, <2>4, <2>5, <2>6, <2>8, <2>9, <2>10, <2>11 DEF Next, ReceiveAll
<1>3. SavedOK => SavedWhole
  BY DEF SavedOK, Saved, SavedWhole
<1> QED
  BY <1>1, <1>2, <1>3, Invariance, PTL DEF Spec

--------------------------------------------------------------------------
(* How far the transfer is.                                                *)

\* What the files and the texts of a transfer come to, and the bytes counted so
\* far for each: all of an entry that has left its table.
FileSizes(t) == [k \in FileSlots(t) |-> FileAt(t, k).size + Doubled(t, k)]
TextSizes(t) == [k \in TextSlots(t) |-> TextAt(t, k).size]
Due(t) == SumTo(FileSizes(t), Len(intro[t].files))
            + SumTo(TextSizes(t), Len(intro[t].texts))

FileCount(t) == [k \in FileSlots(t) |-> IF k \in open[t] THEN got[t][k]
                                                         ELSE FileSizes(t)[k]]
TextCount(t) == [k \in TextSlots(t) |-> IF k \in texts[t] THEN 0
                                                          ELSE TextAt(t, k).size]
Counted(t) == SumTo(FileCount(t), Len(intro[t].files))
                + SumTo(TextCount(t), Len(intro[t].texts))

Declared(t) == Len(intro[t].files) + Len(intro[t].texts)

\* Every entry is in a table, being named or completed.
Placed(t) == Len(completed[t]) + Cardinality(open[t]) + Cardinality(texts[t])
               + IF phase[t] = "naming" THEN 1 ELSE 0

\* Nothing is counted before the transfer begins, and from then on each byte
\* counted belongs to an entry.
Progress(t) ==
  /\ phase[t] \in {"offered", "preparing"} =>
       /\ received[t] = 0 /\ completed[t] = <<>>
       /\ open[t] = 1 .. prepared[t]
       /\ \A k \in Slots : got[t][k] = 0
  /\ phase[t] \in {"receiving", "naming"} => /\ received[t] = Counted(t)
                                             /\ Placed(t) = Declared(t)
  /\ received[t] <= Due(t)
  /\ phase[t] = "done" => /\ received[t] = Due(t)
                          /\ Len(completed[t]) = Declared(t)

ProgressOK == \A t \in Transfers : Progress(t)


\* The total of a table is the sum of the sizes in it.
LEMMA SizeSumIs ==
  ASSUME NEW e, Len(e) \in Nat, NEW h,
         \A k \in 1 .. Len(e) : e[k].size \in Nat /\ h[k] = e[k].size
  PROVE  SizeSum(e) = SumTo(h, Len(e))
<1> DEFINE n == Len(e)
           f == CHOOSE g : g = [i \in 0 .. n |->
                                  IF i = 0 THEN 0 ELSE g[i - 1] + e[i].size]
<1>1. SizeSum(e) = f[n]
  BY DEF SizeSum
<1>2. \A g : (\A i \in 0 .. n : i = 0 \/ h[i] = e[i].size)
        /\ g = [i \in 0 .. n |-> IF i = 0 THEN 0 ELSE g[i - 1] + h[i]]
        => g = [i \in 0 .. n |-> IF i = 0 THEN 0 ELSE g[i - 1] + e[i].size]
  OBVIOUS
<1>3. \A i \in 0 .. n : i = 0 \/ h[i] = e[i].size
  <2>1. \A i \in 0 .. n : i = 0 \/ i \in 1 .. n
    OBVIOUS
  <2> QED
    BY <2>1
<1>4. ASSUME NEW g, g = [i \in 0 .. n |-> IF i = 0 THEN 0 ELSE g[i - 1] + h[i]]
      PROVE  f = [i \in 0 .. n |-> IF i = 0 THEN 0 ELSE f[i - 1] + h[i]]
  <2>1. g = [i \in 0 .. n |-> IF i = 0 THEN 0 ELSE g[i - 1] + e[i].size]
    BY <1>2, <1>3, <1>4
  <2>2. f = [i \in 0 .. n |-> IF i = 0 THEN 0 ELSE f[i - 1] + e[i].size]
    BY <2>1
  <2> HIDE DEF f
  <2> QED
    BY <1>3, <2>2
<1> HIDE DEF f
<1>5. n \in Nat /\ \A i \in 1 .. n : h[i] \in Nat
  OBVIOUS
<1> HIDE DEF n
<1>6. PartialSums(f, h, n)
  BY <1>4, <1>5, SumsDefined
<1>7. SumTo(h, n) = f[n]
  BY <1>5, <1>6, SumIs
<1> QED
  BY <1>1, <1>7 DEF n

\* An entry of the tables declares a natural number of bytes, and so the whole
\* transfer comes to one.
LEMMA DueIs ==
  ASSUME TypeOK, NEW t \in Transfers
  PROVE  /\ \A k \in FileSlots(t) : /\ Doubled(t, k) \in Nat
                                     /\ FileSizes(t)[k] \in Nat
                                     /\ FileAt(t, k).size <= FileSizes(t)[k]
         /\ \A k \in TextSlots(t) : TextSizes(t)[k] \in Nat
         /\ SumTo(FileSizes(t), Len(intro[t].files)) \in Nat
         /\ SumTo(TextSizes(t), Len(intro[t].texts)) \in Nat
         /\ Due(t) \in Nat
<1>1. /\ Len(intro[t].files) \in Nat /\ Len(intro[t].texts) \in Nat
      /\ FileSlots(t) \subseteq Slots
      /\ \A k \in FileSlots(t) : FileAt(t, k).size \in Nat
      /\ \A k \in TextSlots(t) : TextAt(t, k).size \in Nat
  BY Sizes
<1>2. \A k \in FileSlots(t) : Doubled(t, k) \in Nat
  <2> SUFFICES ASSUME NEW k \in FileSlots(t)
               PROVE  Doubled(t, k) \in Nat
    OBVIOUS
  <2>1. k \in Slots
    BY <1>1
  <2>2. got \in [Transfers -> [Slots -> Nat]]
    BY DEF TypeOK
  <2>3. got[t] \in [Slots -> Nat]
    BY <2>2
  <2>4. got[t][k] \in Nat
    BY <2>1, <2>3
  <2> QED
    BY <2>4 DEF Doubled
<1>3. \A k \in FileSlots(t) : /\ FileSizes(t)[k] \in Nat
                              /\ FileAt(t, k).size <= FileSizes(t)[k]
  <2> SUFFICES ASSUME NEW k \in FileSlots(t)
               PROVE  /\ FileSizes(t)[k] \in Nat
                      /\ FileAt(t, k).size <= FileSizes(t)[k]
    OBVIOUS
  <2>1. FileSizes(t)[k] = FileAt(t, k).size + Doubled(t, k)
    BY DEF FileSizes
  <2> QED
    BY <1>1, <1>2, <2>1
<1>4. \A k \in TextSlots(t) : TextSizes(t)[k] \in Nat
  BY <1>1 DEF TextSizes
<1>5. SumTo(FileSizes(t), Len(intro[t].files)) \in Nat
  <2>1. \A k \in 1 .. Len(intro[t].files) : FileSizes(t)[k] \in Nat
    BY <1>3 DEF FileSlots
  <2> QED
    BY <1>1, <2>1, SumSame
<1>6. SumTo(TextSizes(t), Len(intro[t].texts)) \in Nat
  <2>1. \A k \in 1 .. Len(intro[t].texts) : TextSizes(t)[k] \in Nat
    BY <1>4 DEF TextSlots
  <2> QED
    BY <1>1, <2>1, SumSame
<1> QED
  BY <1>2, <1>3, <1>4, <1>5, <1>6 DEF Due

\* The same, as the sums over the tables that BytesDue states.
LEMMA TotalIs ==
  ASSUME TypeOK, NEW t \in Transfers
  PROVE  BytesDue(t) = Due(t)
<1> DEFINE nf == Len(intro[t].files)
           nt == Len(intro[t].texts)
           e == FilesDue(t)
<1>1. /\ nf \in Nat /\ nt \in Nat
      /\ \A k \in TextSlots(t) : TextAt(t, k).size \in Nat
  BY Sizes
<1>2. e = [k \in 1 .. nf |-> [size |-> FileAt(t, k).size + Doubled(t, k)]]
  BY DEF FilesDue, FileSlots
<1>3. \A k \in 1 .. nf : e[k].size \in Nat /\ FileSizes(t)[k] = e[k].size
  <2> SUFFICES ASSUME NEW k \in 1 .. nf
               PROVE  e[k].size \in Nat /\ FileSizes(t)[k] = e[k].size
    OBVIOUS
  <2>1. e[k].size = FileAt(t, k).size + Doubled(t, k)
    BY <1>2
  <2>2. FileSizes(t)[k] = FileAt(t, k).size + Doubled(t, k)
    BY DEF FileSizes, FileSlots
  <2>3. FileSizes(t)[k] \in Nat
    <3>1. k \in FileSlots(t)
      BY DEF FileSlots
    <3> HIDE DEF nf
    <3> QED
      BY <3>1, DueIs
  <2> QED
    BY <2>1, <2>2, <2>3
<1>4. \A k \in 1 .. nt : /\ intro[t].texts[k].size \in Nat
                         /\ TextSizes(t)[k] = intro[t].texts[k].size
  BY <1>1 DEF TextSizes, TextSlots, TextAt
<1> HIDE DEF nf, e
<1>5. Len(e) = nf
  BY <1>1, <1>2
<1>6. SizeSum(e) = SumTo(FileSizes(t), nf)
  BY <1>1, <1>3, <1>5, SizeSumIs
<1>7. SizeSum(intro[t].texts) = SumTo(TextSizes(t), nt)
  BY <1>1, <1>4, SizeSumIs
<1> QED
  BY <1>6, <1>7 DEF BytesDue, Due, e, nf

\* No entry is counted for more than its size, and so the transfer is not.
LEMMA CountsBounded ==
  ASSUME Inv, NEW t \in Transfers, phase[t] \in {"receiving", "naming"}
  PROVE  /\ \A k \in FileSlots(t) : /\ FileCount(t)[k] \in Nat
                                    /\ FileCount(t)[k] <= FileSizes(t)[k]
                                    /\ FileSizes(t)[k] \in Nat
         /\ \A k \in TextSlots(t) : /\ TextCount(t)[k] \in Nat
                                    /\ TextCount(t)[k] <= TextSizes(t)[k]
                                    /\ TextSizes(t)[k] \in Nat
         /\ SumTo(FileCount(t), Len(intro[t].files)) \in Nat
         /\ SumTo(TextCount(t), Len(intro[t].texts)) \in Nat
         /\ SumTo(FileCount(t), Len(intro[t].files))
              <= SumTo(FileSizes(t), Len(intro[t].files))
         /\ SumTo(TextCount(t), Len(intro[t].texts))
              <= SumTo(TextSizes(t), Len(intro[t].texts))
<1> USE DEF Inv
<1>1. /\ Len(intro[t].files) \in Nat /\ Len(intro[t].texts) \in Nat
      /\ FileSlots(t) \subseteq Slots
      /\ \A k \in FileSlots(t) : FileAt(t, k).size \in Nat
      /\ \A k \in TextSlots(t) : TextAt(t, k).size \in Nat
  BY Sizes
<1>2. \A k \in FileSlots(t) : /\ got[t][k] \in Nat /\ FileSizes(t)[k] \in Nat
                              /\ FileAt(t, k).size <= FileSizes(t)[k]
  BY <1>1, DueIs DEF TypeOK
<1>3. \A k \in open[t] : got[t][k] <= FileAt(t, k).size
  BY DEF PartsOK, Tracked
<1>4. \A k \in FileSlots(t) : /\ FileCount(t)[k] \in Nat
                              /\ FileCount(t)[k] <= FileSizes(t)[k]
                              /\ FileSizes(t)[k] \in Nat
  <2> SUFFICES ASSUME NEW k \in FileSlots(t)
               PROVE  /\ FileCount(t)[k] \in Nat
                      /\ FileCount(t)[k] <= FileSizes(t)[k]
                      /\ FileSizes(t)[k] \in Nat
    OBVIOUS
  <2>1. FileCount(t)[k] = IF k \in open[t] THEN got[t][k] ELSE FileSizes(t)[k]
    BY DEF FileCount
  <2> QED
    BY <1>1, <1>2, <1>3, <2>1
<1>5. \A k \in TextSlots(t) : /\ TextCount(t)[k] \in Nat
                              /\ TextCount(t)[k] <= TextSizes(t)[k]
                              /\ TextSizes(t)[k] \in Nat
  <2> SUFFICES ASSUME NEW k \in TextSlots(t)
               PROVE  /\ TextCount(t)[k] \in Nat
                      /\ TextCount(t)[k] <= TextSizes(t)[k]
                      /\ TextSizes(t)[k] \in Nat
    OBVIOUS
  <2>1. /\ TextCount(t)[k] = IF k \in texts[t] THEN 0 ELSE TextAt(t, k).size
        /\ TextSizes(t)[k] = TextAt(t, k).size
    BY DEF TextCount, TextSizes
  <2> QED
    BY <1>1, <2>1
<1> DEFINE nf == Len(intro[t].files)
           nt == Len(intro[t].texts)
<1>6. SumTo(FileCount(t), nf) \in Nat /\ SumTo(FileCount(t), nf) <= SumTo(FileSizes(t), nf)
  BY <1>1, <1>4, SumOrdered DEF FileSlots
<1>7. SumTo(TextCount(t), nt) \in Nat /\ SumTo(TextCount(t), nt) <= SumTo(TextSizes(t), nt)
  BY <1>1, <1>5, SumOrdered DEF TextSlots
<1> QED
  BY <1>4, <1>5, <1>6, <1>7

\* What len more bytes of a file do to the sums.
LEMMA CreditFile ==
  ASSUME Inv, NEW t \in Transfers, Progress(t), phase[t] = "receiving",
         NEW k \in FileSlots(t), NEW len \in Nat, NEW f, NEW g,
         \A j \in FileSlots(t) :
           f[j] = IF j = k THEN FileCount(t)[j] + len ELSE FileCount(t)[j],
         \A j \in FileSlots(t) : g[j] \in Nat /\ f[j] <= g[j]
  PROVE  /\ received[t] + len = SumTo(f, Len(intro[t].files))
                                  + SumTo(TextCount(t), Len(intro[t].texts))
         /\ received[t] + len <= SumTo(g, Len(intro[t].files))
                                  + SumTo(TextSizes(t), Len(intro[t].texts))
<1> DEFINE nf == Len(intro[t].files)
           nt == Len(intro[t].texts)
<1>1. /\ \A j \in 1 .. nf : /\ FileCount(t)[j] \in Nat
                            /\ FileCount(t)[j] <= FileSizes(t)[j]
                            /\ FileSizes(t)[j] \in Nat
      /\ SumTo(TextCount(t), nt) \in Nat
      /\ SumTo(TextCount(t), nt) <= SumTo(TextSizes(t), nt)
  BY CountsBounded DEF FileSlots
<1>2. nf \in Nat /\ k \in 1 .. nf /\ len \in Nat
  BY Sizes DEF Inv, FileSlots
<1>3. \A j \in 1 .. nf : f[j] = IF j = k THEN FileCount(t)[j] + len
                                         ELSE FileCount(t)[j]
  BY DEF FileSlots
<1>4. received[t] = SumTo(FileCount(t), nf) + SumTo(TextCount(t), nt)
  BY DEF Progress, Counted
<1>5. SumTo(TextSizes(t), nt) \in Nat
  BY DueIs DEF Inv
<1> HIDE DEF nf, nt
<1>6. SumTo(f, nf) = SumTo(FileCount(t), nf) + len /\ SumTo(FileCount(t), nf) \in Nat
  <2>1. GrownAt(f, FileCount(t), nf, k, len)
    BY <1>1, <1>2, <1>3 DEF GrownAt
  <2> QED
    BY <1>2, <2>1, SumGrows
<1>7. \A j \in 1 .. nf : f[j] \in Nat /\ g[j] \in Nat /\ f[j] <= g[j]
  BY <1>1, <1>3 DEF FileSlots, nf
<1>8. SumTo(f, nf) <= SumTo(g, nf) /\ SumTo(g, nf) \in Nat
  BY <1>2, <1>7, SumOrdered
<1> QED
  BY <1>1, <1>4, <1>5, <1>6, <1>8 DEF nf, nt

\* What a text does to the sums.
LEMMA CreditText ==
  ASSUME Inv, NEW t \in Transfers, Progress(t), phase[t] = "receiving",
         NEW k \in texts[t], NEW x,
         \A j \in TextSlots(t) :
           x[j] = IF j = k THEN TextAt(t, k).size ELSE TextCount(t)[j]
  PROVE  /\ received[t] + TextAt(t, k).size
              = SumTo(FileCount(t), Len(intro[t].files))
                  + SumTo(x, Len(intro[t].texts))
         /\ received[t] + TextAt(t, k).size <= Due(t)
<1> DEFINE nf == Len(intro[t].files)
           nt == Len(intro[t].texts)
           len == TextAt(t, k).size
<1>1. /\ \A j \in 1 .. nt : /\ TextCount(t)[j] \in Nat
                            /\ TextCount(t)[j] <= TextSizes(t)[j]
                            /\ TextSizes(t)[j] \in Nat
      /\ SumTo(FileCount(t), nf) \in Nat
      /\ SumTo(FileCount(t), nf) <= SumTo(FileSizes(t), nf)
  BY CountsBounded DEF TextSlots
<1>2. nt \in Nat /\ k \in 1 .. nt /\ len \in Nat
  BY Sizes DEF Inv, TablesOK, TextSlots
<1>3. \A j \in 1 .. nt : x[j] = IF j = k THEN TextCount(t)[j] + len
                                         ELSE TextCount(t)[j]
  <2>1. TextCount(t)[k] = 0 /\ \A j \in 1 .. nt : j \in TextSlots(t)
    BY <1>2 DEF TextCount, TextSlots
  <2>2. 0 + len = len
    BY <1>2
  <2> QED
    BY <2>1, <2>2
<1>4. received[t] = SumTo(FileCount(t), nf) + SumTo(TextCount(t), nt)
  BY DEF Progress, Counted
<1>5. /\ Due(t) = SumTo(FileSizes(t), nf) + SumTo(TextSizes(t), nt)
      /\ SumTo(FileSizes(t), nf) \in Nat
  BY DueIs DEF Inv, Due
<1>6. TextSizes(t)[k] = len /\ TextCount(t)[k] = 0
  BY <1>2 DEF TextSizes, TextCount, TextSlots
<1> HIDE DEF nf, nt, len
<1>7. SumTo(x, nt) = SumTo(TextCount(t), nt) + len /\ SumTo(TextCount(t), nt) \in Nat
  <2>1. GrownAt(x, TextCount(t), nt, k, len)
    BY <1>1, <1>2, <1>3 DEF GrownAt
  <2> QED
    BY <1>2, <2>1, SumGrows
<1>8. \A j \in 1 .. nt : x[j] \in Nat /\ TextSizes(t)[j] \in Nat
                         /\ x[j] <= TextSizes(t)[j]
  BY <1>1, <1>2, <1>3, <1>6
<1>9. SumTo(x, nt) <= SumTo(TextSizes(t), nt) /\ SumTo(TextSizes(t), nt) \in Nat
  BY <1>2, <1>8, SumOrdered
<1> QED
  BY <1>1, <1>2, <1>4, <1>5, <1>7, <1>9 DEF nf, nt, len

\* A step that leaves a transfer as it is.
LEMMA Quiet ==
  ASSUME NEW u, Progress(u), intro' = intro, prepared'[u] = prepared[u],
         phase'[u] = phase[u], open'[u] = open[u], texts'[u] = texts[u],
         got'[u] = got[u], received'[u] = received[u],
         completed'[u] = completed[u], inBytes'[u] = inBytes[u]
  PROVE  Progress(u)'
<1>1. /\ FileSizes(u)' = FileSizes(u) /\ TextSizes(u)' = TextSizes(u)
      /\ TextCount(u)' = TextCount(u)
  BY DEF FileSizes, TextSizes, TextCount, FileSlots, TextSlots, FileAt, TextAt,
     Doubled
<1>2. FileCount(u)' = FileCount(u)
  BY <1>1 DEF FileCount, FileSlots
<1>3. Counted(u)' = Counted(u) /\ Placed(u)' = Placed(u)
      /\ Due(u)' = Due(u) /\ Declared(u)' = Declared(u)
  BY <1>1, <1>2 DEF Counted, Placed, Declared, Due
<1> QED
  BY <1>3 DEF Progress

\* What a transfer comes to changes only with its entries that a BYTES payload
\* ended.
LEMMA SameDue ==
  ASSUME NEW u, intro' = intro, got'[u] = got[u], inBytes'[u] = inBytes[u]
  PROVE  /\ Due(u)' = Due(u) /\ FileSizes(u)' = FileSizes(u)
         /\ TextSizes(u)' = TextSizes(u)
<1>1. FileSizes(u)' = FileSizes(u) /\ TextSizes(u)' = TextSizes(u)
  BY DEF FileSizes, TextSizes, FileSlots, TextSlots, FileAt, TextAt, Doubled
<1> QED
  BY <1>1 DEF Due

\* A transfer that ends without being done owes only the bound.
LEMMA Ended ==
  ASSUME NEW t, phase'[t] \in {"rejected", "failed", "killed"},
         received'[t] <= Due(t)'
  PROVE  Progress(t)'
BY DEF Progress

\* The tables are finite, and lose one entry at a time.
LEMMA TableSizes ==
  ASSUME TypeOK, NEW t \in Transfers
  PROVE  /\ Cardinality(open[t]) \in Nat /\ Cardinality(texts[t]) \in Nat
         /\ Cardinality({}) = 0
         /\ \A k \in open[t] : Cardinality(open[t] \ {k}) = Cardinality(open[t]) - 1
         /\ \A k \in texts[t] : Cardinality(texts[t] \ {k}) = Cardinality(texts[t]) - 1
<1>1. IsFiniteSet(Slots)
  BY FS_Interval, BoundsAssumption
<1>2. open[t] \in SUBSET Slots /\ texts[t] \in SUBSET Slots
  BY DEF TypeOK
<1> HIDE DEF Slots
<1>3. IsFiniteSet(open[t]) /\ IsFiniteSet(texts[t])
  BY <1>1, <1>2, FS_Subset
<1>4. Cardinality(open[t]) \in Nat /\ Cardinality(texts[t]) \in Nat
  BY <1>3, FS_CardinalityType
<1>5. \A k \in open[t] : Cardinality(open[t] \ {k}) = Cardinality(open[t]) - 1
  BY <1>3, FS_RemoveElement
<1>6. \A k \in texts[t] : Cardinality(texts[t] \ {k}) = Cardinality(texts[t]) - 1
  BY <1>3, FS_RemoveElement
<1> QED
  BY <1>4, <1>5, <1>6, FS_EmptySet

\* A transfer that goes on receiving owes its sums and its entries.
LEMMA Receiving ==
  ASSUME NEW t, intro' = intro, phase'[t] \in {"receiving", "naming"},
         received'[t] = Counted(t)', Placed(t)' = Declared(t),
         received'[t] <= Due(t)'
  PROVE  Progress(t)'
BY DEF Progress, Declared

\* One entry of prepare: nothing is counted (prepare).
LEMMA PrepareFileProgress ==
  ASSUME Inv, NEW t \in Transfers, Progress(t), PrepareFile(t)
  PROVE  Progress(t)'
<1>1. /\ phase[t] = "preparing" /\ prepared[t] \in Nat
      /\ intro' = intro /\ got' = got /\ received' = received /\ completed' = completed
      /\ prepared'[t] = prepared[t] + 1 /\ open'[t] = open[t] \cup {prepared[t] + 1}
      /\ phase'[t] \in {"preparing", "failed"} /\ inBytes' = inBytes
  BY BoundsAssumption DEF PrepareFile, Inv, TypeOK
<1>2. open'[t] = 1 .. prepared'[t]
  BY <1>1 DEF Progress
<1>3. received'[t] <= Due(t)'
  BY <1>1, SameDue DEF Progress
<1>4. CASE phase'[t] = "preparing"
  BY <1>1, <1>2, <1>3, <1>4 DEF Progress
<1>5. CASE phase'[t] = "failed"
  BY <1>1, <1>3, <1>5, Ended
<1> QED
  BY <1>1, <1>4, <1>5

\* The transfer begins with nothing counted and every entry in its table.
LEMMA FinishPrepareProgress ==
  ASSUME Inv, NEW t \in Transfers, Progress(t), FinishPrepare(t)
  PROVE  Progress(t)'
<1> DEFINE nf == Len(intro[t].files)
           nt == Len(intro[t].texts)
<1>1. /\ phase[t] = "preparing" /\ prepared[t] = nf
      /\ intro' = intro /\ got' = got /\ received' = received /\ completed' = completed
      /\ open' = open /\ inBytes' = inBytes
  BY DEF FinishPrepare, disk
<1>2. /\ received[t] = 0 /\ completed[t] = <<>> /\ open[t] = 1 .. nf
      /\ \A k \in Slots : got[t][k] = 0
      /\ 0 <= Due(t)'
  BY <1>1, SameDue DEF Progress
<1>3. nf \in Nat /\ nt \in Nat /\ FileSlots(t) \subseteq Slots
  BY Sizes DEF Inv
<1>4. CASE phase' = [phase EXCEPT ![t] = "receiving"]
           /\ texts' = [texts EXCEPT ![t] = TextSlots(t)]
  <2>1. phase'[t] = "receiving" /\ texts'[t] = 1 .. nt
    BY <1>4 DEF Inv, TypeOK, TextSlots
  <2>2. \A k \in 1 .. nf : FileCount(t)'[k] = 0
    BY <1>1, <1>2, <1>3 DEF FileCount, FileSlots
  <2>3. \A k \in 1 .. nt : TextCount(t)'[k] = 0
    BY <1>1, <2>1 DEF TextCount, TextSlots
  <2> HIDE DEF nf, nt
  <2>4. SumTo(FileCount(t)', nf) = 0 /\ SumTo(TextCount(t)', nt) = 0
    BY <1>3, <2>2, <2>3, SumOfZeros
  <2>5. Counted(t)' = 0
    BY <1>1, <2>4 DEF Counted, nf, nt
  <2>6. Cardinality(1 .. nf) = nf /\ Cardinality(1 .. nt) = nt
    BY <1>3, FS_Interval
  <2>7. Len(completed[t]) = 0
    BY <1>2
  <2>8. Placed(t)' = nf + nt
    <3>1. Placed(t)' = Len(completed[t]) + Cardinality(1 .. nf) + Cardinality(1 .. nt) + 0
      BY <1>1, <1>2, <2>1 DEF Placed
    <3> QED
      BY <1>3, <2>6, <2>7, <3>1
  <2> QED
    BY <1>1, <1>2, <2>1, <2>5, <2>8, Receiving DEF Declared, nf, nt
<1>5. CASE phase' = [phase EXCEPT ![t] = "failed"]
  <2>1. phase'[t] = "failed"
    BY <1>5 DEF Inv, TypeOK
  <2> QED
    BY <1>1, <1>2, <2>1, Ended
<1> QED
  BY <1>4, <1>5 DEF FinishPrepare

\* An entry that leaves the table of files is completed.
LEMMA Completes ==
  ASSUME Inv, NEW t \in Transfers, Progress(t), phase[t] = "receiving",
         NEW k \in open[t], NEW size, Commit(t, k, size),
         intro' = intro, texts' = texts
  PROVE  Placed(t)' = Declared(t)
<1>1. /\ phase'[t] = "receiving" /\ open'[t] = open[t] \ {k}
      /\ completed'[t] = Append(completed[t], dest[t][k])
  BY DEF Commit, Inv, TypeOK
<1>2. completed[t] \in Seq(Finals)
  BY DEF Inv, TypeOK
<1>3. Len(completed'[t]) = Len(completed[t]) + 1 /\ Len(completed[t]) \in Nat
  BY <1>1, <1>2
<1>4. /\ Cardinality(open[t]) \in Nat /\ Cardinality(texts[t]) \in Nat
      /\ Cardinality(open[t] \ {k}) = Cardinality(open[t]) - 1
  BY TableSizes DEF Inv
<1>5. /\ Placed(t)' = Len(completed'[t]) + Cardinality(open[t] \ {k})
                        + Cardinality(texts[t]) + 0
      /\ Placed(t) = Len(completed[t]) + Cardinality(open[t])
                        + Cardinality(texts[t]) + 0
  BY <1>1 DEF Placed
<1>6. Placed(t) = Declared(t)
  BY DEF Progress
<1> QED
  BY <1>3, <1>4, <1>5, <1>6

\* A chunk counts for its file (receive_file_chunk).
LEMMA ReceiveFileChunkProgress ==
  ASSUME Inv, NEW t \in Transfers, Progress(t), NEW k \in Slots,
         NEW len \in 0 .. MaxBody, NEW last, ReceiveFileChunk(t, k, len, last)
  PROVE  Progress(t)'
<1> DEFINE nf == Len(intro[t].files)
           nt == Len(intro[t].texts)
           written == [parts[t] EXCEPT ![k] = @ + len]
           f == [j \in FileSlots(t) |-> IF j = k THEN FileCount(t)[j] + len
                                                 ELSE FileCount(t)[j]]
<1>1. /\ phase[t] = "receiving" /\ k \in open[t]
      /\ got[t][k] + len <= FileAt(t, k).size
      /\ got'[t] = [got[t] EXCEPT ![k] = @ + len]
      /\ received'[t] = received[t] + len
      /\ intro' = intro /\ texts' = texts /\ inBytes' = inBytes /\ len \in Nat
  BY BoundsAssumption DEF ReceiveFileChunk, Fits, Count, Inv, TypeOK
<1>2. k \in FileSlots(t) /\ got[t][k] \in Nat /\ FileAt(t, k).size \in Nat
  <2>1. k \in FileSlots(t) /\ got[t][k] \in Nat
    BY <1>1, PartLength
  <2> QED
    BY <2>1, Sizes DEF Inv
<1>3. FileCount(t)[k] = got[t][k] /\ FileSizes(t)[k] = FileAt(t, k).size
  <2>1. k \notin inBytes[t]
    BY <1>1 DEF Inv, TablesOK
  <2> QED
    BY <1>1, <1>2, <2>1 DEF FileCount, FileSizes, Doubled
<1>4. /\ FileSizes(t)' = FileSizes(t) /\ TextSizes(t)' = TextSizes(t)
      /\ Due(t)' = Due(t)
  <2>1. \A j \in FileSlots(t) : Doubled(t, j)' = Doubled(t, j)
    <3>1. k \notin inBytes[t] /\ got[t] \in [Slots -> Nat]
          /\ inBytes[t] \subseteq Slots
      BY <1>1 DEF Inv, TypeOK, TablesOK
    <3> QED
      BY <1>1, <3>1 DEF Doubled
  <2>2. FileSizes(t)' = FileSizes(t) /\ TextSizes(t)' = TextSizes(t)
    BY <1>1, <2>1 DEF FileSizes, TextSizes, FileSlots, TextSlots, FileAt, TextAt
  <2> QED
    BY <1>1, <2>2 DEF Due
<1>5. /\ received[t] + len = SumTo(f, nf) + SumTo(TextCount(t), nt)
      /\ received[t] + len <= Due(t)
  <2>1. \A j \in FileSlots(t) :
          f[j] = IF j = k THEN FileCount(t)[j] + len ELSE FileCount(t)[j]
    OBVIOUS
  <2>2. FileCount(t)[k] + len <= FileSizes(t)[k]
    BY <1>1, <1>3
  <2> HIDE DEF f
  <2>3. \A j \in FileSlots(t) : FileSizes(t)[j] \in Nat /\ f[j] <= FileSizes(t)[j]
    BY <1>1, <2>1, <2>2, CountsBounded
  <2> QED
    BY <1>1, <1>2, <2>1, <2>3, CreditFile DEF Due
<1>6. ASSUME open'[t] = open[t] \/ (open'[t] = open[t] \ {k} /\ Whole(t, k, len))
      PROVE  received'[t] = Counted(t)'
  <2>1. TextCount(t)' = TextCount(t)
    BY <1>1 DEF TextCount, TextSlots, TextAt
  <2>2. got[t] \in [Slots -> Nat] /\ FileSlots(t) \subseteq Slots
    BY Sizes DEF Inv, TypeOK
  <2>3. FileCount(t)' = [j \in FileSlots(t) |-> IF j \in open'[t] THEN got'[t][j]
                                                     ELSE FileSizes(t)[j]]
    BY <1>1, <1>4 DEF FileCount, FileSlots
  <2>4. \A j \in FileSlots(t) :
          (IF j \in open'[t] THEN got'[t][j] ELSE FileSizes(t)[j]) = f[j]
    <3> SUFFICES ASSUME NEW j \in FileSlots(t)
                 PROVE  (IF j \in open'[t] THEN got'[t][j] ELSE FileSizes(t)[j]) = f[j]
      OBVIOUS
    <3>1. f[j] = IF j = k THEN got[t][k] + len
                 ELSE IF j \in open[t] THEN got[t][j] ELSE FileSizes(t)[j]
      BY <1>3 DEF FileCount
    <3>2. got'[t][j] = IF j = k THEN got[t][k] + len ELSE got[t][j]
      BY <1>1, <2>2
    <3>3. open'[t] = open[t] \ {k} => got[t][k] + len = FileAt(t, k).size
      BY <1>1, <1>6 DEF Whole
    <3> HIDE DEF f
    <3>4. CASE j = k
      BY <1>1, <1>3, <1>6, <3>1, <3>2, <3>3, <3>4
    <3>5. CASE j # k
      BY <1>6, <3>1, <3>2, <3>5
    <3> QED
      BY <3>4, <3>5
  <2>5. FileCount(t)' = f
    BY <2>3, <2>4
  <2> HIDE DEF f
  <2> QED
    BY <1>1, <1>5, <2>1, <2>5 DEF Counted
<1> HIDE DEF f
<1>7. CASE UNCHANGED <<phase, open, completed>>
  <2>1. Placed(t)' = Declared(t)
    BY <1>1, <1>7 DEF Placed, Progress
  <2> QED
    BY <1>1, <1>5, <1>6, <1>7, <1>4, <2>1, Receiving
<1>8. CASE Whole(t, k, len) /\ Commit(t, k, written[k])
  <2>1. phase'[t] = "receiving" /\ open'[t] = open[t] \ {k}
    BY <1>1, <1>8 DEF Commit, Inv, TypeOK
  <2>2. Placed(t)' = Declared(t)
    BY <1>1, <1>8, Completes
  <2> QED
    BY <1>1, <1>5, <1>6, <1>8, <1>4, <2>1, <2>2, Receiving
<1>9. CASE \E left : FailReceiving(t, left, written)
  <2>1. phase'[t] = "failed"
    BY <1>9 DEF FailReceiving, Inv, TypeOK
  <2> QED
    BY <1>1, <1>5, <1>4, <2>1, Ended
<1> QED
  BY <1>7, <1>8, <1>9 DEF ReceiveFileChunk

\* A whole file in one payload counts once, on top of the chunks that came
\* before it (receive_file_bytes).
LEMMA ReceiveFileBytesProgress ==
  ASSUME Inv, NEW t \in Transfers, Progress(t), NEW k \in Slots,
         NEW len \in 0 .. MaxBody, ReceiveFileBytes(t, k, len)
  PROVE  Progress(t)'
<1> DEFINE nf == Len(intro[t].files)
           nt == Len(intro[t].texts)
           f == [j \in FileSlots(t) |-> IF j = k THEN FileCount(t)[j] + len
                                                 ELSE FileCount(t)[j]]
           g == FileSizes(t)'
<1>1. /\ phase[t] = "receiving" /\ k \in open[t]
      /\ intro' = intro /\ texts' = texts /\ got' = got /\ len \in Nat
  BY BoundsAssumption DEF ReceiveFileBytes
<1>2. /\ k \in FileSlots(t) /\ got[t][k] \in Nat
      /\ \A j \in FileSlots(t) : /\ FileSizes(t)[j] \in Nat
                                  /\ FileCount(t)[j] <= FileSizes(t)[j]
  BY <1>1, PartLength, CountsBounded
<1>3. ASSUME \E left, now : FailReceiving(t, left, now), received'[t] <= Due(t)'
      PROVE  Progress(t)'
  <2>1. phase'[t] = "failed"
    BY <1>3 DEF FailReceiving, Inv, TypeOK
  <2> QED
    BY <1>3, <2>1, Ended
<1>4. CASE /\ len = FileAt(t, k).size /\ received' = Count(t, len)
           /\ inBytes' = [inBytes EXCEPT ![t] = inBytes[t] \cup {k}]
  <2>1. /\ received'[t] = received[t] + len
        /\ inBytes'[t] = inBytes[t] \cup {k}
    BY <1>4 DEF Count, Inv, TypeOK
  <2>2. TextSizes(t)' = TextSizes(t) /\ TextCount(t)' = TextCount(t)
    BY <1>1 DEF TextSizes, TextCount, TextSlots, TextAt
  <2>3. g = [j \in FileSlots(t) |-> FileAt(t, j).size
                                     + IF j \in inBytes'[t] THEN got[t][j] ELSE 0]
    BY <1>1 DEF FileSizes, Doubled, FileSlots, FileAt
  <2>4. \A j \in FileSlots(t) : j # k => g[j] = FileSizes(t)[j]
    BY <2>1, <2>3 DEF FileSizes, Doubled
  <2>5. g[k] = FileCount(t)[k] + len
    <3>1. g[k] = len + got[t][k] /\ FileCount(t)[k] = got[t][k]
      BY <1>1, <1>2, <1>4, <2>1, <2>3 DEF FileCount
    <3> QED
      BY <1>1, <1>2, <3>1
  <2>6. \A j \in FileSlots(t) :
          f[j] = IF j = k THEN FileCount(t)[j] + len ELSE FileCount(t)[j]
    OBVIOUS
  <2> HIDE DEF f, g
  <2>7. \A j \in FileSlots(t) : g[j] \in Nat /\ f[j] <= g[j]
    <3> SUFFICES ASSUME NEW j \in FileSlots(t) PROVE g[j] \in Nat /\ f[j] <= g[j]
      OBVIOUS
    <3>1. CASE j = k
      <4>1. f[k] = g[k] /\ FileCount(t)[k] \in Nat
        BY <1>1, <1>2, <2>5, <2>6, CountsBounded
      <4> QED
        BY <1>1, <2>5, <3>1, <4>1
    <3>2. CASE j # k
      BY <1>2, <2>4, <2>6, <3>2
    <3> QED
      BY <3>1, <3>2
  <2>8. /\ received[t] + len = SumTo(f, nf) + SumTo(TextCount(t), nt)
        /\ received[t] + len <= SumTo(g, nf) + SumTo(TextSizes(t), nt)
    BY <1>1, <1>2, <2>6, <2>7, CreditFile
  <2>9. received'[t] <= Due(t)'
    BY <1>1, <2>1, <2>2, <2>8 DEF Due, g
  <2>10. ASSUME NEW size, Commit(t, k, size) PROVE Progress(t)'
    <3>1. phase'[t] = "receiving" /\ open'[t] = open[t] \ {k}
      BY <1>1, <2>10 DEF Commit, Inv, TypeOK
    <3>2. Placed(t)' = Declared(t)
      BY <1>1, <2>10, Completes
    <3>3. FileCount(t)' = [j \in FileSlots(t) |-> IF j \in open'[t] THEN got[t][j]
                                                       ELSE g[j]]
      BY <1>1 DEF FileCount, FileSlots, g
    <3>4. \A j \in FileSlots(t) : (IF j \in open'[t] THEN got[t][j] ELSE g[j]) = f[j]
      <4> SUFFICES ASSUME NEW j \in FileSlots(t)
                   PROVE  (IF j \in open'[t] THEN got[t][j] ELSE g[j]) = f[j]
        OBVIOUS
      <4>1. CASE j = k
        BY <2>5, <2>6, <3>1, <4>1
      <4>2. CASE j # k
        <5>1. f[j] = IF j \in open[t] THEN got[t][j] ELSE FileSizes(t)[j]
          BY <2>6, <4>2 DEF FileCount
        <5> QED
          BY <2>4, <3>1, <4>2, <5>1
      <4> QED
        BY <4>1, <4>2
    <3>5. FileCount(t)' = f
      <4>1. f = [j \in FileSlots(t) |-> f[j]]
        BY DEF f
      <4> QED
        BY <3>3, <3>4, <4>1
    <3>6. received'[t] = Counted(t)'
      BY <1>1, <2>1, <2>2, <2>8, <3>5 DEF Counted
    <3> QED
      BY <1>1, <2>9, <3>1, <3>2, <3>6, Receiving
  <2> QED
    BY <1>3, <1>4, <2>9, <2>10 DEF ReceiveFileBytes
<1>5. CASE UNCHANGED <<received, inBytes>> /\ FailReceiving(t, open[t] \ {k}, parts[t])
  <2>1. received'[t] <= Due(t)'
    BY <1>1, <1>5, SameDue DEF Progress
  <2> QED
    BY <1>3, <1>5, <2>1
<1> QED
  BY <1>4, <1>5 DEF ReceiveFileBytes

\* A text counts when it is named, and is completed when it is written
\* (receive_text).
LEMMA NameTextProgress ==
  ASSUME Inv, NEW t \in Transfers, Progress(t), NEW k \in Slots,
         NEW len \in 0 .. MaxBody, NameText(t, k, len)
  PROVE  Progress(t)'
<1> DEFINE nf == Len(intro[t].files)
           nt == Len(intro[t].texts)
           x == [j \in TextSlots(t) |-> IF j = k THEN TextAt(t, k).size
                                                 ELSE TextCount(t)[j]]
<1>1. /\ phase[t] = "receiving" /\ k \in texts[t] /\ texts'[t] = texts[t] \ {k}
      /\ intro' = intro /\ got' = got /\ completed' = completed
      /\ FileSizes(t)' = FileSizes(t) /\ Due(t)' = Due(t)
  <2>1. intro' = intro /\ got' = got /\ inBytes' = inBytes
    BY DEF NameText
  <2> QED
    BY <2>1, SameDue DEF NameText, Inv, TypeOK
<1>2. CASE /\ len = TextAt(t, k).size /\ received' = Count(t, len)
           /\ phase' = [phase EXCEPT ![t] = "naming"] /\ open' = open
  <2>1. received'[t] = received[t] + TextAt(t, k).size /\ phase'[t] = "naming"
    BY <1>2 DEF Count, Inv, TypeOK
  <2>2. /\ received[t] + TextAt(t, k).size = SumTo(FileCount(t), nf) + SumTo(x, nt)
        /\ received[t] + TextAt(t, k).size <= Due(t)
    BY <1>1, CreditText
  <2>3. FileCount(t)' = FileCount(t)
    BY <1>1, <1>2 DEF FileCount, FileSlots
  <2>4. TextCount(t)' = x
    <3>1. TextCount(t)' = [j \in TextSlots(t) |-> IF j \in texts[t] \ {k} THEN 0
                                                     ELSE TextAt(t, j).size]
      BY <1>1 DEF TextCount, TextSlots, TextAt
    <3>2. \A j \in TextSlots(t) :
            (IF j \in texts[t] \ {k} THEN 0 ELSE TextAt(t, j).size) = x[j]
      BY DEF TextCount
    <3> QED
      BY <3>1, <3>2
  <2> HIDE DEF x
  <2>5. received'[t] = Counted(t)'
    BY <1>1, <2>1, <2>2, <2>3, <2>4 DEF Counted
  <2>6. Placed(t)' = Declared(t)
    <3>1. /\ Cardinality(open[t]) \in Nat /\ Cardinality(texts[t]) \in Nat
          /\ Cardinality(texts[t] \ {k}) = Cardinality(texts[t]) - 1
      BY <1>1, TableSizes DEF Inv
    <3>2. /\ Placed(t)' = Len(completed[t]) + Cardinality(open[t])
                            + Cardinality(texts[t] \ {k}) + 1
          /\ Placed(t) = Len(completed[t]) + Cardinality(open[t])
                            + Cardinality(texts[t]) + 0
      BY <1>1, <1>2, <2>1 DEF Placed
    <3>3. Len(completed[t]) \in Nat
      <4>1. completed[t] \in Seq(Finals)
        BY DEF Inv, TypeOK
      <4> QED
        BY <4>1
    <3>4. Placed(t) = Declared(t)
      BY <1>1 DEF Progress
    <3> QED
      BY <3>1, <3>2, <3>3, <3>4
  <2> QED
    BY <1>1, <2>1, <2>2, <2>5, <2>6, Receiving
<1>3. CASE FailReceiving(t, open[t], parts[t]) /\ received' = received
  <2>1. phase'[t] = "failed" /\ received'[t] <= Due(t)'
    BY <1>1, <1>3 DEF FailReceiving, Progress, Inv, TypeOK
  <2> QED
    BY <1>1, <2>1, Ended
<1> QED
  BY <1>2, <1>3 DEF NameText

\* The write of a text completes it (fs::write in receive_text).
LEMMA WriteTextProgress ==
  ASSUME Inv, NEW t \in Transfers, Progress(t), WriteText(t)
  PROVE  Progress(t)'
<1>1. /\ phase[t] = "naming" /\ intro' = intro /\ texts' = texts /\ got' = got
      /\ received' = received /\ received'[t] <= Due(t)'
      /\ received[t] = Counted(t) /\ Placed(t) = Declared(t)
      /\ FileSizes(t)' = FileSizes(t)
  <2>1. intro' = intro /\ got' = got /\ inBytes' = inBytes
    BY DEF WriteText
  <2> QED
    BY <2>1, SameDue DEF WriteText, Progress
<1>2. CASE /\ completed' = [completed EXCEPT ![t] = Append(completed[t], naming[t][2])]
           /\ phase' = [phase EXCEPT ![t] = "receiving"] /\ open' = open
  <2>1. /\ completed'[t] = Append(completed[t], naming[t][2])
        /\ phase'[t] = "receiving" /\ completed[t] \in Seq(Finals)
    BY <1>2 DEF Inv, TypeOK
  <2>2. Len(completed'[t]) = Len(completed[t]) + 1 /\ Len(completed[t]) \in Nat
    BY <2>1
  <2>3. Counted(t)' = Counted(t)
    BY <1>1, <1>2 DEF Counted, FileCount, TextCount, FileSlots, TextSlots, TextAt
  <2>4. /\ Placed(t)' = Len(completed'[t]) + Cardinality(open[t])
                          + Cardinality(texts[t]) + 0
        /\ Placed(t) = Len(completed[t]) + Cardinality(open[t])
                          + Cardinality(texts[t]) + 1
    BY <1>1, <1>2, <2>1 DEF Placed
  <2>5. Cardinality(open[t]) \in Nat /\ Cardinality(texts[t]) \in Nat
    BY TableSizes DEF Inv
  <2>6. Placed(t)' = Declared(t)
    BY <1>1, <2>2, <2>4, <2>5
  <2> QED
    BY <1>1, <2>1, <2>3, <2>6, Receiving
<1>3. CASE FailReceiving(t, open[t], parts[t])
  <2>1. phase'[t] = "failed"
    BY <1>3 DEF FailReceiving, Inv, TypeOK
  <2> QED
    BY <1>1, <2>1, Ended
<1> QED
  BY <1>2, <1>3 DEF WriteText

\* With both tables empty every entry is counted in full (receive_all).
LEMMA FinishProgress ==
  ASSUME Inv, NEW t \in Transfers, Progress(t), Finish(t)
  PROVE  Progress(t)'
<1> DEFINE nf == Len(intro[t].files)
           nt == Len(intro[t].texts)
<1>1. /\ phase[t] = "receiving" /\ open[t] = {} /\ texts[t] = {}
      /\ intro' = intro /\ received' = received /\ completed' = completed
      /\ phase'[t] \in {"done", "failed"} /\ received[t] <= Due(t)
      /\ Due(t)' = Due(t)
  <2>1. intro' = intro /\ got' = got /\ inBytes' = inBytes
    BY DEF Finish, worker
  <2> QED
    BY <2>1, SameDue DEF Finish, worker, Progress, Inv, TypeOK
<1>2. received[t] = Counted(t) /\ Placed(t) = Declared(t)
  BY <1>1 DEF Progress
<1>3. FileCount(t) = FileSizes(t) /\ TextCount(t) = TextSizes(t)
  BY <1>1 DEF FileCount, FileSizes, TextCount, TextSizes
<1>4. Counted(t) = Due(t)
  BY <1>3 DEF Counted, Due
<1>5. Len(completed[t]) = Declared(t)
  <2>1. Placed(t) = Len(completed[t]) + Cardinality({}) + Cardinality({}) + 0
    BY <1>1 DEF Placed
  <2>2. Cardinality({}) = 0
    BY FS_EmptySet
  <2>3. Len(completed[t]) \in Nat
    <3>1. completed[t] \in Seq(Finals)
      BY DEF Inv, TypeOK
    <3> QED
      BY <3>1
  <2> QED
    BY <1>2, <2>1, <2>2, <2>3
<1>6. Declared(t)' = Declared(t)
  BY <1>1 DEF Declared
<1> QED
  BY <1>1, <1>2, <1>4, <1>5, <1>6 DEF Progress

\* A step of one worker leaves the progress of another alone.
LEMMA OthersProgress ==
  ASSUME Inv, NEW t \in Transfers, NEW u \in Transfers \ {t}, Progress(u),
         \/ Reject(t) \/ Accept(t) \/ RefuseFile(t) \/ PrepareFile(t)
         \/ FinishPrepare(t) \/ ReceiveAll(t)
  PROVE  Progress(u)'
<1> DEFINE Same == /\ phase'[u] = phase[u] /\ open'[u] = open[u]
                   /\ texts'[u] = texts[u] /\ got'[u] = got[u]
                   /\ received'[u] = received[u] /\ completed'[u] = completed[u]
                   /\ prepared'[u] = prepared[u] /\ intro' = intro
                   /\ inBytes'[u] = inBytes[u]
<1>1. Same
  <2>1. CASE Reject(t) \/ Accept(t) \/ RefuseFile(t) \/ Finish(t)
    BY <2>1 DEF Reject, Accept, RefuseFile, Finish, worker, Inv, TypeOK
  <2>2. CASE PrepareFile(t) \/ FinishPrepare(t)
    BY <2>2 DEF PrepareFile, FinishPrepare, disk, Inv, TypeOK
  <2>3. CASE PeerFails(t) \/ WriteText(t)
    BY <2>3 DEF PeerFails, WriteText, FailReceiving, Inv, TypeOK
  <2>4. ASSUME NEW id, NEW len, NEW inOrder, RefuseChunk(t, id, len, inOrder)
        PROVE  Same
    BY <2>4 DEF RefuseChunk, FailReceiving, Inv, TypeOK
  <2>5. ASSUME NEW k, NEW len, NEW last, ReceiveFileChunk(t, k, len, last)
        PROVE  Same
    BY <2>5 DEF ReceiveFileChunk, FailReceiving, Commit, Count, Inv, TypeOK
  <2>6. ASSUME NEW k, NEW len, WriteChunkFails(t, k, len) \/ NameText(t, k, len)
        PROVE  Same
    BY <2>6 DEF WriteChunkFails, NameText, FailReceiving, Count, Inv, TypeOK
  <2>7. ASSUME NEW k, NEW len, ReceiveFileBytes(t, k, len)
        PROVE  Same
    BY <2>7 DEF ReceiveFileBytes, FailReceiving, Commit, Count, Inv, TypeOK
  <2> HIDE DEF Same
  <2> QED
    BY <2>1, <2>2, <2>3, <2>4, <2>5, <2>6, <2>7 DEF ReceiveAll
<1> QED
  BY <1>1, Quiet

\* Every byte is counted once: the progress shown stays within what the
\* transfer comes to, the total of the offer and the chunks that a BYTES payload
\* repeated, and a transfer is done only with every byte and every entry of it
\* (receive_file_chunk, receive_file_bytes, receive_text, receive_all).
THEOREM ProgressBounded == Spec => []ProgressWithinTotal
<1>1. Init => ProgressOK
  <2> SUFFICES ASSUME Init, NEW t \in Transfers PROVE Progress(t)
    BY DEF ProgressOK
  <2>1. TypeOK
    BY InitInv DEF Inv
  <2>2. Due(t) \in Nat
    BY <2>1, DueIs
  <2>3. open[t] = 1 .. prepared[t] /\ \A k \in Slots : got[t][k] = 0
    BY DEF Init
  <2>4. phase[t] = "offered" /\ received[t] = 0 /\ completed[t] = <<>>
    BY DEF Init
  <2> QED
    BY <2>2, <2>3, <2>4 DEF Progress
<1>2. Inv /\ ProgressOK /\ [Next]_vars => ProgressOK'
  <2> SUFFICES ASSUME Inv, ProgressOK, [Next]_vars, NEW u \in Transfers
               PROVE  Progress(u)'
    BY DEF ProgressOK
  <2>1. Progress(u) /\ received[u] <= Due(u)
    BY DEF ProgressOK, Progress
  <2>2. ASSUME NEW t \in Transfers, t # u,
               \/ Reject(t) \/ Accept(t) \/ RefuseFile(t) \/ PrepareFile(t)
               \/ FinishPrepare(t) \/ ReceiveAll(t)
        PROVE  Progress(u)'
    BY <2>1, <2>2, OthersProgress
  <2>3. ASSUME UNCHANGED <<intro, received, got, inBytes>>,
               phase'[u] \in {"rejected", "failed", "killed"}
        PROVE  Progress(u)'
    BY <2>1, <2>3, SameDue, Ended
  <2>4. CASE Reject(u) \/ Accept(u) \/ RefuseFile(u)
    <3>1. /\ UNCHANGED worker /\ phase[u] \in {"offered", "preparing"}
          /\ phase'[u] \in {"rejected", "preparing", "failed"}
      BY <2>4 DEF Reject, Accept, RefuseFile, Inv, TypeOK
    <3>2. CASE phase'[u] = "preparing"
      <4>1. Due(u)' = Due(u)
        BY <3>1, SameDue DEF worker
      <4> QED
        BY <2>1, <3>1, <3>2, <4>1 DEF Progress, worker
    <3> QED
      BY <2>3, <3>1, <3>2 DEF worker
  <2>5. CASE PeerFails(u)
    <3>1. phase'[u] = "failed"
      BY <2>5 DEF PeerFails, FailReceiving, Inv, TypeOK
    <3> QED
      BY <2>3, <2>5, <3>1 DEF PeerFails
  <2>6. ASSUME NEW id, NEW len, NEW inOrder, RefuseChunk(u, id, len, inOrder)
        PROVE  Progress(u)'
    <3>1. phase'[u] = "failed"
      BY <2>6 DEF RefuseChunk, FailReceiving, Inv, TypeOK
    <3> QED
      BY <2>3, <2>6, <3>1 DEF RefuseChunk
  <2>7. ASSUME NEW k, NEW len, WriteChunkFails(u, k, len) PROVE Progress(u)'
    <3>1. phase'[u] = "failed"
      BY <2>7 DEF WriteChunkFails, FailReceiving, Inv, TypeOK
    <3> QED
      BY <2>3, <2>7, <3>1 DEF WriteChunkFails
  <2>8. CASE ReceiveAll(u)
    BY <2>1, <2>5, <2>6, <2>7, <2>8, ReceiveFileChunkProgress,
       ReceiveFileBytesProgress, NameTextProgress, WriteTextProgress,
       FinishProgress DEF ReceiveAll
  <2>9. CASE Quit
    <3>1. UNCHANGED worker
          /\ phase'[u] = IF phase[u] \in Live THEN "killed" ELSE phase[u]
      BY <2>9 DEF Quit
    <3>2. CASE phase'[u] = phase[u]
      BY <2>1, <3>1, <3>2, Quiet DEF worker
    <3> QED
      BY <2>3, <3>1, <3>2 DEF worker
  <2>10. ASSUME NEW p, UserSaves(p) PROVE Progress(u)'
    BY <2>1, <2>10, Quiet DEF UserSaves, worker
  <2>11. CASE UNCHANGED vars
    BY <2>1, <2>11, Quiet DEF vars
  <2> QED
    BY <2>1, <2>2, <2>4, <2>8, <2>9, <2>10, <2>11, PrepareFileProgress,
       FinishPrepareProgress DEF Next
<1>3. Inv /\ ProgressOK => ProgressWithinTotal
  BY TotalIs DEF Inv, ProgressOK, Progress, ProgressWithinTotal, Declared
<1> QED
  BY <1>1, <1>2, <1>3, Invariance, PTL DEF Spec

--------------------------------------------------------------------------
(* What a failure leaves.                                                  *)

\* A subset of a singleton has at most one element.
LEMMA AtMostOne ==
  ASSUME NEW S, NEW k, S \subseteq {k}
  PROVE  Cardinality(S) <= 1
<1>1. S = {} \/ S = {k}
  OBVIOUS
<1>2. Cardinality({}) = 0 /\ Cardinality({k}) = 1
  BY FS_EmptySet, FS_Singleton
<1>3. CASE S = {}
  BY <1>2, <1>3
<1>4. CASE S = {k}
  BY <1>2, <1>4
<1> QED
  BY <1>1, <1>3, <1>4

\* cleanup_parts leaves a part that it could remove only if its entry had left
\* the table.
LEMMA Stranding ==
  ASSUME Inv, NEW t \in Transfers, phase[t] \in {"receiving", "naming"},
         NEW left, NEW k, open[t] \ {k} \subseteq left, left \subseteq open[t],
         NEW now, \A j \in Slots \ {k} : now[j] = parts[t][j],
         FailReceiving(t, left, now)
  PROVE  Cardinality(PartsOf(t)' \ stuck'[t]) <= 1
<1>1. PICK kept \in SUBSET left :
        /\ stuck'[t] = kept
        /\ parts'[t] = [j \in Slots |-> IF j \in left \ kept THEN Absent ELSE now[j]]
  BY DEF FailReceiving, Inv, TypeOK
<1>2. PartsOf(t) = open[t]
  BY DEF Inv, PartsOK, Tracked
<1>3. PartsOf(t)' \ stuck'[t] \subseteq {k}
  BY <1>1, <1>2 DEF PartsOf
<1> QED
  BY <1>3, AtMostOne

\* A failure while receiving strands at most the one part file that was being
\* committed, besides those that remove_file failed on: cleanup_parts tries all
\* the others.
THEOREM OnePartStranded == Spec => FailureStrandsOnePart
<1> DEFINE Strands(t) == phase[t] \in {"receiving", "naming"} /\ phase'[t] = "failed"
<1>1. ASSUME Inv, NEW u \in Transfers, NEW t \in Transfers, Strands(t),
             \/ Reject(u) \/ Accept(u) \/ RefuseFile(u) \/ PrepareFile(u)
             \/ FinishPrepare(u) \/ (\E p \in UserPaths : UserSaves(p)) \/ Quit
             \/ UNCHANGED vars
      PROVE  FALSE
  BY <1>1 DEF Reject, Accept, RefuseFile, PrepareFile, FinishPrepare, UserSaves,
     Quit, vars, Inv, TypeOK
<1>2. ASSUME Inv, NEW u \in Transfers, NEW t \in Transfers, Strands(t), ReceiveAll(u)
      PROVE  Cardinality(PartsOf(t)' \ stuck'[t]) <= 1
  <2>1. u = t
    BY <1>2 DEF ReceiveAll, PeerFails, RefuseChunk, WriteChunkFails, ReceiveFileChunk,
       ReceiveFileBytes, NameText, WriteText, Finish, FailReceiving, Commit, Inv, TypeOK
  <2>2. CASE Finish(t)
    <3>1. PartsOf(t) = {} /\ parts' = parts
      BY <1>2, <2>2 DEF Inv, PartsOK, Tracked, Finish, disk
    <3>2. PartsOf(t)' \ stuck'[t] \subseteq {t}
      BY <3>1 DEF PartsOf
    <3> QED
      BY <3>2, AtMostOne
  <2>3. ASSUME FailReceiving(t, open[t], parts[t])
        PROVE  Cardinality(PartsOf(t)' \ stuck'[t]) <= 1
    BY <1>2, <2>3, Stranding
  <2>4. ASSUME NEW k \in Slots,
               \E n : \E left \in {open[t], open[t] \ {k}} :
                  \/ FailReceiving(t, left, parts[t])
                  \/ FailReceiving(t, left, [parts[t] EXCEPT ![k] = @ + n])
        PROVE  Cardinality(PartsOf(t)' \ stuck'[t]) <= 1
    <3>1. parts[t] \in [Slots -> Nat \cup {Absent}]
      BY <1>2 DEF Inv, TypeOK
    <3>2. PICK n : \E left \in {open[t], open[t] \ {k}} :
            \/ FailReceiving(t, left, parts[t])
            \/ FailReceiving(t, left, [parts[t] EXCEPT ![k] = @ + n])
      BY <2>4
    <3> PICK left \in {open[t], open[t] \ {k}} :
            \/ FailReceiving(t, left, parts[t])
            \/ FailReceiving(t, left, [parts[t] EXCEPT ![k] = @ + n])
      BY <3>2
    <3>3. open[t] \ {k} \subseteq left /\ left \subseteq open[t]
      OBVIOUS
    <3>4. ASSUME NEW now, \A j \in Slots \ {k} : now[j] = parts[t][j],
                 FailReceiving(t, left, now)
          PROVE  Cardinality(PartsOf(t)' \ stuck'[t]) <= 1
      BY <1>2, <3>3, <3>4, Stranding
    <3>5. \A j \in Slots \ {k} : [parts[t] EXCEPT ![k] = @ + n][j] = parts[t][j]
      BY <3>1
    <3> QED
      BY <3>4, <3>5
  <2>5. phase'[t] # phase[t] /\ phase[t] \in {"receiving", "naming"}
        /\ phase'[t] = "failed"
    BY <1>2
  <2>6. CASE PeerFails(t) \/ WriteText(t)
    BY <1>2, <2>3, <2>5, <2>6 DEF PeerFails, WriteText, Inv, TypeOK
  <2>7. ASSUME NEW id, NEW len, NEW inOrder, RefuseChunk(t, id, len, inOrder)
        PROVE  Cardinality(PartsOf(t)' \ stuck'[t]) <= 1
    BY <2>3, <2>7 DEF RefuseChunk
  <2>8. ASSUME NEW k \in Slots, NEW len, NameText(t, k, len)
        PROVE  Cardinality(PartsOf(t)' \ stuck'[t]) <= 1
    BY <1>2, <2>3, <2>5, <2>8 DEF NameText, Inv, TypeOK
  <2>9. ASSUME NEW k \in Slots, NEW len, NEW last, ReceiveFileChunk(t, k, len, last)
        PROVE  Cardinality(PartsOf(t)' \ stuck'[t]) <= 1
    BY <2>4, <2>5, <2>9 DEF ReceiveFileChunk, Commit
  <2>10. ASSUME NEW k \in Slots, NEW len, ReceiveFileBytes(t, k, len)
         PROVE  Cardinality(PartsOf(t)' \ stuck'[t]) <= 1
    BY <2>4, <2>5, <2>10 DEF ReceiveFileBytes, Commit
  <2>11. ASSUME NEW k \in Slots, NEW len, WriteChunkFails(t, k, len)
         PROVE  Cardinality(PartsOf(t)' \ stuck'[t]) <= 1
    BY <2>4, <2>11 DEF WriteChunkFails
  <2> QED
    BY <1>2, <2>1, <2>2, <2>6, <2>7, <2>8, <2>9, <2>10, <2>11 DEF ReceiveAll
<1>3. Inv /\ [Next]_vars =>
        [\A t \in Transfers : Strands(t) => Cardinality(PartsOf(t)' \ stuck'[t]) <= 1]_vars
  BY <1>1, <1>2 DEF Next
<1> QED
  BY <1>3, Invariance, PTL DEF Spec, FailureStrandsOnePart

============================================================================
