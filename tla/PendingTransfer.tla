-------------------------- MODULE PendingTransfer --------------------------
(***************************************************************************)
(* What the receiver does to the download directory: PendingTransfer of     *)
(* src/quick_share_receiver.rs and the end of receive_connection that       *)
(* drives it.  Several workers (threads of receive_service) each run one    *)
(* transfer against one shared directory; each action is one handler call   *)
(* of one worker, so the workers interleave between handlers.  The user and  *)
(* other programs share the directory too: they may save a file of theirs   *)
(* between any two of these steps.                                          *)
(*                                                                         *)
(* Bytes are counted, not stored: a part file is its length, a saved file   *)
(* is who wrote it and how long it is.                                      *)
(***************************************************************************)
EXTENDS Integers, Sequences, FiniteSets

CONSTANTS
  Transfers,      \* the accepted or offered transfers, one worker each
  Introductions,  \* the introductions a peer may send
  Ids,            \* payload ids
  Names,          \* sanitised relative names (folder and leaf)
  TextName,       \* the name receive_text forms for texts of one second
  UserPaths,      \* bound: the final paths at which a file may be saved by
                  \* someone else, the user or another program
  MaxSlots,       \* bound: entries in file_metadata, and in text_metadata
  MaxCopy,        \* bound: highest " (n)" suffix, u32::MAX in the code
  MaxBody,        \* bound: longest payload body
  MaxTotal,       \* MAX_TOTAL_TRANSFER_BYTES
  IOFaults        \* whether file and socket operations may fail
Slots == 1 .. MaxSlots

FileMetadata == [id : Ids, name : Names, size : Nat, sane : BOOLEAN]
TextMetadata == [id : Ids, size : Nat]

ASSUME BoundsAssumption ==
  /\ MaxSlots \in Nat /\ MaxCopy \in Nat /\ MaxBody \in Nat /\ MaxTotal \in Nat
  /\ IOFaults \in BOOLEAN

ASSUME IntroductionsAssumption ==
  \A i \in Introductions :
    /\ Len(i.files) \in 0 .. MaxSlots /\ Len(i.texts) \in 0 .. MaxSlots
    /\ \A k \in 1 .. Len(i.files) : i.files[k] \in FileMetadata
    /\ \A k \in 1 .. Len(i.texts) : i.texts[k] \in TextMetadata

ASSUME NamesAssumption == TextName \in Names

\* A final path is a name and the number unique_destination appended to it.
Finals == Names \X (0 .. MaxCopy)

ASSUME UserPathsAssumption == UserPaths \subseteq Finals

Absent == -1                              \* length of a part that is not there
NoText == <<>>                            \* receive_text is not under way

Content(kind, t, k, n) == [kind |-> kind, by |-> t, slot |-> k, size |-> n]
Nobody == Content("none", "nobody", 0, 0)
Users  == Content("user", "nobody", 0, 0)

Phases == {"offered", "rejected", "preparing", "receiving", "naming",
           "done", "failed", "killed"}
Live == {"offered", "preparing", "receiving", "naming"}

VARIABLES
  phase,      \* [Transfers -> Phases], where the worker is
  intro,      \* the introduction it read
  prepared,   \* entries of file_metadata that prepare has gone through
  open,       \* slots in PendingTransfer.files
  texts,      \* slots in PendingTransfer.texts
  got,        \* PendingFile.received
  dest,       \* PendingFile.final_path
  received,   \* PendingTransfer.received_bytes
  completed,  \* PendingTransfer.completed
  naming,     \* receive_text between unique_destination and fs::write
  parts,      \* the part files on disk: their length, or Absent
  saved,      \* the final paths on disk: their content, or Nobody
  \* Two histories, for the properties only: no guard reads them.
  inBytes,    \* the slots whose file a BYTES payload ended
  stuck       \* the slots whose part cleanup_parts could not remove

history == <<inBytes, stuck>>
vars == <<phase, intro, prepared, open, texts, got, dest, received,
          completed, naming, parts, saved, history>>
worker == <<intro, prepared, open, texts, got, dest, received, completed,
            naming, history>>
disk == <<parts, saved>>

FileAt(t, k) == intro[t].files[k]
TextAt(t, k) == intro[t].texts[k]
FileSlots(t) == 1 .. Len(intro[t].files)
TextSlots(t) == 1 .. Len(intro[t].texts)

\* files.get(&id), as a set of at most one slot
FileWithId(t, id) == {k \in open[t] : FileAt(t, k).id = id}
TextWithId(t, id) == {k \in texts[t] : TextAt(t, k).id = id}

\* The sum of sizes over a sequence of metadata entries.
SizeSum(entries) ==
  LET sum[n \in 0 .. Len(entries)] ==
        IF n = 0 THEN 0 ELSE sum[n - 1] + entries[n].size
  IN  sum[Len(entries)]

TotalBytes(t) == SizeSum(intro[t].files) + SizeSum(intro[t].texts)

\* Mutant: the first candidate is taken without looking at the disk.
UniqueDestinationMutant(name, p) == p = <<name, 0>>

UniqueDestination(name, p) ==
  /\ p[1] = name
  /\ saved[p] = Nobody
  /\ \A c \in 0 .. p[2] - 1 : saved[<<name, c>>] # Nobody

\* received_bytes.saturating_add(len)
CountMutant(t, len) == [received EXCEPT ![t] = @ - len]
Count(t, len) == [received EXCEPT ![t] = @ + len]

\* receive_file_chunk's bound on the bytes of a file, and its test for a
\* whole file on LAST_CHUNK.
FitsMutant(t, k, len) == got[t][k] <= FileAt(t, k).size
Fits(t, k, len) == got[t][k] + len <= FileAt(t, k).size

WholeMutant(t, k, len) == got[t][k] + len > 0
Whole(t, k, len) == got[t][k] + len = FileAt(t, k).size

Init ==
  /\ phase = [t \in Transfers |-> "offered"]
  /\ intro \in [Transfers -> Introductions]
  /\ prepared = [t \in Transfers |-> 0]
  /\ open = [t \in Transfers |-> {}]
  /\ texts = [t \in Transfers |-> {}]
  /\ got = [t \in Transfers |-> [k \in Slots |-> 0]]
  /\ dest = [t \in Transfers |-> [k \in Slots |-> <<TextName, 0>>]]
  /\ received = [t \in Transfers |-> 0]
  /\ completed = [t \in Transfers |-> <<>>]
  /\ naming = [t \in Transfers |-> NoText]
  /\ parts = [t \in Transfers |-> [k \in Slots |-> Absent]]
  /\ saved = [p \in Finals |-> Nobody]
  /\ inBytes = [t \in Transfers |-> {}]
  /\ stuck = [t \in Transfers |-> {}]

--------------------------------------------------------------------------
(* The directory is not the program's alone.                               *)

\* The user, or another program, saves a file at a path that is free.
UserSaves(p) ==
  /\ saved[p] = Nobody
  /\ saved' = [saved EXCEPT ![p] = Users]
  /\ UNCHANGED <<phase, worker, parts>>

--------------------------------------------------------------------------
(* Consent and prepare.                                                    *)

Reject(t) ==
  /\ phase[t] = "offered"
  /\ phase' = [phase EXCEPT ![t] = "rejected"]
  /\ UNCHANGED <<worker, disk>>

\* create_dir_all, then prepare refuses an empty introduction.
Accept(t) ==
  /\ phase[t] = "offered"
  /\ \/ /\ FileSlots(t) \cup TextSlots(t) # {}
        /\ phase' = [phase EXCEPT ![t] = "preparing"]
     \/ /\ FileSlots(t) \cup TextSlots(t) = {} \/ IOFaults
        /\ phase' = [phase EXCEPT ![t] = "failed"]
  /\ UNCHANGED <<worker, disk>>

\* An entry without id, with an unsafe name or an unsafe folder, or a part
\* that cannot be created: prepare returns before this entry has a part file.
RefuseFile(t) ==
  /\ phase[t] = "preparing"
  /\ prepared[t] < Len(intro[t].files)
  /\ IOFaults \/ ~ FileAt(t, prepared[t] + 1).sane
  /\ phase' = [phase EXCEPT ![t] = "failed"]
  /\ UNCHANGED <<worker, disk>>

PrepareFile(t) ==
  LET k == prepared[t] + 1 IN
  /\ phase[t] = "preparing"
  /\ prepared[t] < Len(intro[t].files)
  /\ FileAt(t, k).sane
  /\ \E p \in Finals :
       /\ UniqueDestination(FileAt(t, k).name, p)
       /\ dest' = [dest EXCEPT ![t] = [dest[t] EXCEPT ![k] = p]]
  /\ parts' = [parts EXCEPT ![t] = [parts[t] EXCEPT ![k] = 0]]
  /\ prepared' = [prepared EXCEPT ![t] = k]
  /\ open' = [open EXCEPT ![t] = open[t] \cup {k}]
  /\ phase' = IF FileWithId(t, FileAt(t, k).id) = {}
                THEN phase ELSE [phase EXCEPT ![t] = "failed"]
  /\ UNCHANGED <<intro, texts, got, received, completed, naming, saved,
                 history>>

\* The text entries in turn, the total, and the Accept response.
TextsClash(t) ==
  \/ \E j, k \in TextSlots(t) : j # k /\ TextAt(t, j).id = TextAt(t, k).id
  \/ \E k \in TextSlots(t) : FileWithId(t, TextAt(t, k).id) # {}

FinishPrepare(t) ==
  /\ phase[t] = "preparing"
  /\ prepared[t] = Len(intro[t].files)
  /\ \/ /\ ~ TextsClash(t) /\ TotalBytes(t) <= MaxTotal
        /\ phase' = [phase EXCEPT ![t] = "receiving"]
        /\ texts' = [texts EXCEPT ![t] = TextSlots(t)]
     \/ /\ TextsClash(t) \/ TotalBytes(t) > MaxTotal \/ IOFaults
        /\ phase' = [phase EXCEPT ![t] = "failed"]
        /\ UNCHANGED texts
  /\ UNCHANGED <<intro, prepared, open, got, dest, received, completed,
                 naming, disk, history>>

--------------------------------------------------------------------------
(* receive_all.                                                            *)

\* Mutant: the error is returned before cleanup_parts is called.
FailReceivingMutant(t, left, partsNow) ==
  /\ phase' = [phase EXCEPT ![t] = "failed"]
  /\ open' = [open EXCEPT ![t] = left]
  /\ parts' = [parts EXCEPT ![t] = partsNow]
  /\ UNCHANGED stuck

\* receive_all returned Err: cleanup_parts goes through the entries still in
\* files and ignores the error of each remove_file.
FailReceiving(t, left, partsNow) ==
  /\ phase' = [phase EXCEPT ![t] = "failed"]
  /\ open' = [open EXCEPT ![t] = left]
  /\ \E kept \in SUBSET left :
       /\ IOFaults \/ kept = {}
       /\ stuck' = [stuck EXCEPT ![t] = kept]
       /\ parts' = [parts EXCEPT ![t] =
            [k \in Slots |-> IF k \in left \ kept THEN Absent ELSE partsNow[k]]]

\* Mutant: the part is copied to its final path instead of renamed.
CommitMutant(t, k, size) ==
  /\ open' = [open EXCEPT ![t] = open[t] \ {k}]
  /\ parts' = [parts EXCEPT ![t] = [parts[t] EXCEPT ![k] = size]]
  /\ saved' = [saved EXCEPT ![dest[t][k]] = Content("file", t, k, size)]
  /\ completed' = [completed EXCEPT ![t] = Append(completed[t], dest[t][k])]
  /\ UNCHANGED <<phase, stuck>>

\* sync_all, rename and completed.push of a file that has left the table
Commit(t, k, size) ==
  /\ open' = [open EXCEPT ![t] = open[t] \ {k}]
  /\ parts' = [parts EXCEPT ![t] = [parts[t] EXCEPT ![k] = Absent]]
  /\ saved' = [saved EXCEPT ![dest[t][k]] = Content("file", t, k, size)]
  /\ completed' = [completed EXCEPT ![t] = Append(completed[t], dest[t][k])]
  /\ UNCHANGED <<phase, stuck>>

\* The peer closed, disconnected, timed out or sent a frame that is an error.
PeerFails(t) ==
  /\ phase[t] = "receiving"
  /\ open[t] \cup texts[t] # {}
  /\ FailReceiving(t, open[t], parts[t])
  /\ UNCHANGED <<intro, prepared, texts, got, dest, received, completed,
                 naming, saved, inBytes>>

\* receive_file_chunk refuses the chunk before it touches the file.
RefuseChunk(t, id, len, inOrder) ==
  /\ phase[t] = "receiving"
  /\ open[t] \cup texts[t] # {}
  /\ \/ FileWithId(t, id) = {}
     \/ ~ inOrder
     \/ \E k \in FileWithId(t, id) : ~ Fits(t, k, len)
  /\ FailReceiving(t, open[t], parts[t])
  /\ UNCHANGED <<intro, prepared, texts, got, dest, received, completed,
                 naming, saved, inBytes>>

\* Mutant: the failed write is ignored and the worker goes on.
WriteChunkFailsMutant(t, k, len) ==
  /\ IOFaults
  /\ phase[t] = "receiving" /\ k \in open[t]
  /\ Fits(t, k, len)
  /\ parts' = [parts EXCEPT ![t] = [parts[t] EXCEPT ![k] = @ + len]]
  /\ UNCHANGED <<phase, worker, saved>>

\* write_all fails with some of the body in the file.
WriteChunkFails(t, k, len) ==
  /\ IOFaults
  /\ phase[t] = "receiving" /\ k \in open[t]
  /\ Fits(t, k, len)
  /\ \E n \in 0 .. len :
       FailReceiving(t, open[t], [parts[t] EXCEPT ![k] = @ + n])
  /\ UNCHANGED <<intro, prepared, texts, got, dest, received, completed,
                 naming, saved, inBytes>>

\* A chunk in order: written, counted, and the file committed on LAST_CHUNK.
ReceiveFileChunk(t, k, len, last) ==
  LET written == [parts[t] EXCEPT ![k] = @ + len] IN
  /\ phase[t] = "receiving" /\ k \in open[t]
  /\ Fits(t, k, len)
  /\ got' = [got EXCEPT ![t] = [got[t] EXCEPT ![k] = @ + len]]
  /\ received' = Count(t, len)
  /\ \/ /\ ~ last
        /\ parts' = [parts EXCEPT ![t] = written]
        /\ UNCHANGED <<phase, open, completed, saved, stuck>>
     \/ /\ last /\ Whole(t, k, len)
        /\ Commit(t, k, written[k])
     \/ /\ last /\ ~ Whole(t, k, len)
        /\ FailReceiving(t, open[t], written)
        /\ UNCHANGED <<completed, saved>>
     \/ /\ last /\ Whole(t, k, len) /\ IOFaults
        /\ FailReceiving(t, open[t] \ {k}, written)
        /\ UNCHANGED <<completed, saved>>
  /\ UNCHANGED <<intro, prepared, texts, dest, naming, inBytes>>

\* A whole BYTES payload for a file: the entry leaves the table first, and
\* only the payload is compared with the declared size, also when FILE chunks
\* of the same id are in the part already.
ReceiveFileBytes(t, k, len) ==
  /\ phase[t] = "receiving" /\ k \in open[t]
  /\ \/ /\ len = FileAt(t, k).size
        /\ received' = Count(t, len)
        /\ inBytes' = [inBytes EXCEPT ![t] = inBytes[t] \cup {k}]
        /\ \/ Commit(t, k, parts[t][k] + len)
           \/ /\ IOFaults
              /\ \E n \in 0 .. len :
                   FailReceiving(t, open[t] \ {k}, [parts[t] EXCEPT ![k] = @ + n])
              /\ UNCHANGED <<completed, saved>>
     \/ /\ len # FileAt(t, k).size
        /\ FailReceiving(t, open[t] \ {k}, parts[t])
        /\ UNCHANGED <<received, completed, saved, inBytes>>
  /\ UNCHANGED <<intro, prepared, texts, got, dest, naming>>

\* receive_text up to unique_destination; another worker may act before the
\* write that follows.
NameText(t, k, len) ==
  /\ phase[t] = "receiving" /\ k \in texts[t]
  /\ texts' = [texts EXCEPT ![t] = texts[t] \ {k}]
  /\ \/ /\ len = TextAt(t, k).size
        /\ received' = Count(t, len)
        /\ phase' = [phase EXCEPT ![t] = "naming"]
        /\ \E p \in Finals : /\ UniqueDestination(TextName, p)
                             /\ naming' = [naming EXCEPT ![t] = <<k, p>>]
        /\ UNCHANGED <<open, parts, stuck>>
     \/ /\ len # TextAt(t, k).size
        /\ FailReceiving(t, open[t], parts[t])
        /\ UNCHANGED <<received, naming>>
  /\ UNCHANGED <<intro, prepared, got, dest, completed, saved, inBytes>>

\* fs::write of the text straight to its final path; it may fail before the
\* file is opened, or with the beginning of the text in it.
WriteText(t) ==
  LET k == naming[t][1]
      p == naming[t][2]
  IN
  /\ phase[t] = "naming"
  /\ naming' = [naming EXCEPT ![t] = NoText]
  /\ \/ /\ saved' = [saved EXCEPT ![p] = Content("text", t, k, TextAt(t, k).size)]
        /\ completed' = [completed EXCEPT ![t] = Append(completed[t], p)]
        /\ phase' = [phase EXCEPT ![t] = "receiving"]
        /\ UNCHANGED <<open, parts, stuck>>
     \/ /\ IOFaults
        /\ \/ UNCHANGED saved
           \/ \E n \in 0 .. TextAt(t, k).size - 1 :
                saved' = [saved EXCEPT ![p] = Content("text", t, k, n)]
        /\ FailReceiving(t, open[t], parts[t])
        /\ UNCHANGED completed
  /\ UNCHANGED <<intro, prepared, texts, got, dest, received, inBytes>>

\* Both tables are empty: Disconnection is sent and the summary returned.
Finish(t) ==
  /\ phase[t] = "receiving"
  /\ open[t] \cup texts[t] = {}
  /\ \/ phase' = [phase EXCEPT ![t] = "done"]
     \/ IOFaults /\ phase' = [phase EXCEPT ![t] = "failed"]
  /\ UNCHANGED <<worker, disk>>

\* The process exits (quit, crash, logout) with workers still running.
Quit ==
  /\ \E t \in Transfers : phase[t] \in Live
  /\ phase' = [t \in Transfers |->
                 IF phase[t] \in Live THEN "killed" ELSE phase[t]]
  /\ UNCHANGED <<worker, disk>>

ReceiveAll(t) ==
  \/ PeerFails(t)
  \/ \E id \in Ids, len \in 0 .. MaxBody, inOrder \in BOOLEAN :
       RefuseChunk(t, id, len, inOrder)
  \/ \E k \in Slots, len \in 0 .. MaxBody, last \in BOOLEAN :
       ReceiveFileChunk(t, k, len, last)
  \/ \E k \in Slots, len \in 0 .. MaxBody : \/ WriteChunkFails(t, k, len)
                                            \/ ReceiveFileBytes(t, k, len)
                                            \/ NameText(t, k, len)
  \/ WriteText(t)
  \/ Finish(t)

Next ==
  \/ \E t \in Transfers : \/ Reject(t) \/ Accept(t)
                          \/ RefuseFile(t) \/ PrepareFile(t)
                          \/ FinishPrepare(t)
                          \/ ReceiveAll(t)
  \/ \E p \in UserPaths : UserSaves(p)
  \/ Quit

Spec == Init /\ [][Next]_vars

--------------------------------------------------------------------------
(* Properties.                                                             *)

Contents == [kind : {"none", "user", "file", "text"},
             by : Transfers \cup {"nobody"}, slot : 0 .. MaxSlots, size : Nat]

\* Every variable has the shape its declaration says.
TypeOK ==
  /\ phase \in [Transfers -> Phases]
  /\ intro \in [Transfers -> Introductions]
  /\ prepared \in [Transfers -> 0 .. MaxSlots]
  /\ open \in [Transfers -> SUBSET Slots]
  /\ texts \in [Transfers -> SUBSET Slots]
  /\ got \in [Transfers -> [Slots -> Nat]]
  /\ dest \in [Transfers -> [Slots -> Finals]]
  /\ received \in [Transfers -> Nat]
  /\ completed \in [Transfers -> Seq(Finals)]
  /\ naming \in [Transfers -> {NoText} \cup (Slots \X Finals)]
  /\ parts \in [Transfers -> [Slots -> Nat \cup {Absent}]]
  /\ saved \in [Finals -> Contents]
  /\ inBytes \in [Transfers -> SUBSET Slots]
  /\ stuck \in [Transfers -> SUBSET Slots]

PartsOf(t) == {k \in Slots : parts[t][k] # Absent}

\* While a worker prepares or receives, the part files it has on disk are
\* exactly those of the entries in its table, and each is as long as the
\* bytes counted for it: no chunk is written twice, lost, or credited to
\* another file (receive_file_chunk, prepare).
PartsTrackReceived ==
  \A t \in Transfers : phase[t] \in {"preparing", "receiving", "naming"} =>
    /\ PartsOf(t) = open[t]
    /\ \A k \in open[t] : /\ parts[t][k] = got[t][k]
                          /\ got[t][k] <= FileAt(t, k).size

\* The chunks of a file that a BYTES payload of the same id was added to.
Doubled(t, k) == IF k \in inBytes[t] THEN got[t][k] ELSE 0

\* A file appears under its final name only when every declared byte is in its
\* part, whatever the peer sends and whichever call fails: it is never short,
\* and it is longer than declared only by the chunks that came before a BYTES
\* payload of the same id (receive_file_chunk, receive_file_bytes).
SavedWhole ==
  \A p \in Finals : saved[p].kind = "file" =>
    LET t == saved[p].by
        k == saved[p].slot
    IN  saved[p].size = FileAt(t, k).size + Doubled(t, k)

\* Somebody is going to fill p: it is the destination of an entry in the table
\* of a live transfer, or the path a text is about to be written to.
Awaited(p) ==
  \E t \in Transfers :
    \/ phase[t] \in Live /\ \E k \in open[t] : dest[t][k] = p
    \/ phase[t] = "naming" /\ naming[t][2] = p

Secure(p) == saved[p] = Users /\ ~ Awaited(p)

\* A file of the user's that is in the directory when no live transfer has its
\* path for a destination is never replaced, and no transfer chooses its path
\* later.  Only a file that appeared after unique_destination had looked at
\* its path, and before the rename or the write, can be lost.
UserFilesKept == [][\A p \in Finals : Secure(p) => Secure(p)']_vars

\* The bytes a transfer comes to: those of the offer, and once more the chunks
\* of each file that a BYTES payload ended.
FilesDue(t) ==
  [k \in FileSlots(t) |-> [size |-> FileAt(t, k).size + Doubled(t, k)]]
BytesDue(t) == SizeSum(FilesDue(t)) + SizeSum(intro[t].texts)

\* Every byte is counted once: the progress runs past the total of the offer
\* by no more than the chunks that a BYTES payload repeated, and a transfer is
\* complete only with every entry and every byte of it.
ProgressWithinTotal ==
  \A t \in Transfers :
    /\ received[t] <= BytesDue(t)
    /\ phase[t] = "done" =>
         /\ received[t] = BytesDue(t)
         /\ Len(completed[t]) = Len(intro[t].files) + Len(intro[t].texts)

\* A completed transfer leaves no part file behind.
DoneLeavesNoPart == \A t \in Transfers : phase[t] = "done" => PartsOf(t) = {}

\* A transfer that fails while receiving leaves at most one part file besides
\* those that could not be removed: the one it was committing, whose entry had
\* left the table.  cleanup_parts tries each of the others.
FailureStrandsOnePart ==
  [][\A t \in Transfers :
       phase[t] \in {"receiving", "naming"} /\ phase'[t] = "failed" =>
         Cardinality(PartsOf(t)' \ stuck'[t]) <= 1]_vars

\* README.md:147: an unfinished transfer's part files are removed when it
\* fails.  The code removes those still in the table of a transfer that got
\* past prepare, and no others.
FailureLeavesNoPart ==
  \A t \in Transfers : phase[t] = "failed" => PartsOf(t) = {}

\* A file reported as saved is the one at the path it was saved to.
DoneFilesInPlace ==
  \A t \in Transfers : phase[t] = "done" =>
    \A k \in FileSlots(t) :
      LET c == saved[dest[t][k]]
      IN  c.kind = "file" /\ c.by = t /\ c.slot = k

--------------------------------------------------------------------------
(* What makes the properties above inductive.                              *)

\* The tables speak of entries of the introduction that prepare has passed,
\* and an entry that a BYTES payload ended is in none.
TablesOK ==
  \A t \in Transfers :
    /\ prepared[t] <= Len(intro[t].files)
    /\ open[t] \subseteq 1 .. prepared[t]
    /\ texts[t] \subseteq TextSlots(t)
    /\ phase[t] = "naming" => naming[t] \in TextSlots(t) \X Finals
    /\ inBytes[t] \cap open[t] = {}
    /\ phase[t] \in {"offered", "preparing"} => inBytes[t] = {}

\* PartsTrackReceived, from the moment of the offer on; nothing is counted for
\* a file that prepare has not reached.
Tracked(t) ==
  /\ \A k \in Slots : k > prepared[t] => got[t][k] = 0
  /\ phase[t] \in Live =>
       /\ PartsOf(t) = open[t]
       /\ \A k \in open[t] : /\ parts[t][k] = got[t][k]
                             /\ got[t][k] <= FileAt(t, k).size

PartsOK == \A t \in Transfers : Tracked(t)

\* The inductive invariant: between them the conjuncts keep every part file
\* and every byte counted accounted for while several workers share the
\* directory.
Inv ==
  /\ TypeOK
  /\ TablesOK
  /\ PartsOK
  /\ DoneLeavesNoPart

============================================================================
