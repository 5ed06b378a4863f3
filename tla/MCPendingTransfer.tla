------------------------- MODULE MCPendingTransfer -------------------------
(***************************************************************************)
(* Small instances of PendingTransfer: two workers that share a directory   *)
(* in which files of the user's may appear at two of the final paths.       *)
(***************************************************************************)
EXTENDS PendingTransfer, TLC

File(id, name, size) == [id |-> id, name |-> name, size |-> size, sane |-> TRUE]
Text(id, size) == [id |-> id, size |-> size]

\* Two files of different names, one of them empty; the other may collide with
\* the user's file.
TwoFiles == [files |-> <<File(1, "photo", 1), File(2, "note", 0)>>,
             texts |-> <<>>]
\* A file and a text.
FileAndText == [files |-> <<File(1, "photo", 2)>>, texts |-> <<Text(2, 1)>>]
\* Two texts, whose names depend on the clock only.
TwoTexts == [files |-> <<>>, texts |-> <<Text(1, 1), Text(2, 0)>>]
\* Two files that share a name.
Twins == [files |-> <<File(1, "note", 1), File(2, "note", 1)>>, texts |-> <<>>]
\* Metadata prepare refuses: a repeated id, an unsafe entry after a sound
\* one, a text with a file's id, and nothing at all.
Repeated == [files |-> <<File(1, "photo", 1), File(1, "note", 1)>>,
             texts |-> <<>>]
Unsafe == [files |-> <<File(1, "photo", 1), [File(2, "note", 1) EXCEPT !.sane = FALSE]>>,
           texts |-> <<>>]
Clash == [files |-> <<File(1, "photo", 1)>>, texts |-> <<Text(1, 1)>>]
Nothing == [files |-> <<>>, texts |-> <<>>]
\* One byte more than MCMaxTotal.
TooLarge == [files |-> <<File(1, "photo", 4)>>, texts |-> <<>>]

\* The workers run the same code, and no constant tells them apart.
Symmetry == Permutations(Transfers)

MCUserPaths == {<<"photo", 0>>, <<"text", 0>>}
MixedIntroductions == {TwoFiles, FileAndText, TwoTexts, Repeated, Unsafe,
                       Clash, Nothing, TooLarge}
AllIntroductions == MixedIntroductions \cup {Twins}
============================================================================
