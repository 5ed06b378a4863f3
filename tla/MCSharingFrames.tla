-------------------------- MODULE MCSharingFrames --------------------------
(***************************************************************************)
(* A small instance of SharingFrames, and of the SecureChannel in it: the    *)
(* sender is another vendor's program, one of its payloads is one byte too   *)
(* long, and the authentication key is the bytes of what it depends on.      *)
(***************************************************************************)
EXTENDS SharingFrames

MCBodies == {<<2, 3>>, <<4, 4, 4>>}

Byte(mark) == CASE mark = "sent" -> 127 [] mark = "other" -> -128 [] OTHER -> 0
MCAuthKey(x) ==
  LET t == x[2] IN
  [i \in 1 .. 6 |->
     Byte(CASE i = 1 -> x[1][1] [] i = 2 -> x[1][2] [] i = 3 -> t[1][1]
            [] i = 4 -> t[1][2] [] i = 5 -> t[2][1] [] i = 6 -> t[2][2])]
============================================================================
