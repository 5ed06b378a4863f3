-------------------------- MODULE OrderedDelivery --------------------------
(***************************************************************************)
(* Two sides send each other items; each side gets the items of the other   *)
(* in the order in which they were sent, each at most once and none that    *)
(* was not sent.  Delivery may stop at any point.  SecureChannel promises    *)
(* this for the frames of the protocol, and SharingFrames for the sharing    *)
(* frames that travel in them.                                              *)
(***************************************************************************)
EXTENDS Naturals, Sequences

CONSTANT Items

VARIABLES sent,   \* what each side has sent, in order
          got     \* what each side has got, in order

Sides == {"client", "server"}
Other(s) == IF s = "client" THEN "server" ELSE "client"

Init ==
  /\ sent = [s \in Sides |-> <<>>]
  /\ got = [s \in Sides |-> <<>>]

Send(s) ==
  /\ \E x \in Items : sent' = [sent EXCEPT ![s] = Append(@, x)]
  /\ UNCHANGED got

Get(s) ==
  /\ Len(got[s]) < Len(sent[Other(s)])
  /\ got' = [got EXCEPT ![s] = Append(@, sent[Other(s)][Len(@) + 1])]
  /\ UNCHANGED sent

Next == \E s \in Sides : Send(s) \/ Get(s)

Spec == Init /\ [][Next]_<<sent, got>>

============================================================================
