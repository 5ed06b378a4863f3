---------------------------- MODULE FileDelivery ----------------------------
(***************************************************************************)
(* What a direct send promises to the two users, whatever happens in        *)
(* between: every attempt is a new offer that the receiving user answers;    *)
(* files are saved one by one, only under an answer that accepts, and no     *)
(* more once the receiver has come to an end; the sending user is told       *)
(* "complete" for an accepted offer only, and when nothing goes wrong only   *)
(* if everything is saved.  TransferSession implements this.                 *)
(***************************************************************************)
EXTENDS Naturals

CONSTANTS MaxTries,   \* how many offers a send may make
          Files       \* how many files an offer holds

VARIABLES
  calm,     \* nothing goes wrong in this behaviour
  tried,    \* the offers made so far
  report,   \* what the sending user was told: "open", "complete", "failed"
  answer,   \* what the receiving user said to each offer
  saved,    \* how many files of each offer are saved
  ended,    \* whether the receiver is done with each offer
  broken    \* whether the network broke the connection of each offer

promise == <<calm, tried, report, answer, saved, ended, broken>>

Tries == 1 .. MaxTries

Init ==
  /\ calm \in BOOLEAN
  /\ tried = 1 /\ report = "open"
  /\ answer = [a \in Tries |-> "none"]
  /\ saved = [a \in Tries |-> 0]
  /\ ended = [a \in Tries |-> FALSE]
  /\ broken = [a \in Tries |-> FALSE]

Answer(a) ==
  /\ a <= tried /\ ~ ended[a] /\ answer[a] = "none"
  /\ \E d \in {"accept", "reject"} : answer' = [answer EXCEPT ![a] = d]
  /\ UNCHANGED <<calm, tried, report, saved, ended, broken>>

Save(a) ==
  /\ answer[a] = "accept" /\ ~ ended[a] /\ saved[a] < Files
  /\ saved' = [saved EXCEPT ![a] = @ + 1]
  /\ UNCHANGED <<calm, tried, report, answer, ended, broken>>

\* An offer that was accepted ends early only if something went wrong.
End(a) ==
  /\ a <= tried /\ ~ ended[a]
  /\ calm /\ answer[a] = "accept" => saved[a] = Files
  /\ ended' = [ended EXCEPT ![a] = TRUE]
  /\ UNCHANGED <<calm, tried, report, answer, saved, broken>>

Break(a) ==
  /\ ~ calm /\ ~ broken[a]
  /\ broken' = [broken EXCEPT ![a] = TRUE]
  /\ UNCHANGED <<calm, tried, report, answer, saved, ended>>

\* Success is reported once the receiver is done, or cannot be heard any more.
Succeed ==
  /\ report = "open" /\ answer[tried] = "accept"
  /\ ended[tried] \/ broken[tried]
  /\ calm => saved[tried] = Files
  /\ report' = "complete"
  /\ UNCHANGED <<calm, tried, answer, saved, ended, broken>>

Fail ==
  /\ report = "open" /\ report' = "failed"
  /\ UNCHANGED <<calm, tried, answer, saved, ended, broken>>

Retry ==
  /\ report = "failed" /\ tried < MaxTries
  /\ tried' = tried + 1 /\ report' = "open"
  /\ UNCHANGED <<calm, answer, saved, ended, broken>>

Next ==
  \/ Succeed \/ Fail \/ Retry
  \/ \E a \in Tries : Answer(a) \/ Save(a) \/ End(a) \/ Break(a)

Spec == Init /\ [][Next]_promise

============================================================================
