----------------------------- MODULE JobHandoff -----------------------------
(***************************************************************************)
(* What the proof job manifest promises to a single claimer: every job is  *)
(* taken at most once, in the order in which the jobs were appended.       *)
(***************************************************************************)
EXTENDS Sequences, Naturals

CONSTANT Job

VARIABLES
  sent,  \* the jobs handed in, in order
  taken  \* the jobs taken, in order

Init == sent = <<>> /\ taken = <<>>

Put(j) ==
  /\ \A i \in 1..Len(sent) : sent[i] # j
  /\ sent' = Append(sent, j)
  /\ UNCHANGED taken

Take ==
  /\ Len(taken) < Len(sent)
  /\ taken' = Append(taken, sent[Len(taken) + 1])
  /\ UNCHANGED sent

Next == Take \/ \E j \in Job : Put(j)

Spec == Init /\ [][Next]_<<sent, taken>>
=============================================================================
