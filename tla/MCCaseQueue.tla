---- MODULE MCCaseQueue ----
(***************************************************************************)
(* TLC instance of CaseQueue.                                              *)
(***************************************************************************)
EXTENDS CaseQueue, TLC

MCChannels == <<"webhook", "email">>

MCNone == <<>>

OneDay == {1}

TwoDays == {1, 2}

Symmetric == Permutations(Run) \cup Permutations(Thread) \cup Permutations(SuppressionId)
                 \cup Permutations(Actor) \cup Permutations(Name)
====
