------------------------------ MODULE MCFanOut ------------------------------
(***************************************************************************)
(* A small instance of FanOut for TLC, whose namespaces are numbers.       *)
(***************************************************************************)
EXTENDS FanOut

\* Unset, one worker, and fewer workers than targets.
MCSettings == {0, 1, 2}

\* What a namespace is at the start, as a number.
Rank(s, n) ==
  CASE n \notin s.targets -> 0 [] s.dests[n] = "absent" -> 1
    [] s.dests[n] = "current" -> 2 [] s.dests[n] = "stale" -> 3
    [] s.dests[n] = "foreign" -> 4

\* Every start, up to a renaming of the namespaces and up to what is found in
\* those that are not targets.  Three targets share one or two workers.
MCStarts ==
  {s \in [targets : SUBSET Namespaces, setting : Settings,
          dests : [Namespaces -> DestStates]] :
     /\ \A n \in Namespaces \ s.targets : s.dests[n] = "absent"
     /\ \A m, n \in Namespaces : m < n => Rank(s, m) <= Rank(s, n)
     /\ s.targets = Namespaces => s.setting # 0}
=============================================================================
