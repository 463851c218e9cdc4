--------------------------- MODULE NamespaceWrites ---------------------------
(***************************************************************************)
(* What a fan-out promises to the reconcile that calls it, without saying  *)
(* how: channels, workers and the order of the jobs are out of sight.      *)
(*                                                                         *)
(* Every target is attempted once, on its own: it is read, then created,   *)
(* updated or left as it is.  The requests of different targets interleave *)
(* freely, users touch the same objects in between, and the report comes   *)
(* after the last attempt and tells how each one ended.                    *)
(***************************************************************************)
EXTENDS FiniteSets

CONSTANTS
  Namespaces,
  NoReport    \* the fan-out has not returned

VARIABLES
  targets,    \* the namespaces to write to
  attempt,    \* per target, its next request or how it ended
  dests,      \* per namespace, what is stored there
  unchanged,  \* targets that are stored as they were read for an Update
  report      \* what the caller is told

vars == <<targets, attempt, dests, unchanged, report>>

Ended(s) == {n \in targets : attempt[n] = s}

Init ==
  /\ targets \subseteq Namespaces
  /\ attempt = [n \in targets |-> "get"]
  /\ dests \in [Namespaces -> {"absent", "current", "stale", "foreign"}]
  /\ unchanged = {}
  /\ report = IF targets = {} THEN [written |-> 0, failed |-> {}] ELSE NoReport

\* The Get of target n, and what follows from what was found.
Read(n) ==
  /\ attempt[n] = "get"
  /\ \E s \in {"create", "update", "written", "failed"} :
       /\ s = "create" => dests[n] = "absent"
       /\ s = "update" => dests[n] = "stale"
       /\ s = "written" => dests[n] = "current"
       /\ attempt' = [attempt EXCEPT ![n] = s]
       /\ unchanged' = IF s = "update" THEN unchanged \cup {n} ELSE unchanged
  /\ UNCHANGED <<targets, dests, report>>

\* The Create takes effect where nothing is stored, the Update where the object
\* is still as it was read.  The answer may be lost.
Store(n) ==
  /\ \/ attempt[n] = "create" /\ dests[n] = "absent"
     \/ attempt[n] = "update" /\ n \in unchanged
  /\ dests' = [dests EXCEPT ![n] = "current"]
  /\ \E s \in {"written", "failed"} : attempt' = [attempt EXCEPT ![n] = s]
  /\ unchanged' = unchanged \ {n}
  /\ UNCHANGED <<targets, report>>

\* The write is refused or lost.
Fail(n) ==
  /\ attempt[n] \in {"create", "update"}
  /\ attempt' = [attempt EXCEPT ![n] = "failed"]
  /\ unchanged' = unchanged \ {n}
  /\ UNCHANGED <<targets, dests, report>>

\* Users delete, edit, take over or create the object in namespace n.
Touch(n) ==
  /\ \E d \in {"absent", "stale", "foreign"} : dests' = [dests EXCEPT ![n] = d]
  /\ unchanged' = unchanged \ {n}
  /\ UNCHANGED <<targets, attempt, report>>

\* The fan-out returns when every attempt has ended.
Report ==
  /\ report = NoReport
  /\ targets = Ended("written") \cup Ended("failed")
  /\ report' = [written |-> Cardinality(Ended("written")), failed |-> Ended("failed")]
  /\ UNCHANGED <<targets, attempt, dests, unchanged>>

Next ==
  \/ \E n \in targets : Read(n) \/ Store(n) \/ Fail(n)
  \/ \E n \in Namespaces : Touch(n)
  \/ Report

Spec == Init /\ [][Next]_vars
=============================================================================
