------------------------------- MODULE Mirror -------------------------------
(***************************************************************************)
(* What the operator promises about the places it writes to, without       *)
(* saying how: requests, caches, retries and crashes are out of sight.     *)
(*                                                                         *)
(* A place is free, in foreign hands, or held by an owner (a Projection or *)
(* a ClusterProjection).  An owner takes a place only when it is free and  *)
(* only while it is guarded by its finalizer, and gives the guard up only  *)
(* when it holds nothing.  Whatever outsiders do, a place never passes     *)
(* straight from a stranger, or from one owner, to another owner.          *)
(***************************************************************************)
CONSTANTS
  Owners,   \* Projections, ClusterProjections
  Places,   \* coordinates of destinations
  Free,     \* there is no object
  Foreign   \* there is an object without an owner's stamp

VARIABLES
  guarded,  \* the owners that have their finalizer
  holder    \* who holds each place

vars == <<guarded, holder>>

Init ==
  /\ guarded = {}
  /\ holder \in [Places -> {Free, Foreign}]

\* The finalizer is stored.
Guard(o) ==
  /\ guarded' = guarded \cup {o}
  /\ UNCHANGED holder

\* The finalizer is removed, or goes with the owner.
Release(o) ==
  /\ \A c \in Places : holder[c] # o
  /\ guarded' = guarded \ {o}
  /\ UNCHANGED holder

\* The owner creates its copy.
Claim(o, c) ==
  /\ o \in guarded
  /\ holder[c] = Free
  /\ holder' = [holder EXCEPT ![c] = o]
  /\ UNCHANGED guarded

\* The object is deleted, by whomever.
Clear(c) ==
  /\ holder' = [holder EXCEPT ![c] = Free]
  /\ UNCHANGED guarded

\* A user creates an object of their own, or takes one over.
Outside(c) ==
  /\ holder' = [holder EXCEPT ![c] = Foreign]
  /\ UNCHANGED guarded

Next ==
  \/ \E o \in Owners : Guard(o) \/ Release(o)
  \/ \E c \in Places : Clear(c) \/ Outside(c) \/ \E o \in Owners : Claim(o, c)

Spec == Init /\ [][Next]_vars
=============================================================================
