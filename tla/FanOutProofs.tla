----------------------------- MODULE FanOutProofs -----------------------------
(***************************************************************************)
(* Theorems about FanOut, for every set of namespaces, every pool size and *)
(* any number of failing requests and of users' steps.                     *)
(***************************************************************************)
EXTENDS FanOut, FiniteSetTheorems, TLAPS

USE DEF inputVars, callerVars, chanVars, workerVars, envVars

\* The size of the pool: at least one worker when there is something to do, no
\* more than targets, no more than the setting allows.
LEMMA PoolFacts ==
  ASSUME TypeOK
  PROVE  /\ IsFiniteSet(targets) /\ Cardinality(targets) \in Nat
         /\ concurrency \in Nat /\ concurrency <= Cardinality(targets)
         /\ concurrency <= (IF setting <= 0 THEN 16 ELSE setting)
         /\ targets # {} => Workers # {}
         /\ targets = {} => Workers = {}
         /\ Workers \subseteq WorkerIds
         /\ IsFiniteSet(Workers) /\ Cardinality(Workers) = concurrency
<1>1. /\ IsFiniteSet(targets) /\ Cardinality(targets) \in Nat
      /\ Cardinality(Namespaces) \in Nat /\ Cardinality(targets) <= Cardinality(Namespaces)
  BY NamespacesAssumption, FS_Subset, FS_CardinalityType DEF TypeOK
<1>2. Cardinality(targets) = 0 <=> targets = {}
  BY <1>1, FS_EmptySet
<1>3. setting \in Int
  BY SettingsAssumption DEF TypeOK
<1>4. /\ concurrency \in Nat /\ concurrency <= Cardinality(targets)
      /\ concurrency <= (IF setting <= 0 THEN 16 ELSE setting)
      /\ Cardinality(targets) > 0 => concurrency > 0
  BY <1>1, <1>3 DEF concurrency, PoolSize
<1>5. /\ targets # {} => Workers # {}
      /\ targets = {} => Workers = {}
      /\ Workers \subseteq WorkerIds
  BY <1>1, <1>2, <1>4 DEF Workers, WorkerIds
<1>6. IsFiniteSet(Workers) /\ Cardinality(Workers) = concurrency
  BY <1>4, FS_Interval DEF Workers
<1> QED
  BY <1>1, <1>4, <1>5, <1>6

\* The places of the targets are finite sets; the results are because no two of
\* them are about the same namespace.
LEMMA FinitePlaces ==
  ASSUME TypeOK, Apart
  PROVE  /\ IsFiniteSet(unfed) /\ Cardinality(unfed) \in Nat
         /\ IsFiniteSet(jobs) /\ Cardinality(jobs) \in Nat
         /\ IsFiniteSet(Busy) /\ Cardinality(Busy) \in Nat
         /\ IsFiniteSet(results) /\ Cardinality(results) \in Nat
         /\ IsFiniteSet(failureMsgs) /\ Cardinality(failureMsgs) \in Nat
<1>1. IsFiniteSet(targets) /\ IsFiniteSet(Workers)
  BY PoolFacts
<1>2. IsFiniteSet(unfed) /\ IsFiniteSet(jobs) /\ IsFiniteSet(failureMsgs)
  BY <1>1, FS_Subset DEF TypeOK
<1>3. IsFiniteSet(Busy)
  BY <1>1, FS_Subset DEF Busy
<1>4. IsFiniteSet(results)
  <2> DEFINE f == [res \in results |-> res.ns]
  <2>1. f \in Injection(results, targets)
    BY DEF TypeOK, Apart, Injection, IsInjective
  <2> QED
    BY <1>1, <2>1, FS_Injection
<1> QED
  BY <1>2, <1>3, <1>4, FS_CardinalityType

\* The initial states are well typed.
LEMMA InitType == Init => TypeOK
<1> SUFFICES ASSUME Init PROVE TypeOK
  OBVIOUS
<1>1. /\ targets \subseteq Namespaces /\ setting \in Settings
      /\ dests \in [Namespaces -> DestStates]
  BY StartsAssumption DEF Init
<1>2. at \in [WorkerIds -> {"receive", "done"}]
  BY DEF Init
<1>3. None \in Reasons
  BY DEF Reasons
<1>4. 0 \in 0 .. MaxUserSteps /\ 0 \in 0 .. MaxFaults
  BY BoundsAssumption
<1> QED
  BY <1>1, <1>2, <1>3, <1>4 DEF Init, TypeOK

\* Every step keeps the types.
LEMMA NextType == TypeOK /\ [Next]_vars => TypeOK'
<1> SUFFICES ASSUME TypeOK, [Next]_vars PROVE TypeOK'
  OBVIOUS
<1> USE DEF TypeOK
<1>1. ASSUME NEW n \in Namespaces, Feed(n) PROVE TypeOK'
  BY <1>1 DEF Feed
<1>2. ASSUME NEW n \in Namespaces, UserTouches(n) PROVE TypeOK'
  BY <1>2, BoundsAssumption DEF UserTouches, DestStates
<1>3. CASE CloseJobs
  BY <1>3 DEF CloseJobs
<1>4. ASSUME NEW res \in results, Collect(res) PROVE TypeOK'
  BY <1>4 DEF Collect
<1>5. CASE Return
  BY <1>5 DEF Return
<1>6. CASE CloseResults
  BY <1>6 DEF CloseResults
<1>7. ASSUME NEW w \in WorkerIds, Receive(w) PROVE TypeOK'
  BY <1>7 DEF Receive
<1>8. ASSUME NEW w \in WorkerIds, Get(w) PROVE TypeOK'
  <2>1. {"DestinationFetchFailed", "DestinationConflict", None} \subseteq Reasons
    BY DEF Reasons, FailureReasons
  <2>2. faults' \in 0 .. MaxFaults
    BY <1>8, BoundsAssumption DEF Get, Fault
  <2>3. \E a \in {"create", "update", "send"}, rsn \in Reasons :
          /\ at' = [at EXCEPT ![w] = a]
          /\ reason' \in {reason, [reason EXCEPT ![w] = rsn]}
          /\ fresh' \in {fresh, [fresh EXCEPT ![w] = TRUE]}
    BY <1>8, <2>1 DEF Get, Outcome
  <2>4. /\ at' \in [WorkerIds -> {"receive", "get", "create", "update", "send", "done"}]
        /\ \A v \in WorkerIds : v # w => at'[v] = at[v]
    BY <2>3
  <2>5. reason' \in [WorkerIds -> Reasons]
    BY <2>3
  <2>6. fresh' \in [WorkerIds -> BOOLEAN]
    BY <2>3
  <2>7. \A v \in WorkerIds : at'[v] \notin {"receive", "done"} => ns[v] \in targets
    BY <1>8, <2>4 DEF Get
  <2> QED
    BY <1>8, <2>2, <2>4, <2>5, <2>6, <2>7 DEF Get
<1>9. ASSUME NEW w \in WorkerIds, Write(w) PROVE TypeOK'
  BY <1>9, BoundsAssumption DEF Write, Fault, Outcome, Failure, Reasons, FailureReasons,
     DestStates
<1>10. ASSUME NEW w \in WorkerIds, Send(w) PROVE TypeOK'
  BY <1>10 DEF Send, Reasons
<1>11. CASE UNCHANGED vars
  BY <1>11 DEF vars
<1> QED
  BY <1>1, <1>2, <1>3, <1>4, <1>5, <1>6, <1>7, <1>8, <1>9, <1>10, <1>11 DEF Next, Worker

\* Whatever the pool and the users do, every variable has its type and a worker
\* that is at a request has a target to write to.
THEOREM TypeCorrect == Spec => []TypeOK
BY InitType, NextType, PTL DEF Spec
-----------------------------------------------------------------------------
\* No step changes the pool.
LEMMA SamePool ==
  ASSUME UNCHANGED inputVars
  PROVE  concurrency' = concurrency /\ Workers' = Workers
BY DEF concurrency, Workers

\* Only workers of the pool are busy.
LEMMA BusyFacts ==
  ASSUME TypeOK, PoolInv, NEW w \in WorkerIds
  PROVE  w \in Busy <=> at[w] \notin {"receive", "done"}
BY DEF PoolInv, Busy, TypeOK

\* The invariant holds at the start.
LEMMA InitInv == Init => IInv
<1> SUFFICES ASSUME Init PROVE IInv
  OBVIOUS
<1>1. TypeOK
  BY InitType
<1>2. Workers \subseteq WorkerIds /\ (targets = {} => Workers = {})
  BY <1>1, PoolFacts
<1>3. Busy = {} /\ Reported = {}
  BY <1>2 DEF Init, Busy, Reported
<1>4. Cardinality({}) = 0 /\ Cardinality(targets) \in Nat
  BY <1>1, PoolFacts, FS_EmptySet
<1>5. OnePlace
  BY <1>3, <1>4 DEF Init, OnePlace, Apart, Complete
<1>6. PoolInv /\ LoopInv /\ CallerInv
  BY <1>2 DEF Init, PoolInv, LoopInv, CallerInv
<1>7. FailureInv /\ FreshInv /\ MirrorInv
  BY <1>4 DEF Init, FailureInv, FreshInv, MirrorInv, Pending
<1> QED
  BY <1>5, <1>6, <1>7 DEF IInv

\* jobs <- ns moves one target.
LEMMA FeedKeepsInv ==
  ASSUME TypeOK, IInv, NEW n \in Namespaces, Feed(n)
  PROVE  IInv'
<1>1. /\ Workers' = Workers /\ Busy' = Busy /\ Reported' = Reported
      /\ n \in unfed /\ n \notin jobs
  BY SamePool DEF Feed, Busy, Reported, IInv, OnePlace, Apart
<1>2. Apart'
  BY <1>1 DEF Feed, IInv, OnePlace, Apart
<1>3. Complete'
  <2>1. /\ Cardinality(unfed') = Cardinality(unfed) - 1
        /\ Cardinality(jobs') = Cardinality(jobs) + 1
        /\ Cardinality(unfed) \in Nat /\ Cardinality(jobs) \in Nat
        /\ Cardinality(Busy) \in Nat /\ Cardinality(results) \in Nat
    BY <1>1, FinitePlaces, FS_AddElement, FS_RemoveElement DEF Feed, IInv, OnePlace
  <2> QED
    BY <1>1, <2>1 DEF Feed, IInv, OnePlace, Complete, TypeOK
<1>4. PoolInv' /\ LoopInv' /\ CallerInv'
  BY <1>1 DEF Feed, IInv, PoolInv, LoopInv, CallerInv
<1>5. FailureInv' /\ FreshInv'
  BY DEF Feed, IInv, FailureInv, FreshInv
<1>6. MirrorInv'
  BY <1>1 DEF Feed, IInv, MirrorInv, Pending
<1> QED
  BY <1>2, <1>3, <1>4, <1>5, <1>6 DEF IInv, OnePlace

\* Steps of the caller that only move it on.
LEMMA CallerKeepsInv ==
  ASSUME TypeOK, IInv, CloseJobs \/ Return \/ CloseResults
  PROVE  IInv'
<1>1. /\ UNCHANGED <<inputVars, unfed, jobs, results, written, failed, failureMsgs,
                     workerVars, dests, touched>>
      /\ jobsClosed => jobsClosed'
  BY DEF CloseJobs, Return, CloseResults
<1>2. Workers' = Workers /\ Busy' = Busy /\ Reported' = Reported
  BY <1>1, SamePool DEF Busy, Reported
<1>3. OnePlace'
  BY <1>1, <1>2 DEF IInv, OnePlace, Apart, Complete
<1>4. PoolInv' /\ LoopInv' /\ FailureInv' /\ FreshInv'
  BY <1>1, <1>2 DEF IInv, PoolInv, LoopInv, FailureInv, FreshInv
<1>5. CallerInv'
  <2>1. targets # {} => Workers # {}
    BY PoolFacts
  <2>2. CASE CloseJobs
    BY <1>1, <1>2, <2>2 DEF CloseJobs, IInv, CallerInv, TypeOK
  <2>3. CASE Return
    BY <1>1, <1>2, <2>1, <2>3 DEF Return, IInv, CallerInv, LoopInv, TypeOK
  <2>4. CASE CloseResults
    BY <1>1, <1>2, <2>4 DEF CloseResults, IInv, CallerInv, TypeOK
  <2> QED
    BY <2>2, <2>3, <2>4
<1>6. MirrorInv'
  BY <1>1, <1>2 DEF IInv, MirrorInv, Pending
<1> QED
  BY <1>3, <1>4, <1>5, <1>6 DEF IInv

\* The collector counts one result.
LEMMA CollectKeepsInv ==
  ASSUME TypeOK, IInv, NEW res \in results, Collect(res)
  PROVE  IInv'
<1>1. /\ Workers' = Workers /\ Busy' = Busy
      /\ res.ns \in Reported /\ Reported' \subseteq Reported \ {res.ns}
  BY SamePool DEF Collect, Busy, Reported, IInv, OnePlace, Apart
<1>2. failureMsgs' \subseteq failureMsgs \cup {res.ns}
  BY DEF Collect
<1>3. Apart'
  BY <1>1, <1>2 DEF Collect, IInv, OnePlace, Apart
<1>4. Complete'
  <2>1. /\ Cardinality(results') = Cardinality(results) - 1
        /\ Cardinality(unfed) \in Nat /\ Cardinality(jobs) \in Nat
        /\ Cardinality(Busy) \in Nat /\ Cardinality(results) \in Nat
    BY FinitePlaces, FS_RemoveElement DEF Collect, IInv, OnePlace
  <2>2. written' + failed' = written + failed + 1
    BY DEF Collect, TypeOK
  <2> QED
    BY <1>1, <2>1, <2>2 DEF Collect, IInv, OnePlace, Complete, TypeOK
<1>5. PoolInv' /\ LoopInv' /\ CallerInv' /\ FreshInv'
  BY <1>1 DEF Collect, IInv, PoolInv, LoopInv, CallerInv, FreshInv
<1>6. FailureInv'
  <2>1. CASE res.reason = None
    BY <2>1 DEF Collect, IInv, FailureInv
  <2>2. CASE res.reason # None
    <3>1. res.ns \notin failureMsgs \cup unfed \cup jobs
      BY <1>1 DEF IInv, OnePlace, Apart
    <3>2. Cardinality(failureMsgs') = Cardinality(failureMsgs) + 1
      BY <2>2, <3>1, FinitePlaces, FS_AddElement DEF Collect, IInv, OnePlace
    <3> QED
      BY <2>2, <3>1, <3>2 DEF Collect, IInv, FailureInv
  <2> QED
    BY <2>1, <2>2
<1>7. MirrorInv'
  <2>1. ASSUME NEW n \in targets, Pending(n) PROVE Pending(n)'
    <3>1. CASE \E r \in results : r.ns = n /\ r.reason # None
      BY <3>1 DEF Collect, Pending
    <3> QED
      BY <1>1, <2>1, <3>1 DEF Collect, Pending
  <2> QED
    BY <2>1 DEF Collect, IInv, MirrorInv
<1> QED
  BY <1>3, <1>4, <1>5, <1>6, <1>7 DEF IInv, OnePlace

\* A worker takes a job, or leaves its loop.
LEMMA ReceiveKeepsInv ==
  ASSUME TypeOK, IInv, NEW w \in WorkerIds, Receive(w)
  PROVE  IInv'
<1>1. Workers' = Workers /\ Workers \subseteq WorkerIds /\ w \in Workers /\ w \notin Busy
  BY SamePool, PoolFacts DEF Receive, IInv, PoolInv, Busy
<1>2. Reported' = Reported
  BY DEF Receive, Reported
<1>3. ASSUME NEW n \in jobs, jobs' = jobs \ {n}, ns' = [ns EXCEPT ![w] = n],
             at' = [at EXCEPT ![w] = "get"]
      PROVE  IInv'
  <2>1. Busy' = Busy \cup {w}
    BY <1>1, <1>3 DEF Busy, TypeOK
  <2>2. /\ n \in targets \ (unfed \cup Reported \cup failureMsgs)
        /\ \A v \in Busy : ns[v] # n
    BY <1>3 DEF IInv, OnePlace, Apart, FailureInv, TypeOK
  <2>3. ns'[w] = n /\ \A v \in Busy : ns'[v] = ns[v]
    BY <1>1, <1>3 DEF Busy, TypeOK
  <2>4. Apart'
    BY <1>2, <1>3, <2>1, <2>2, <2>3 DEF Receive, IInv, OnePlace, Apart
  <2>5. Complete'
    <3>1. /\ Cardinality(jobs') = Cardinality(jobs) - 1
          /\ Cardinality(Busy') = Cardinality(Busy) + 1
          /\ Cardinality(unfed) \in Nat /\ Cardinality(jobs) \in Nat
          /\ Cardinality(Busy) \in Nat /\ Cardinality(results) \in Nat
      BY <1>1, <1>3, <2>1, FinitePlaces, FS_AddElement, FS_RemoveElement
         DEF IInv, OnePlace
    <3> QED
      BY <3>1 DEF Receive, IInv, OnePlace, Complete, TypeOK
  <2>6. PoolInv' /\ LoopInv' /\ CallerInv'
    BY <1>1, <1>3 DEF Receive, IInv, PoolInv, LoopInv, CallerInv, TypeOK
  <2>7. FailureInv' /\ FreshInv'
    BY <1>3 DEF Receive, IInv, FailureInv, FreshInv, TypeOK
  <2>8. MirrorInv'
    <3>1. ASSUME NEW m \in targets, Pending(m) PROVE Pending(m)'
      <4>1. CASE m = n
        BY <1>3, <2>1, <2>3, <4>1 DEF Pending, TypeOK
      <4>2. CASE m # n
        BY <1>1, <1>3, <2>1, <2>3, <3>1, <4>2 DEF Receive, Pending, Busy, TypeOK
      <4> QED
        BY <4>1, <4>2
    <3> QED
      BY <3>1 DEF Receive, IInv, MirrorInv
  <2> QED
    BY <2>4, <2>5, <2>6, <2>7, <2>8 DEF IInv, OnePlace
<1>4. ASSUME jobs = {}, jobsClosed, at' = [at EXCEPT ![w] = "done"], UNCHANGED <<jobs, ns>>
      PROVE  IInv'
  <2>1. Busy' = Busy
    BY <1>1, <1>4 DEF Receive, Busy, TypeOK
  <2>2. OnePlace'
    BY <1>2, <1>4, <2>1 DEF Receive, IInv, OnePlace, Apart, Complete
  <2>3. PoolInv' /\ LoopInv' /\ CallerInv'
    BY <1>1, <1>4 DEF Receive, IInv, PoolInv, LoopInv, CallerInv, TypeOK
  <2>4. FailureInv' /\ FreshInv'
    BY <1>4 DEF Receive, IInv, FailureInv, FreshInv, TypeOK
  <2>5. MirrorInv'
    BY <1>1, <1>4, <2>1 DEF Receive, IInv, MirrorInv, Pending, Busy, TypeOK
  <2> QED
    BY <2>2, <2>3, <2>4, <2>5 DEF IInv
<1> QED
  BY <1>3, <1>4 DEF Receive

\* A step of a busy worker that stays busy: it may write the copy of its own
\* namespace, and ends with a reason unless that copy is current.
LEMMA BusyKeepsInv ==
  ASSUME TypeOK, IInv, NEW w \in Busy, NEW a \in {"create", "update", "send"},
         UNCHANGED <<inputVars, callerVars, chanVars, ns, touched>>,
         at' = [at EXCEPT ![w] = a],
         \A v \in WorkerIds \ {w} : reason'[v] = reason[v] /\ fresh'[v] = fresh[v],
         dests' \in {dests, [dests EXCEPT ![ns[w]] = "current"]},
         a = "send" => reason'[w] # None \/ dests'[ns[w]] = "current",
         a = "update" => dests'[ns[w]] = "stale"
  PROVE  IInv'
<1>1. /\ Workers' = Workers /\ Workers \subseteq WorkerIds /\ w \in Workers
      /\ ns[w] \in Namespaces
  BY SamePool, PoolFacts DEF Busy, TypeOK
<1>2. Reported' = Reported
  BY DEF Reported
<1>3. Busy' = Busy
  BY <1>1 DEF Busy, TypeOK
<1>4. OnePlace'
  BY <1>2, <1>3 DEF IInv, OnePlace, Apart, Complete
<1>5. PoolInv' /\ LoopInv'
  BY <1>1 DEF IInv, PoolInv, LoopInv, Busy, TypeOK
<1>6. CallerInv'
  BY <1>1 DEF IInv, CallerInv, Busy, TypeOK
<1>7. FailureInv'
  BY DEF IInv, FailureInv
<1>8. FreshInv'
  <2>1. ASSUME NEW v \in WorkerIds \ {w}, at[v] = "update"
        PROVE  dests'[ns[v]] = dests[ns[v]]
    <3>1. v \in Busy /\ ns[v] # ns[w] /\ ns[v] \in Namespaces
      BY <1>1, <2>1, BusyFacts DEF IInv, OnePlace, Apart, TypeOK
    <3> QED
      BY <3>1 DEF TypeOK
  <2>2. \A v \in WorkerIds \ {w} : at'[v] = at[v]
    BY DEF TypeOK
  <2>3. w \in WorkerIds /\ at'[w] = a
    BY <1>1 DEF TypeOK
  <2> QED
    BY <2>1, <2>2, <2>3 DEF IInv, FreshInv
<1>9. MirrorInv'
  <2>1. ASSUME NEW n \in targets, n # ns[w], Pending(n) PROVE Pending(n)'
    <3>1. \A v \in Busy \ {w} : at'[v] = at[v] /\ reason'[v] = reason[v]
      BY <1>1 DEF Busy, TypeOK
    <3> QED
      BY <1>3, <2>1, <3>1 DEF Pending
  <2>2. dests'[ns[w]] = "current" \/ Pending(ns[w])'
    BY <1>1, <1>3 DEF Pending, TypeOK
  <2>3. \A n \in Namespaces : n # ns[w] => dests'[n] = dests[n]
    BY DEF TypeOK
  <2> QED
    BY <2>1, <2>2, <2>3 DEF IInv, MirrorInv, TypeOK
<1> QED
  BY <1>4, <1>5, <1>6, <1>7, <1>8, <1>9 DEF IInv

\* The Get of a worker and what it decides.
LEMMA GetKeepsInv ==
  ASSUME TypeOK, IInv, NEW w \in WorkerIds, Get(w)
  PROVE  IInv'
<1>1. w \in Busy /\ ns[w] \in Namespaces /\ dests[ns[w]] \in DestStates
  BY BusyFacts DEF Get, IInv, TypeOK
<1>2. \A v \in WorkerIds \ {w} : reason'[v] = reason[v] /\ fresh'[v] = fresh[v]
  BY DEF Get, Outcome, TypeOK
<1>3. PICK a \in {"create", "update", "send"} :
        /\ at' = [at EXCEPT ![w] = a]
        /\ a = "send" => reason'[w] # None \/ dests'[ns[w]] = "current"
        /\ a = "update" => dests'[ns[w]] = "stale"
  BY <1>1, NoneAssumption DEF Get, Outcome, FailureReasons, TypeOK
<1> QED
  BY <1>1, <1>2, <1>3, BusyKeepsInv DEF Get

\* The Create or Update of a worker.
LEMMA WriteKeepsInv ==
  ASSUME TypeOK, IInv, NEW w \in WorkerIds, Write(w)
  PROVE  IInv'
<1>1. w \in Busy /\ ns[w] \in Namespaces
  BY BusyFacts DEF Write, IInv, TypeOK
<1>2. /\ \A v \in WorkerIds \ {w} : reason'[v] = reason[v] /\ fresh'[v] = fresh[v]
      /\ at' = [at EXCEPT ![w] = "send"]
      /\ dests' \in {dests, [dests EXCEPT ![ns[w]] = "current"]}
  BY DEF Write, Outcome, TypeOK
<1>3. reason'[w] # None \/ dests'[ns[w]] = "current"
  BY <1>1, NoneAssumption DEF Write, Outcome, Failure, FailureReasons, TypeOK
<1> QED
  BY <1>1, <1>2, <1>3, BusyKeepsInv DEF Write

\* The result is sent; the worker is free again.
LEMMA SendKeepsInv ==
  ASSUME TypeOK, IInv, NEW w \in WorkerIds, Send(w)
  PROVE  IInv'
<1> DEFINE res == [ns |-> ns[w], reason |-> reason[w]]
<1>1. /\ Workers' = Workers /\ Workers \subseteq WorkerIds /\ w \in Busy /\ w \in Workers
      /\ Busy' = Busy \ {w}
  BY SamePool, PoolFacts, BusyFacts DEF Send, IInv, Busy, TypeOK
<1>2. /\ Reported' = Reported \cup {ns[w]} /\ results' = results \cup {res}
      /\ ns[w] \notin Reported /\ res \notin results
  BY <1>1 DEF Send, Reported, IInv, OnePlace, Apart
<1>3. \A v \in Busy \ {w} : ns'[v] = ns[v] /\ at'[v] = at[v] /\ reason'[v] = reason[v]
  BY <1>1 DEF Send, Busy, TypeOK
<1>4. Apart'
  <2>1. \A r1, r2 \in results' : r1.ns = r2.ns => r1 = r2
    BY <1>2 DEF Reported, IInv, OnePlace, Apart
  <2> QED
    BY <1>1, <1>2, <1>3, <2>1 DEF Send, IInv, OnePlace, Apart
<1>5. Complete'
  <2>1. /\ Cardinality(results') = Cardinality(results) + 1
        /\ Cardinality(Busy') = Cardinality(Busy) - 1
        /\ Cardinality(unfed) \in Nat /\ Cardinality(jobs) \in Nat
        /\ Cardinality(Busy) \in Nat /\ Cardinality(results) \in Nat
    BY <1>1, <1>2, FinitePlaces, FS_AddElement, FS_RemoveElement DEF IInv, OnePlace
  <2> QED
    BY <2>1 DEF Send, IInv, OnePlace, Complete, TypeOK
<1>6. PoolInv' /\ LoopInv'
  BY <1>1 DEF Send, IInv, PoolInv, LoopInv, TypeOK
<1>7. CallerInv'
  BY <1>1 DEF Send, IInv, CallerInv, TypeOK
<1>8. FailureInv' /\ FreshInv'
  BY <1>1 DEF Send, IInv, FailureInv, FreshInv, TypeOK
<1>9. MirrorInv'
  <2>1. ASSUME NEW n \in targets, Pending(n) PROVE Pending(n)'
    <3>1. CASE \E v \in Busy \ {w} : ns[v] = n /\ (at[v] = "send" => reason[v] # None)
      BY <1>1, <1>3, <3>1 DEF Pending
    <3>2. CASE ns[w] = n /\ reason[w] # None
      BY <1>2, <3>2 DEF Pending
    <3> QED
      BY <1>2, <2>1, <3>1, <3>2 DEF Send, Pending
  <2> QED
    BY <2>1 DEF Send, IInv, MirrorInv
<1> QED
  BY <1>4, <1>5, <1>6, <1>7, <1>8, <1>9 DEF IInv, OnePlace

\* A user's step at one destination.
LEMMA UserKeepsInv ==
  ASSUME TypeOK, IInv, NEW n \in Namespaces, UserTouches(n)
  PROVE  IInv'
<1>1. Workers' = Workers /\ Busy' = Busy /\ Reported' = Reported
  BY SamePool DEF UserTouches, Busy, Reported
<1>2. OnePlace'
  BY <1>1 DEF UserTouches, IInv, OnePlace, Apart, Complete
<1>3. PoolInv' /\ LoopInv' /\ CallerInv' /\ FailureInv'
  BY <1>1 DEF UserTouches, IInv, PoolInv, LoopInv, CallerInv, FailureInv
<1>4. \A m \in Namespaces \ {n} : dests'[m] = dests[m]
  BY DEF UserTouches, TypeOK
<1>5. FreshInv'
  BY <1>4 DEF UserTouches, IInv, FreshInv, TypeOK
<1>6. MirrorInv'
  BY <1>1, <1>4 DEF UserTouches, IInv, MirrorInv, Pending, TypeOK
<1> QED
  BY <1>2, <1>3, <1>5, <1>6 DEF IInv

\* The invariant is inductive.
LEMMA NextInv == TypeOK /\ IInv /\ [Next]_vars => IInv'
<1> SUFFICES ASSUME TypeOK, IInv, [Next]_vars PROVE IInv'
  OBVIOUS
<1>1. CASE UNCHANGED vars
  <2>1. Workers' = Workers /\ Busy' = Busy /\ Reported' = Reported
    BY <1>1, SamePool DEF vars, Busy, Reported
  <2> QED
    BY <1>1, <2>1 DEF vars, IInv, OnePlace, Apart, Complete, PoolInv, LoopInv, CallerInv,
       FailureInv, FreshInv, MirrorInv, Pending
<1> QED
  BY <1>1, FeedKeepsInv, CallerKeepsInv, CollectKeepsInv, ReceiveKeepsInv, GetKeepsInv,
     WriteKeepsInv, SendKeepsInv, UserKeepsInv DEF Next, Worker

\* At every moment of a fan-out, whatever the order of the goroutines, the
\* places of the targets, the channels and the rollup fit together.
THEOREM Invariance == Spec => []IInv
BY InitInv, NextInv, TypeCorrect, PTL DEF Spec

\* Every target is in exactly one place: fanOut loses no namespace and gives none
\* to two workers.
THEOREM EachOnce == Spec => []OnePlace
<1>1. IInv => OnePlace
  BY DEF IInv
<1> QED
  BY <1>1, Invariance, PTL

\* The rollup that fanOut returns is the whole truth, for any number of targets
\* and workers: the counts are complete, each failure is named, and what is not
\* named and was not touched holds the current mirror.
THEOREM RollupExact == Spec => []Accounted
<1>1. TypeOK /\ IInv => Accounted
  <2> SUFFICES ASSUME TypeOK, IInv, pc = "return"
               PROVE  /\ written + failed = Cardinality(targets)
                      /\ failed = Cardinality(failureMsgs)
                      /\ \A n \in targets \ (failureMsgs \cup touched) :
                           dests[n] = "current"
    BY DEF Accounted
  <2>1. unfed = {} /\ jobs = {} /\ results = {} /\ Busy = {}
    BY DEF IInv, CallerInv, Busy
  <2>2. written + failed = Cardinality(targets)
    BY <2>1, FS_EmptySet DEF IInv, OnePlace, Complete, TypeOK
  <2>3. \A n \in targets \ (failureMsgs \cup touched) : dests[n] = "current"
    BY <2>1 DEF IInv, MirrorInv, Pending
  <2> QED
    BY <2>2, <2>3 DEF IInv, FailureInv
<1> QED
  BY <1>1, TypeCorrect, Invariance, PTL

\* No worker sends on the results channel after it was closed, which would panic.
THEOREM NeverSendsAfterClose == Spec => []NoSendAfterClose
<1>1. TypeOK /\ IInv => NoSendAfterClose
  <2> SUFFICES ASSUME TypeOK, IInv, resultsClosed PROVE Busy = {} /\ jobs = {} /\ jobsClosed
    BY DEF NoSendAfterClose
  <2>1. \A w \in Workers : at[w] = "done"
    BY DEF IInv, CallerInv
  <2> QED
    BY <2>1, PoolFacts DEF IInv, CallerInv, LoopInv, Busy, TypeOK
<1> QED
  BY <1>1, TypeCorrect, Invariance, PTL

\* The writes in flight never exceed SelectorWriteConcurrency, or its default.
THEOREM PoolCapped == Spec => []Capped
<1>1. TypeOK => Capped
  <2> SUFFICES ASSUME TypeOK PROVE Capped
    OBVIOUS
  <2>1. /\ IsFiniteSet(Workers) /\ Cardinality(Workers) = concurrency /\ concurrency \in Nat
        /\ concurrency <= (IF setting <= 0 THEN 16 ELSE setting)
    BY PoolFacts
  <2>2. Cardinality(Busy) <= Cardinality(Workers) /\ Cardinality(Busy) \in Nat
    BY <2>1, FS_Subset, FS_CardinalityType DEF Busy
  <2>3. setting \in Int
    BY SettingsAssumption DEF TypeOK
  <2> QED
    BY <2>1, <2>2, <2>3 DEF Capped
<1> QED
  BY <1>1, TypeCorrect, PTL

\* No write of a worker takes effect on an object that is somebody else's by then,
\* although ownership is checked one request earlier.
THEOREM ClobbersNothing == Spec => NeverClobbers
<1>1. TypeOK /\ IInv /\ [Next]_vars =>
        [\A n \in Namespaces :
           dests'[n] # dests[n] /\ userSteps' = userSteps
           => dests[n] # "foreign" /\ dests'[n] = "current"]_vars
  <2> SUFFICES ASSUME TypeOK, IInv, [Next]_vars, NEW n \in Namespaces,
                      dests'[n] # dests[n], userSteps' = userSteps
               PROVE  dests[n] # "foreign" /\ dests'[n] = "current"
    OBVIOUS
  <2>1. PICK w \in WorkerIds : Write(w)
    <3>1. ~ \E m \in Namespaces : UserTouches(m)
      BY DEF UserTouches, TypeOK
    <3> QED
      BY <3>1 DEF Next, Worker, vars, Feed, CloseJobs, Collect, Return, CloseResults,
         Receive, Get, Send
  <2>2. n = ns[w] /\ dests'[n] = "current" /\ Accepted(w)
    BY <2>1 DEF Write, TypeOK
  <2>3. dests[n] \in {"absent", "stale"}
    BY <2>1, <2>2 DEF Write, Accepted, IInv, FreshInv
  <2> QED
    BY <2>2, <2>3
<1> QED
  BY <1>1, TypeCorrect, Invariance, PTL DEF Spec, NeverClobbers
=============================================================================
