--------------------------- MODULE FanOutRefinement ---------------------------
(***************************************************************************)
(* The worker pool implements NamespaceWrites, for every value of the      *)
(* constants: a request of a worker is a step of the attempt it works on   *)
(* and of no other, and whatever the goroutines do among themselves (feed, *)
(* receive, send, collect, close) is a stutter.                            *)
(***************************************************************************)
EXTENDS FanOutProofs

InHand == {"get", "create", "update", "send"}

\* The attempt that worker w has in hand is nowhere else: not waiting, not with
\* another worker, not reported and not counted.
LEMMA Solo ==
  ASSUME TypeOK, IInv, NEW w \in WorkerIds, at[w] \in InHand
  PROVE  /\ ns[w] \in targets /\ ns[w] \notin unfed \cup jobs \cup failureMsgs
         /\ \A v \in WorkerIds : at[v] \in InHand /\ ns[v] = ns[w] => v = w
         /\ \A res \in results : res.ns # ns[w]
<1>1. \A v \in WorkerIds : at[v] \in InHand => v \in Busy
  BY BusyFacts DEF IInv, InHand
<1>2. ns[w] \in targets \ (unfed \cup jobs \cup Reported \cup failureMsgs)
  BY <1>1 DEF IInv, OnePlace, Apart
<1>3. \A v \in WorkerIds : at[v] \in InHand /\ ns[v] = ns[w] => v = w
  BY <1>1 DEF IInv, OnePlace, Apart
<1> QED
  BY <1>2, <1>3 DEF Reported

\* How an attempt in hand looks from outside.
Seen(a, rsn) ==
  IF a # "send" THEN a ELSE IF rsn = None THEN "written" ELSE "failed"

LEMMA SeenInHand ==
  ASSUME TypeOK, IInv, NEW w \in WorkerIds, at[w] \in InHand
  PROVE  Attempt(ns[w]) = Seen(at[w], reason[w])
<1>1. /\ ns[w] \notin unfed \cup jobs \cup failureMsgs
      /\ \A res \in results : res.ns # ns[w]
  BY Solo
<1>2. \A s \in InHand : IsAt(ns[w], s) <=> at[w] = s
  BY Solo DEF IsAt
<1>3. HasFailed(ns[w]) <=> at[w] = "send" /\ reason[w] # None
  BY <1>1, Solo DEF HasFailed, InHand
<1> QED
  BY <1>1, <1>2, <1>3 DEF Attempt, Seen, InHand

\* A request of worker w moves the attempt in its hand and no other.
LEMMA OwnAttempt ==
  ASSUME TypeOK, IInv, NEW w \in WorkerIds, at[w] \in InHand,
         NEW a \in InHand, NEW rsn,
         at' = [at EXCEPT ![w] = a], reason' = [reason EXCEPT ![w] = rsn],
         UNCHANGED <<targets, unfed, jobs, results, failureMsgs, ns>>
  PROVE  Attempts' = [Attempts EXCEPT ![ns[w]] = Seen(a, rsn)]
<1>1. at'[w] = a /\ reason'[w] = rsn /\ ns'[w] = ns[w] /\ ns[w] \in targets
  BY Solo DEF TypeOK
<1>2. Attempt(ns[w])' = Seen(a, rsn)
  <2>1. /\ ns[w] \notin unfed \cup jobs \cup failureMsgs
        /\ \A res \in results : res.ns # ns[w]
        /\ \A v \in WorkerIds : at[v] \in InHand /\ ns[v] = ns[w] => v = w
    BY Solo
  <2>2. \A v \in WorkerIds : v # w => at'[v] = at[v] /\ reason'[v] = reason[v]
    BY DEF TypeOK
  <2>3. \A s \in InHand : IsAt(ns[w], s)' <=> a = s
    BY <1>1, <2>1, <2>2 DEF IsAt
  <2>4. HasFailed(ns[w])' <=> a = "send" /\ rsn # None
    BY <1>1, <2>1, <2>2 DEF HasFailed, InHand
  <2> QED
    BY <2>1, <2>3, <2>4 DEF Attempt, Seen, InHand
<1>3. ASSUME NEW n \in targets, n # ns[w] PROVE Attempt(n)' = Attempt(n)
  <2>1. \A v \in WorkerIds : ns[v] = n => at'[v] = at[v] /\ reason'[v] = reason[v]
    BY <1>3 DEF TypeOK
  <2>2. \A s \in InHand : IsAt(n, s)' <=> IsAt(n, s)
    BY <2>1 DEF IsAt
  <2>3. HasFailed(n)' <=> HasFailed(n)
    BY <2>1 DEF HasFailed
  <2> QED
    BY <2>2, <2>3 DEF Attempt, InHand
<1> QED
  BY <1>1, <1>2, <1>3 DEF Attempts
-----------------------------------------------------------------------------
\* What the goroutines do among themselves is not seen from outside.
LEMMA Stutters ==
  ASSUME TypeOK, IInv, UNCHANGED <<targets, dests>>,
         Report' = Report, Unchanged' = Unchanged,
         \A n \in targets : Attempt(n)' = Attempt(n)
  PROVE  UNCHANGED NW!vars
BY DEF NW!vars, Attempts

LEMMA FeedStutters ==
  ASSUME TypeOK, IInv, NEW n \in Namespaces, Feed(n)
  PROVE  UNCHANGED NW!vars
<1>1. unfed' \cup jobs' = unfed \cup jobs
  BY DEF Feed
<1>2. \A m \in targets : Attempt(m)' = Attempt(m)
  BY <1>1 DEF Feed, workerVars, Attempt, IsAt, HasFailed
<1> QED
  BY <1>2, Stutters DEF Feed, inputVars, workerVars, Report, Unchanged

LEMMA CloseStutters ==
  ASSUME TypeOK, IInv, CloseJobs \/ CloseResults
  PROVE  UNCHANGED NW!vars
<1>1. \A m \in targets : Attempt(m)' = Attempt(m)
  BY DEF CloseJobs, CloseResults, callerVars, workerVars, Attempt, IsAt, HasFailed
<1> QED
  BY <1>1, Stutters DEF CloseJobs, CloseResults, inputVars, callerVars, workerVars,
     Report, Unchanged

LEMMA CollectStutters ==
  ASSUME TypeOK, IInv, NEW res \in results, Collect(res)
  PROVE  UNCHANGED NW!vars
<1>1. ASSUME NEW n \in targets PROVE HasFailed(n)' <=> HasFailed(n)
  BY DEF Collect, workerVars, HasFailed
<1>2. \A n \in targets : Attempt(n)' = Attempt(n)
  BY <1>1 DEF Collect, workerVars, Attempt, IsAt
<1> QED
  BY <1>2, Stutters DEF Collect, inputVars, workerVars, Report, Unchanged

LEMMA ReceiveStutters ==
  ASSUME TypeOK, IInv, NEW w \in WorkerIds, Receive(w)
  PROVE  UNCHANGED NW!vars
<1>1. CASE jobs = {} /\ at' = [at EXCEPT ![w] = "done"] /\ UNCHANGED <<jobs, ns>>
  <2>1. ASSUME NEW n \in targets, NEW s \in InHand PROVE IsAt(n, s)' <=> IsAt(n, s)
    BY <1>1 DEF Receive, IsAt, InHand, TypeOK
  <2>2. ASSUME NEW n \in targets PROVE HasFailed(n)' <=> HasFailed(n)
    BY <1>1 DEF Receive, callerVars, HasFailed, TypeOK
  <2>3. \A n \in targets : Attempt(n)' = Attempt(n)
    BY <1>1, <2>1, <2>2 DEF Receive, callerVars, Attempt, InHand
  <2>4. Unchanged' = Unchanged
    BY <1>1 DEF Receive, inputVars, Unchanged, TypeOK
  <2> QED
    BY <2>3, <2>4, Stutters DEF Receive, inputVars, callerVars, Report
<1>2. ASSUME NEW n \in jobs, jobs' = jobs \ {n}, ns' = [ns EXCEPT ![w] = n],
             at' = [at EXCEPT ![w] = "get"]
      PROVE  UNCHANGED NW!vars
  <2>1. ns'[w] = n /\ at'[w] = "get" /\ n \in targets
    BY <1>2 DEF TypeOK
  <2>2. \A v \in WorkerIds : v # w => ns'[v] = ns[v] /\ at'[v] = at[v]
    BY <1>2 DEF TypeOK
  <2>3. at[w] = "receive" /\ UNCHANGED <<targets, unfed, results, failureMsgs, reason, fresh>>
    BY DEF Receive, inputVars, callerVars
  <2>4. Attempt(n) = "get" /\ Attempt(n)' = "get"
    BY <1>2, <2>1 DEF Attempt, IsAt
  <2>5. ASSUME NEW m \in targets, m # n PROVE Attempt(m)' = Attempt(m)
    <3>1. \A s \in InHand : IsAt(m, s)' <=> IsAt(m, s)
      BY <2>1, <2>2, <2>3, <2>5 DEF IsAt, InHand
    <3>2. HasFailed(m)' <=> HasFailed(m)
      BY <2>1, <2>2, <2>3, <2>5 DEF HasFailed
    <3> QED
      BY <1>2, <2>3, <2>5, <3>1, <3>2 DEF Attempt, InHand
  <2>6. Unchanged' = Unchanged
    BY <2>1, <2>2, <2>3 DEF Unchanged
  <2> QED
    BY <2>4, <2>5, <2>6, Stutters DEF Receive, inputVars, callerVars, Report
<1> QED
  BY <1>1, <1>2 DEF Receive

LEMMA SendStutters ==
  ASSUME TypeOK, IInv, NEW w \in WorkerIds, Send(w)
  PROVE  UNCHANGED NW!vars
<1> DEFINE n == ns[w]
           res == [ns |-> ns[w], reason |-> reason[w]]
<1>1. /\ at[w] = "send" /\ at'[w] = "receive" /\ ns'[w] = None
      /\ results' = results \cup {res} /\ res \in results'
      /\ res.ns = n /\ res.reason = reason[w]
      /\ UNCHANGED <<targets, unfed, jobs, failureMsgs, fresh>>
  BY DEF Send, inputVars, callerVars, TypeOK
<1>2. \A v \in WorkerIds : v # w => ns'[v] = ns[v] /\ at'[v] = at[v] /\ reason'[v] = reason[v]
  BY DEF Send, TypeOK
<1>3. ASSUME NEW m \in targets PROVE HasFailed(m)' <=> HasFailed(m)
  BY <1>1, <1>2 DEF HasFailed
<1>4. ASSUME NEW m \in targets, NEW s \in {"get", "create", "update"}
      PROVE  IsAt(m, s)' <=> IsAt(m, s)
  BY <1>1, <1>2 DEF IsAt
<1>5. \A m \in targets : Attempt(m)' = Attempt(m)
  BY <1>1, <1>3, <1>4 DEF Attempt
<1>6. Unchanged' = Unchanged
  BY <1>1, <1>2 DEF Unchanged
<1> QED
  BY <1>5, <1>6, Stutters DEF Send, inputVars, callerVars, Report
-----------------------------------------------------------------------------
\* A Get is a Read of the namespace in hand.
LEMMA GetReads ==
  ASSUME TypeOK, IInv, NEW w \in WorkerIds, Get(w)
  PROVE  NW!Next
<1> DEFINE n == ns[w]
<1>1. /\ at[w] = "get" /\ at[w] \in InHand /\ n \in targets /\ n \in Namespaces
      /\ Attempts[n] = "get"
  BY Solo, SeenInHand DEF Get, Attempts, Seen, InHand, TypeOK
<1>2. UNCHANGED <<targets, unfed, jobs, results, failureMsgs, ns, dests>> /\ Report' = Report
  BY DEF Get, inputVars, callerVars, chanVars, Report
<1>3. ASSUME NEW a \in InHand, NEW rsn, at' = [at EXCEPT ![w] = a],
             reason' = [reason EXCEPT ![w] = rsn]
      PROVE  Attempts' = [Attempts EXCEPT ![n] = Seen(a, rsn)]
  BY <1>1, <1>2, <1>3, OwnAttempt
<1>4. UNCHANGED reason => reason' = [reason EXCEPT ![w] = reason[w]]
  BY DEF TypeOK
<1>5. ASSUME NEW a \in InHand, at' = [at EXCEPT ![w] = a], a # "update", UNCHANGED fresh
      PROVE  Unchanged' = Unchanged
  BY <1>1, <1>2, <1>5 DEF Unchanged, TypeOK
<1>6. ASSUME NEW rsn \in FailureReasons, Outcome(w, rsn), UNCHANGED fresh
      PROVE  NW!Read(n)
  <2>1. Attempts' = [Attempts EXCEPT ![n] = "failed"]
    BY <1>3, <1>6, NoneAssumption DEF Outcome, InHand, Seen
  <2>2. Unchanged' = Unchanged
    BY <1>5, <1>6 DEF Outcome, InHand
  <2> QED
    BY <1>1, <1>2, <2>1, <2>2 DEF NW!Read
<1>7. CASE dests[n] = "absent" /\ at' = [at EXCEPT ![w] = "create"] /\ UNCHANGED <<reason, fresh>>
  <2>1. Attempts' = [Attempts EXCEPT ![n] = "create"]
    <3>1. "create" \in InHand /\ Seen("create", reason[w]) = "create"
      BY DEF InHand, Seen
    <3>2. Attempts' = [Attempts EXCEPT ![n] = Seen("create", reason[w])]
      BY <1>3, <1>4, <1>7, <3>1
    <3> QED
      BY <3>1, <3>2
  <2>2. Unchanged' = Unchanged
    BY <1>5, <1>7 DEF InHand
  <2>3. NW!Read(n)
    BY <1>1, <1>2, <1>7, <2>1, <2>2 DEF NW!Read
  <2> QED
    BY <1>1, <2>3 DEF NW!Next
<1>8. CASE dests[n] = "current" /\ Outcome(w, None) /\ UNCHANGED fresh
  <2>1. Attempts' = [Attempts EXCEPT ![n] = "written"]
    BY <1>3, <1>8 DEF Outcome, InHand, Seen
  <2>2. Unchanged' = Unchanged
    BY <1>5, <1>8 DEF Outcome, InHand
  <2>3. NW!Read(n)
    BY <1>1, <1>2, <1>8, <2>1, <2>2 DEF NW!Read
  <2> QED
    BY <1>1, <2>3 DEF NW!Next
<1>9. CASE /\ dests[n] = "stale" /\ at' = [at EXCEPT ![w] = "update"]
           /\ fresh' = [fresh EXCEPT ![w] = TRUE] /\ UNCHANGED reason
  <2>1. Attempts' = [Attempts EXCEPT ![n] = "update"]
    <3>1. "update" \in InHand /\ Seen("update", reason[w]) = "update"
      BY DEF InHand, Seen
    <3>2. Attempts' = [Attempts EXCEPT ![n] = Seen("update", reason[w])]
      BY <1>3, <1>4, <1>9, <3>1
    <3> QED
      BY <3>1, <3>2
  <2>2. Unchanged' = Unchanged \cup {n}
    BY <1>1, <1>2, <1>9 DEF Unchanged, TypeOK
  <2>3. NW!Read(n)
    BY <1>1, <1>2, <1>9, <2>1, <2>2 DEF NW!Read
  <2> QED
    BY <1>1, <2>3 DEF NW!Next
<1>10. \/ \E rsn \in FailureReasons : Outcome(w, rsn) /\ UNCHANGED fresh
       \/ dests[n] = "absent" /\ at' = [at EXCEPT ![w] = "create"] /\ UNCHANGED <<reason, fresh>>
       \/ dests[n] = "current" /\ Outcome(w, None) /\ UNCHANGED fresh
       \/ /\ dests[n] = "stale" /\ at' = [at EXCEPT ![w] = "update"]
          /\ fresh' = [fresh EXCEPT ![w] = TRUE] /\ UNCHANGED reason
  BY DEF Get, FailureReasons
<1> QED
  BY <1>1, <1>6, <1>7, <1>8, <1>9, <1>10 DEF NW!Next

\* A Create or an Update is a Store, or a Fail, of the namespace in hand.
LEMMA WriteStores ==
  ASSUME TypeOK, IInv, NEW w \in WorkerIds, Write(w)
  PROVE  NW!Next
<1> DEFINE n == ns[w]
<1>1. /\ at[w] \in {"create", "update"} /\ at[w] \in InHand
      /\ n \in targets /\ n \in Namespaces /\ Attempts[n] = at[w]
  BY Solo, SeenInHand DEF Write, Attempts, Seen, InHand, TypeOK
<1>2. UNCHANGED <<targets, unfed, jobs, results, failureMsgs, ns>> /\ Report' = Report
  BY DEF Write, inputVars, callerVars, chanVars, Report
<1>3. ASSUME NEW rsn, Outcome(w, rsn)
      PROVE  Attempts' = [Attempts EXCEPT ![n] = IF rsn = None THEN "written" ELSE "failed"]
  BY <1>1, <1>2, <1>3, OwnAttempt DEF Outcome, InHand, Seen
<1>4. Unchanged' = Unchanged \ {n}
  <2>1. at'[w] = "send" /\ \A v \in WorkerIds : v # w => at'[v] = at[v] /\ fresh'[v] = fresh[v]
    BY DEF Write, Outcome, TypeOK
  <2>2. \A v \in WorkerIds : at[v] \in InHand /\ ns[v] = n => v = w
    BY <1>1, Solo
  <2> QED
    BY <1>1, <1>2, <2>1, <2>2 DEF Unchanged, InHand
<1>5. Failure(w) # None
  BY NoneAssumption DEF Failure, FailureReasons
<1>6. CASE /\ Accepted(w) /\ dests' = [dests EXCEPT ![n] = "current"]
           /\ Outcome(w, None) \/ Outcome(w, Failure(w))
  <2>1. \E s \in {"written", "failed"} : Attempts' = [Attempts EXCEPT ![n] = s]
    BY <1>3, <1>5, <1>6
  <2>2. \/ Attempts[n] = "create" /\ dests[n] = "absent"
        \/ Attempts[n] = "update" /\ n \in Unchanged
    BY <1>1, <1>6 DEF Accepted, Unchanged
  <2>3. NW!Store(n)
    BY <1>2, <1>4, <1>6, <2>1, <2>2 DEF NW!Store
  <2> QED
    BY <1>1, <2>3 DEF NW!Next
<1>7. CASE UNCHANGED dests /\ Outcome(w, Failure(w))
  <2>1. Attempts' = [Attempts EXCEPT ![n] = "failed"]
    BY <1>3, <1>5, <1>7
  <2>2. NW!Fail(n)
    BY <1>1, <1>2, <1>4, <1>7, <2>1 DEF NW!Fail
  <2> QED
    BY <1>1, <2>2 DEF NW!Next
<1> QED
  BY <1>6, <1>7 DEF Write

\* A user's step is a Touch.
LEMMA UserTouchesTouch ==
  ASSUME TypeOK, IInv, NEW n \in Namespaces, UserTouches(n)
  PROVE  NW!Next
<1>1. UNCHANGED <<targets, unfed, jobs, results, failureMsgs, at, ns, reason>> /\ Report' = Report
  BY DEF UserTouches, inputVars, callerVars, chanVars, Report
<1>2. Attempts' = Attempts
  BY <1>1 DEF Attempts, Attempt, IsAt, HasFailed
<1>3. Unchanged' = Unchanged \ {n}
  BY <1>1 DEF UserTouches, Unchanged
<1>4. NW!Touch(n)
  BY <1>1, <1>2, <1>3 DEF UserTouches, NW!Touch
<1> QED
  BY <1>4 DEF NW!Next

\* When fanOut returns nothing is waiting, in hand or on its way, so the failures
\* it names are all of them and the rest of the targets is what it counted.
LEMMA ReturnReports ==
  ASSUME TypeOK, IInv, IInv', Return
  PROVE  NW!Next
<1>1. /\ unfed = {} /\ jobs = {} /\ results = {} /\ pc = "collect" /\ pc' = "return"
      /\ UNCHANGED <<targets, unfed, jobs, results, written, failed, failureMsgs, at, ns,
                     reason, fresh, dests>>
  BY DEF Return, inputVars, chanVars, workerVars, IInv, CallerInv
<1>2. \A w \in WorkerIds : at[w] = "done"
  BY <1>1 DEF Return, IInv, CallerInv, PoolInv
<1>3. ASSUME NEW n \in targets
      PROVE  Attempts[n] = IF n \in failureMsgs THEN "failed" ELSE "written"
  BY <1>1, <1>2 DEF Attempts, Attempt, IsAt, HasFailed
<1>4. NW!Ended("failed") = failureMsgs /\ NW!Ended("written") = targets \ failureMsgs
  BY <1>3 DEF NW!Ended, TypeOK
<1>5. Cardinality(targets \ failureMsgs) = written
  <2>1. Busy = {}
    BY <1>2, PoolFacts DEF Busy
  <2>2. Cardinality(targets) = written + failed
    BY <1>1, <2>1, FS_EmptySet DEF IInv, OnePlace, Complete, TypeOK
  <2>3. /\ IsFiniteSet(targets) /\ targets \cap failureMsgs = failureMsgs
        /\ failed = Cardinality(failureMsgs)
    BY PoolFacts DEF TypeOK, IInv, FailureInv
  <2>4. Cardinality(targets \ failureMsgs)
          = Cardinality(targets) - Cardinality(targets \cap failureMsgs)
    BY <2>3, FS_Difference
  <2>5. Cardinality(targets \ failureMsgs) = (written + failed) - failed
    BY <2>2, <2>3, <2>4, Zenon
  <2>6. written \in Nat /\ failed \in Nat
    BY DEF TypeOK
  <2> QED
    BY <2>5, <2>6
<1>6. UNCHANGED <<Attempts, Unchanged>>
  BY <1>1 DEF Attempts, Attempt, IsAt, HasFailed, Unchanged
<1>7. Report = None /\ Report' = [written |-> written, failed |-> failureMsgs]
  BY <1>1 DEF Report
<1>8. targets = NW!Ended("written") \cup NW!Ended("failed")
  BY <1>4 DEF TypeOK
<1>9. Report' = [written |-> Cardinality(NW!Ended("written")), failed |-> NW!Ended("failed")]
  BY <1>4, <1>5, <1>7, Zenon
<1>10. NW!Cardinality(NW!Ended("written")) = Cardinality(NW!Ended("written"))
  BY DEF NW!Cardinality, Cardinality
<1>11. NW!Report
  BY <1>1, <1>6, <1>7, <1>8, <1>9, <1>10 DEF NW!Report
<1> QED
  BY <1>11 DEF NW!Next

\* A fan-out starts with every target to be attempted.
LEMMA InitWrites == Init => NW!Init
<1> SUFFICES ASSUME Init PROVE NW!Init
  OBVIOUS
<1>1. TypeOK
  BY InitType
<1>2. Attempts = [n \in targets |-> "get"]
  BY DEF Init, Attempts, Attempt
<1>3. Unchanged = {}
  BY DEF Init, Unchanged
<1>4. Report = IF targets = {} THEN [written |-> 0, failed |-> {}] ELSE None
  BY DEF Init, Report
<1> QED
  BY <1>1, <1>2, <1>3, <1>4 DEF NW!Init, TypeOK, DestStates

\* fanOut with its feeder, workers, closer and collector implements
\* NamespaceWrites, whatever the size of the pool: every target is attempted once
\* and by itself, and the report is exact and comes last.
THEOREM PoolIndependent == Spec => Independent
<1>1. TypeOK /\ IInv /\ IInv' /\ [Next]_vars => [NW!Next]_NW!vars
  <2> SUFFICES ASSUME TypeOK, IInv, IInv', [Next]_vars PROVE [NW!Next]_NW!vars
    OBVIOUS
  <2>1. CASE UNCHANGED vars
    BY <2>1 DEF vars, inputVars, callerVars, chanVars, workerVars, NW!vars, Attempts,
       Attempt, IsAt, HasFailed, Unchanged, Report
  <2>2. CASE \E n \in Namespaces : Feed(n) \/ UserTouches(n)
    BY <2>2, FeedStutters, UserTouchesTouch
  <2>3. CASE CloseJobs \/ CloseResults \/ Return
    BY <2>3, CloseStutters, ReturnReports
  <2>4. CASE \E res \in results : Collect(res)
    BY <2>4, CollectStutters
  <2>5. CASE \E w \in WorkerIds : Worker(w)
    BY <2>5, ReceiveStutters, GetReads, WriteStores, SendStutters DEF Worker
  <2> QED
    BY <2>1, <2>2, <2>3, <2>4, <2>5 DEF Next
<1> QED
  BY <1>1, InitWrites, TypeCorrect, Invariance, PTL DEF Spec, Independent, NW!Spec
=============================================================================
