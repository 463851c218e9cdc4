------------------------------- MODULE FanOut -------------------------------
(***************************************************************************)
(* One fan-out of a ClusterProjection: the worker pool of fanOut and the   *)
(* per-namespace write of writeClusterDestination, while users touch the   *)
(* same destinations.                                                      *)
(*                                                                         *)
(* The feeder, the workers, the goroutine that closes the results channel  *)
(* and the collector run concurrently.  Both channels have room for every  *)
(* target (make(chan, len(targets))), so no send blocks; they are sets     *)
(* here, as no result depends on their order and the targets are distinct  *)
(* (listType=set, or names from a List).                                   *)
(*                                                                         *)
(* A destination is "absent", "current" (ours, nothing to update),         *)
(* "stale" (ours, needsUpdate) or "foreign" (not isOwnedByCluster).        *)
(*                                                                         *)
(* A definition X_y next to X is X with a plausible mistake; no behaviour  *)
(* uses it.  Each shows that some property below can fail.                 *)
(***************************************************************************)
EXTENDS Integers, FiniteSets

CONSTANTS
  Namespaces,   \* namespaces that may be targeted
  Settings,     \* values of SelectorWriteConcurrency; 0 when it is not set
  Starts,       \* targets, setting and destinations a fan-out may start from
  None,         \* no namespace, no failure reason
  MaxUserSteps, \* bound on the steps of users
  MaxFaults     \* bound on failed requests

ASSUME SettingsAssumption == Settings \subseteq Int
ASSUME NamespacesAssumption == IsFiniteSet(Namespaces) /\ None \notin Namespaces
ASSUME BoundsAssumption == MaxUserSteps \in Nat /\ MaxFaults \in Nat

DestStates == {"absent", "current", "stale", "foreign"}
FailureReasons == {"DestinationCreateFailed", "DestinationFetchFailed",
                   "DestinationConflict", "DestinationUpdateFailed"}
Reasons == FailureReasons \cup {None}

ASSUME NoneAssumption == None \notin FailureReasons

ASSUME StartsAssumption ==
  Starts \subseteq [targets : SUBSET Namespaces, setting : Settings,
                    dests : [Namespaces -> DestStates]]

\* Goroutine numbers; only the first concurrency of them are started.
WorkerIds == 1 .. Cardinality(Namespaces)

VARIABLES
  targets,       \* the resolved target namespaces
  setting,       \* r.SelectorWriteConcurrency
  pc,            \* the calling goroutine: "feed", "collect" or "return"
  unfed,         \* targets not yet sent to jobs
  jobs,          \* the jobs channel
  jobsClosed,
  at,            \* per worker, where it is
  ns,            \* per worker, the namespace it writes to
  reason,        \* per worker, the outcome it will send
  results,       \* the results channel: [ns, reason]
  resultsClosed,
  written, failed, failureMsgs, \* the collector's rollup
  dests,         \* the destinations
  fresh,         \* per worker, whether the object it read is still stored
  touched,       \* namespaces whose destination users changed meanwhile
  userSteps, faults

callerVars == <<pc, unfed, written, failed, failureMsgs>>
chanVars == <<jobs, jobsClosed, results, resultsClosed>>
workerVars == <<at, ns, reason, fresh>>
inputVars == <<targets, setting>>
envVars == <<touched, userSteps>>
vars == <<inputVars, callerVars, chanVars, workerVars, dests, envVars, faults>>

TypeOK ==
  /\ targets \subseteq Namespaces
  /\ setting \in Settings
  /\ pc \in {"feed", "collect", "return"}
  /\ unfed \subseteq targets
  /\ jobs \subseteq targets
  /\ jobsClosed \in BOOLEAN
  /\ at \in [WorkerIds -> {"receive", "get", "create", "update", "send", "done"}]
  /\ ns \in [WorkerIds -> Namespaces \cup {None}]
  /\ reason \in [WorkerIds -> Reasons]
  /\ \A w \in WorkerIds : at[w] \notin {"receive", "done"} => ns[w] \in targets
  /\ fresh \in [WorkerIds -> BOOLEAN]
  /\ results \subseteq [ns : targets, reason : Reasons]
  /\ resultsClosed \in BOOLEAN
  /\ written \in Nat /\ failed \in Nat
  /\ failureMsgs \subseteq targets
  /\ dests \in [Namespaces -> DestStates]
  /\ touched \subseteq Namespaces
  /\ userSteps \in 0 .. MaxUserSteps
  /\ faults \in 0 .. MaxFaults

\* The pool: 16 by default, never more workers than targets.
PoolSize_NoDefault(s, n) == IF s > n THEN n ELSE s
PoolSize_Unlimited(s, n) == n
PoolSize(s, n) ==
  LET size == IF s <= 0 THEN 16 ELSE s
  IN  IF size > n THEN n ELSE size

concurrency == PoolSize(setting, Cardinality(targets))
Workers == 1 .. concurrency
Busy == {w \in Workers : at[w] \notin {"receive", "done"}}

Init ==
  /\ \E s \in Starts :
       targets = s.targets /\ setting = s.setting /\ dests = s.dests
  /\ pc = IF targets = {} THEN "return" ELSE "feed"
  /\ unfed = targets
  /\ jobs = {} /\ jobsClosed = FALSE
  /\ at = [w \in WorkerIds |-> IF w \in Workers THEN "receive" ELSE "done"]
  /\ ns = [w \in WorkerIds |-> None]
  /\ reason = [w \in WorkerIds |-> None]
  /\ fresh = [w \in WorkerIds |-> FALSE]
  /\ results = {} /\ resultsClosed = FALSE
  /\ written = 0 /\ failed = 0 /\ failureMsgs = {}
  /\ touched = {}
  /\ userSteps = 0 /\ faults = 0
-----------------------------------------------------------------------------
(* The calling goroutine.                                                  *)

\* jobs <- ns, for every target.
Feed(n) ==
  /\ pc = "feed"
  /\ n \in unfed
  /\ unfed' = unfed \ {n}
  /\ jobs' = jobs \cup {n}
  /\ UNCHANGED <<inputVars, pc, written, failed, failureMsgs, jobsClosed,
                 results, resultsClosed, workerVars, dests, envVars, faults>>

\* close(jobs): the workers' range loops end once the channel is empty.
CloseJobs_Forgotten ==
  /\ pc = "feed" /\ unfed = {}
  /\ pc' = "collect"
  /\ UNCHANGED <<inputVars, unfed, written, failed, failureMsgs, chanVars,
                 workerVars, dests, envVars, faults>>

CloseJobs ==
  /\ pc = "feed"
  /\ unfed = {}
  /\ pc' = "collect"
  /\ jobsClosed' = TRUE
  /\ UNCHANGED <<inputVars, unfed, written, failed, failureMsgs, jobs, results,
                 resultsClosed, workerVars, dests, envVars, faults>>

\* One iteration of the loop over the results.
Collect(res) ==
  /\ pc = "collect"
  /\ res \in results
  /\ results' = results \ {res}
  /\ IF res.reason = None
     THEN written' = written + 1 /\ UNCHANGED <<failed, failureMsgs>>
     ELSE /\ failed' = failed + 1
          /\ failureMsgs' = failureMsgs \cup {res.ns}
          /\ UNCHANGED written
  /\ UNCHANGED <<inputVars, pc, unfed, jobs, jobsClosed, resultsClosed,
                 workerVars, dests, envVars, faults>>

Return ==
  /\ pc = "collect"
  /\ resultsClosed
  /\ results = {}
  /\ pc' = "return"
  /\ UNCHANGED <<inputVars, unfed, written, failed, failureMsgs, chanVars,
                 workerVars, dests, envVars, faults>>

\* The goroutine that waits for the workers and closes the results.
CloseResults_NoWait ==
  /\ pc = "collect"
  /\ ~resultsClosed
  /\ jobs = {}
  /\ resultsClosed' = TRUE
  /\ UNCHANGED <<inputVars, callerVars, jobs, jobsClosed, results, workerVars,
                 dests, envVars, faults>>

CloseResults ==
  /\ pc = "collect"
  /\ ~resultsClosed
  /\ \A w \in Workers : at[w] = "done"
  /\ resultsClosed' = TRUE
  /\ UNCHANGED <<inputVars, callerVars, jobs, jobsClosed, results, workerVars,
                 dests, envVars, faults>>
-----------------------------------------------------------------------------
(* A worker: for ns := range jobs, write, send the result.                 *)

Receive_IgnoresClose(w) ==
  /\ at[w] = "receive"
  /\ \E n \in jobs \cup (IF jobs = {} /\ jobsClosed THEN {None} ELSE {}) :
       /\ jobs' = jobs \ {n}
       /\ ns' = [ns EXCEPT ![w] = n]
       /\ at' = [at EXCEPT ![w] = "get"]
  /\ UNCHANGED <<inputVars, callerVars, jobsClosed, results, resultsClosed,
                 reason, fresh, dests, envVars, faults>>

Receive(w) ==
  /\ at[w] = "receive"
  /\ \/ \E n \in jobs :
          /\ jobs' = jobs \ {n}
          /\ ns' = [ns EXCEPT ![w] = n]
          /\ at' = [at EXCEPT ![w] = "get"]
     \/ /\ jobs = {} /\ jobsClosed
        /\ at' = [at EXCEPT ![w] = "done"]
        /\ UNCHANGED <<jobs, ns>>
  /\ UNCHANGED <<inputVars, callerVars, jobsClosed, results, resultsClosed,
                 reason, fresh, dests, envVars, faults>>

Fault == faults < MaxFaults /\ faults' = faults + 1

\* The write is over; rsn is what writeClusterDestination returns.
Outcome(w, rsn) ==
  /\ at' = [at EXCEPT ![w] = "send"]
  /\ reason' = [reason EXCEPT ![w] = rsn]

\* Get the destination: create it, refuse it, leave it, or update it.
Get(w) ==
  /\ at[w] = "get"
  /\ \/ /\ Fault
        /\ Outcome(w, "DestinationFetchFailed")
        /\ UNCHANGED fresh
     \/ /\ UNCHANGED faults
        /\ \/ /\ dests[ns[w]] = "absent"
              /\ at' = [at EXCEPT ![w] = "create"]
              /\ UNCHANGED <<reason, fresh>>
           \/ /\ dests[ns[w]] = "foreign"
              /\ Outcome(w, "DestinationConflict")
              /\ UNCHANGED fresh
           \/ /\ dests[ns[w]] = "current"
              /\ Outcome(w, None)
              /\ UNCHANGED fresh
           \/ /\ dests[ns[w]] = "stale"
              /\ at' = [at EXCEPT ![w] = "update"]
              /\ fresh' = [fresh EXCEPT ![w] = TRUE]
              /\ UNCHANGED reason
  /\ UNCHANGED <<inputVars, callerVars, chanVars, ns, dests, envVars>>

\* The Create takes effect if the name is free, the Update if the version that
\* was read is still stored; a failed request may have taken effect.
Accepted_AnyVersion(w) == dests[ns[w]] = "absent" <=> at[w] = "create"
Accepted(w) ==
  IF at[w] = "create" THEN dests[ns[w]] = "absent" ELSE fresh[w]

\* The reason that goes to the rollup with a failed request.
Failure_Dropped(w) == None
Failure(w) ==
  IF at[w] = "create" THEN "DestinationCreateFailed" ELSE "DestinationUpdateFailed"

Write(w) ==
  /\ at[w] \in {"create", "update"}
  /\ \/ /\ Accepted(w)
        /\ dests' = [dests EXCEPT ![ns[w]] = "current"]
        /\ \/ Outcome(w, None) /\ UNCHANGED faults
           \/ Outcome(w, Failure(w)) /\ Fault
     \/ /\ UNCHANGED dests
        /\ Outcome(w, Failure(w))
        /\ IF Accepted(w) THEN Fault ELSE UNCHANGED faults
  /\ fresh' = [fresh EXCEPT ![w] = FALSE]
  /\ UNCHANGED <<inputVars, callerVars, chanVars, ns, envVars>>

\* results <- result{...}; a send on a closed channel panics.
Send_Retries(w) ==
  /\ at[w] = "send"
  /\ results' = results \cup {[ns |-> ns[w], reason |-> reason[w]]}
  /\ jobs' = IF reason[w] = None THEN jobs ELSE jobs \cup {ns[w]}
  /\ at' = [at EXCEPT ![w] = "receive"]
  /\ ns' = [ns EXCEPT ![w] = None]
  /\ reason' = [reason EXCEPT ![w] = None]
  /\ UNCHANGED <<inputVars, callerVars, jobsClosed, resultsClosed, fresh,
                 dests, envVars, faults>>

Send(w) ==
  /\ at[w] = "send"
  /\ results' = results \cup {[ns |-> ns[w], reason |-> reason[w]]}
  /\ at' = [at EXCEPT ![w] = "receive"]
  /\ ns' = [ns EXCEPT ![w] = None]
  /\ reason' = [reason EXCEPT ![w] = None]
  /\ UNCHANGED <<inputVars, callerVars, jobs, jobsClosed, resultsClosed, fresh,
                 dests, envVars, faults>>

Worker(w) == Receive(w) \/ Get(w) \/ Write(w) \/ Send(w)

\* Users delete, edit, take over or create the object in n.
UserTouches(n) ==
  /\ userSteps < MaxUserSteps
  /\ userSteps' = userSteps + 1
  /\ \E d \in {"absent", "stale", "foreign"} :
       /\ dests[n] = "absent" => d = "foreign"
       /\ dests[n] = "foreign" => d # "stale"
       /\ dests' = [dests EXCEPT ![n] = d]
  /\ touched' = touched \cup {n}
  /\ fresh' = [w \in WorkerIds |-> fresh[w] /\ ns[w] # n]
  /\ UNCHANGED <<inputVars, callerVars, chanVars, at, ns, reason, faults>>

Next ==
  \/ \E n \in Namespaces : Feed(n) \/ UserTouches(n)
  \/ CloseJobs
  \/ \E res \in results : Collect(res)
  \/ Return
  \/ CloseResults
  \/ \E w \in WorkerIds : Worker(w)

\* Go schedules every goroutine that can run; requests end (they have a
\* deadline).  Users are never forced.
Fairness ==
  /\ WF_vars((\E n \in Namespaces : Feed(n)) \/ CloseJobs
             \/ (\E res \in results : Collect(res)) \/ Return)
  /\ WF_vars(CloseResults)
  /\ \A w \in WorkerIds : WF_vars(Worker(w))

Spec == Init /\ [][Next]_vars

FairSpec == Spec /\ Fairness
-----------------------------------------------------------------------------
Reported == {res.ns : res \in results}

\* No target is in two places.
Apart ==
  /\ unfed \cap jobs = {}
  /\ \A w \in Busy : ns[w] \in targets \ (unfed \cup jobs \cup Reported \cup failureMsgs)
  /\ \A v, w \in Busy : v # w => ns[v] # ns[w]
  /\ \A r1, r2 \in results : r1.ns = r2.ns => r1 = r2
  /\ Reported \cap (unfed \cup jobs \cup failureMsgs) = {}

\* The places together have all of them.
Complete ==
  Cardinality(targets) = Cardinality(unfed) + Cardinality(jobs)
    + Cardinality(Busy) + Cardinality(results) + written + failed

\* Every target is in exactly one place: not yet fed, queued, with one worker,
\* reported, or counted.  No namespace is lost or written by two workers.
OnePlace == Apart /\ Complete

\* What fanOut returns is the whole truth about this fan-out: the counts cover
\* every target, each failure is named, and a namespace that is not named and
\* that nobody touched holds the current mirror, whether the pool size is set,
\* left at 0, or larger than the number of targets.
Accounted ==
  pc = "return" =>
    /\ written + failed = Cardinality(targets)
    /\ failed = Cardinality(failureMsgs)
    /\ \A n \in targets \ (failureMsgs \cup touched) : dests[n] = "current"

\* The results channel is closed only when no worker can send to it any more.
NoSendAfterClose == resultsClosed => Busy = {} /\ jobs = {} /\ jobsClosed

\* At most SelectorWriteConcurrency (by default 16) writes are in flight.
Capped == Cardinality(Busy) <= (IF setting <= 0 THEN 16 ELSE setting)

\* Workers check and write in two requests; still none of them overwrites an
\* object that is somebody else's by the time the write takes effect.
NeverClobbers ==
  [][\A n \in Namespaces :
       dests'[n] # dests[n] /\ userSteps' = userSteps
       => dests[n] # "foreign" /\ dests'[n] = "current"]_vars

\* A fan-out ends: nobody waits for a job or a result that never comes.
Terminates == <>(pc = "return")
-----------------------------------------------------------------------------
(* The pool, seen from outside.                                            *)

\* How far target n is: with a worker, on its way back, counted, or waiting.
HasFailed(n) ==
  \/ n \in failureMsgs
  \/ \E res \in results : res.ns = n /\ res.reason # None
  \/ \E w \in WorkerIds : ns[w] = n /\ at[w] = "send" /\ reason[w] # None
IsAt(n, s) == \E w \in WorkerIds : ns[w] = n /\ at[w] = s
Attempt(n) ==
  IF n \in unfed \cup jobs \/ IsAt(n, "get") THEN "get"
  ELSE IF IsAt(n, "create") THEN "create"
  ELSE IF IsAt(n, "update") THEN "update"
  ELSE IF HasFailed(n) THEN "failed"
  ELSE "written"

Attempts == [n \in targets |-> Attempt(n)]
Unchanged ==
  {n \in targets : \E w \in WorkerIds : fresh[w] /\ ns[w] = n /\ at[w] = "update"}
Report ==
  IF pc # "return" THEN None ELSE [written |-> written, failed |-> failureMsgs]

NW == INSTANCE NamespaceWrites WITH
        NoReport <- None, attempt <- Attempts, unchanged <- Unchanged, report <- Report

\* The pool does what ClusterProjectionController assumes of it (run.at): every
\* target is attempted once and independently of the others, whoever of the
\* workers takes it, and the caller is told how all of them ended, after the
\* last one has.
Independent == NW!Spec
-----------------------------------------------------------------------------
(* What makes OnePlace, Accounted, NoSendAfterClose and NeverClobbers      *)
(* inductive.                                                              *)

\* Only the workers of the pool run; one that has left its loop saw the jobs
\* closed and empty.
PoolInv ==
  \A w \in WorkerIds : at[w] # "done" => w \in Workers
LoopInv ==
  \A w \in Workers : at[w] = "done" => jobs = {} /\ jobsClosed

\* How far the calling goroutine is, and what is over by then.
CallerInv ==
  /\ pc = "feed" => ~jobsClosed /\ ~resultsClosed
  /\ pc = "collect" => jobsClosed
  /\ pc # "return" \/ resultsClosed => targets # {}
  /\ pc # "feed" => unfed = {}
  /\ pc = "return" => jobs = {} /\ results = {}
  /\ resultsClosed \/ pc = "return" => \A w \in Workers : at[w] = "done"

\* A target that is waiting has not failed yet, and failures are counted once.
FailureInv ==
  /\ failureMsgs \cap (unfed \cup jobs) = {}
  /\ failed = Cardinality(failureMsgs)

\* An Update that will be accepted meets the stale copy that was read.
FreshInv ==
  \A w \in WorkerIds : at[w] = "update" /\ fresh[w] => dests[ns[w]] = "stale"

\* n is still to be written, or its failure is on its way to the rollup.
Pending(n) ==
  \/ n \in unfed \cup jobs \cup failureMsgs
  \/ \E w \in Busy : ns[w] = n /\ (at[w] = "send" => reason[w] # None)
  \/ \E res \in results : res.ns = n /\ res.reason # None

\* No namespace falls out of the pool without its copy or a failure.
MirrorInv ==
  \A n \in targets \ touched : dests[n] = "current" \/ Pending(n)

\* The inductive invariant of the pool: who is where, what has been seen closed,
\* and that every target is current, pending or touched by a user.
IInv ==
  /\ OnePlace
  /\ PoolInv
  /\ LoopInv
  /\ CallerInv
  /\ FailureInv
  /\ FreshInv
  /\ MirrorInv
=============================================================================
