----------------------------- MODULE RuleRunner -----------------------------
(***************************************************************************)
(* Runner.Evaluate of src/internal/rules/runner.go: the calling goroutine, *)
(* its pool of worker goroutines, the unbuffered channel "jobs", the       *)
(* channel "results" buffered to the number of rules, the WaitGroup, and a *)
(* context that may be cancelled at any moment (--timeout).                *)
(*                                                                         *)
(* Thread 0 is the caller: it runs evaluateSequential itself, or drives    *)
(* the workers 1, 2, ... of evaluateParallel.  The WaitGroup's counter is  *)
(* kept as the set of the workers that hold it up.                         *)
(***************************************************************************)
EXTENDS RuleOperators

CONSTANT Parallelism   \* the runner's maximum number of concurrent rules

ASSUME ParallelismAssumption == Parallelism \in Nat \ {0}

VARIABLES
    selection,    \* the Selection argument
    verdict,      \* what each rule does when it is left to finish
    ctx,          \* "live" or "done"
    pc,           \* where the caller is
    pending,      \* the selected rules that are not handed out yet
    thread,       \* what each thread is doing
    job,          \* the result each thread is working on
    waitGroup,    \* the workers wg.Wait still waits for
    jobsOpen,     \* close(jobs) has not happened
    resultsOpen,  \* close(results) has not happened
    results,      \* the buffer of "results", or evaluateSequential's slice
    report        \* the Result returned

input == <<selection, verdict>>
channels == <<jobsOpen, resultsOpen>>
pool == <<pending, thread, job, waitGroup, results>>
vars == <<input, ctx, pc, pool, channels, report>>

-----------------------------------------------------------------------------

Caller == 0
Threads == 0..Parallelism

Selected == SelectedRules(selection)

\* The number of worker goroutines evaluateParallel starts.
WorkerCount ==
    IF Parallelism > Cardinality(Selected) THEN Cardinality(Selected) ELSE Parallelism

\* What a thread holds between two rules.
NoJob == [rule |-> 0, outcome |-> "none"]

PendingRule == CHOOSE r \in pending : \A q \in pending : r <= q

Init ==
    /\ selection \in Selections
    /\ verdict \in [Rules -> Verdicts]
    /\ ctx = "live"
    /\ pc = "begin"
    /\ pending = {}
    /\ thread = [t \in Threads |-> "absent"]
    /\ job = [t \in Threads |-> NoJob]
    /\ waitGroup = {}
    /\ jobsOpen = TRUE
    /\ resultsOpen = TRUE
    /\ results = <<>>
    /\ report = NoReport

\* The deadline of the scan passes, at any moment of the call.
Cancel ==
    /\ ctx = "live"
    /\ pc # "returned"
    /\ ctx' = "done"
    /\ UNCHANGED <<input, pc, pool, channels, report>>

\* Evaluate: no rule at all returns at once.
ReturnEmpty ==
    /\ pc = "begin"
    /\ Selected = {}
    /\ report' = NoReport
    /\ pc' = "returned"
    /\ UNCHANGED <<input, ctx, pool, channels>>

\* Evaluate: one thread or one rule is evaluated by the caller itself.
BeginSequential ==
    /\ pc = "begin"
    /\ Selected # {}
    /\ Parallelism <= 1 \/ Cardinality(Selected) = 1
    /\ pc' = "sequential"
    /\ pending' = Selected
    /\ thread' = [thread EXCEPT ![Caller] = "receive"]
    /\ UNCHANGED <<input, ctx, job, waitGroup, results, channels, report>>

\* Evaluate: everything else goes to a pool of workers.
BeginParallel ==
    /\ pc = "begin"
    /\ Parallelism > 1
    /\ Cardinality(Selected) > 1
    /\ pc' = "spawn"
    /\ pending' = Selected
    /\ UNCHANGED <<input, ctx, thread, job, waitGroup, results, channels, report>>

\* wg.Add(1); go func() {...}, one worker after the other.
Spawn(w) ==
    /\ pc = "spawn"
    /\ w <= WorkerCount
    /\ thread[w] = "absent"
    /\ \A v \in 1..(w - 1) : thread[v] # "absent"
    /\ waitGroup' = waitGroup \union {w}
    /\ thread' = [thread EXCEPT ![w] = "receive"]
    /\ pc' = IF w = WorkerCount THEN "send" ELSE "spawn"
    /\ UNCHANGED <<input, ctx, pending, job, results, channels, report>>

\* A bug to catch: the sender does not move past the rule it has sent.
HandOutSameRule(t) ==
    /\ pc = IF t = Caller THEN "sequential" ELSE "send"
    /\ thread[t] = "receive"
    /\ pending # {}
    /\ job' = [job EXCEPT ![t] = [rule |-> PendingRule, outcome |-> "none"]]
    /\ thread' = [thread EXCEPT ![t] = "check"]
    /\ UNCHANGED <<input, ctx, pc, pending, waitGroup, results, channels, report>>

(***************************************************************************)
(* jobs <- ruleJob{...}: a rendezvous of the sender and one waiting worker.*)
(* The select statement may take it even when ctx is done.  In the         *)
(* sequential loop the caller hands the next rule to itself.               *)
(***************************************************************************)
HandOut(t) ==
    /\ pc = IF t = Caller THEN "sequential" ELSE "send"
    /\ thread[t] = "receive"
    /\ pending # {}
    /\ pending' = pending \ {PendingRule}
    /\ job' = [job EXCEPT ![t] = [rule |-> PendingRule, outcome |-> "none"]]
    /\ thread' = [thread EXCEPT ![t] = "check"]
    /\ UNCHANGED <<input, ctx, pc, waitGroup, results, channels, report>>

\* A bug to catch: the select has a default case, so a busy pool ends the loop.
StopSendingEarly ==
    /\ pc = "send"
    /\ jobsOpen' = FALSE
    /\ pc' = "wait"
    /\ UNCHANGED <<input, ctx, pool, resultsOpen, report>>

\* A bug to catch: the sender leaves jobs open.
StopSendingUnclosed ==
    /\ pc = "send"
    /\ pending = {} \/ ctx = "done"
    /\ pc' = "wait"
    /\ UNCHANGED <<input, ctx, pool, channels, report>>

\* The loop is exhausted, or select takes <-ctx.Done(); then close(jobs).
StopSending ==
    /\ pc = "send"
    /\ pending = {} \/ ctx = "done"
    /\ jobsOpen' = FALSE
    /\ pc' = "wait"
    /\ UNCHANGED <<input, ctx, pool, resultsOpen, report>>

\* A bug to catch: a cancelled rule returns its empty result.
CheckContextUnrecorded(t) ==
    /\ thread[t] = "check"
    /\ thread' = [thread EXCEPT ![t] = IF ctx = "done" THEN "publish" ELSE "evaluate"]
    /\ UNCHANGED <<input, ctx, pc, pending, job, waitGroup, results, channels, report>>

\* evaluateOne: ctx.Err() is read once, before the rule starts.
CheckContext(t) ==
    /\ thread[t] = "check"
    /\ IF ctx = "done"
       THEN /\ job' = [job EXCEPT ![t].outcome = "cancelled"]
            /\ thread' = [thread EXCEPT ![t] = "publish"]
       ELSE /\ thread' = [thread EXCEPT ![t] = "evaluate"]
            /\ UNCHANGED job
    /\ UNCHANGED <<input, ctx, pc, pending, waitGroup, results, channels, report>>

\* A bug to catch: the recovered panic is not turned into an error.
EvaluateSwallowingErrors(t) ==
    /\ thread[t] = "evaluate"
    /\ job' = [job EXCEPT ![t].outcome =
                  IF verdict[job[t].rule] = "error" THEN "clean" ELSE verdict[job[t].rule]]
    /\ thread' = [thread EXCEPT ![t] = "publish"]
    /\ UNCHANGED <<input, ctx, pc, pending, waitGroup, results, channels, report>>

\* evaluateOne: the rule returns, fails or panics.
Evaluate(t) ==
    /\ thread[t] = "evaluate"
    /\ \E o \in EvaluateSafely(verdict[job[t].rule], ctx) :
          job' = [job EXCEPT ![t].outcome = o]
    /\ thread' = [thread EXCEPT ![t] = "publish"]
    /\ UNCHANGED <<input, ctx, pc, pending, waitGroup, results, channels, report>>

\* results <- ..., which blocks while the buffer is full.
Publish(t) ==
    /\ thread[t] = "publish"
    /\ Len(results) < Cardinality(Selected)
    /\ results' = Append(results, job[t])
    /\ job' = [job EXCEPT ![t] = NoJob]
    /\ thread' = [thread EXCEPT ![t] = "receive"]
    /\ UNCHANGED <<input, ctx, pc, pending, waitGroup, channels, report>>

\* range jobs ends once the channel is closed; the deferred wg.Done runs.
Exit(w) ==
    /\ thread[w] = "receive"
    /\ ~jobsOpen
    /\ thread' = [thread EXCEPT ![w] = "exited"]
    /\ waitGroup' = waitGroup \ {w}
    /\ UNCHANGED <<input, ctx, pc, pending, job, results, channels, report>>

\* A bug to catch: wg.Wait is missing.
StopWithoutWaiting ==
    /\ pc = "wait"
    /\ resultsOpen' = FALSE
    /\ pc' = "collect"
    /\ UNCHANGED <<input, ctx, pool, jobsOpen, report>>

\* wg.Wait returns; close(results).
StopWaiting ==
    /\ pc = "wait"
    /\ waitGroup = {}
    /\ resultsOpen' = FALSE
    /\ pc' = "collect"
    /\ UNCHANGED <<input, ctx, pool, jobsOpen, report>>

\* The results are drained, or the sequential loop has ended, and merged.
Merge ==
    /\ \/ pc = "collect"
       \/ pc = "sequential" /\ pending = {} /\ thread[Caller] = "receive"
    /\ report' = MergeRuleResults(results)
    /\ pc' = "returned"
    /\ UNCHANGED <<input, ctx, pool, channels>>

\* The call is over.
Returned == pc = "returned" /\ UNCHANGED vars

CallerStep ==
    \/ ReturnEmpty
    \/ BeginSequential
    \/ BeginParallel
    \/ \E w \in Threads \ {Caller} : Spawn(w)
    \/ StopSending
    \/ StopWaiting
    \/ Merge

ThreadStep(t) == HandOut(t) \/ CheckContext(t) \/ Evaluate(t) \/ Publish(t)

Next ==
    \/ Cancel
    \/ CallerStep
    \/ \E t \in Threads : ThreadStep(t)
    \/ \E w \in Threads \ {Caller} : Exit(w)
    \/ Returned

Spec == Init /\ [][Next]_vars

(***************************************************************************)
(* The Go scheduler runs every goroutine that can run, and every rule      *)
(* evaluation ends: built-in rules are plain computations and Rego is      *)
(* bounded by its own timeout.  Nobody has to cancel.                      *)
(***************************************************************************)
Fairness ==
    /\ WF_vars(CallerStep)
    /\ \A t \in Threads : WF_vars(ThreadStep(t))
    /\ \A w \in Threads \ {Caller} : WF_vars(Exit(w))

FairSpec == Spec /\ Fairness

-----------------------------------------------------------------------------

Workers == Threads \ {Caller}

\* evaluateOne is running in thread t.
Busy(t) == thread[t] \in {"check", "evaluate", "publish"}

BusyThreads == {t \in Threads : Busy(t)}

Published == {results[i].rule : i \in DOMAIN results}

(***************************************************************************)
(* Every variable has its type.                                            *)
(***************************************************************************)
TypeOK ==
    /\ selection \in Selections
    /\ verdict \in [Rules -> Verdicts]
    /\ ctx \in {"live", "done"}
    /\ pc \in {"begin", "sequential", "spawn", "send", "wait", "collect", "returned"}
    /\ pending \subseteq Rules
    /\ thread \in [Threads -> {"absent", "receive", "check", "evaluate", "publish", "exited"}]
    /\ job \in [Threads -> [rule: Rules \union {0}, outcome: Outcomes \union {"none"}]]
    /\ waitGroup \subseteq Workers
    /\ jobsOpen \in BOOLEAN
    /\ resultsOpen \in BOOLEAN
    /\ results \in Seq([rule: Rules, outcome: Outcomes])

(***************************************************************************)
(* Once evaluation has begun, every selected rule is waiting, or held by   *)
(* one thread, or published: in one of these places and once.  No          *)
(* schedule loses a rule or evaluates one twice.                           *)
(***************************************************************************)
EachRuleOnce ==
    pc # "begin" =>
        /\ Selected = pending \union {job[t].rule : t \in BusyThreads} \union Published
        /\ \A t \in BusyThreads : job[t].rule \notin pending \union Published
        /\ \A t, u \in BusyThreads : t # u => job[t].rule # job[u].rule
        /\ pending \intersect Published = {}
        /\ \A i, j \in DOMAIN results : i # j => results[i].rule # results[j].rule

(***************************************************************************)
(* close(results) comes after the last send: a worker that still has a     *)
(* rule in its hands would panic on the closed channel.                    *)
(***************************************************************************)
NoSendOnClosedChannel == \A w \in Workers : Busy(w) => resultsOpen

(***************************************************************************)
(* The buffer of "results" has room for every send, so no worker blocks    *)
(* although nobody receives before wg.Wait returns.                        *)
(***************************************************************************)
PublishNeverBlocks ==
    \A t \in Threads : thread[t] = "publish" => Len(results) < Cardinality(Selected)

(***************************************************************************)
(* "Evaluate runs selected rules deterministically" (runner.go:69): under  *)
(* a live context the Result is that of the sequential loop, whatever the  *)
(* schedule and whichever rules fail or panic.                             *)
(***************************************************************************)
Deterministic ==
    pc = "returned" /\ ctx = "live" => report = ReportFor(Selected, verdict)

(***************************************************************************)
(* A returned Result that lacks a selected rule's own verdict can only     *)
(* come with a cancelled context: testing ctx.Err() after the call, as     *)
(* buildScanReport does (scan.go:170), detects every incomplete Result.    *)
(***************************************************************************)
IncompleteOnlyIfCancelled ==
    pc = "returned" /\ ctx = "live" =>
        \A r \in Selected : \E i \in DOMAIN results : results[i] = [rule |-> r, outcome |-> verdict[r]]

(***************************************************************************)
(* Evaluate returns, cancelled or not: nobody is left waiting for a        *)
(* worker, a job or a free buffer slot.                                    *)
(***************************************************************************)
Terminates == <>(pc = "returned")

(***************************************************************************)
(* The runner implements the promise of RuleEvaluation.  A rule is decided *)
(* when its result is published; the rules left over when the sender stops *)
(* are the dropped ones.                                                   *)
(***************************************************************************)
Decided ==
    [r \in Rules |->
        CASE \E i \in DOMAIN results : results[i].rule = r ->
                results[CHOOSE i \in DOMAIN results : results[i].rule = r].outcome
          [] r \in pending /\ ~jobsOpen -> "dropped"
          [] OTHER -> "pending"]

Abstract == INSTANCE RuleEvaluation WITH decided <- Decided, returned <- (pc = "returned")

ImplementsRuleEvaluation == Abstract!Spec
=============================================================================
