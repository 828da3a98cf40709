-------------------------- MODULE RuleRunnerProofs --------------------------
(***************************************************************************)
(* Safety of the rule runner for every registry, selection and degree of   *)
(* parallelism.  The invariants of RuleRunner are not inductive by         *)
(* themselves: Control ties the caller's program counter to the state of   *)
(* the channels and of the WaitGroup, and Faithful says what a result is   *)
(* worth before anybody has cancelled.                                     *)
(***************************************************************************)
EXTENDS RuleRunner, FiniteSetTheorems, SequenceTheorems, NaturalsInduction, TLAPS

(***************************************************************************)
(* Where the caller is determines which threads exist and which channels   *)
(* are open (evaluateParallel, runner.go:89-123).                          *)
(***************************************************************************)
Control ==
    /\ pc = "begin" => pending = {} /\ results = <<>>
    /\ pc \notin {"sequential", "returned"} => thread[Caller] = "absent"
    /\ thread[Caller] # "exited"
    /\ Busy(Caller) => pc = "sequential"
    /\ \A w \in Workers : w \in waitGroup <=> thread[w] \notin {"absent", "exited"}
    /\ waitGroup # {} => pc \in {"spawn", "send", "wait"}
    /\ ~resultsOpen => pc \in {"collect", "returned"}
    /\ ~jobsOpen => pc \in {"wait", "collect", "returned"}
    /\ pc \in {"wait", "collect", "returned"} /\ ctx = "live" => pending = {}

(***************************************************************************)
(* evaluateOne has filled in a result before it is sent, and as long as    *)
(* the context is live the outcome is the rule's own verdict.              *)
(***************************************************************************)
Faithful ==
    /\ \A t \in Threads : thread[t] = "publish" =>
          /\ job[t].outcome \in Outcomes
          /\ ctx = "live" => job[t].outcome = verdict[job[t].rule]
    /\ ctx = "live" =>
          \A i \in DOMAIN results : results[i].outcome = verdict[results[i].rule]

\* The inductive invariant.
IInv == TypeOK /\ Control /\ EachRuleOnce /\ Faithful

-----------------------------------------------------------------------------

(***************************************************************************)
(* The sender always finds the next rule in ID order.                      *)
(***************************************************************************)
LEMMA PendingRuleExists ==
    ASSUME pending \subseteq Rules, pending # {}
    PROVE  PendingRule \in pending
<1>1. pending \subseteq Nat
    BY RulesAssumption
<1>2. PICK r \in pending : \A q \in pending : <<q, r>> \notin OpToRel(<, Nat)
    BY <1>1, NatLessThanWellFounded, WFMin
<1>3. \A q \in pending : r <= q
    <2> SUFFICES ASSUME NEW q \in pending, q < r PROVE FALSE
        BY <1>1
    <2>1. OpToRel(<, Nat) = {ss \in Nat \X Nat : ss[1] < ss[2]}
        BY DEF OpToRel
    <2>2. <<q, r>> \in OpToRel(<, Nat)
        BY <1>1, <2>1
    <2> QED
        BY <1>2, <2>2
<1> QED
    BY <1>3 DEF PendingRule

\* The threads are numbered from the caller, 0.
LEMMA ThreadsAreNaturals == Threads \subseteq Nat /\ Caller \in Threads
BY ParallelismAssumption DEF Threads, Caller

(***************************************************************************)
(* The initial states satisfy the invariant.                               *)
(***************************************************************************)
LEMMA InitIInv == Init => IInv
<1> SUFFICES ASSUME Init PROVE IInv
    OBVIOUS
<1>1. TypeOK
    BY DEF Init, TypeOK, NoJob
<1>2. Control
    BY ThreadsAreNaturals DEF Init, Control, Busy, Workers
<1>3. EachRuleOnce
    BY DEF Init, EachRuleOnce
<1>4. Faithful
    BY DEF Init, Faithful
<1> QED
    BY <1>1, <1>2, <1>3, <1>4 DEF IInv

-----------------------------------------------------------------------------
(***************************************************************************)
(* One lemma per action: it preserves the invariant.                       *)
(***************************************************************************)

\* A cancelled context lets results be missing.
LEMMA CancelIInv == IInv /\ Cancel => IInv'
<1> SUFFICES ASSUME IInv, Cancel PROVE IInv'
    OBVIOUS
<1> USE DEF IInv, Cancel, input, pool, channels
<1>1. TypeOK'
    BY DEF TypeOK, Workers
<1>2. Control'
    BY DEF Control, Busy
<1>3. EachRuleOnce'
    BY DEF EachRuleOnce, Selected, BusyThreads, Busy, Published
<1>4. Faithful'
    BY DEF Faithful
<1> QED
    BY <1>1, <1>2, <1>3, <1>4

\* Before the call has begun no rule is being evaluated.
LEMMA NobodyBusyAtBegin ==
    ASSUME Control, pc = "begin"
    PROVE  \A t \in Threads : ~Busy(t)
<1>1. \A w \in Workers : thread[w] \in {"absent", "exited"}
    BY DEF Control
<1>2. thread[Caller] = "absent"
    BY DEF Control
<1> QED
    BY <1>1, <1>2 DEF Workers, Busy

\* Nothing selected: nothing is started.
LEMMA ReturnEmptyIInv == IInv /\ ReturnEmpty => IInv'
<1> SUFFICES ASSUME IInv, ReturnEmpty PROVE IInv'
    OBVIOUS
<1> USE DEF IInv, ReturnEmpty, input, pool, channels
<1>1. TypeOK'
    BY DEF TypeOK, Workers
<1>2. Control'
    BY DEF Control, Busy
<1>3. BusyThreads = {} /\ Published = {}
    BY NobodyBusyAtBegin DEF Control, BusyThreads, Published
<1>4. EachRuleOnce'
    BY <1>3 DEF EachRuleOnce, Selected, BusyThreads, Busy, Published, Control
<1>5. Faithful'
    BY DEF Faithful
<1> QED
    BY <1>1, <1>2, <1>4, <1>5

\* The caller becomes the only thread.
LEMMA BeginSequentialIInv == IInv /\ BeginSequential => IInv'
<1> SUFFICES ASSUME IInv, BeginSequential PROVE IInv'
    OBVIOUS
<1> USE DEF IInv, BeginSequential, input, channels
<1>1. TypeOK'
    BY DEF TypeOK, Workers, Selected, SelectedRules
<1>2. Control'
    BY ThreadsAreNaturals DEF Control, Busy, TypeOK, Workers
<1>3. BusyThreads' = {} /\ Published' = {}
    <2>1. \A t \in Threads : ~Busy(t)
        BY NobodyBusyAtBegin
    <2> QED
        BY <2>1 DEF Control, BusyThreads, Busy, Published, TypeOK
<1>4. EachRuleOnce'
    BY <1>3 DEF EachRuleOnce, Selected, Published, Control
<1>5. Faithful'
    BY DEF Faithful, TypeOK
<1> QED
    BY <1>1, <1>2, <1>4, <1>5

\* Channels are made with room for every rule.
LEMMA BeginParallelIInv == IInv /\ BeginParallel => IInv'
<1> SUFFICES ASSUME IInv, BeginParallel PROVE IInv'
    OBVIOUS
<1> USE DEF IInv, BeginParallel, input, channels
<1>1. TypeOK'
    BY DEF TypeOK, Workers, Selected, SelectedRules
<1>2. Control'
    BY ThreadsAreNaturals DEF Control, Busy, TypeOK, Workers
<1>3. BusyThreads' = {} /\ Published' = {}
    <2>1. \A t \in Threads : ~Busy(t)
        BY NobodyBusyAtBegin
    <2> QED
        BY <2>1 DEF Control, BusyThreads, Busy, Published, TypeOK
<1>4. EachRuleOnce'
    BY <1>3 DEF EachRuleOnce, Selected, Published, Control
<1>5. Faithful'
    BY DEF Faithful, TypeOK
<1> QED
    BY <1>1, <1>2, <1>4, <1>5

\* A goroutine is counted in the wait group before it runs.
LEMMA SpawnIInv == ASSUME NEW w \in Workers, IInv, Spawn(w) PROVE IInv'
<1> USE DEF IInv, Spawn, input, channels
<1>1. TypeOK'
    BY DEF TypeOK, Workers
<1>2. Control'
    BY ThreadsAreNaturals DEF Control, Busy, TypeOK, Workers
<1>3. BusyThreads' = BusyThreads /\ Published' = Published
    BY DEF BusyThreads, Busy, Published, TypeOK
<1>4. EachRuleOnce'
    BY <1>3 DEF EachRuleOnce, Selected, Published
<1>5. Faithful'
    BY DEF Faithful, TypeOK
<1> QED
    BY <1>1, <1>2, <1>4, <1>5

\* A rule moves from the unsent to one thread.
LEMMA HandOutIInv == ASSUME NEW t \in Threads, IInv, HandOut(t) PROVE IInv'
<1> USE DEF IInv, HandOut, input, channels
<1> DEFINE r == PendingRule
<1>0. r \in pending /\ r \in Rules
    BY PendingRuleExists DEF TypeOK
<1>1. TypeOK'
    BY <1>0 DEF TypeOK, Workers
<1>2. Control'
    BY ThreadsAreNaturals DEF Control, Busy, TypeOK, Workers
<1>3. /\ BusyThreads' = BusyThreads \union {t}
      /\ t \notin BusyThreads
      /\ Published' = Published
      /\ job'[t].rule = r
      /\ \A u \in BusyThreads : job'[u] = job[u]
    BY DEF BusyThreads, Busy, Published, TypeOK
<1>4. EachRuleOnce'
    <2>1. pc # "begin"
        OBVIOUS
    <2> QED
        BY <1>0, <1>3, <2>1 DEF EachRuleOnce, Selected
<1>5. Faithful'
    BY DEF Faithful, TypeOK
<1> QED
    BY <1>1, <1>2, <1>4, <1>5

\* The jobs channel is closed, with rules left over only if cancelled.
LEMMA StopSendingIInv == IInv /\ StopSending => IInv'
<1> SUFFICES ASSUME IInv, StopSending PROVE IInv'
    OBVIOUS
<1> USE DEF IInv, StopSending, input, pool
<1>1. TypeOK'
    BY DEF TypeOK, Workers
<1>2. Control'
    BY DEF Control, Busy
<1>3. EachRuleOnce'
    BY DEF EachRuleOnce, Selected, BusyThreads, Busy, Published
<1>4. Faithful'
    BY DEF Faithful
<1> QED
    BY <1>1, <1>2, <1>3, <1>4

\* A thread gives its rule the outcome of a cancelled call, or goes on to evaluate it.
LEMMA CheckContextIInv == ASSUME NEW t \in Threads, IInv, CheckContext(t) PROVE IInv'
<1> USE DEF IInv, CheckContext, input, channels
<1>1. TypeOK'
    <2>1. thread' \in [Threads -> {"absent", "receive", "check", "evaluate", "publish", "exited"}]
        BY DEF TypeOK
    <2>2. job' \in [Threads -> [rule: Rules \union {0}, outcome: Outcomes \union {"none"}]]
        BY DEF TypeOK, Outcomes
    <2> QED
        BY <2>1, <2>2 DEF TypeOK, Workers
<1>2. Control'
    BY ThreadsAreNaturals DEF Control, Busy, TypeOK, Workers
<1>3. /\ BusyThreads' = BusyThreads
      /\ Published' = Published
      /\ \A u \in BusyThreads : job'[u].rule = job[u].rule
    <2>1. \A u \in Threads : Busy(u)' <=> Busy(u)
        BY DEF Busy, TypeOK
    <2>2. \A u \in Threads : job'[u].rule = job[u].rule
        BY DEF TypeOK
    <2> QED
        BY <2>1, <2>2 DEF BusyThreads, Published
<1>4. EachRuleOnce'
    BY <1>3 DEF EachRuleOnce, Selected
<1>5. Faithful'
    BY DEF Faithful, TypeOK, Outcomes
<1> QED
    BY <1>1, <1>2, <1>4, <1>5

\* A rule has its outcome, panics included.
LEMMA EvaluateIInv == ASSUME NEW t \in Threads, IInv, Evaluate(t) PROVE IInv'
<1> USE DEF IInv, Evaluate, input, channels
<1>0. PICK o \in EvaluateSafely(verdict[job[t].rule], ctx) :
          job' = [job EXCEPT ![t].outcome = o]
    OBVIOUS
<1>r. job[t].rule \in Rules
    <2>1. pc # "begin" /\ t \in BusyThreads
        BY NobodyBusyAtBegin DEF BusyThreads, Busy
    <2> QED
        BY <2>1 DEF EachRuleOnce, Selected, SelectedRules
<1>o. o \in Outcomes /\ (ctx = "live" => o = verdict[job[t].rule])
    BY <1>0, <1>r DEF EvaluateSafely, Outcomes, Verdicts, TypeOK
<1>1. TypeOK'
    BY <1>0, <1>o DEF TypeOK, Workers
<1>2. Control'
    BY <1>0, ThreadsAreNaturals DEF Control, Busy, TypeOK, Workers
<1>3. /\ BusyThreads' = BusyThreads
      /\ Published' = Published
      /\ \A u \in BusyThreads : job'[u].rule = job[u].rule
    BY <1>0 DEF BusyThreads, Busy, Published, TypeOK
<1>4. EachRuleOnce'
    BY <1>3 DEF EachRuleOnce, Selected
<1>5. Faithful'
    BY <1>0, <1>o DEF Faithful, TypeOK
<1> QED
    BY <1>1, <1>2, <1>4, <1>5

\* A rule moves from its thread to the results.
LEMMA PublishIInv == ASSUME NEW t \in Threads, IInv, Publish(t) PROVE IInv'
<1> USE DEF IInv, Publish, input, channels
<1> DEFINE r == job[t].rule
<1>b. pc # "begin" /\ t \in BusyThreads
    BY NobodyBusyAtBegin DEF BusyThreads, Busy
<1>r. r \in Rules
    BY <1>b DEF EachRuleOnce, Selected, SelectedRules
<1>1. TypeOK'
    BY <1>r DEF TypeOK, Workers, Faithful, NoJob
<1>2. Control'
    BY ThreadsAreNaturals DEF Control, Busy, TypeOK, Workers
<1>3. /\ Len(results) \in Nat
      /\ DOMAIN results = 1..Len(results)
      /\ DOMAIN results' = 1..(Len(results) + 1)
      /\ \A i \in DOMAIN results : results'[i] = results[i]
      /\ results'[Len(results) + 1] = job[t]
    BY DEF TypeOK
<1>4. /\ BusyThreads' = BusyThreads \ {t}
      /\ \A u \in BusyThreads' : job'[u] = job[u]
    BY DEF BusyThreads, Busy, TypeOK
<1>5. Published' = Published \union {r}
    <2>1. Published' = {results'[i].rule : i \in 1..(Len(results) + 1)}
        BY <1>3 DEF Published
    <2>2. 1..(Len(results) + 1) = (1..Len(results)) \union {Len(results) + 1}
        BY <1>3
    <2> QED
        BY <1>3, <2>1, <2>2 DEF Published
<1>6. EachRuleOnce'
    <2>1. r \notin pending \union Published
        BY <1>b DEF EachRuleOnce
    <2>2. Selected' = Selected
        BY DEF Selected
    <2>3. Selected' = pending' \union {job'[u].rule : u \in BusyThreads'} \union Published'
        BY <1>b, <1>4, <1>5, <2>2 DEF EachRuleOnce
    <2>4. \A u \in BusyThreads' : job'[u].rule \notin pending' \union Published'
        BY <1>b, <1>4, <1>5 DEF EachRuleOnce
    <2>5. \A u, v \in BusyThreads' : u # v => job'[u].rule # job'[v].rule
        BY <1>b, <1>4 DEF EachRuleOnce
    <2>6. pending' \intersect Published' = {}
        BY <1>b, <1>5, <2>1 DEF EachRuleOnce
    <2>7. \A i, j \in DOMAIN results' : i # j => results'[i].rule # results'[j].rule
        BY <1>b, <1>3, <2>1 DEF EachRuleOnce, Published
    <2> QED
        BY <2>3, <2>4, <2>5, <2>6, <2>7 DEF EachRuleOnce
<1>7. Faithful'
    BY <1>3 DEF Faithful, TypeOK
<1> QED
    BY <1>1, <1>2, <1>6, <1>7

\* A worker leaves the wait group with empty hands.
LEMMA ExitIInv == ASSUME NEW w \in Workers, IInv, Exit(w) PROVE IInv'
<1> USE DEF IInv, Exit, input, channels
<1>1. TypeOK'
    BY DEF TypeOK, Workers
<1>2. Control'
    BY ThreadsAreNaturals DEF Control, Busy, TypeOK, Workers
<1>3. BusyThreads' = BusyThreads /\ Published' = Published
    BY DEF BusyThreads, Busy, Published, TypeOK
<1>4. EachRuleOnce'
    BY <1>3 DEF EachRuleOnce, Selected
<1>5. Faithful'
    BY DEF Faithful, TypeOK
<1> QED
    BY <1>1, <1>2, <1>4, <1>5

\* The results channel is closed when no goroutine is left.
LEMMA StopWaitingIInv == IInv /\ StopWaiting => IInv'
<1> SUFFICES ASSUME IInv, StopWaiting PROVE IInv'
    OBVIOUS
<1> USE DEF IInv, StopWaiting, input, pool
<1>1. TypeOK'
    BY DEF TypeOK, Workers
<1>2. Control'
    BY DEF Control, Busy
<1>3. EachRuleOnce'
    BY DEF EachRuleOnce, Selected, BusyThreads, Busy, Published
<1>4. Faithful'
    BY DEF Faithful
<1> QED
    BY <1>1, <1>2, <1>3, <1>4

\* What was collected is merged.
LEMMA MergeIInv == IInv /\ Merge => IInv'
<1> SUFFICES ASSUME IInv, Merge PROVE IInv'
    OBVIOUS
<1> USE DEF IInv, Merge, input, pool, channels
<1>1. TypeOK'
    BY DEF TypeOK, Workers
<1>2. Control'
    BY DEF Control, Busy
<1>3. EachRuleOnce'
    BY DEF EachRuleOnce, Selected, BusyThreads, Busy, Published
<1>4. Faithful'
    BY DEF Faithful
<1> QED
    BY <1>1, <1>2, <1>3, <1>4

\* Steps that change nothing.
LEMMA StutterIInv == IInv /\ UNCHANGED vars => IInv'
<1> SUFFICES ASSUME IInv, UNCHANGED vars PROVE IInv'
    OBVIOUS
<1> USE DEF IInv, vars, input, pool, channels
<1>1. TypeOK'
    BY DEF TypeOK, Workers
<1>2. Control'
    BY DEF Control, Busy
<1>3. EachRuleOnce'
    BY DEF EachRuleOnce, Selected, BusyThreads, Busy, Published
<1>4. Faithful'
    BY DEF Faithful
<1> QED
    BY <1>1, <1>2, <1>3, <1>4

-----------------------------------------------------------------------------

(***************************************************************************)
(* The invariant holds in every reachable state, however many rules and    *)
(* workers there are.                                                      *)
(***************************************************************************)
THEOREM Invariance == Spec => []IInv
<1>1. IInv /\ [Next]_vars => IInv'
    <2> SUFFICES ASSUME IInv, [Next]_vars PROVE IInv'
        OBVIOUS
    <2>1. CASE Cancel
        BY <2>1, CancelIInv
    <2>2. CASE CallerStep
        BY <2>2, ReturnEmptyIInv, BeginSequentialIInv, BeginParallelIInv, SpawnIInv,
           StopSendingIInv, StopWaitingIInv, MergeIInv DEF CallerStep, Workers
    <2>3. CASE \E t \in Threads : ThreadStep(t)
        BY <2>3, HandOutIInv, CheckContextIInv, EvaluateIInv, PublishIInv DEF ThreadStep
    <2>4. CASE \E w \in Threads \ {Caller} : Exit(w)
        BY <2>4, ExitIInv DEF Workers
    <2>5. CASE Returned \/ UNCHANGED vars
        BY <2>5, StutterIInv DEF Returned
    <2> QED
        BY <2>1, <2>2, <2>3, <2>4, <2>5 DEF Next
<1> QED
    BY InitIInv, <1>1, PTL DEF Spec

(***************************************************************************)
(* Every variable has its type.                                            *)
(***************************************************************************)
THEOREM TypeCorrectness == Spec => []TypeOK
BY Invariance, PTL DEF IInv

(***************************************************************************)
(* No schedule loses a rule or evaluates one twice (runner.go:89-123).     *)
(***************************************************************************)
THEOREM RulesAreEvaluatedOnce == Spec => []EachRuleOnce
BY Invariance, PTL DEF IInv

(***************************************************************************)
(* No worker ever sends on the closed channel "results".                   *)
(***************************************************************************)
THEOREM ChannelSafety == Spec => []NoSendOnClosedChannel
<1>1. IInv => NoSendOnClosedChannel
    BY DEF IInv, Control, NoSendOnClosedChannel, Busy
<1> QED
    BY <1>1, Invariance, PTL

(***************************************************************************)
(* The buffer of "results" always has room for the next result: the        *)
(* published rules are distinct selected rules, and the one in hand is     *)
(* not among them.                                                         *)
(***************************************************************************)
THEOREM BufferSuffices == Spec => []PublishNeverBlocks
<1>1. IInv => PublishNeverBlocks
    <2> SUFFICES ASSUME IInv, NEW t \in Threads, thread[t] = "publish"
                 PROVE  Len(results) < Cardinality(Selected)
        BY DEF PublishNeverBlocks
    <2> USE DEF IInv
    <2> DEFINE n == Len(results)
               f == [i \in 1..n |-> results[i].rule]
    <2>1. pc # "begin" /\ t \in BusyThreads
        BY NobodyBusyAtBegin DEF BusyThreads, Busy
    <2>2. n \in Nat /\ DOMAIN results = 1..n
        BY DEF TypeOK
    <2>3. IsFiniteSet(Selected)
        BY RulesAssumption, FS_Subset DEF Selected, SelectedRules
    <2>4. Published \subseteq Selected /\ job[t].rule \in Selected \ Published
        BY <2>1 DEF EachRuleOnce
    <2>5. f \in Injection(1..n, Selected)
        BY <2>1, <2>2, <2>4 DEF Injection, IsInjective, Published, EachRuleOnce
    <2>6. f \notin Surjection(1..n, Selected)
        BY <2>2, <2>4 DEF Surjection, Published
    <2>7. Cardinality(1..n) = n /\ Cardinality(Selected) \in Nat
        <3>1. n \in Int /\ 1 \in Int
            BY <2>2
        <3>2. Cardinality(1..n) = IF 1 > n THEN 0 ELSE n - 1 + 1
            BY <3>1, FS_Interval
        <3>3. Cardinality(Selected) \in Nat
            BY <2>3, FS_CardinalityType
        <3> QED
            BY <2>2, <3>2, <3>3
    <2> HIDE DEF f, n
    <2>8. Cardinality(1..n) <= Cardinality(Selected) /\ Cardinality(1..n) # Cardinality(Selected)
        BY <2>3, <2>5, <2>6, FS_Injection
    <2> QED
        BY <2>2, <2>7, <2>8 DEF n
<1> QED
    BY <1>1, Invariance, PTL

(***************************************************************************)
(* Testing ctx.Err() after the call (scan.go:170) detects every Result     *)
(* that lacks the verdict of a selected rule.                              *)
(***************************************************************************)
THEOREM Completeness == Spec => []IncompleteOnlyIfCancelled
<1>1. IInv => IncompleteOnlyIfCancelled
    <2> SUFFICES ASSUME IInv, pc = "returned", ctx = "live", NEW r \in Selected
                 PROVE  \E i \in DOMAIN results : results[i] = [rule |-> r, outcome |-> verdict[r]]
        BY DEF IncompleteOnlyIfCancelled
    <2> USE DEF IInv
    <2>1. pending = {}
        BY DEF Control
    <2>2. BusyThreads = {}
        BY DEF Control, BusyThreads, Busy, Workers
    <2>3. PICK i \in DOMAIN results : results[i].rule = r
        BY <2>1, <2>2 DEF EachRuleOnce, Published
    <2>4. results[i] \in [rule: Rules, outcome: Outcomes]
        <3> DEFINE Res == [rule: Rules, outcome: Outcomes]
        <3>1. results \in Seq(Res)
            BY DEF TypeOK
        <3> HIDE DEF Res
        <3>2. results[i] \in Res
            BY <2>3, <3>1
        <3> QED
            BY <3>2 DEF Res
    <2>5. results[i].outcome = verdict[r]
        BY <2>3 DEF Faithful
    <2> QED
        BY <2>3, <2>4, <2>5
<1> QED
    BY <1>1, Invariance, PTL

-----------------------------------------------------------------------------
(***************************************************************************)
(* The runner keeps the promise of RuleEvaluation: whatever the goroutines *)
(* do, the caller sees rules decided one by one, none after another's turn *)
(* mattered, and a Result that is a function of the outcomes alone.        *)
(***************************************************************************)

(***************************************************************************)
(* Ranks.                                                                  *)
(***************************************************************************)
RankIn(S, r) == Cardinality({q \in S : q <= r})

\* How many numbers there are up to n.
LEMMA IntervalCount ==
    ASSUME NEW n \in Nat
    PROVE  IsFiniteSet(1..n) /\ Cardinality(1..n) = n
<1>1. /\ IsFiniteSet(1..n)
      /\ Cardinality(1..n) = IF 1 > n THEN 0 ELSE n - 1 + 1
    BY FS_Interval
<1>. QED  BY <1>1

\* In a finite set of numbers there is exactly one of every rank.
LEMMA OneOfEveryRank ==
    ASSUME NEW S, S \subseteq Nat, IsFiniteSet(S)
    PROVE  /\ \A r \in S : RankIn(S, r) \in 1..Cardinality(S)
           /\ \A r, q \in S : RankIn(S, r) = RankIn(S, q) => r = q
           /\ \A i \in 1..Cardinality(S) : \E r \in S : RankIn(S, r) = i
<1>. DEFINE Up(r) == {q \in S : q <= r}
            n == Cardinality(S)
            f == [r \in S |-> RankIn(S, r)]
<1>1. n \in Nat
    BY FS_CardinalityType
<1>2. ASSUME NEW r \in S
      PROVE  /\ IsFiniteSet(Up(r)) /\ RankIn(S, r) \in Nat
             /\ RankIn(S, r) <= n /\ RankIn(S, r) # 0
    <2>1. Up(r) \in SUBSET S /\ r \in Up(r)
        OBVIOUS
    <2>2. IsFiniteSet(Up(r)) /\ Cardinality(Up(r)) <= n
        BY <2>1, FS_Subset
    <2>3. Cardinality(Up(r)) \in Nat /\ (Cardinality(Up(r)) = 0 => Up(r) = {})
        BY <2>2, FS_CardinalityType, FS_EmptySet
    <2>. QED  BY <2>1, <2>2, <2>3 DEF RankIn
<1>3. \A r \in S : RankIn(S, r) \in 1..n
    <2>. SUFFICES ASSUME NEW r \in S PROVE RankIn(S, r) \in 1..n
        OBVIOUS
    <2>1. RankIn(S, r) \in Nat /\ RankIn(S, r) <= n /\ RankIn(S, r) # 0
        BY <1>2
    <2>. HIDE DEF n
    <2>. QED  BY <1>1, <2>1
<1>4. ASSUME NEW r \in S, NEW q \in S, RankIn(S, r) = RankIn(S, q)
      PROVE  r = q
    <2>1. ASSUME NEW a \in S, NEW b \in S, RankIn(S, a) = RankIn(S, b), a < b
          PROVE  FALSE
        <3>0. a \in Nat /\ b \in Nat /\ a < b /\ \A x \in S : x \in Nat
            BY <2>1
        <3>a. \A x \in S : x <= a => x <= b
            BY <3>0
        <3>b. ~(b <= a) /\ b <= b
            BY <3>0
        <3>1. Up(a) \in SUBSET Up(b) /\ b \in Up(b) /\ b \notin Up(a)
            BY <3>a, <3>b
        <3>2. Up(a) = Up(b)
            BY <1>2, <2>1, <3>1, FS_Subset DEF RankIn
        <3>. QED  BY <3>1, <3>2
    <2>. QED  BY <1>4, <2>1
<1>5. IsFiniteSet(1..n) /\ Cardinality(1..n) = n
    BY <1>1, IntervalCount
<1>6. f \in Injection(S, 1..n)
    BY <1>3, <1>4 DEF Injection, IsInjective
<1>7. f \in Surjection(S, 1..n)
    <2>. HIDE DEF f, n
    <2>. QED  BY <1>5, <1>6, FS_Injection DEF n
<1>8. \A i \in 1..n : \E r \in S : RankIn(S, r) = i
    BY <1>7 DEF Surjection
<1>. QED  BY <1>3, <1>4, <1>8

-----------------------------------------------------------------------------
(***************************************************************************)
(* Merging.                                                                *)
(***************************************************************************)
RuleResult == [rule: Rules, outcome: Outcomes]

RulesOf(s) == {s[i].rule : i \in DOMAIN s}

DistinctRules(s) ==
    \A i, j \in DOMAIN s : i # j => s[i].rule # s[j].rule

\* Where the rules are distinct, s are ordered by the rank of their rule.
LEMMA OrderedByRank ==
    ASSUME NEW s \in Seq(RuleResult), DistinctRules(s)
    PROVE  /\ RulesOf(s) \subseteq Nat /\ IsFiniteSet(RulesOf(s))
           /\ Cardinality(RulesOf(s)) = Len(s)
           /\ \A i \in 1..Len(s) :
                 \E j \in 1..Len(s) :
                    /\ InRuleOrder(s)[i] = s[j]
                    /\ RankIn(RulesOf(s), s[j].rule) = i
           /\ DOMAIN InRuleOrder(s) = 1..Len(s)
           /\ InRuleOrder(s) = [i \in 1..Len(s) |-> InRuleOrder(s)[i]]
<1>. DEFINE n == Len(s)
            R == RulesOf(s)
            Less(j) == {k \in DOMAIN s : \/ s[k].rule < s[j].rule
                                         \/ s[k].rule = s[j].rule /\ k <= j}
            At(i) == CHOOSE j \in DOMAIN s : Cardinality(Less(j)) = i
<1>1. n \in Nat /\ DOMAIN s = 1..n /\ \A i \in 1..n : s[i] \in RuleResult
    OBVIOUS
<1>2. \A i \in 1..n : s[i].rule \in Nat
    BY <1>1, RulesAssumption DEF RuleResult
<1>3. R \subseteq Nat
    BY <1>1, <1>2 DEF RulesOf
<1>4. IsFiniteSet(1..n) /\ Cardinality(1..n) = n
    BY <1>1, IntervalCount
<1>5. IsFiniteSet(R) /\ Cardinality(R) = n
    <2>. DEFINE f == [i \in 1..n |-> s[i].rule]
    <2>1. f \in Bijection(1..n, R)
        BY <1>1 DEF Bijection, Injection, IsInjective, Surjection, DistinctRules, RulesOf
    <2>. HIDE DEF f, R, n
    <2>2. ExistsBijection(1..n, R)
        BY <2>1 DEF ExistsBijection
    <2>. QED  BY <1>4, <2>2, FS_Bijection
<1>6. ASSUME NEW j \in 1..n
      PROVE  Cardinality(Less(j)) = RankIn(R, s[j].rule)
    <2>. DEFINE T == {q \in R : q <= s[j].rule}
                f == [k \in Less(j) |-> s[k].rule]
    <2>1. \A k \in 1..n : k \in Less(j) <=> s[k].rule <= s[j].rule
        BY <1>1, <1>2, <1>6 DEF DistinctRules
    <2>2. Less(j) \subseteq 1..n
        BY <1>1
    <2>3. \A k \in Less(j) : f[k] \in T
        BY <1>1, <2>1, <2>2 DEF RulesOf
    <2>4. \A q \in T : \E k \in Less(j) : f[k] = q
        BY <1>1, <2>1 DEF RulesOf
    <2>5. \A k, l \in Less(j) : f[k] = f[l] => k = l
        BY <1>1, <2>2 DEF DistinctRules
    <2>6. IsFiniteSet(Less(j))
        BY <1>4, <2>2, FS_Subset
    <2>7. f \in Bijection(Less(j), T)
        <3>1. f \in [Less(j) -> T]
            BY <2>3
        <3>. HIDE DEF Less, T
        <3>. QED  BY <3>1, <2>4, <2>5 DEF Bijection, Injection, IsInjective, Surjection
    <2>8. Cardinality(T) = Cardinality(Less(j))
        <3>. HIDE DEF Less, T, f
        <3>. QED  BY <2>6, <2>7, FS_Bijection DEF ExistsBijection
    <2>. QED  BY <2>8 DEF RankIn
<1>7. InRuleOrder(s) = [i \in DOMAIN s |-> s[At(i)]]
    BY DEF InRuleOrder
<1>8. ASSUME NEW i \in 1..n
      PROVE  /\ At(i) \in 1..n
             /\ RankIn(R, s[At(i)].rule) = i
    <2>1. PICK r \in R : RankIn(R, r) = i
        BY <1>3, <1>5, <1>8, OneOfEveryRank
    <2>2. PICK j \in 1..n : s[j].rule = r
        BY <1>1 DEF RulesOf
    <2>3. Cardinality(Less(j)) = i
        BY <1>6, <2>1, <2>2
    <2>. HIDE DEF Less
    <2>4. At(i) \in DOMAIN s /\ Cardinality(Less(At(i))) = i
        BY <1>1, <2>3
    <2>. HIDE DEF At, R, n
    <2>. QED  BY <1>1, <1>6, <2>4
<1>. HIDE DEF Less, At
<1>. QED  BY <1>1, <1>3, <1>5, <1>7, <1>8

\* What is merged depends on the results, not on the order they arrived in.
LEMMA MergeForgetsTheOrder ==
    ASSUME NEW s \in Seq(RuleResult), DistinctRules(s),
           NEW u \in Seq(RuleResult), DistinctRules(u),
           {s[i] : i \in DOMAIN s} = {u[i] : i \in DOMAIN u}
    PROVE  MergeRuleResults(s) = MergeRuleResults(u)
<1>. DEFINE n == Len(s)
            R == RulesOf(s)
<1>1. /\ n \in Nat /\ DOMAIN s = 1..n /\ DOMAIN u = 1..Len(u)
      /\ \A i \in 1..n : s[i] \in RuleResult
    OBVIOUS
<1>2. RulesOf(u) = R
    <2>1. RulesOf(s) = {x.rule : x \in {s[i] : i \in DOMAIN s}}
        BY DEF RulesOf
    <2>2. RulesOf(u) = {x.rule : x \in {u[i] : i \in DOMAIN u}}
        BY DEF RulesOf
    <2>. QED  BY <2>1, <2>2
<1>3. Len(u) = n /\ R \subseteq Nat /\ IsFiniteSet(R)
    BY <1>2, OrderedByRank
<1>4. ASSUME NEW i \in 1..n
      PROVE  InRuleOrder(s)[i] = InRuleOrder(u)[i]
    <2>1. PICK j \in 1..n : InRuleOrder(s)[i] = s[j] /\ RankIn(R, s[j].rule) = i
        BY OrderedByRank
    <2>0. \A m \in 1..Len(u) : \E k \in 1..Len(u) :
              InRuleOrder(u)[m] = u[k] /\ RankIn(RulesOf(u), u[k].rule) = m
        BY OrderedByRank
    <2>. HIDE DEF R, n
    <2>2. PICK k \in 1..n : InRuleOrder(u)[i] = u[k] /\ RankIn(R, u[k].rule) = i
        BY <1>2, <1>3, <2>0
    <2>3. s[j].rule \in R /\ u[k].rule \in R
        BY <1>1, <1>2, <1>3 DEF RulesOf, R, n
    <2>a. \A q, p \in R : RankIn(R, q) = RankIn(R, p) => q = p
        BY <1>3, OneOfEveryRank
    <2>4. s[j].rule = u[k].rule
        BY <2>1, <2>2, <2>3, <2>a
    <2>5. PICK l \in 1..n : s[l] = u[k]
        BY <1>1, <1>3
    <2>6. l = j
        BY <1>1, <2>4, <2>5 DEF DistinctRules
    <2>. QED  BY <2>1, <2>2, <2>5, <2>6
<1>5. InRuleOrder(s) = InRuleOrder(u)
    <2>1. InRuleOrder(s) = [i \in 1..n |-> InRuleOrder(s)[i]]
        BY OrderedByRank
    <2>2. InRuleOrder(u) = [i \in 1..n |-> InRuleOrder(u)[i]]
        BY <1>3, OrderedByRank
    <2>. HIDE DEF n
    <2>. QED  BY <1>4, <2>1, <2>2
<1>6. UNION {FindingsOf(s[i]) : i \in DOMAIN s} = UNION {FindingsOf(u[i]) : i \in DOMAIN u}
    <2>1. UNION {FindingsOf(s[i]) : i \in DOMAIN s}
            = UNION {FindingsOf(x) : x \in {s[i] : i \in DOMAIN s}}
        OBVIOUS
    <2>2. UNION {FindingsOf(u[i]) : i \in DOMAIN u}
            = UNION {FindingsOf(x) : x \in {u[i] : i \in DOMAIN u}}
        OBVIOUS
    <2>. QED  BY <2>1, <2>2
<1>. QED  BY <1>5, <1>6 DEF MergeRuleResults

(***************************************************************************)
(* Results that hold each rule of S once, with the outcome o gives it,     *)
(* merge to what evaluateSequential would return of S and o.               *)
(***************************************************************************)
LEMMA MergedIsReport ==
    ASSUME NEW s \in Seq(RuleResult), DistinctRules(s),
           NEW S, S \subseteq Rules, NEW o,
           {s[i] : i \in DOMAIN s} = {[rule |-> r, outcome |-> o[r]] : r \in S}
    PROVE  MergeRuleResults(s) = ReportFor(S, o)
<1>. DEFINE n == Cardinality(S)
            Ranked(i) == CHOOSE r \in S : RankIn(S, r) = i
            c == [i \in 1..n |-> [rule |-> Ranked(i), outcome |-> o[Ranked(i)]]]
<1>1. IsFiniteSet(S) /\ S \subseteq Nat /\ n \in Nat
    BY RulesAssumption, FS_Subset, FS_CardinalityType
<1>2. ReportFor(S, o) = MergeRuleResults(c)
    BY DEF ReportFor, RankIn
<1>3. \A i \in 1..n : Ranked(i) \in S /\ RankIn(S, Ranked(i)) = i
    <2>1. \A i \in 1..n : \E r \in S : RankIn(S, r) = i
        BY <1>1, OneOfEveryRank
    <2>. QED  BY <2>1
<1>4. \A r \in S : \E i \in 1..n : Ranked(i) = r
    <2>. SUFFICES ASSUME NEW r \in S PROVE \E i \in 1..n : Ranked(i) = r
        OBVIOUS
    <2>1. RankIn(S, r) \in 1..n
        BY <1>1, OneOfEveryRank
    <2>2. Ranked(RankIn(S, r)) = r
        BY <1>1, <1>3, <2>1, OneOfEveryRank
    <2>. QED  BY <2>1, <2>2
<1>5. \A r \in S : [rule |-> r, outcome |-> o[r]] \in RuleResult
    <2>1. \A x \in {s[i] : i \in DOMAIN s} : x \in RuleResult
        OBVIOUS
    <2>. QED  BY <2>1
<1>. HIDE DEF Ranked, n
<1>6. c \in Seq(RuleResult) /\ DOMAIN c = 1..n
    <2>1. \A i \in 1..n : c[i] \in RuleResult
        BY <1>3, <1>5
    <2>2. c \in [1..n -> RuleResult]
        BY <2>1
    <2>. HIDE DEF c
    <2>. QED  BY <1>1, <2>2, SeqDef
<1>7. DistinctRules(c)
    BY <1>3, <1>6 DEF DistinctRules
<1>8. {c[i] : i \in DOMAIN c} = {[rule |-> r, outcome |-> o[r]] : r \in S}
    BY <1>3, <1>4, <1>6
<1>. HIDE DEF c
<1>. QED  BY <1>2, <1>6, <1>7, <1>8, MergeForgetsTheOrder

\* The report of no rule at all.
LEMMA EmptyMerge == MergeRuleResults(<<>>) = NoReport
<1>1. InRuleOrder(<<>>) = <<>>
    BY DEF InRuleOrder
<1>2. FlattenSeq(<<>>) = <<>>
    BY DEF FlattenSeq
<1>3. [i \in DOMAIN <<>> |-> DiagnosticsOf(<<>>[i])] = <<>>
    OBVIOUS
<1>4. UNION {FindingsOf(<<>>[i]) : i \in DOMAIN <<>>} = {}
    OBVIOUS
<1>. QED  BY <1>1, <1>2, <1>3, <1>4 DEF MergeRuleResults, NoReport

\* Without rules there is nothing to report.
LEMMA EmptyReport == ASSUME NEW o PROVE ReportFor({}, o) = NoReport
    BY FS_EmptySet, EmptyMerge DEF ReportFor

-----------------------------------------------------------------------------
(***************************************************************************)
(* What the refinement needs beyond the invariant of RuleRunnerProofs: a   *)
(* result ready to be sent is the rule's own, or a failure or cancellation,*)
(* whoever waits for the workers has closed the channel "jobs", and what   *)
(* is returned is the merged results.                                      *)
(***************************************************************************)
Honest ==
    \A t \in Threads : thread[t] = "publish" =>
        job[t].outcome \in {verdict[job[t].rule], "error", "cancelled"}

JobsClosed == pc \in {"wait", "collect"} => ~jobsOpen

ReportIsMerged == pc = "returned" => report = MergeRuleResults(results)

Promise == Honest /\ JobsClosed /\ ReportIsMerged

\* A thread whose job and stage stay as they are keeps its result honest.
LEMMA HonestKept ==
    ASSUME Honest, verdict' = verdict,
           \A t \in Threads : thread'[t] = "publish" => thread[t] = "publish" /\ job'[t] = job[t]
    PROVE  Honest'
    BY DEF Honest

\* A worker publishes what the rule said, or that it was cancelled; nobody waits before the jobs are closed.
LEMMA HonestStep == IInv /\ Promise /\ [Next]_vars => Honest' /\ JobsClosed'
<1>. SUFFICES ASSUME IInv, Promise, [Next]_vars PROVE Honest' /\ JobsClosed'
    OBVIOUS
<1>. USE DEF input, channels, pool
<1>t. TypeOK
    BY DEF IInv
<1>1. CASE Cancel
    BY <1>1, HonestKept DEF Promise, JobsClosed, Cancel
<1>2. CASE CallerStep
    <2>1. CASE ReturnEmpty
        BY <2>1, HonestKept DEF Promise, JobsClosed, ReturnEmpty
    <2>2. CASE BeginSequential
        BY <2>2, <1>t, HonestKept DEF Promise, JobsClosed, BeginSequential, TypeOK
    <2>3. CASE BeginParallel
        BY <2>3, HonestKept DEF Promise, JobsClosed, BeginParallel
    <2>4. ASSUME NEW w \in Threads \ {Caller}, Spawn(w) PROVE Honest' /\ JobsClosed'
        BY <2>4, <1>t, HonestKept DEF Promise, JobsClosed, Spawn, TypeOK
    <2>5. CASE StopSending
        BY <2>5, HonestKept DEF Promise, JobsClosed, StopSending
    <2>6. CASE StopWaiting
        BY <2>6, HonestKept DEF Promise, JobsClosed, StopWaiting
    <2>7. CASE Merge
        BY <2>7, HonestKept DEF Promise, JobsClosed, Merge
    <2>. QED  BY <1>2, <2>1, <2>2, <2>3, <2>4, <2>5, <2>6, <2>7 DEF CallerStep
<1>3. ASSUME NEW t \in Threads, ThreadStep(t) PROVE Honest' /\ JobsClosed'
    <2>1. CASE HandOut(t)
        BY <2>1, <1>t, HonestKept DEF Promise, JobsClosed, HandOut, TypeOK
    <2>2. CASE CheckContext(t)
        <3>1. JobsClosed'
            BY <2>2 DEF Promise, JobsClosed, CheckContext
        <3>2. Honest'
            BY <2>2, <1>t DEF Promise, Honest, CheckContext, TypeOK
        <3>. QED  BY <3>1, <3>2
    <2>3. CASE Evaluate(t)
        <3>1. JobsClosed'
            BY <2>3 DEF Promise, JobsClosed, Evaluate
        <3>2. PICK o \in EvaluateSafely(verdict[job[t].rule], ctx) :
                  job' = [job EXCEPT ![t].outcome = o]
            BY <2>3 DEF Evaluate
        <3>3. o \in {verdict[job[t].rule], "error"}
            BY DEF EvaluateSafely
        <3>4. /\ job'[t].outcome = o /\ job'[t].rule = job[t].rule
              /\ \A u \in Threads \ {t} : job'[u] = job[u] /\ thread'[u] = thread[u]
              /\ verdict' = verdict
            BY <2>3, <3>2, <1>t DEF Evaluate, TypeOK
        <3>5. Honest'
            BY <3>3, <3>4 DEF Promise, Honest
        <3>. QED  BY <3>1, <3>5
    <2>4. CASE Publish(t)
        BY <2>4, <1>t, HonestKept DEF Promise, JobsClosed, Publish, TypeOK
    <2>. QED  BY <1>3, <2>1, <2>2, <2>3, <2>4 DEF ThreadStep
<1>4. ASSUME NEW w \in Threads \ {Caller}, Exit(w) PROVE Honest' /\ JobsClosed'
    BY <1>4, <1>t, HonestKept DEF Promise, JobsClosed, Exit, TypeOK
<1>5. CASE Returned \/ UNCHANGED vars
    BY <1>5, HonestKept DEF Promise, JobsClosed, Returned, vars
<1>. QED  BY <1>1, <1>2, <1>3, <1>4, <1>5 DEF Next

\* Only an empty call and Merge return, and nobody publishes afterwards.
LEMMA ReportStep == IInv /\ ReportIsMerged /\ [Next]_vars => ReportIsMerged'
<1>. SUFFICES ASSUME IInv, ReportIsMerged, [Next]_vars, pc' = "returned"
              PROVE  report' = MergeRuleResults(results')
    BY DEF ReportIsMerged
<1>1. CASE ReturnEmpty
    <2>1. results' = <<>> /\ report' = NoReport
        BY <1>1 DEF ReturnEmpty, pool, IInv, Control
    <2>. QED  BY <2>1, EmptyMerge
<1>2. CASE Merge
    BY <1>2 DEF Merge, pool
<1>3. CASE pc = "returned" /\ UNCHANGED <<results, report>>
    BY <1>3 DEF ReportIsMerged
<1>4. ASSUME NEW t \in Threads, Publish(t) PROVE FALSE
    BY <1>4 DEF Publish, IInv, Control, Busy, Workers
<1>5. ReturnEmpty \/ Merge \/ (pc = "returned" /\ UNCHANGED <<results, report>>)
    BY <1>4 DEF Next, CallerStep, ThreadStep, Cancel, ReturnEmpty, BeginSequential, BeginParallel,
                Spawn, StopSending, StopWaiting, Merge, HandOut, CheckContext, Evaluate, Exit,
                Returned, vars, pool, input, channels
<1>. QED  BY <1>1, <1>2, <1>3, <1>5

\* Every step keeps what the refinement needs.
LEMMA PromiseStep == IInv /\ Promise /\ [Next]_vars => Promise'
    BY HonestStep, ReportStep DEF Promise

\* What the refinement needs holds throughout.
LEMMA PromiseHolds == Spec => []Promise
<1>1. Init => Promise
    BY DEF Init, Promise, Honest, JobsClosed, ReportIsMerged
<1>. QED  BY <1>1, PromiseStep, Invariance, PTL DEF Spec

-----------------------------------------------------------------------------
(***************************************************************************)
(* What is decided, in the state of the runner.                            *)
(***************************************************************************)
LEMMA ResultsAreDistinct ==
    ASSUME IInv
    PROVE  /\ results \in Seq(RuleResult)
           /\ DistinctRules(results)
           /\ \A i \in DOMAIN results : results[i].outcome \in Outcomes /\ results[i].rule \in Rules
<1>1. results \in Seq(RuleResult)
    BY DEF IInv, TypeOK, RuleResult
<1>2. \A i \in DOMAIN results : results[i] \in RuleResult
    BY <1>1
<1>3. pc = "begin" => DOMAIN results = {}
    BY DEF IInv, Control
<1>. QED  BY <1>1, <1>2, <1>3 DEF IInv, EachRuleOnce, DistinctRules, RuleResult

\* A rule has the outcome that was published; one left over when the jobs are closed is dropped.
LEMMA DecidedIsPublished ==
    ASSUME IInv
    PROVE  /\ \A i \in DOMAIN results : Decided[results[i].rule] = results[i].outcome
           /\ \A r \in Rules \ Published :
                 Decided[r] = IF r \in pending /\ ~jobsOpen THEN "dropped" ELSE "pending"
           /\ DOMAIN Decided = Rules
           /\ Decided = [r \in Rules |-> Decided[r]]
<1>1. ASSUME NEW i \in DOMAIN results
      PROVE  Decided[results[i].rule] = results[i].outcome
    <2>1. results[i].rule \in Rules
        BY ResultsAreDistinct
    <2>2. results[i].rule \notin pending
        BY DEF IInv, Control, EachRuleOnce, Published
    <2>3. (CHOOSE j \in DOMAIN results : results[j].rule = results[i].rule) = i
        BY ResultsAreDistinct DEF DistinctRules
    <2>. QED  BY <2>1, <2>2, <2>3 DEF Decided
<1>2. ASSUME NEW r \in Rules \ Published
      PROVE  Decided[r] = IF r \in pending /\ ~jobsOpen THEN "dropped" ELSE "pending"
    BY DEF Decided, Published
<1>. QED  BY <1>1, <1>2 DEF Decided

\* As long as the same is published and the same dropped, the same is decided.
LEMMA SameDecided ==
    ASSUME results' = results,
           \A r \in Rules : (r \in pending /\ ~jobsOpen)' <=> (r \in pending /\ ~jobsOpen)
    PROVE  Decided' = Decided
    BY DEF Decided

-----------------------------------------------------------------------------
(***************************************************************************)
(* RuleEvaluation's operators are those of the runner.                     *)
(***************************************************************************)
LEMMA AbstractSelected == Abstract!Selected = Selected
    BY DEF Abstract!Selected, Abstract!SelectedRules, Selected, SelectedRules

\* They flatten alike.
LEMMA AbstractFlatten ==
    ASSUME NEW x
    PROVE  Abstract!FlattenSeq(x) = FlattenSeq(x)
    BY Zenon DEF Abstract!FlattenSeq, FlattenSeq

\* They collect findings alike.
LEMMA AbstractFindings ==
    ASSUME NEW x
    PROVE  Abstract!FindingsOf(x) = FindingsOf(x)
    BY Zenon DEF Abstract!FindingsOf, FindingsOf

\* They collect diagnostics alike.
LEMMA AbstractDiagnostics ==
    ASSUME NEW x
    PROVE  Abstract!DiagnosticsOf(x) = DiagnosticsOf(x)
    BY Zenon DEF Abstract!DiagnosticsOf, DiagnosticsOf

\* They count alike.
LEMMA AbstractCardinality ==
    ASSUME NEW x
    PROVE  Abstract!Cardinality(x) = Cardinality(x)
    BY Zenon DEF Abstract!Cardinality, Cardinality

\* They sort alike.
LEMMA AbstractOrder ==
    ASSUME NEW x
    PROVE  Abstract!InRuleOrder(x) = InRuleOrder(x)
<1>. DEFINE UpTo(j) == {k \in DOMAIN x :
                          \/ x[k].rule < x[j].rule
                          \/ x[k].rule = x[j].rule /\ k <= j}
            Position(i) == CHOOSE j \in DOMAIN x : Cardinality(UpTo(j)) = i
            AbstractPosition(i) == CHOOSE j \in DOMAIN x : Abstract!Cardinality(UpTo(j)) = i
<1>1. InRuleOrder(x) = [i \in DOMAIN x |-> x[Position(i)]]
    BY Zenon DEF InRuleOrder
<1>2. Abstract!InRuleOrder(x) = [i \in DOMAIN x |-> x[AbstractPosition(i)]]
    BY Zenon DEF Abstract!InRuleOrder
<1>. HIDE DEF UpTo
<1>3. \A j : Abstract!Cardinality(UpTo(j)) = Cardinality(UpTo(j))
    BY AbstractCardinality
<1>4. ASSUME NEW i PROVE Position(i) = AbstractPosition(i)
    BY <1>3
<1>. HIDE DEF Position, AbstractPosition
<1>. QED  BY <1>1, <1>2, <1>4

\* They merge alike.
LEMMA AbstractMerge ==
    ASSUME NEW x
    PROVE  Abstract!MergeRuleResults(x) = MergeRuleResults(x)
    BY Zenon, AbstractFlatten, AbstractFindings, AbstractDiagnostics, AbstractOrder
       DEF Abstract!MergeRuleResults, MergeRuleResults

\* They report alike.
LEMMA AbstractReport ==
    ASSUME NEW S, NEW o
    PROVE  Abstract!ReportFor(S, o) = ReportFor(S, o)
    BY Zenon, AbstractMerge, AbstractCardinality DEF Abstract!ReportFor, ReportFor

\* They speak of the same outcomes and verdicts.
LEMMA AbstractConstants ==
    /\ Abstract!NoReport = NoReport
    /\ Abstract!Outcomes = Outcomes
    /\ Abstract!Verdicts = Verdicts
    BY DEF Abstract!NoReport, NoReport, Abstract!Outcomes, Outcomes, Abstract!Verdicts, Verdicts

-----------------------------------------------------------------------------
(***************************************************************************)
(* One lemma per action that the promise can see.                          *)
(***************************************************************************)

\* A step that changes nothing the promise speaks of.
LEMMA Stutter ==
    ASSUME UNCHANGED <<selection, verdict, ctx, report>>,
           (pc = "returned")' <=> (pc = "returned"),
           Decided' = Decided
    PROVE  UNCHANGED Abstract!vars
    BY DEF Abstract!vars

\* A new call has decided nothing.
LEMMA InitRefines == Init => Abstract!Init
<1>. SUFFICES ASSUME Init PROVE Abstract!Init
    OBVIOUS
<1>1. Decided = [r \in Rules |-> "pending"]
    BY DEF Init, Decided
<1>. QED  BY <1>1, AbstractConstants DEF Init, Abstract!Init

\* A cancellation is one.
LEMMA CancelRefines == Cancel => Abstract!Cancel
<1>. SUFFICES ASSUME Cancel PROVE Abstract!Cancel
    OBVIOUS
<1>1. Decided' = Decided
    BY SameDecided DEF Cancel, pool, channels
<1>. QED  BY <1>1 DEF Cancel, Abstract!Cancel, input

\* With nothing selected, the promise returns at once.
LEMMA ReturnEmptyRefines == ReturnEmpty => Abstract!Return
<1>. SUFFICES ASSUME ReturnEmpty PROVE Abstract!Return
    OBVIOUS
<1>1. Decided' = Decided
    BY SameDecided DEF ReturnEmpty, pool, channels
<1>2. Abstract!Selected = {}
    BY AbstractSelected DEF ReturnEmpty
<1>3. {r \in Abstract!Selected : Decided[r] # "dropped"} = {}
    BY <1>2
<1>4. report' = Abstract!ReportFor({}, Decided)
    BY AbstractReport, EmptyReport DEF ReturnEmpty
<1>. QED  BY <1>1, <1>2, <1>3, <1>4 DEF ReturnEmpty, Abstract!Return, input

\* The rules left over when the sender stops are dropped, all at once.
LEMMA StopSendingRefines == IInv /\ StopSending => Abstract!Drop \/ UNCHANGED Abstract!vars
<1>. SUFFICES ASSUME IInv, StopSending PROVE Abstract!Drop \/ UNCHANGED Abstract!vars
    OBVIOUS
<1>1. jobsOpen /\ ~jobsOpen'
    BY DEF IInv, Control, TypeOK, StopSending
<1>2. results' = results /\ pending' = pending
    BY DEF StopSending, pool
<1>3. CASE pending = {}
    <2>1. Decided' = Decided
        BY <1>2, <1>3, SameDecided
    <2>. QED  BY <2>1, Stutter DEF StopSending, input
<1>4. CASE ctx = "done"
    <2>1. pending \subseteq Abstract!Selected
        BY AbstractSelected DEF IInv, EachRuleOnce, StopSending
    <2>2. pending \subseteq Rules \ Published
        BY DEF IInv, TypeOK, EachRuleOnce, StopSending
    <2>3. \A r \in pending : Decided[r] = "pending"
        BY <1>1, <2>2, DecidedIsPublished
    <2>4. Decided' = [r \in Rules |-> IF r \in pending THEN "dropped" ELSE Decided[r]]
        <3>1. ASSUME NEW r \in Rules
              PROVE  Decided'[r] = IF r \in pending THEN "dropped" ELSE Decided[r]
            <4>1. CASE r \in pending
                BY <1>1, <1>2, <2>2, <4>1 DEF Decided, Published
            <4>2. CASE r \notin pending
                BY <1>1, <1>2, <4>2 DEF Decided
            <4>. QED  BY <4>1, <4>2
        <3>. QED  BY <3>1 DEF Decided
    <2>. QED  BY <1>4, <2>1, <2>3, <2>4 DEF Abstract!Drop, StopSending, input
<1>. QED  BY <1>3, <1>4 DEF StopSending

\* What is decided of a rule after a step.
LEMMA DecidedNext ==
    /\ Decided' = [q \in Rules |-> Decided'[q]]
    /\ \A q \in Rules :
          /\ q \notin pending' /\ (\E j \in DOMAIN results' : results'[j].rule = q) =>
                Decided'[q] = results'[CHOOSE j \in DOMAIN results' : results'[j].rule = q].outcome
          /\ (\A j \in DOMAIN results' : results'[j].rule # q) =>
                Decided'[q] = IF q \in pending' /\ ~jobsOpen' THEN "dropped" ELSE "pending"
<1>1. Decided' = [q \in Rules |-> Decided'[q]]
    BY DEF Decided
<1>2. ASSUME NEW q \in Rules, q \notin pending', \E j \in DOMAIN results' : results'[j].rule = q
      PROVE  Decided'[q] = results'[CHOOSE j \in DOMAIN results' : results'[j].rule = q].outcome
    BY <1>2 DEF Decided
<1>3. ASSUME NEW q \in Rules, \A j \in DOMAIN results' : results'[j].rule # q
      PROVE  Decided'[q] = IF q \in pending' /\ ~jobsOpen' THEN "dropped" ELSE "pending"
    BY <1>3 DEF Decided
<1>. QED  BY <1>1, <1>2, <1>3

\* A result is published: the rule is decided, for good.
LEMMA PublishRefines ==
    ASSUME IInv, Promise, NEW t \in Threads, Publish(t)
    PROVE  Abstract!Decide(job[t].rule)
<1>. DEFINE r == job[t].rule
            o == job[t].outcome
            n == Len(results)
<1>. USE DEF Publish, input, channels
<1>t. TypeOK
    BY DEF IInv
<1>1. t \in BusyThreads /\ pc # "begin"
    <2>1. Busy(t)
        BY DEF Busy
    <2>2. pc # "begin"
        BY <2>1, NobodyBusyAtBegin DEF IInv
    <2>. QED  BY <2>1, <2>2 DEF BusyThreads
<1>2. r \in Selected /\ r \notin pending /\ r \notin Published
    BY <1>1 DEF IInv, EachRuleOnce
<1>3. r \in Rules
    BY <1>2 DEF Selected, SelectedRules
<1>4. Decided[r] = "pending"
    BY <1>2, <1>3, DecidedIsPublished
<1>5. /\ o \in Outcomes
      /\ o # verdict[r] => ctx = "done" /\ o \in {"error", "cancelled"}
    BY <1>t DEF IInv, Faithful, Promise, Honest, TypeOK
<1>6. results \in Seq(RuleResult) /\ n \in Nat /\ DOMAIN results = 1..n
    BY ResultsAreDistinct
<1>7. /\ DOMAIN results' = 1..(n + 1)
      /\ results'[n + 1] = job[t]
      /\ \A i \in 1..n : results'[i] = results[i]
    BY <1>6
<1>8. \A i \in 1..n : results[i].rule # r
    BY <1>2, <1>6 DEF Published
<1>9. Decided' = [Decided EXCEPT ![r] = o]
    <2>1. Decided'[r] = o
        <3>1. (CHOOSE j \in DOMAIN results' : results'[j].rule = r) = n + 1
            BY <1>6, <1>7, <1>8
        <3>2. Decided'[r] = results'[CHOOSE j \in DOMAIN results' : results'[j].rule = r].outcome
            <4>1. r \notin pending'
                BY <1>2 DEF pool
            <4>2. \E j \in DOMAIN results' : results'[j].rule = r
                BY <1>6, <1>7
            <4>. QED  BY <1>3, <4>1, <4>2, DecidedNext
        <3>. QED  BY <1>7, <3>1, <3>2
    <2>2. ASSUME NEW q \in Rules \ {r} PROVE Decided'[q] = Decided[q]
        <3>1. CASE q \in Published
            <4>1. PICK i \in 1..n : results[i].rule = q
                BY <1>6, <3>1 DEF Published
            <4>2. \A j \in 1..n : results[j].rule = q => j = i
                BY <1>6, <4>1, ResultsAreDistinct DEF DistinctRules
            <4>3. (CHOOSE j \in DOMAIN results' : results'[j].rule = q) = i
                BY <1>6, <1>7, <4>1, <4>2
            <4>4. q \notin pending'
                BY <1>1, <3>1 DEF IInv, EachRuleOnce
            <4>5. Decided'[q] = results'[i].outcome
                <5>1. \E j \in DOMAIN results' : results'[j].rule = q
                    BY <1>6, <1>7, <4>1
                <5>. QED  BY <4>3, <4>4, <5>1, DecidedNext
            <4>6. Decided[q] = results[i].outcome
                BY <1>6, <4>1, DecidedIsPublished
            <4>. QED  BY <1>7, <4>5, <4>6
        <3>2. CASE q \notin Published
            <4>1. \A j \in DOMAIN results' : results'[j].rule # q
                BY <1>6, <1>7, <3>2 DEF Published
            <4>2. Decided'[q] = IF q \in pending' /\ ~jobsOpen' THEN "dropped" ELSE "pending"
                BY <4>1, DecidedNext
            <4>3. Decided[q] = IF q \in pending /\ ~jobsOpen THEN "dropped" ELSE "pending"
                BY <3>2, DecidedIsPublished
            <4>. QED  BY <4>2, <4>3 DEF pool
        <3>. QED  BY <3>1, <3>2
    <2>3. Decided' = [q \in Rules |-> Decided'[q]] /\ Decided = [q \in Rules |-> Decided[q]]
        BY DecidedNext, DecidedIsPublished
    <2>. HIDE DEF r, o
    <2>. QED  BY <1>3, <2>1, <2>2, <2>3
<1>10. UNCHANGED <<selection, verdict, ctx, report, pc>>
    OBVIOUS
<1>. QED  BY <1>2, <1>4, <1>5, <1>9, <1>10, AbstractSelected, AbstractConstants DEF Abstract!Decide

\* When the results are merged nobody holds a rule any more.
LEMMA NobodyBusyAtMerge ==
    ASSUME IInv, Merge
    PROVE  BusyThreads = {}
    BY ThreadsAreNaturals DEF IInv, Control, Merge, BusyThreads, Busy, Workers

\* Merging returns what the promise does: every rule is decided or dropped.
LEMMA MergeRefines ==
    ASSUME IInv, Promise, Merge
    PROVE  Abstract!Return
<1>1. Decided' = Decided
    BY SameDecided DEF Merge, pool, channels
<1>2. pc \in {"collect", "sequential"} /\ pc' = "returned"
    BY DEF Merge
<1>3. Selected = pending \union Published
    BY <1>2, NobodyBusyAtMerge DEF IInv, EachRuleOnce
<1>4. \A r \in pending : r \in Rules \ Published /\ ~jobsOpen
    BY <1>2 DEF IInv, TypeOK, EachRuleOnce, Promise, JobsClosed, Merge
<1>5. \A r \in pending : Decided[r] = "dropped"
    BY <1>4, DecidedIsPublished
<1>6. \A r \in Published : Decided[r] \in Outcomes
    BY ResultsAreDistinct, DecidedIsPublished DEF Published
<1>7. /\ \A r \in Selected : Decided[r] # "pending"
      /\ {r \in Selected : Decided[r] # "dropped"} = Published
    BY <1>3, <1>5, <1>6 DEF Outcomes, Verdicts
<1>8. MergeRuleResults(results) = ReportFor(Published, Decided)
    <2>1. Published \subseteq Rules /\ IsFiniteSet(Published)
        <3>1. Published \subseteq Rules
            BY ResultsAreDistinct DEF Published
        <3>. QED  BY <3>1, RulesAssumption, FS_Subset
    <2>2. {results[i] : i \in DOMAIN results} = {[rule |-> r, outcome |-> Decided[r]] : r \in Published}
        <3>1. ASSUME NEW i \in DOMAIN results
              PROVE  results[i] = [rule |-> results[i].rule, outcome |-> Decided[results[i].rule]]
            <4>1. results[i] \in RuleResult
                BY ResultsAreDistinct
            <4>2. results[i] = [rule |-> results[i].rule, outcome |-> results[i].outcome]
                BY <4>1 DEF RuleResult
            <4>3. Decided[results[i].rule] = results[i].outcome
                BY DecidedIsPublished
            <4>. QED  BY <4>2, <4>3
        <3>. QED  BY <3>1 DEF Published
    <2>. QED  BY <1>6, <2>1, <2>2, ResultsAreDistinct, MergedIsReport
<1>. QED  BY <1>1, <1>2, <1>7, <1>8, AbstractSelected, AbstractReport
          DEF Merge, Abstract!Return, input

\* Every step of the runner is a step of the promise, or none at all.
LEMMA StepRefines == IInv /\ Promise /\ [Next]_vars => [Abstract!Next]_(Abstract!vars)
<1>. SUFFICES ASSUME IInv, Promise, [Next]_vars
              PROVE  Abstract!Next \/ UNCHANGED Abstract!vars
    OBVIOUS
<1>1. CASE Cancel
    BY <1>1, CancelRefines DEF Abstract!Next
<1>2. CASE CallerStep
    <2>1. CASE ReturnEmpty
        BY <2>1, ReturnEmptyRefines DEF Abstract!Next
    <2>2. CASE BeginSequential
        <3>1. jobsOpen' = TRUE /\ jobsOpen = TRUE
            BY <2>2 DEF BeginSequential, channels, IInv, Control, TypeOK
        <3>2. Decided' = Decided
            BY <2>2, <3>1, SameDecided DEF BeginSequential
        <3>. QED  BY <2>2, <3>2, Stutter DEF BeginSequential, input
    <2>3. CASE BeginParallel
        <3>1. jobsOpen' = TRUE /\ jobsOpen = TRUE
            BY <2>3 DEF BeginParallel, channels, IInv, Control, TypeOK
        <3>2. Decided' = Decided
            BY <2>3, <3>1, SameDecided DEF BeginParallel
        <3>. QED  BY <2>3, <3>2, Stutter DEF BeginParallel, input
    <2>4. ASSUME NEW w \in Threads \ {Caller}, Spawn(w)
          PROVE  Abstract!Next \/ UNCHANGED Abstract!vars
        <3>1. Decided' = Decided
            BY <2>4, SameDecided DEF Spawn, channels
        <3>2. pc # "returned" /\ pc' # "returned"
            BY <2>4 DEF Spawn
        <3>. QED  BY <2>4, <3>1, <3>2, Stutter DEF Spawn, input
    <2>5. CASE StopSending
        BY <2>5, StopSendingRefines DEF Abstract!Next
    <2>6. CASE StopWaiting
        <3>1. Decided' = Decided
            BY <2>6, SameDecided DEF StopWaiting, pool
        <3>. QED  BY <2>6, <3>1, Stutter DEF StopWaiting, input
    <2>7. CASE Merge
        BY <2>7, MergeRefines DEF Abstract!Next
    <2>. QED  BY <1>2, <2>1, <2>2, <2>3, <2>4, <2>5, <2>6, <2>7 DEF CallerStep
<1>3. ASSUME NEW t \in Threads, ThreadStep(t)
      PROVE  Abstract!Next \/ UNCHANGED Abstract!vars
    <2>1. CASE HandOut(t)
        <3>1. jobsOpen' = TRUE /\ jobsOpen = TRUE
            BY <2>1 DEF HandOut, channels, IInv, Control, TypeOK
        <3>2. Decided' = Decided
            BY <2>1, <3>1, SameDecided DEF HandOut
        <3>. QED  BY <2>1, <3>2, Stutter DEF HandOut, input
    <2>2. CASE CheckContext(t)
        <3>1. Decided' = Decided
            BY <2>2, SameDecided DEF CheckContext, channels
        <3>. QED  BY <2>2, <3>1, Stutter DEF CheckContext, input
    <2>3. CASE Evaluate(t)
        <3>1. Decided' = Decided
            BY <2>3, SameDecided DEF Evaluate, channels
        <3>. QED  BY <2>3, <3>1, Stutter DEF Evaluate, input
    <2>4. CASE Publish(t)
        <3>1. job[t].rule \in Rules
            <4>1. t \in BusyThreads
                BY <2>4 DEF Publish, BusyThreads, Busy
            <4>2. pc # "begin"
                BY <4>1, NobodyBusyAtBegin DEF IInv, BusyThreads
            <4>. QED  BY <4>1, <4>2 DEF IInv, EachRuleOnce, Selected, SelectedRules
        <3>. QED  BY <2>4, <3>1, PublishRefines DEF Abstract!Next
    <2>. QED  BY <1>3, <2>1, <2>2, <2>3, <2>4 DEF ThreadStep
<1>4. ASSUME NEW w \in Threads \ {Caller}, Exit(w)
      PROVE  Abstract!Next \/ UNCHANGED Abstract!vars
    <2>1. Decided' = Decided
        BY <1>4, SameDecided DEF Exit, channels
    <2>. QED  BY <1>4, <2>1, Stutter DEF Exit, input
<1>5. CASE Returned \/ UNCHANGED vars
    <2>1. UNCHANGED vars
        BY <1>5 DEF Returned
    <2>2. Decided' = Decided
        BY <2>1, SameDecided DEF vars, pool, channels
    <2>. QED  BY <2>1, <2>2, Stutter DEF vars, input
<1>. QED  BY <1>1, <1>2, <1>3, <1>4, <1>5 DEF Next

-----------------------------------------------------------------------------
(***************************************************************************)
(* Runner.Evaluate with its worker pool keeps the promise of one call that *)
(* decides its rules one by one: the pool, the channels and the schedule   *)
(* cannot be told from the Result (runner.go:69-123).                      *)
(***************************************************************************)
THEOREM Refinement == Spec => ImplementsRuleEvaluation
<1>1. Spec => Abstract!Spec
    BY InitRefines, StepRefines, Invariance, PromiseHolds, PTL DEF Spec, Abstract!Spec
<1>. QED  BY <1>1 DEF ImplementsRuleEvaluation

(***************************************************************************)
(* "Evaluate runs selected rules deterministically" (runner.go:69): under  *)
(* a live context the Result is that of the sequential loop.               *)
(***************************************************************************)
THEOREM Determinism == Spec => []Deterministic
<1>1. ASSUME IInv, IncompleteOnlyIfCancelled, ReportIsMerged, pc = "returned", ctx = "live"
      PROVE  report = ReportFor(Selected, verdict)
    <2>1. Selected \subseteq Rules
        BY DEF Selected, SelectedRules
    <2>2. BusyThreads = {} /\ pending = {}
        BY <1>1 DEF IInv, Control, BusyThreads, Busy, Workers
    <2>3. Published = Selected
        BY <1>1, <2>2 DEF IInv, EachRuleOnce
    <2>4. ASSUME NEW i \in DOMAIN results
          PROVE  results[i] = [rule |-> results[i].rule, outcome |-> verdict[results[i].rule]]
        <3>1. results[i] \in RuleResult
            BY <1>1, ResultsAreDistinct
        <3>2. results[i] = [rule |-> results[i].rule, outcome |-> results[i].outcome]
            BY <3>1 DEF RuleResult
        <3>3. results[i].outcome = verdict[results[i].rule]
            BY <1>1 DEF IInv, Faithful
        <3>. QED  BY <3>2, <3>3
    <2>5. {results[i] : i \in DOMAIN results} = {[rule |-> r, outcome |-> verdict[r]] : r \in Selected}
        BY <2>3, <2>4 DEF Published
    <2>6. MergeRuleResults(results) = ReportFor(Selected, verdict)
        BY <1>1, <2>1, <2>5, ResultsAreDistinct, MergedIsReport
    <2>. QED  BY <1>1, <2>6 DEF ReportIsMerged
<1>2. IInv /\ IncompleteOnlyIfCancelled /\ Promise => Deterministic
    BY <1>1 DEF Deterministic, Promise
<1>. QED  BY <1>2, Invariance, Completeness, PromiseHolds, PTL
=============================================================================
