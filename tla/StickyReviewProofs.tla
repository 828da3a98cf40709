------------------------- MODULE StickyReviewProofs -------------------------
(***************************************************************************)
(* Safety of the sticky review for any number of jobs and comments, any    *)
(* page size and both orders in which a service lists a thread.            *)
(***************************************************************************)
EXTENDS StickyReview, FiniteSetTheorems, NaturalsInduction, TLAPS

(***************************************************************************)
(* IDs name comments, and what a job has chosen to update is sticky for as *)
(* long as it exists.                                                      *)
(***************************************************************************)
Identified ==
    /\ \A i \in DOMAIN thread : thread[i].id < nextID
    /\ \A i, k \in DOMAIN thread : thread[i].id = thread[k].id => i = k
    /\ \A j \in Jobs : target[j] < nextID
    /\ \A j \in Jobs : \A i \in DOMAIN thread :
          thread[i].id = target[j] => Marked(thread[i])

\* Windows open in the order of the jobs, and only for jobs that have started.
Windows ==
    /\ \A j \in inFlight \union refused : phase[j] \in {"waiting", "failed"}
    /\ \A j \in disturbed : phase[j] # "queued"
    /\ \A j \in Jobs : phase[j] = "queued" => unread[j] = 1
    /\ \A i, j \in Jobs : i < j /\ phase[i] = "queued" => phase[j] = "queued"

(***************************************************************************)
(* A job that nobody disturbs and that has found no sticky comment has not *)
(* overlooked one: it can only lie where the job has not read yet.         *)
(***************************************************************************)
NothingOverlooked ==
    \A j \in InWindow \ disturbed :
        target[j] = NoComment =>
            \A i \in MarkedPositions : j \notin inFlight /\ i >= unread[j]

\* Only the jobs whose window is over have had their chance to duplicate.
Spent == disturbed \ InWindow

DuplicatesAreSpent == Cardinality(StickyComments) <= 1 + Cardinality(Spent)

\* The jobs that wait for, or have, the answer to a write that was applied.
Applied == {j \in Jobs : phase[j] \in {"waiting", "published"} /\ j \notin inFlight \union refused}

(***************************************************************************)
(* While nobody is disturbed there is one sticky comment, no older than    *)
(* any applied write, and only later jobs can still write.                 *)
(***************************************************************************)
UpToDate ==
    disturbed = {} =>
        /\ \A i, k \in MarkedPositions : i = k
        /\ \A j \in Applied :
            /\ \A i \in MarkedPositions : thread[i].review >= j
            /\ \A k \in InWindow : k > j

\* The inductive invariant.
IInv ==
    /\ TypeOK
    /\ Identified
    /\ Windows
    /\ NothingOverlooked
    /\ DuplicatesAreSpent
    /\ UpToDate

-----------------------------------------------------------------------------
\* There are finitely many sticky comments and spent jobs.
LEMMA StickyIsFinite ==
    TypeOK => /\ StickyComments \subseteq 1..MaxComments
              /\ IsFiniteSet(StickyComments)
              /\ IsFiniteSet(Spent)
<1> SUFFICES ASSUME TypeOK
             PROVE  /\ StickyComments \subseteq 1..MaxComments
                    /\ IsFiniteSet(StickyComments)
                    /\ IsFiniteSet(Spent)
    OBVIOUS
<1>1. StickyComments \subseteq 1..MaxComments
    <2>1. \A i \in DOMAIN thread : thread[i] \in Comment
        BY DEF TypeOK
    <2>2. \A i \in MarkedPositions : thread[i].id \in 1..MaxComments
        BY <2>1 DEF MarkedPositions, Comment
    <2> QED
        BY <2>2 DEF StickyComments
<1>2. IsFiniteSet(1..MaxComments)
    BY FS_Interval, StickyAssumption
<1>3. Spent \subseteq Jobs
    BY DEF TypeOK, Spent
<1> QED
    BY <1>1, <1>2, <1>3, FS_Subset, StickyAssumption

(***************************************************************************)
(* Inserting a comment leaves the others in their order and moves none of  *)
(* them towards the beginning.                                             *)
(***************************************************************************)
LEMMA InsertPositions ==
    ASSUME TypeOK, NEW c \in Comment
    PROVE  /\ Insert(c) \in Seq(Comment)
           /\ DOMAIN Insert(c) = 1..(Len(thread) + 1)
           /\ \E p \in DOMAIN Insert(c) : Insert(c)[p] = c
           /\ \A k \in DOMAIN Insert(c) :
                 \/ Insert(c)[k] = c /\ (k = 1 \/ k = Len(thread) + 1)
                 \/ \E i \in DOMAIN thread : i <= k /\ Insert(c)[k] = thread[i]
           /\ \A i \in DOMAIN thread : \E k \in DOMAIN Insert(c) : Insert(c)[k] = thread[i]
           /\ \A k, l \in DOMAIN Insert(c) :
                 \/ k = l
                 \/ \E i, m \in DOMAIN thread :
                       i # m /\ Insert(c)[k] = thread[i] /\ Insert(c)[l] = thread[m]
                 \/ \E i \in DOMAIN thread :
                       \/ Insert(c)[k] = c /\ Insert(c)[l] = thread[i]
                       \/ Insert(c)[l] = c /\ Insert(c)[k] = thread[i]
<1>0. thread \in Seq(Comment) /\ Len(thread) \in Nat /\ DOMAIN thread = 1..Len(thread)
    BY DEF TypeOK
<1> DEFINE s == Insert(c)
           shift == IF NewestFirst THEN 1 ELSE 0
           spot == IF NewestFirst THEN 1 ELSE Len(thread) + 1
<1>1. s \in Seq(Comment) /\ DOMAIN s = 1..(Len(thread) + 1)
    BY <1>0 DEF Insert
<1>2. /\ s[spot] = c
      /\ spot \in DOMAIN s
      /\ shift \in 0..1
      /\ \A i \in DOMAIN thread : i + shift \in DOMAIN s /\ s[i + shift] = thread[i]
    <2>1. CASE NewestFirst
        <3>1. s = <<c>> \o thread
            BY <2>1 DEF Insert
        <3>2. s[1] = c /\ \A i \in DOMAIN thread : s[i + 1] = thread[i]
            BY <3>1, <1>0
        <3> QED
            BY <3>2, <2>1, <1>0, <1>1
    <2>2. CASE ~NewestFirst
        BY <2>2, <1>0, <1>1 DEF Insert
    <2> QED
        BY <2>1, <2>2
<1>3. \A k \in DOMAIN s : k = spot \/ (k - shift \in DOMAIN thread /\ s[k] = thread[k - shift])
    <2> SUFFICES ASSUME NEW k \in DOMAIN s, k # spot
                 PROVE  k - shift \in DOMAIN thread /\ s[k] = thread[k - shift]
        OBVIOUS
    <2>1. k - shift \in DOMAIN thread
        BY <1>0, <1>1
    <2>2. s[(k - shift) + shift] = thread[k - shift] /\ (k - shift) + shift = k
        BY <2>1, <1>0, <1>1, <1>2
    <2> QED
        BY <2>1, <2>2
<1>4. spot = 1 \/ spot = Len(thread) + 1
    OBVIOUS
<1> HIDE DEF s, shift, spot
<1>5. \A k \in DOMAIN s : \/ s[k] = c /\ (k = 1 \/ k = Len(thread) + 1)
                          \/ \E i \in DOMAIN thread : i <= k /\ s[k] = thread[i]
    <2> SUFFICES ASSUME NEW k \in DOMAIN s, k # spot
                 PROVE  \E i \in DOMAIN thread : i <= k /\ s[k] = thread[i]
        BY <1>2, <1>4
    <2>1. k - shift \in DOMAIN thread /\ s[k] = thread[k - shift] /\ k - shift <= k
        BY <1>0, <1>1, <1>2, <1>3
    <2> QED
        BY <2>1
<1>6. \A k, l \in DOMAIN s :
         \/ k = l
         \/ \E i, m \in DOMAIN thread : i # m /\ s[k] = thread[i] /\ s[l] = thread[m]
         \/ \E i \in DOMAIN thread : \/ s[k] = c /\ s[l] = thread[i]
                                     \/ s[l] = c /\ s[k] = thread[i]
    <2> SUFFICES ASSUME NEW k \in DOMAIN s, NEW l \in DOMAIN s, k # l
                 PROVE  \/ \E i, m \in DOMAIN thread :
                              i # m /\ s[k] = thread[i] /\ s[l] = thread[m]
                        \/ \E i \in DOMAIN thread : \/ s[k] = c /\ s[l] = thread[i]
                                                    \/ s[l] = c /\ s[k] = thread[i]
        OBVIOUS
    <2>1. CASE k = spot \/ l = spot
        BY <2>1, <1>2, <1>3
    <2>2. CASE k # spot /\ l # spot
        <3>1. k - shift # l - shift
            BY <1>1, <1>2
        <3> QED
            BY <3>1, <2>2, <1>3
    <2> QED
        BY <2>1, <2>2
<1> QED
    <2>1. \A i \in DOMAIN thread : \E k \in DOMAIN s : s[k] = thread[i]
        BY <1>2
    <2> QED
        BY <2>1, <1>1, <1>2, <1>5, <1>6 DEF s

\* The effect of a new comment on the thread and on the sticky comments.
Posted(review) ==
    /\ nextID <= MaxComments
    /\ thread' = Insert([id |-> nextID, review |-> review])
    /\ nextID' = nextID + 1

\* A new comment appears at one end of the thread; the others stay, in order, under their IDs.
LEMMA PostedComment ==
    ASSUME TypeOK, Identified, NEW review \in Jobs \union {Person}, Posted(review)
    PROVE  /\ thread' \in Seq(Comment)
           /\ nextID' \in 1..(MaxComments + 1)
           /\ \A k \in DOMAIN thread' :
                 \/ thread'[k] = [id |-> nextID, review |-> review]
                 \/ \E i \in DOMAIN thread : i <= k /\ thread'[k] = thread[i]
           /\ \A i \in DOMAIN thread : \E k \in DOMAIN thread' : thread'[k] = thread[i]
           /\ \E p \in DOMAIN thread' : thread'[p] = [id |-> nextID, review |-> review]
           /\ \A i \in DOMAIN thread' : thread'[i].id < nextID'
           /\ \A i, k \in DOMAIN thread' : thread'[i].id = thread'[k].id => i = k
<1> DEFINE c == [id |-> nextID, review |-> review]
<1>1. c \in Comment /\ nextID \in 1..MaxComments /\ c.id = nextID
    BY StickyAssumption DEF TypeOK, Comment, Posted
<1>2. thread' = Insert(c)
    BY DEF Posted
<1>3. thread \in Seq(Comment) /\ \A i \in DOMAIN thread : thread[i].id \in Nat /\ thread[i].id < nextID
    <2>1. \A i \in DOMAIN thread : thread[i] \in Comment
        BY DEF TypeOK
    <2> QED
        BY <2>1 DEF TypeOK, Comment, Identified
<1> HIDE DEF c
<1>4. /\ thread' \in Seq(Comment)
      /\ \A k \in DOMAIN thread' : \/ thread'[k] = c
                                   \/ \E i \in DOMAIN thread : i <= k /\ thread'[k] = thread[i]
      /\ \A i \in DOMAIN thread : \E k \in DOMAIN thread' : thread'[k] = thread[i]
      /\ \E p \in DOMAIN thread' : thread'[p] = c
    BY <1>1, <1>2, InsertPositions
<1>5. \A k, l \in DOMAIN thread' :
         \/ k = l
         \/ \E i, m \in DOMAIN thread : i # m /\ thread'[k] = thread[i] /\ thread'[l] = thread[m]
         \/ \E i \in DOMAIN thread : \/ thread'[k] = c /\ thread'[l] = thread[i]
                                     \/ thread'[l] = c /\ thread'[k] = thread[i]
    <2>1. \A k, l \in DOMAIN Insert(c) :
             \/ k = l
             \/ \E i, m \in DOMAIN thread :
                   i # m /\ Insert(c)[k] = thread[i] /\ Insert(c)[l] = thread[m]
             \/ \E i \in DOMAIN thread :
                   \/ Insert(c)[k] = c /\ Insert(c)[l] = thread[i]
                   \/ Insert(c)[l] = c /\ Insert(c)[k] = thread[i]
        BY <1>1, InsertPositions
    <2> TAKE k, l \in DOMAIN thread'
    <2> QED
        BY <2>1, <1>2
<1>6. nextID' = nextID + 1
    BY DEF Posted
<1>7. \A i \in DOMAIN thread' : thread'[i].id < nextID'
    <2> SUFFICES ASSUME NEW k \in DOMAIN thread' PROVE thread'[k].id < nextID'
        OBVIOUS
    <2>1. CASE thread'[k] = c
        BY <2>1, <1>1, <1>6
    <2>2. CASE \E i \in DOMAIN thread : thread'[k] = thread[i]
        BY <2>2, <1>1, <1>3, <1>6
    <2> QED
        BY <2>1, <2>2, <1>4
<1>8. \A i, k \in DOMAIN thread' : thread'[i].id = thread'[k].id => i = k
    <2> SUFFICES ASSUME NEW k \in DOMAIN thread', NEW l \in DOMAIN thread',
                        thread'[k].id = thread'[l].id, k # l
                 PROVE  FALSE
        OBVIOUS
    <2>1. CASE \E i, m \in DOMAIN thread :
                  i # m /\ thread'[k] = thread[i] /\ thread'[l] = thread[m]
        BY <2>1 DEF Identified
    <2>2. CASE \E i \in DOMAIN thread : \/ thread'[k] = c /\ thread'[l] = thread[i]
                                        \/ thread'[l] = c /\ thread'[k] = thread[i]
        BY <2>2, <1>1, <1>3
    <2> QED
        BY <2>1, <2>2, <1>5
<1> QED
    BY <1>1, <1>4, <1>6, <1>7, <1>8, StickyAssumption DEF c

(***************************************************************************)
(* A deletion leaves the other comments and their order.                   *)
(***************************************************************************)
LEMMA DeletedComment ==
    ASSUME TypeOK, NEW d, PersonDeletes(d)
    PROVE  /\ thread' \in Seq(Comment)
           /\ \A k \in DOMAIN thread' : \E i \in DOMAIN thread : thread'[k] = thread[i]
           /\ \A k, l \in DOMAIN thread' : k # l =>
                 \E i, m \in DOMAIN thread :
                    i # m /\ thread'[k] = thread[i] /\ thread'[l] = thread[m]
<1> DEFINE from(k) == IF k < d THEN k ELSE k + 1
<1>1. /\ thread \in Seq(Comment)
      /\ Len(thread) \in Nat
      /\ DOMAIN thread = 1..Len(thread)
      /\ d \in 1..Len(thread)
    BY DEF TypeOK, PersonDeletes
<1>2. /\ DOMAIN thread' = 1..(Len(thread) - 1)
      /\ \A k \in DOMAIN thread' : thread'[k] = thread[from(k)]
    BY <1>1 DEF PersonDeletes
<1>3. \A k \in DOMAIN thread' : from(k) \in DOMAIN thread
    BY <1>1, <1>2
<1>4. \A k, l \in DOMAIN thread' : k # l => from(k) # from(l)
    BY <1>1, <1>2
<1>5. thread' \in Seq(Comment)
    <2>1. \A k \in 1..(Len(thread) - 1) : thread[from(k)] \in Comment
        BY <1>1, <1>2, <1>3
    <2>2. thread' = [k \in 1..(Len(thread) - 1) |-> thread[from(k)]]
        BY <1>1 DEF PersonDeletes
    <2>3. Len(thread) - 1 \in Nat
        BY <1>1
    <2> HIDE DEF from
    <2> QED
        BY <2>1, <2>2, <2>3
<1> HIDE DEF from
<1> QED
    BY <1>2, <1>3, <1>4, <1>5

(***************************************************************************)
(* An update changes the review of one comment and nothing else.           *)
(***************************************************************************)
LEMMA UpdatedComment ==
    ASSUME TypeOK, NEW j \in Jobs, Update(j)
    PROVE  /\ thread' \in Seq(Comment)
           /\ DOMAIN thread' = DOMAIN thread
           /\ \A k \in DOMAIN thread : thread'[k].id = thread[k].id
           /\ \E i \in DOMAIN thread :
                /\ thread[i].id = target[j]
                /\ thread'[i].review = j
                /\ \A k \in DOMAIN thread : k # i => thread'[k] = thread[k]
<1>1. PICK i \in DOMAIN thread : thread[i].id = target[j] /\ thread' = [thread EXCEPT ![i].review = j]
    BY DEF Update
<1>2. thread[i] \in Comment /\ [thread[i] EXCEPT !.review = j] \in Comment
    <2>1. thread[i] \in Comment
        BY DEF TypeOK
    <2> QED
        BY <2>1 DEF Comment
<1>3. thread' \in Seq(Comment) /\ DOMAIN thread' = DOMAIN thread
    BY <1>1, <1>2 DEF TypeOK
<1>4. \A k \in DOMAIN thread :
        thread'[k] = IF k = i THEN [thread[i] EXCEPT !.review = j] ELSE thread[k]
    BY <1>1 DEF TypeOK
<1>5. thread'[i].id = thread[i].id /\ thread'[i].review = j
    BY <1>2, <1>4 DEF Comment
<1> QED
    BY <1>1, <1>3, <1>4, <1>5

\* A nonempty set of positions has a first.
LEMMA LeastPosition ==
    ASSUME NEW S \in SUBSET Nat, S # {}
    PROVE  \E n \in S : \A k \in S : n <= k
<1>1. PICK n \in S : \A k \in S : <<k, n>> \notin OpToRel(<, Nat)
    BY NatLessThanWellFounded, WFMin
<1>2. \A k \in S : ~(k < n)
    BY <1>1 DEF OpToRel
<1> QED
    BY <1>2

\* A new thread is well typed.
LEMMA TypeInitially == Init => TypeOK
BY StickyAssumption DEF Init, TypeOK, Comment, Phases, NoComment

\* A page yields its first marked comment, if it has one.
LEMMA FoundComment ==
    ASSUME TypeOK, Identified, NEW page \in SUBSET DOMAIN thread
    PROVE  \/ /\ FirstMarkedOn(page) = NoComment
              /\ \A i \in page : ~Marked(thread[i])
           \/ \E i \in page : Marked(thread[i]) /\ FirstMarkedOn(page) = thread[i].id
<1> DEFINE marked == {i \in page : Marked(thread[i])}
<1>1. CASE marked = {}
    BY <1>1 DEF FirstMarkedOn
<1>2. CASE marked # {}
    <2>1. DOMAIN thread = 1..Len(thread) /\ Len(thread) \in Nat
        BY DEF TypeOK
    <2>2. marked \subseteq Nat
        BY <2>1
    <2>3. PICK i \in marked : \A k \in marked : i <= k
        BY <1>2, <2>2, LeastPosition
    <2>4. (CHOOSE n \in marked : \A k \in marked : n <= k) \in marked
        BY <2>3
    <2> QED
        BY <1>2, <2>4 DEF FirstMarkedOn
<1> QED
    BY <1>1, <1>2

-----------------------------------------------------------------------------
(***************************************************************************)
(* Each part of the invariant is preserved by every step.                  *)
(***************************************************************************)
LEMMA TypeStep ==
    ASSUME TypeOK, Identified, [Next]_vars
    PROVE  TypeOK'
<1>1. ASSUME NEW j \in Jobs, Start(j) PROVE TypeOK'
    BY <1>1 DEF Start, TypeOK, Phases
<1>2. ASSUME NEW j \in Jobs, ReadPage(j) PROVE TypeOK'
    <2>1. Page(j) \subseteq DOMAIN thread
        BY DEF Page
    <2>2. \A i \in DOMAIN thread : thread[i].id \in 1..MaxComments
        <3>1. \A i \in DOMAIN thread : thread[i] \in Comment
            BY DEF TypeOK
        <3> QED
            BY <3>1 DEF Comment
    <2>3. FirstMarkedOn(Page(j)) \in 0..MaxComments
        BY <2>1, <2>2, FoundComment, StickyAssumption DEF NoComment
    <2>4. target' \in [Jobs -> 0..MaxComments]
        BY <1>2, <2>3 DEF ReadPage, TypeOK
    <2>5. unread' \in [Jobs -> Nat \ {0}]
        BY <1>2, StickyAssumption DEF ReadPage, TypeOK
    <2>6. phase' \in [Jobs -> Phases] /\ inFlight' \subseteq Jobs
        BY <1>2 DEF ReadPage, TypeOK, Phases
    <2> QED
        BY <1>2, <2>4, <2>5, <2>6 DEF ReadPage, TypeOK
<1>3. ASSUME NEW j \in Jobs, Publish(j) \/ Fail(j) PROVE TypeOK'
    BY <1>3 DEF Publish, Fail, TypeOK, Phases
<1>4. ASSUME NEW j \in Jobs, Create(j) PROVE TypeOK'
    <2>1. Posted(j)
        BY <1>4 DEF Create, Posted
    <2>2. thread' \in Seq(Comment) /\ nextID' \in 1..(MaxComments + 1)
        BY <2>1, PostedComment
    <2> QED
        BY <1>4, <2>2 DEF Create, TypeOK, InWindow
<1>5. ASSUME NEW j \in Jobs, Update(j) PROVE TypeOK'
    <2>1. thread' \in Seq(Comment)
        BY <1>5, UpdatedComment
    <2> QED
        BY <1>5, <2>1 DEF Update, TypeOK, InWindow
<1>6. ASSUME NEW j \in Jobs, Refuse(j) \/ LoseWrite(j) PROVE TypeOK'
    BY <1>6 DEF Refuse, LoseWrite, TypeOK
<1>7. CASE PersonComments
    <2>1. Posted(Person)
        BY <1>7 DEF PersonComments, Posted
    <2>2. thread' \in Seq(Comment) /\ nextID' \in 1..(MaxComments + 1)
        BY <2>1, PostedComment
    <2> QED
        BY <1>7, <2>2 DEF PersonComments, TypeOK
<1>8. ASSUME NEW d \in 1..MaxComments, PersonDeletes(d) PROVE TypeOK'
    <2>1. thread' \in Seq(Comment)
        BY <1>8, DeletedComment
    <2> QED
        BY <1>8, <2>1 DEF PersonDeletes, TypeOK, InWindow
<1>9. CASE UNCHANGED vars
    BY <1>9 DEF vars, TypeOK
<1> QED
    BY <1>1, <1>2, <1>3, <1>4, <1>5, <1>6, <1>7, <1>8, <1>9 DEF Next, JobStep, ServiceStep

\* What a job may update is chosen from the thread and stays sticky.
LEMMA IdentifiedStep ==
    ASSUME TypeOK, Identified, [Next]_vars
    PROVE  Identified'
<1>0. /\ \A j \in Jobs : target[j] \in Nat /\ target[j] < nextID
      /\ nextID \in Nat
    BY DEF TypeOK, Identified
<1>1. CASE UNCHANGED <<thread, nextID, target>>
    BY <1>1 DEF Identified, Marked
<1>2. ASSUME NEW j \in Jobs, ReadPage(j) PROVE Identified'
    <2>1. Page(j) \subseteq DOMAIN thread
        BY DEF Page
    <2>2. /\ FirstMarkedOn(Page(j)) < nextID
          /\ \A i \in DOMAIN thread : thread[i].id = FirstMarkedOn(Page(j)) => Marked(thread[i])
        <3>1. \A i \in DOMAIN thread : thread[i].id # NoComment
            <4>1. \A i \in DOMAIN thread : thread[i] \in Comment
                BY DEF TypeOK
            <4> QED
                BY <4>1, StickyAssumption DEF Comment, NoComment
        <3>2. NoComment < nextID
            BY StickyAssumption DEF TypeOK, NoComment
        <3> QED
            BY <2>1, <3>1, <3>2, FoundComment DEF Identified
    <2>3. \A k \in Jobs : target'[k] = target[k] \/ target'[k] = FirstMarkedOn(Page(j))
        BY <1>2 DEF ReadPage, TypeOK
    <2>4. thread' = thread /\ nextID' = nextID
        BY <1>2 DEF ReadPage
    <2> QED
        BY <2>2, <2>3, <2>4 DEF Identified, Marked
<1>3. ASSUME NEW review \in Jobs \union {Person}, Posted(review), target' = target
      PROVE  Identified'
    <2>1. /\ \A k \in DOMAIN thread' :
                \/ thread'[k] = [id |-> nextID, review |-> review]
                \/ \E i \in DOMAIN thread : thread'[k] = thread[i]
          /\ \A i \in DOMAIN thread' : thread'[i].id < nextID'
          /\ \A i, k \in DOMAIN thread' : thread'[i].id = thread'[k].id => i = k
        BY <1>3, PostedComment
    <2>2. \A j \in Jobs : target'[j] < nextID'
        BY <1>0, <1>3 DEF Posted
    <2>3. \A j \in Jobs : \A i \in DOMAIN thread' : thread'[i].id = target'[j] => Marked(thread'[i])
        BY <1>0, <1>3, <2>1 DEF Identified, Marked
    <2> QED
        BY <2>1, <2>2, <2>3 DEF Identified, Marked
<1>4. ASSUME NEW j \in Jobs, Update(j) PROVE Identified'
    <2>1. /\ DOMAIN thread' = DOMAIN thread
          /\ \A k \in DOMAIN thread : thread'[k].id = thread[k].id
          /\ \E i \in DOMAIN thread :
                thread'[i].review = j /\ \A k \in DOMAIN thread : k # i => thread'[k] = thread[k]
        BY <1>4, UpdatedComment
    <2>2. j # Person
        BY StickyAssumption DEF Person
    <2>3. nextID' = nextID /\ target' = target
        BY <1>4 DEF Update
    <2> QED
        BY <2>1, <2>2, <2>3 DEF Identified, Marked
<1>5. ASSUME NEW d, PersonDeletes(d) PROVE Identified'
    <2>1. /\ \A k \in DOMAIN thread' : \E i \in DOMAIN thread : thread'[k] = thread[i]
          /\ \A k, l \in DOMAIN thread' : k # l =>
                \E i, m \in DOMAIN thread : i # m /\ thread'[k] = thread[i] /\ thread'[l] = thread[m]
        BY <1>5, DeletedComment
    <2>2. nextID' = nextID /\ target' = target
        BY <1>5 DEF PersonDeletes
    <2> QED
        BY <2>1, <2>2 DEF Identified, Marked
<1>6. ASSUME NEW j \in Jobs, JobStep(j) \/ ServiceStep(j) PROVE Identified'
    <2>1. CASE Create(j)
        BY <1>3, <2>1 DEF Create, Posted
    <2> QED
        BY <1>1, <1>2, <1>4, <1>6, <2>1
           DEF JobStep, ServiceStep, Start, Publish, Fail, Refuse, LoseWrite
<1>7. CASE PersonComments
    BY <1>3, <1>7 DEF PersonComments, Posted
<1> QED
    BY <1>1, <1>5, <1>6, <1>7 DEF Next, vars

\* Every step keeps track of which jobs are between their start and their write.
LEMMA WindowsStep ==
    ASSUME TypeOK, Windows, [Next]_vars
    PROVE  Windows'
<1>0. inFlight \subseteq Jobs /\ \A j \in InWindow : phase[j] # "queued"
    BY DEF Windows, InWindow, TypeOK
<1>1. ASSUME NEW j \in Jobs, Start(j) PROVE Windows'
    <2>1. \A k \in Jobs : phase'[k] = IF k = j THEN "listing" ELSE phase[k]
        BY <1>1 DEF Start, TypeOK
    <2>2. /\ inFlight' = inFlight /\ refused' = refused
          /\ disturbed' = disturbed /\ unread' = unread
          /\ phase[j] = "queued"
        BY <1>1 DEF Start
    <2>3. \A i \in Jobs : i < j => phase[i] # "queued"
        BY <1>1 DEF Start
    <2> QED
        BY <2>1, <2>2, <2>3 DEF Windows, TypeOK
<1>2. ASSUME NEW j \in Jobs, ReadPage(j) \/ Publish(j) \/ Fail(j) PROVE Windows'
    <2>1. /\ \A k \in Jobs : k # j => phase'[k] = phase[k]
          /\ \A k \in Jobs : k # j => unread'[k] = unread[k]
          /\ phase[j] # "queued" /\ phase'[j] # "queued"
          /\ disturbed' = disturbed
        BY <1>2 DEF ReadPage, Publish, Fail, TypeOK
    <2>2. \A k \in inFlight' \union refused' : phase'[k] \in {"waiting", "failed"}
        BY <1>2 DEF ReadPage, Publish, Fail, TypeOK, Windows
    <2> QED
        BY <2>1, <2>2 DEF Windows, TypeOK
<1>3. CASE /\ phase' = phase /\ unread' = unread
           /\ inFlight' \union refused' \subseteq inFlight \union refused
           /\ disturbed' \subseteq disturbed \union InWindow
    BY <1>0, <1>3 DEF Windows
<1> QED
    BY <1>1, <1>2, <1>3
       DEF Next, JobStep, ServiceStep, Create, Update, Refuse, LoseWrite, PersonComments,
           PersonDeletes, vars

(***************************************************************************)
(* An undisturbed job sees people's comments alone: they carry no marker,  *)
(* and inserting one moves no comment back to where it has already read.   *)
(***************************************************************************)
LEMMA NothingOverlookedStep ==
    ASSUME TypeOK, Identified, Windows, NothingOverlooked, [Next]_vars
    PROVE  NothingOverlooked'
<1>0. /\ DOMAIN thread = 1..Len(thread) /\ Len(thread) \in Nat
      /\ \A j \in Jobs : unread[j] \in Nat \ {0}
      /\ PageSize \in Nat \ {0}
    BY StickyAssumption DEF TypeOK
<1>1. ASSUME NEW j \in Jobs, Start(j) PROVE NothingOverlooked'
    <2>1. \A k \in Jobs : phase'[k] = IF k = j THEN "listing" ELSE phase[k]
        BY <1>1 DEF Start, TypeOK
    <2>2. UNCHANGED <<thread, unread, target, inFlight, disturbed>>
        BY <1>1 DEF Start
    <2>3. InWindow' = InWindow \union {j} /\ MarkedPositions' = MarkedPositions
        BY <2>1, <2>2 DEF InWindow, MarkedPositions, Marked
    <2>4. j \notin inFlight /\ unread[j] = 1
        BY <1>1 DEF Start, Windows
    <2> QED
        BY <2>1, <2>2, <2>3, <2>4, <1>0 DEF NothingOverlooked, MarkedPositions
<1>2. ASSUME NEW j \in Jobs, ReadPage(j) PROVE NothingOverlooked'
    <2>1. /\ thread' = thread /\ disturbed' = disturbed
          /\ \A k \in Jobs \ {j} : /\ phase'[k] = phase[k]
                                  /\ target'[k] = target[k]
                                  /\ unread'[k] = unread[k]
          /\ unread'[j] = unread[j] + PageSize
          /\ phase[j] = "listing"
          /\ inFlight' = IF LastPage(j) THEN inFlight \union {j} ELSE inFlight
        BY <1>2 DEF ReadPage, TypeOK
    <2>2. /\ MarkedPositions' = MarkedPositions
          /\ InWindow' = InWindow /\ j \in InWindow
        BY <1>2, <2>1 DEF MarkedPositions, Marked, InWindow, ReadPage, TypeOK
    <2>3. ASSUME NEW i \in MarkedPositions, j \notin disturbed, target'[j] = NoComment
          PROVE  ~LastPage(j) /\ j \notin inFlight /\ i >= unread'[j]
        <3>1. target[j] = NoComment /\ FirstMarkedOn(Page(j)) = NoComment
            BY <1>2, <2>3 DEF ReadPage, TypeOK
        <3>2. j \notin inFlight /\ i >= unread[j]
            BY <2>2, <2>3, <3>1 DEF NothingOverlooked
        <3>3. i \notin Page(j)
            <4>1. \A k \in DOMAIN thread : thread[k].id # NoComment
                <5>1. \A k \in DOMAIN thread : thread[k] \in Comment
                    BY DEF TypeOK
                <5> QED
                    BY <5>1, StickyAssumption DEF Comment, NoComment
            <4>2. Page(j) \in SUBSET DOMAIN thread
                BY DEF Page
            <4>3. \A k \in Page(j) : ~Marked(thread[k])
                BY <3>1, <4>1, <4>2, FoundComment
            <4> QED
                BY <4>3 DEF MarkedPositions
        <3>4. i \in 1..Len(thread)
            BY <1>0 DEF MarkedPositions
        <3>5. i >= unread[j] + PageSize
            BY <1>0, <3>2, <3>3, <3>4 DEF Page
        <3> QED
            BY <1>0, <2>1, <3>2, <3>4, <3>5 DEF LastPage
    <2> QED
        BY <2>1, <2>2, <2>3 DEF NothingOverlooked, InWindow
<1>3. ASSUME NEW j \in Jobs, Publish(j) \/ Fail(j) PROVE NothingOverlooked'
    <2>1. UNCHANGED <<thread, unread, target, inFlight, disturbed>>
        BY <1>3 DEF Publish, Fail
    <2>2. InWindow' \subseteq InWindow /\ MarkedPositions' = MarkedPositions
        BY <1>3, <2>1 DEF Publish, Fail, InWindow, MarkedPositions, Marked, TypeOK
    <2> QED
        BY <2>1, <2>2 DEF NothingOverlooked
<1>4. ASSUME NEW j \in Jobs, Create(j) \/ Update(j) PROVE NothingOverlooked'
    <2>1. /\ inFlight' = inFlight \ {j} /\ phase' = phase
          /\ disturbed' = disturbed \union (InWindow \ {j})
          /\ phase[j] # "listing"
        BY <1>4 DEF Create, Update, Windows
    <2>2. InWindow' \subseteq InWindow \ {j}
        BY <2>1 DEF InWindow
    <2> QED
        BY <2>1, <2>2 DEF NothingOverlooked
<1>5. ASSUME NEW j \in Jobs, Refuse(j) \/ LoseWrite(j) PROVE NothingOverlooked'
    <2>1. /\ UNCHANGED <<thread, unread, target, phase, disturbed>>
          /\ inFlight' = inFlight \ {j}
        BY <1>5 DEF Refuse, LoseWrite
    <2>2. InWindow' \subseteq InWindow /\ MarkedPositions' = MarkedPositions
        BY <2>1 DEF InWindow, MarkedPositions, Marked
    <2> QED
        BY <2>1, <2>2 DEF NothingOverlooked
<1>6. CASE PersonComments
    <2>1. Posted(Person) /\ UNCHANGED <<phase, unread, target, inFlight, disturbed>>
        BY <1>6 DEF PersonComments, Posted
    <2>2. \A k \in DOMAIN thread' :
             \/ thread'[k] = [id |-> nextID, review |-> Person]
             \/ \E i \in DOMAIN thread : i <= k /\ thread'[k] = thread[i]
        BY <2>1, PostedComment
    <2>3. \A k \in MarkedPositions' : \E i \in MarkedPositions : i <= k
        BY <2>2 DEF MarkedPositions, Marked
    <2>4. InWindow' = InWindow
        BY <2>1 DEF InWindow
    <2>5. thread' \in Seq(Comment)
        BY <2>1, PostedComment
    <2>6. MarkedPositions \subseteq Nat /\ MarkedPositions' \subseteq Nat
        BY <1>0, <2>5 DEF MarkedPositions
    <2>7. InWindow \subseteq Jobs
        BY DEF InWindow, TypeOK
    <2> QED
        BY <1>0, <2>1, <2>3, <2>4, <2>6, <2>7 DEF NothingOverlooked
<1>7. ASSUME NEW d, PersonDeletes(d) PROVE NothingOverlooked'
    <2>1. InWindow' = InWindow /\ disturbed' = disturbed \union InWindow
        BY <1>7 DEF PersonDeletes, InWindow
    <2> QED
        BY <2>1 DEF NothingOverlooked
<1>8. CASE UNCHANGED vars
    <2>1. InWindow' = InWindow /\ MarkedPositions' = MarkedPositions
        BY <1>8 DEF vars, InWindow, MarkedPositions, Marked
    <2> QED
        BY <1>8, <2>1 DEF vars, NothingOverlooked
<1> QED
    BY <1>1, <1>2, <1>3, <1>4, <1>5, <1>6, <1>7, <1>8 DEF Next, JobStep, ServiceStep

\* A window never opens again.
LEMMA SpentGrows ==
    ASSUME TypeOK, Windows, [Next]_vars
    PROVE  Spent \subseteq Spent'
<1> SUFFICES ASSUME NEW k \in Spent PROVE k \in disturbed' /\ k \notin InWindow'
    BY DEF Spent
<1>0. /\ k \in Jobs /\ k \in disturbed /\ k \notin inFlight
      /\ phase[k] \notin {"queued", "listing"}
    BY DEF Spent, InWindow, Windows, TypeOK
<1>1. k \in disturbed'
    BY <1>0 DEF Next, JobStep, ServiceStep, Start, ReadPage, Publish, Fail, Create, Update, Refuse,
                LoseWrite, PersonComments, PersonDeletes, vars
<1>2. ASSUME NEW j \in Jobs, JobStep(j) PROVE k \notin InWindow'
    <2>1. CASE Start(j) \/ ReadPage(j)
        <3>1. j # k
            BY <1>0, <2>1 DEF Start, ReadPage
        <3>2. phase'[k] = phase[k] /\ k \notin inFlight'
            BY <1>0, <2>1, <3>1 DEF Start, ReadPage, TypeOK
        <3> QED
            BY <1>0, <3>2 DEF InWindow
    <2>2. CASE Publish(j) \/ Fail(j)
        BY <1>0, <2>2 DEF Publish, Fail, InWindow, TypeOK
    <2> QED
        BY <1>2, <2>1, <2>2 DEF JobStep
<1>3. ASSUME phase' = phase, inFlight' \subseteq inFlight PROVE k \notin InWindow'
    BY <1>0, <1>3 DEF InWindow
<1> QED
    BY <1>1, <1>2, <1>3 DEF Next, ServiceStep, Create, Update, Refuse, LoseWrite, PersonComments,
                            PersonDeletes, vars

(***************************************************************************)
(* Only a POST adds a sticky comment, and only to a thread in which nothing*)
(* has been overlooked or on behalf of a job that spends its window.       *)
(***************************************************************************)
LEMMA OnlyCreateAdds ==
    ASSUME TypeOK, Identified, [Next]_vars, \A j \in Jobs : ~Create(j)
    PROVE  StickyComments' \subseteq StickyComments
<1>1. CASE thread' = thread
    BY <1>1 DEF StickyComments, MarkedPositions, Marked
<1>2. ASSUME NEW j \in Jobs, Update(j) PROVE StickyComments' \subseteq StickyComments
    <2>1. PICK i \in DOMAIN thread :
            /\ thread[i].id = target[j]
            /\ \A k \in DOMAIN thread : k # i => thread'[k] = thread[k]
        BY <1>2, UpdatedComment
    <2>2. /\ DOMAIN thread' = DOMAIN thread
          /\ \A k \in DOMAIN thread : thread'[k].id = thread[k].id
        BY <1>2, UpdatedComment
    <2>3. MarkedPositions' \subseteq MarkedPositions
        BY <2>1, <2>2 DEF Identified, MarkedPositions, Marked
    <2> QED
        BY <2>2, <2>3 DEF StickyComments, MarkedPositions
<1>3. CASE PersonComments
    <2>1. Posted(Person)
        BY <1>3 DEF PersonComments, Posted
    <2>2. \A k \in DOMAIN thread' :
             \/ thread'[k] = [id |-> nextID, review |-> Person]
             \/ \E i \in DOMAIN thread : thread'[k] = thread[i]
        BY <2>1, PostedComment
    <2> QED
        BY <2>2 DEF StickyComments, MarkedPositions, Marked
<1>4. ASSUME NEW d, PersonDeletes(d) PROVE StickyComments' \subseteq StickyComments
    <2>1. \A k \in DOMAIN thread' : \E i \in DOMAIN thread : thread'[k] = thread[i]
        BY <1>4, DeletedComment
    <2> QED
        BY <2>1 DEF StickyComments, MarkedPositions, Marked
<1> QED
    BY <1>1, <1>2, <1>3, <1>4
       DEF Next, JobStep, ServiceStep, Start, ReadPage, Publish, Fail, Refuse, LoseWrite, vars

\* Every step accounts for the sticky comments there are.
LEMMA DuplicatesStep ==
    ASSUME TypeOK, TypeOK', Identified, Windows, NothingOverlooked, DuplicatesAreSpent, [Next]_vars
    PROVE  DuplicatesAreSpent'
<1>1. /\ IsFiniteSet(StickyComments) /\ IsFiniteSet(Spent)
      /\ Cardinality(StickyComments) \in Nat /\ Cardinality(Spent) \in Nat
    BY StickyIsFinite, FS_CardinalityType
<1>2. IsFiniteSet(StickyComments)' /\ IsFiniteSet(Spent)'
    BY StickyIsFinite, PTL
<1>3. Cardinality(StickyComments') \in Nat /\ Cardinality(Spent') \in Nat
    BY <1>2, FS_CardinalityType
<1>4. Spent \subseteq Spent'
    BY SpentGrows
<1>5. Cardinality(Spent) <= Cardinality(Spent')
    BY <1>2, <1>4, FS_Subset
<1>6. CASE \A j \in Jobs : ~Create(j)
    <2>1. StickyComments' \subseteq StickyComments
        BY <1>6, OnlyCreateAdds
    <2>2. Cardinality(StickyComments') <= Cardinality(StickyComments)
        BY <1>1, <2>1, FS_Subset
    <2> QED
        BY <1>1, <1>3, <1>5, <2>2 DEF DuplicatesAreSpent
<1>7. ASSUME NEW j \in Jobs, Create(j) PROVE DuplicatesAreSpent'
    <2>1. Posted(j) /\ target[j] = NoComment /\ j \in inFlight /\ j \in InWindow
        BY <1>7 DEF Create, Posted, InWindow
    <2>2. StickyComments' \subseteq StickyComments \union {nextID}
        <3>1. \A k \in DOMAIN thread' :
                 \/ thread'[k] = [id |-> nextID, review |-> j]
                 \/ \E i \in DOMAIN thread : thread'[k] = thread[i]
            BY <2>1, PostedComment
        <3> QED
            BY <3>1 DEF StickyComments, MarkedPositions, Marked
    <2>3. Cardinality(StickyComments') <= Cardinality(StickyComments) + 1
        <3>1. /\ IsFiniteSet(StickyComments \union {nextID})
              /\ \/ Cardinality(StickyComments \union {nextID}) = Cardinality(StickyComments)
                 \/ Cardinality(StickyComments \union {nextID}) = Cardinality(StickyComments) + 1
            BY <1>1, FS_AddElement
        <3>2. /\ Cardinality(StickyComments \union {nextID}) \in Nat
              /\ Cardinality(StickyComments') <= Cardinality(StickyComments \union {nextID})
            BY <2>2, <3>1, FS_Subset, FS_CardinalityType
        <3> QED
            BY <1>1, <1>3, <3>1, <3>2
    <2>4. CASE j \in disturbed
        <3>1. j \notin Spent /\ j \in Spent'
            BY <1>7, <2>1, <2>4 DEF Create, Spent, InWindow, Windows
        <3>2. IsFiniteSet(Spent \union {j}) /\ Cardinality(Spent \union {j}) = Cardinality(Spent) + 1
            BY <1>1, <3>1, FS_AddElement
        <3>3. Cardinality(Spent \union {j}) <= Cardinality(Spent')
            BY <1>2, <1>4, <3>1, FS_Subset
        <3> QED
            BY <1>1, <1>3, <2>3, <3>2, <3>3 DEF DuplicatesAreSpent
    <2>5. CASE j \notin disturbed
        <3>1. StickyComments = {}
            BY <2>1, <2>5 DEF NothingOverlooked, StickyComments
        <3>2. Cardinality(StickyComments) = 0
            BY <3>1, FS_EmptySet
        <3> QED
            BY <1>3, <2>3, <3>2 DEF DuplicatesAreSpent
    <2> QED
        BY <2>4, <2>5
<1> QED
    BY <1>6, <1>7

(***************************************************************************)
(* The first write that is applied while others read disturbs them, so the *)
(* job that writes last without disturbing anybody is the latest of all.   *)
(***************************************************************************)
LEMMA UpToDateStep ==
    ASSUME TypeOK, Identified, Windows, NothingOverlooked, UpToDate, [Next]_vars
    PROVE  UpToDate'
<1> DEFINE Single == \A i, k \in MarkedPositions : i = k
           Latest == \A j \in Applied : \A i \in MarkedPositions : thread[i].review >= j
           Later == \A j \in Applied : \A k \in InWindow : k > j
<1> SUFFICES ASSUME disturbed' = {}
             PROVE  Single' /\ Latest' /\ Later'
    BY DEF UpToDate
<1>0. Single /\ Latest /\ Later
    <2>1. disturbed = {}
        BY DEF Next, JobStep, ServiceStep, Start, ReadPage, Publish, Fail, Create, Update, Refuse,
               LoseWrite, PersonComments, PersonDeletes, vars
    <2> QED
        BY <2>1 DEF UpToDate
<1>1. ASSUME thread' = thread, Applied' \subseteq Applied PROVE Single' /\ Latest'
    BY <1>0, <1>1 DEF MarkedPositions, Marked
<1>2. ASSUME Applied' \subseteq Applied, InWindow' \subseteq InWindow PROVE Later'
    BY <1>0, <1>2
<1>3. ASSUME NEW j \in Jobs, Start(j) PROVE Single' /\ Latest' /\ Later'
    <2>1. /\ thread' = thread
          /\ \A k \in Jobs : phase'[k] = IF k = j THEN "listing" ELSE phase[k]
          /\ inFlight' = inFlight /\ refused' = refused
        BY <1>3 DEF Start, TypeOK
    <2>2. Applied' \subseteq Applied
        BY <2>1 DEF Applied
    <2>3. InWindow' = InWindow \union {j}
        BY <2>1 DEF InWindow
    <2>4. \A k \in Applied : j > k
        <3> SUFFICES ASSUME NEW k \in Applied PROVE j > k
            OBVIOUS
        <3>1. k \in Jobs /\ phase[k] # "queued" /\ phase[j] = "queued"
            BY <1>3 DEF Applied, Start
        <3>2. ~(j < k)
            BY <3>1 DEF Windows
        <3> QED
            BY <3>1, <3>2, StickyAssumption
    <2> QED
        BY <1>0, <1>1, <2>1, <2>2, <2>3, <2>4
<1>4. ASSUME NEW j \in Jobs, ReadPage(j) \/ Publish(j) \/ Fail(j) \/ Refuse(j) \/ LoseWrite(j)
      PROVE  Single' /\ Latest' /\ Later'
    <2>1. thread' = thread
        BY <1>4 DEF ReadPage, Publish, Fail, Refuse, LoseWrite
    <2>2. Applied' \subseteq Applied /\ InWindow' \subseteq InWindow
        <3>1. CASE ReadPage(j)
            <4>1. /\ \A k \in Jobs \ {j} : phase'[k] = phase[k] /\ (k \in inFlight' <=> k \in inFlight)
                  /\ refused' = refused
                  /\ phase[j] = "listing"
                  /\ phase'[j] = "listing" \/ j \in inFlight'
                BY <3>1 DEF ReadPage, TypeOK
            <4> QED
                BY <4>1 DEF Applied, InWindow
        <3>2. CASE Publish(j) \/ Fail(j)
            <4>1. /\ \A k \in Jobs \ {j} : phase'[k] = phase[k]
                  /\ inFlight' = inFlight /\ refused' = refused
                  /\ phase'[j] # "listing"
                  /\ phase'[j] = "published" => phase[j] = "waiting"
                  /\ phase'[j] # "waiting"
                BY <3>2 DEF Publish, Fail, TypeOK
            <4> QED
                BY <4>1 DEF Applied, InWindow
        <3>3. CASE Refuse(j) \/ LoseWrite(j)
            BY <3>3 DEF Refuse, LoseWrite, Applied, InWindow
        <3> QED
            BY <1>4, <3>1, <3>2, <3>3
    <2> QED
        BY <1>1, <1>2, <2>1, <2>2
<1>5. ASSUME NEW j \in Jobs, Create(j) \/ Update(j)
      PROVE  /\ InWindow' = {}
             /\ Applied' \subseteq Applied \union {j}
             /\ \A k \in Applied' : j >= k
             /\ j \in InWindow \ disturbed
    <2>1. /\ inFlight' = inFlight \ {j} /\ phase' = phase /\ refused' = refused
          /\ disturbed' = disturbed \union (InWindow \ {j})
          /\ j \in inFlight /\ phase[j] # "listing"
        BY <1>5 DEF Create, Update, Windows
    <2>2. InWindow' = {}
        BY <2>1 DEF InWindow
    <2>3. Applied' \subseteq Applied \union {j}
        BY <2>1 DEF Applied
    <2>4. j \in InWindow \ disturbed
        BY <2>1 DEF InWindow
    <2>5. \A k \in Applied : j > k
        BY <1>0, <2>4
    <2>6. \A k \in Applied \union {j} : j \in Nat /\ k \in Nat
        BY StickyAssumption DEF Applied
    <2> QED
        BY <2>2, <2>3, <2>4, <2>5, <2>6
<1>6. ASSUME NEW j \in Jobs, Create(j) PROVE Single' /\ Latest' /\ Later'
    <2>1. Posted(j) /\ target[j] = NoComment /\ j \in inFlight
        BY <1>6 DEF Create, Posted
    <2>2. MarkedPositions = {}
        BY <1>5, <1>6, <2>1 DEF NothingOverlooked
    <2>3. \A k \in MarkedPositions' : thread'[k] = [id |-> nextID, review |-> j]
        <3>1. \A k \in DOMAIN thread' :
                 \/ thread'[k] = [id |-> nextID, review |-> j]
                 \/ \E i \in DOMAIN thread : thread'[k] = thread[i]
            BY <2>1, PostedComment
        <3> QED
            BY <2>2, <3>1 DEF MarkedPositions, Marked
    <2>4. \A i, k \in DOMAIN thread' : thread'[i].id = thread'[k].id => i = k
        BY <2>1, PostedComment
    <2>5. Single'
        BY <2>3, <2>4 DEF MarkedPositions
    <2> QED
        BY <1>5, <1>6, <2>3, <2>5
<1>7. ASSUME NEW j \in Jobs, Update(j) PROVE Single' /\ Latest' /\ Later'
    <2>1. PICK i \in DOMAIN thread :
            /\ thread[i].id = target[j]
            /\ thread'[i].review = j
            /\ \A k \in DOMAIN thread : k # i => thread'[k] = thread[k]
        BY <1>7, UpdatedComment
    <2>2. DOMAIN thread' = DOMAIN thread
        BY <1>7, UpdatedComment
    <2>3. i \in MarkedPositions
        BY <2>1 DEF Identified, MarkedPositions
    <2>4. \A k \in MarkedPositions' : k = i
        BY <1>0, <2>1, <2>2, <2>3 DEF MarkedPositions, Marked
    <2> QED
        BY <1>5, <1>7, <2>1, <2>4
<1>8. CASE PersonComments
    <2>1. Posted(Person) /\ UNCHANGED <<phase, inFlight, refused>>
        BY <1>8 DEF PersonComments, Posted
    <2>2. \A k \in MarkedPositions' : \E i \in MarkedPositions : thread'[k] = thread[i]
        <3>1. \A k \in DOMAIN thread' :
                 \/ thread'[k] = [id |-> nextID, review |-> Person]
                 \/ \E i \in DOMAIN thread : thread'[k] = thread[i]
            BY <2>1, PostedComment
        <3> QED
            BY <3>1 DEF MarkedPositions, Marked
    <2>3. \A i, k \in DOMAIN thread' : thread'[i].id = thread'[k].id => i = k
        BY <2>1, PostedComment
    <2>4. Single'
        BY <1>0, <2>2, <2>3 DEF MarkedPositions
    <2>5. Applied' = Applied /\ InWindow' = InWindow
        BY <2>1 DEF Applied, InWindow
    <2> QED
        BY <1>0, <1>2, <2>2, <2>4, <2>5
<1>9. ASSUME NEW d, PersonDeletes(d) PROVE Single' /\ Latest' /\ Later'
    <2>1. /\ \A k \in DOMAIN thread' : \E i \in DOMAIN thread : thread'[k] = thread[i]
          /\ \A k, l \in DOMAIN thread' : k # l =>
                \E i, m \in DOMAIN thread : i # m /\ thread'[k] = thread[i] /\ thread'[l] = thread[m]
        BY <1>9, DeletedComment
    <2>2. Applied' = Applied /\ InWindow' = InWindow
        BY <1>9 DEF PersonDeletes, Applied, InWindow
    <2>3. Single'
        BY <1>0, <2>1 DEF MarkedPositions, Marked
    <2>4. Latest'
        BY <1>0, <2>1, <2>2 DEF MarkedPositions, Marked
    <2> QED
        BY <1>2, <2>2, <2>3, <2>4
<1>10. CASE UNCHANGED vars
    <2>1. thread' = thread /\ Applied' = Applied /\ InWindow' = InWindow
        BY <1>10 DEF vars, Applied, InWindow
    <2> QED
        BY <1>1, <1>2, <2>1
<1> QED
    BY <1>3, <1>4, <1>6, <1>7, <1>8, <1>9, <1>10 DEF Next, JobStep, ServiceStep

-----------------------------------------------------------------------------
\* Before any job, the invariant holds.
LEMMA InitIInv == Init => IInv
<1> SUFFICES ASSUME Init PROVE IInv
    OBVIOUS
<1>1. TypeOK
    BY TypeInitially
<1>2. DOMAIN thread = {} /\ MarkedPositions = {} /\ StickyComments = {}
    BY DEF Init, MarkedPositions, StickyComments
<1>3. InWindow = {} /\ Spent = {} /\ Applied = {}
    BY DEF Init, InWindow, Spent, Applied
<1>4. Identified
    BY <1>2 DEF Init, Identified, NoComment
<1>5. Windows
    BY DEF Init, Windows
<1>6. NothingOverlooked
    BY <1>3 DEF NothingOverlooked
<1>7. DuplicatesAreSpent
    BY <1>2, <1>3, FS_EmptySet DEF DuplicatesAreSpent
<1>8. UpToDate
    BY <1>2, <1>3 DEF UpToDate
<1> QED
    BY <1>1, <1>4, <1>5, <1>6, <1>7, <1>8 DEF IInv

\* Every step keeps the invariant.
LEMMA StepIInv == IInv /\ [Next]_vars => IInv'
<1> SUFFICES ASSUME IInv, [Next]_vars PROVE IInv'
    OBVIOUS
<1>1. TypeOK'
    BY TypeStep DEF IInv
<1>2. Identified'
    BY IdentifiedStep DEF IInv
<1>3. Windows'
    BY WindowsStep DEF IInv
<1>4. NothingOverlooked'
    BY NothingOverlookedStep DEF IInv
<1>5. DuplicatesAreSpent'
    BY <1>1, DuplicatesStep DEF IInv
<1>6. UpToDate'
    BY UpToDateStep DEF IInv
<1> QED
    BY <1>1, <1>2, <1>3, <1>4, <1>5, <1>6 DEF IInv

(***************************************************************************)
(* The inductive invariant holds whatever the jobs, the people, the service*)
(* and the network do.                                                     *)
(***************************************************************************)
THEOREM Invariance == Spec => []IInv
BY InitIInv, StepIInv, PTL DEF Spec

(***************************************************************************)
(* The variables keep their types: in particular every ID a job updates is *)
(* one the service has handed out.                                         *)
(***************************************************************************)
THEOREM TypeCorrectness == Spec => []TypeOK
<1>1. IInv => TypeOK
    BY DEF IInv
<1> QED
    BY <1>1, Invariance, PTL

(***************************************************************************)
(* Every duplicate of the sticky comment is owed to a job whose window     *)
(* another job's write or a deletion fell into; with one job at a time and *)
(* no deletions, PublishGitHubStickyComment and PublishGitLabStickyNote    *)
(* keep one comment whatever is lost or late.                              *)
(***************************************************************************)
THEOREM DuplicatesAreAccountedFor == Spec => []DuplicatesNeedInterference
<1>1. IInv => DuplicatesNeedInterference
    <2> SUFFICES ASSUME IInv PROVE DuplicatesNeedInterference
        OBVIOUS
    <2>1. /\ IsFiniteSet(StickyComments) /\ IsFiniteSet(Spent)
          /\ IsFiniteSet(disturbed) /\ Spent \subseteq disturbed
        BY StickyIsFinite, FS_Subset, StickyAssumption DEF IInv, TypeOK, Spent
    <2>2. /\ Cardinality(StickyComments) \in Nat
          /\ Cardinality(Spent) \in Nat
          /\ Cardinality(disturbed) \in Nat
        BY <2>1, FS_CardinalityType
    <2>3. Cardinality(Spent) <= Cardinality(disturbed)
        BY <2>1, FS_Subset
    <2> QED
        BY <2>2, <2>3 DEF IInv, DuplicatesAreSpent, DuplicatesNeedInterference
<1> QED
    BY <1>1, Invariance, PTL

(***************************************************************************)
(* While no window has been disturbed, the sticky comment shows a review no*)
(* older than any that a job has reported as published.                    *)
(***************************************************************************)
THEOREM Freshness == Spec => []LatestReviewShows
<1>1. IInv => LatestReviewShows
    <2> SUFFICES ASSUME IInv, disturbed = {}, NEW j \in Jobs, NEW i \in MarkedPositions,
                        phase[j] = "published"
                 PROVE  thread[i].review >= j
        BY DEF LatestReviewShows
    <2>1. j \in Applied
        BY DEF Applied, IInv, Windows
    <2> QED
        BY <2>1 DEF IInv, UpToDate
<1> QED
    BY <1>1, Invariance, PTL

(***************************************************************************)
(* No step of a job changes a comment without the marker: what it updates  *)
(* was sticky when it read the page and is sticky when the write arrives.  *)
(***************************************************************************)
THEOREM PeopleAreSafe == Spec => PeopleKeepTheirWords
<1> DEFINE Kept ==
        \A i \in DOMAIN thread : \A k \in DOMAIN thread' :
            (thread[i].id = thread'[k].id /\ ~Marked(thread[i])) => thread'[k] = thread[i]
<1>1. IInv /\ [Next]_vars => Kept
    <2> SUFFICES ASSUME IInv, [Next]_vars PROVE Kept
        OBVIOUS
    <2> USE DEF IInv
    <2>1. CASE thread' = thread
        BY <2>1 DEF Identified
    <2>2. ASSUME NEW review \in Jobs \union {Person}, Posted(review) PROVE Kept
        <3>1. \A k \in DOMAIN thread' :
                 \/ thread'[k] = [id |-> nextID, review |-> review]
                 \/ \E m \in DOMAIN thread : thread'[k] = thread[m]
            BY <2>2, PostedComment
        <3>2. \A i \in DOMAIN thread : thread[i].id # nextID
            <4>1. \A i \in DOMAIN thread : thread[i] \in Comment
                BY DEF TypeOK
            <4>2. \A i \in DOMAIN thread : thread[i].id \in Nat /\ thread[i].id < nextID
                BY <4>1 DEF Comment, Identified
            <4> QED
                BY <4>2
        <3> QED
            BY <3>1, <3>2 DEF Identified
    <2>3. ASSUME NEW j \in Jobs, Update(j) PROVE Kept
        <3>1. /\ DOMAIN thread' = DOMAIN thread
              /\ \A k \in DOMAIN thread : thread'[k].id = thread[k].id
              /\ \E i \in DOMAIN thread :
                    /\ thread[i].id = target[j]
                    /\ \A k \in DOMAIN thread : k # i => thread'[k] = thread[k]
            BY <2>3, UpdatedComment
        <3> QED
            BY <3>1 DEF Identified
    <2>4. ASSUME NEW d, PersonDeletes(d) PROVE Kept
        <3>1. \A k \in DOMAIN thread' : \E i \in DOMAIN thread : thread'[k] = thread[i]
            BY <2>4, DeletedComment
        <3> QED
            BY <3>1 DEF Identified
    <2>5. ASSUME NEW j \in Jobs, JobStep(j) \/ ServiceStep(j) PROVE Kept
        <3>1. CASE Create(j)
            BY <2>2, <3>1 DEF Create, Posted
        <3> QED
            BY <2>1, <2>3, <2>5, <3>1
               DEF JobStep, ServiceStep, Start, ReadPage, Publish, Fail, Refuse, LoseWrite
    <2>6. CASE PersonComments
        BY <2>2, <2>6 DEF PersonComments, Posted
    <2> QED
        BY <2>1, <2>4, <2>5, <2>6 DEF Next, vars
<1>2. IInv /\ [Next]_vars => [Kept]_vars
    BY <1>1
<1> QED
    BY <1>2, Invariance, PTL DEF Spec, PeopleKeepTheirWords
=============================================================================
