---------------------------- MODULE StickyReview ----------------------------
(***************************************************************************)
(* `changegate review github|gitlab --comment` on one pull request: every  *)
(* CI job reads the whole comment thread page by page, and then updates the*)
(* first comment that carries the sticky marker or creates one.            *)
(*                                                                         *)
(* src/internal/review/{github,gitlab}.go and internal/cli/review.go.  The *)
(* service keeps the thread and promises nothing between two requests:     *)
(* other jobs write, people comment and delete, answers are lost, and the  *)
(* write of a job that gave up may still arrive.                           *)
(***************************************************************************)
EXTENDS Naturals, Sequences, FiniteSets

CONSTANTS
    Jobs,         \* the runs of the review command, numbered as they are triggered
    PageSize,     \* comments per page; per_page=100
    NewestFirst,  \* how the service lists a thread: GitLab TRUE, GitHub FALSE
    MaxComments   \* bound: the IDs the service may hand out

ASSUME StickyAssumption ==
    /\ Jobs \subseteq Nat \ {0}
    /\ IsFiniteSet(Jobs)
    /\ PageSize \in Nat \ {0}
    /\ NewestFirst \in BOOLEAN
    /\ MaxComments \in Nat

VARIABLES
    thread,    \* the comments, in the order in which the service lists them
    nextID,    \* the ID of the next comment
    phase,     \* job -> how far it is
    unread,    \* job -> the position at which its next page begins
    target,    \* job -> the ID of the first marked comment it read, or NoComment
    inFlight,  \* the jobs whose write the service has neither applied nor lost
    refused,   \* the jobs whose write was refused: the comment is gone
    disturbed  \* history: the jobs whose window, from the scan to the arrival of
               \* their write, saw another job's write or a deletion

vars == <<thread, nextID, phase, unread, target, inFlight, refused, disturbed>>

NoComment == 0
Person == 0    \* the author of a comment without the marker

\* A comment's review is the job whose body it shows; its marker makes it sticky.
Comment == [id: 1..MaxComments, review: Jobs \union {Person}]

Marked(comment) == comment.review # Person

Phases == {"queued", "listing", "waiting", "published", "failed"}

\* The jobs that have read something a write may make stale.
InWindow == {j \in Jobs : phase[j] = "listing" \/ j \in inFlight}

Insert(comment) == IF NewestFirst THEN <<comment>> \o thread ELSE Append(thread, comment)

\* The positions of the page a job reads next; a short page is the last one.
Page(j) == unread[j]..(unread[j] + PageSize - 1) \intersect DOMAIN thread

\* Mutant: the first page is all that is asked for.
FirstPageOnly(j) == TRUE

LastPage(j) == unread[j] + PageSize - 1 > Len(thread)

\* Mutant: the first comment is updated, whoever wrote it.
FirstCommentOn(page) ==
    IF page = {} THEN NoComment
    ELSE thread[CHOOSE i \in page : \A k \in page : i <= k].id

FirstMarkedOn(page) ==
    LET marked == {i \in page : Marked(thread[i])}
    IN  IF marked = {} THEN NoComment
        ELSE thread[CHOOSE i \in marked : \A k \in marked : i <= k].id

-----------------------------------------------------------------------------
\* Mutant: pages are counted from 0.
InitFromPageZero ==
    /\ thread = << >>
    /\ nextID = 1
    /\ phase = [j \in Jobs |-> "queued"]
    /\ unread = [j \in Jobs |-> 0]
    /\ target = [j \in Jobs |-> NoComment]
    /\ inFlight = {}
    /\ refused = {}
    /\ disturbed = {}

Init ==
    /\ thread = << >>
    /\ nextID = 1
    /\ phase = [j \in Jobs |-> "queued"]
    /\ unread = [j \in Jobs |-> 1]
    /\ target = [j \in Jobs |-> NoComment]
    /\ inFlight = {}
    /\ refused = {}
    /\ disturbed = {}

\* CI starts the jobs in the order of the pushes that trigger them.
Start(j) ==
    /\ phase[j] = "queued"
    /\ \A i \in Jobs : i < j => phase[i] # "queued"
    /\ phase' = [phase EXCEPT ![j] = "listing"]
    /\ UNCHANGED <<thread, nextID, unread, target, inFlight, refused, disturbed>>

\* Mutant: every page is requested from the start.
ReadPageAgain(j) ==
    /\ phase[j] = "listing"
    /\ target' = [target EXCEPT ![j] = IF @ = NoComment THEN FirstMarkedOn(Page(j)) ELSE @]
    /\ IF LastPage(j)
       THEN phase' = [phase EXCEPT ![j] = "waiting"] /\ inFlight' = inFlight \union {j}
       ELSE UNCHANGED <<phase, inFlight>>
    /\ UNCHANGED <<thread, nextID, unread, refused, disturbed>>

(***************************************************************************)
(* ListIssueComments asks for one page; after the last, the publisher sends*)
(* its write: PATCH to the target, or POST when it found none.             *)
(***************************************************************************)
ReadPage(j) ==
    /\ phase[j] = "listing"
    /\ target' = [target EXCEPT ![j] = IF @ = NoComment THEN FirstMarkedOn(Page(j)) ELSE @]
    /\ unread' = [unread EXCEPT ![j] = @ + PageSize]
    /\ IF LastPage(j)
       THEN phase' = [phase EXCEPT ![j] = "waiting"] /\ inFlight' = inFlight \union {j}
       ELSE UNCHANGED <<phase, inFlight>>
    /\ UNCHANGED <<thread, nextID, refused, disturbed>>

\* Mutant: a comment that is already there is not looked for.
CreateAlways(j) ==
    /\ j \in inFlight
    /\ nextID <= MaxComments
    /\ thread' = Insert([id |-> nextID, review |-> j])
    /\ nextID' = nextID + 1
    /\ inFlight' = inFlight \ {j}
    /\ disturbed' = disturbed \union (InWindow \ {j})
    /\ UNCHANGED <<phase, unread, target, refused>>

\* CreateIssueComment, CreateMergeRequestNote: the service takes the POST.
Create(j) ==
    /\ j \in inFlight
    /\ target[j] = NoComment
    /\ nextID <= MaxComments
    /\ thread' = Insert([id |-> nextID, review |-> j])
    /\ nextID' = nextID + 1
    /\ inFlight' = inFlight \ {j}
    /\ disturbed' = disturbed \union (InWindow \ {j})
    /\ UNCHANGED <<phase, unread, target, refused>>

\* UpdateIssueComment, UpdateMergeRequestNote: the service takes the PATCH,
\* or refuses it when somebody has deleted the comment.
Update(j) ==
    /\ j \in inFlight
    /\ \E i \in DOMAIN thread :
        /\ thread[i].id = target[j]
        /\ thread' = [thread EXCEPT ![i].review = j]
    /\ inFlight' = inFlight \ {j}
    /\ disturbed' = disturbed \union (InWindow \ {j})
    /\ UNCHANGED <<nextID, phase, unread, target, refused>>

Refuse(j) ==
    /\ j \in inFlight
    /\ target[j] # NoComment
    /\ \A i \in DOMAIN thread : thread[i].id # target[j]
    /\ inFlight' = inFlight \ {j}
    /\ refused' = refused \union {j}
    /\ UNCHANGED <<thread, nextID, phase, unread, target, disturbed>>

\* The job hears that its write was applied.
Publish(j) ==
    /\ phase[j] = "waiting"
    /\ j \notin inFlight \union refused
    /\ phase' = [phase EXCEPT ![j] = "published"]
    /\ UNCHANGED <<thread, nextID, unread, target, inFlight, refused, disturbed>>

\* A request fails, times out after 30 seconds or dies with its job; a write
\* that was sent is still on its way, or was applied and its answer lost.
Fail(j) ==
    /\ phase[j] \in {"listing", "waiting"}
    /\ phase' = [phase EXCEPT ![j] = "failed"]
    /\ UNCHANGED <<thread, nextID, unread, target, inFlight, refused, disturbed>>

\* The write of a job that has given up never arrives.
LoseWrite(j) ==
    /\ j \in inFlight
    /\ phase[j] = "failed"
    /\ inFlight' = inFlight \ {j}
    /\ UNCHANGED <<thread, nextID, phase, unread, target, refused, disturbed>>

PersonComments ==
    /\ nextID <= MaxComments
    /\ thread' = Insert([id |-> nextID, review |-> Person])
    /\ nextID' = nextID + 1
    /\ UNCHANGED <<phase, unread, target, inFlight, refused, disturbed>>

\* What follows moves up: a job between two pages misses one comment.
PersonDeletes(i) ==
    /\ i \in DOMAIN thread
    /\ thread' = [k \in 1..(Len(thread) - 1) |-> IF k < i THEN thread[k] ELSE thread[k + 1]]
    /\ disturbed' = disturbed \union InWindow
    /\ UNCHANGED <<nextID, phase, unread, target, inFlight, refused>>

JobStep(j) == Start(j) \/ ReadPage(j) \/ Publish(j) \/ Fail(j)

ServiceStep(j) == Create(j) \/ Update(j) \/ Refuse(j) \/ LoseWrite(j)

Next ==
    \/ \E j \in Jobs : JobStep(j) \/ ServiceStep(j)
    \/ PersonComments
    \/ \E i \in 1..MaxComments : PersonDeletes(i)

(***************************************************************************)
(* A job reads on for as long as it gets pages, and gives up on a write    *)
(* that is not answered within the HTTP client's 30 seconds.               *)
(***************************************************************************)
Fairness ==
    \A j \in Jobs :
        /\ WF_vars(ReadPage(j))
        /\ WF_vars(phase[j] = "waiting" /\ (Publish(j) \/ Fail(j)))

Spec == Init /\ [][Next]_vars /\ Fairness

-----------------------------------------------------------------------------
(***************************************************************************)
(* Properties.                                                             *)
(***************************************************************************)
TypeOK ==
    /\ thread \in Seq(Comment)
    /\ nextID \in 1..(MaxComments + 1)
    /\ phase \in [Jobs -> Phases]
    /\ unread \in [Jobs -> Nat \ {0}]
    /\ target \in [Jobs -> 0..MaxComments]
    /\ inFlight \subseteq Jobs
    /\ refused \subseteq Jobs
    /\ disturbed \subseteq Jobs

\* The positions and the IDs of the sticky comments.
MarkedPositions == {i \in DOMAIN thread : Marked(thread[i])}

StickyComments == {thread[i].id : i \in MarkedPositions}

(***************************************************************************)
(* Duplicates come from interference alone: every sticky comment beyond the*)
(* first is owed to a job of its own whose window another job's write or a *)
(* deletion fell into.  Lost answers, jobs that died, late pages and       *)
(* people's comments between two pages never cause one                     *)
(* (PublishGitHubStickyComment, PublishGitLabStickyNote).                  *)
(***************************************************************************)
DuplicatesNeedInterference ==
    Cardinality(StickyComments) <= 1 + Cardinality(disturbed)

(***************************************************************************)
(* Without interference the thread never falls behind: no sticky comment   *)
(* shows a review older than one a job has reported as published, even     *)
(* though the writes of failed jobs may arrive at any time.                *)
(***************************************************************************)
LatestReviewShows ==
    disturbed = {} =>
        \A j \in Jobs : \A i \in MarkedPositions :
            phase[j] = "published" => thread[i].review >= j

(***************************************************************************)
(* No review ever overwrites or moves what a person wrote: a comment       *)
(* without the marker keeps its words for as long as nobody deletes it.    *)
(***************************************************************************)
PeopleKeepTheirWords ==
    [][\A i \in DOMAIN thread : \A k \in DOMAIN thread' :
        (thread[i].id = thread'[k].id /\ ~Marked(thread[i])) => thread'[k] = thread[i]]_vars

(***************************************************************************)
(* A job that has started ends, although people go on commenting while it  *)
(* reads, and whatever happens to its write.                               *)
(***************************************************************************)
JobsEnd ==
    \A j \in Jobs : phase[j] = "listing" ~> phase[j] \in {"published", "failed"}

(***************************************************************************)
(* docs/github-actions.md:103: "rerunning CI updates the existing review   *)
(* instead of posting duplicates".  There is at most one sticky comment.   *)
(* (Two jobs of one pull request that overlap both list before either      *)
(* writes, and both create.)                                               *)
(***************************************************************************)
OneStickyComment == Cardinality(StickyComments) <= 1
=============================================================================
