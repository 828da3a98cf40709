----------------------------- MODULE WaiverFile -----------------------------
(***************************************************************************)
(* Waivers (src/internal/waiver/waiver.go): reviewed exceptions that       *)
(* suppress findings until they expire.  Days are numbered; a waiver is    *)
(* good through the whole of the day it expires on.                        *)
(***************************************************************************)
EXTENDS DecisionModel, FiniteSetsExt

CONSTANTS
    Scopes,        \* what one record can single out, each as a set of sites
    LastDay,       \* the clock stops here
    WaiverNumbers, \* the numbers n of the IDs WVR-n the model may hand out
    MaxReadID,     \* the greatest number that the format WVR-%03d reads back whole: 999
    CutID          \* what the number after that reads back as: 100, the first digits of 1000

ASSUME WaiverAssumption ==
    /\ Scopes \subseteq SUBSET Sites
    /\ LastDay \in Nat
    /\ WaiverNumbers \subseteq Nat \ {0}
    /\ MaxReadID \in Nat /\ CutID \in 1..(MaxReadID - 1)

Days == 0..LastDay

\* The rule, resource, fingerprint and conditions of a record are all
\* determined by the fingerprint, so a scope is the set of sites it matches.
Waiver == [id: WaiverNumbers, scope: Scopes, created: Days, expires: Days]

\* Mutant: a day of grace.
ExpiredADayLate(waiver, now) == ~(now < waiver.expires + 2)

\* Mutant: Before for After.
ExpiredInverted(waiver, now) == now < waiver.expires + 1

Expired(waiver, now) == ~(now < waiver.expires + 1)

Matches(waiver, f, now) ==
    /\ ~Expired(waiver, now)
    /\ f.site \in waiver.scope

\* Apply: the first record that matches suppresses the finding.
ApplyWaivers(waivers, findings, now) ==
    {IF \E w \in waivers : Matches(w, f, now) THEN Suppress(f, "waiver") ELSE f :
        f \in findings}

(***************************************************************************)
(* Validate: duplicate IDs and overlong waivers are errors; an expired     *)
(* waiver is only counted.  maxDays = 0 sets no limit.                     *)
(***************************************************************************)
ValidWaivers(waivers, maxDays) ==
    /\ \A v, w \in waivers : v # w => v.id # w.id
    /\ \A w \in waivers : maxDays > 0 => w.expires <= w.created + maxDays

\* Mutant: prunes on the last good day.
PruneExpiring(waivers, now) == {w \in waivers : now < w.expires}

PruneExpired(waivers, now) == {w \in waivers : ~Expired(w, now)}

\* Mutant: the next number is counted, not the greatest plus one.
NextIDByCount(waivers) == Cardinality(waivers) + 1

\* Sscanf with %03d writes as many digits as a number has and reads at most three.
ReadID(number) == IF number <= MaxReadID THEN number ELSE CutID

NextID(waivers) == Max({ReadID(w.id) : w \in waivers} \union {0}) + 1
=============================================================================
