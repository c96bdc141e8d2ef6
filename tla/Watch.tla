------------------------------- MODULE Watch --------------------------------
(***************************************************************************)
(* The two watch loops: watchMetrics of cf-metrics with the command around *)
(* it, and watchEvents of cf-events.  Each polls a log it does not own for *)
(* what is newer than its cursor.  The log is external: a document has the *)
(* time at which it came about and lands later, several may have one time, *)
(* and a page of documents of one time may hold any of them.  A poll that  *)
(* fails changes nothing in cf-metrics and ends the watch in cf-events.    *)
(***************************************************************************)
EXTENDS Naturals, SequencesExt, Arrays

CONSTANTS
    FetchLimit,      \* WATCH_FETCH_LIMIT
    Lookback,        \* --lookback, in instants
    MaxLanded,       \* bound: documents that land
    MaxInstant       \* bound: the clock

ASSUME WatchAssumption ==
    {FetchLimit, MaxInstant} \subseteq Nat \ {0} /\ {Lookback, MaxLanded} \subseteq Nat

VARIABLES
    landed,          \* the log: the time of each document, in the order in which they land
    instant,         \* the clock
    watch,           \* the loop: its phase, cursor, dedup set, and whether it replays
    shown,           \* the documents given to onPoint or onEvent and printed
    missed           \* history: those it says it does not show, or could not have shown

watchvars == <<landed, instant, watch, shown, missed>>

Documents == DOMAIN landed
Loops == {"metrics", "events"}

WatchInit ==
    /\ landed = <<>> /\ instant = 1 /\ shown = <<>> /\ missed = {}
    /\ watch \in {[of |-> l, at |-> "starting", cursor |-> 0, seen |-> {},
                   replaying |-> FALSE, retried |-> FALSE] : l \in Loops}

\* What a poll asks for: since is inclusive (gte), created_ats[gt] is not.
Matching == {d \in Documents : IF watch.of = "metrics" THEN landed[d] >= watch.cursor
                                                        ELSE landed[d] > watch.cursor}

(***************************************************************************)
(* resolveTimeBound, durationToCreatedAfter: the cursor is sought anew     *)
(* whenever a loop is entered.  What is older was not asked for.           *)
(***************************************************************************)
Seed == IF instant > Lookback THEN instant - Lookback ELSE 0

EntersLoop(again) ==
    /\ watch' = [watch EXCEPT !.at = "polling", !.cursor = Seed, !.seen = {},
                              !.replaying = again, !.retried = again]
    /\ UNCHANGED <<landed, instant, shown>>
    /\ missed' = missed \cup ((Documents \ ToSet(shown)) \ Matching')

StartsWatch == watch.at = "starting" /\ EntersLoop(FALSE)

(***************************************************************************)
(* One poll.                                                               *)
(***************************************************************************)
InTime(p) == \A i, j \in DOMAIN p : i < j => landed[p[i]] <= landed[p[j]]
Chronological(S) == {p \in SetToSeqs(S) : InTime(p)}

PageSets == IF Cardinality(Matching) <= FetchLimit THEN {Matching}
                                                   ELSE kSubset(FetchLimit, Matching)

OldestPages == {S \in PageSets : \A d \in S, e \in Matching \ S : landed[d] <= landed[e]}
NewestPages == {S \in PageSets : \A d \in S, e \in Matching \ S : landed[d] >= landed[e]}

\* Mutant: to the newest document that matches, as a descending sort would have it.
JumpsToNewest(page, seen) ==
    IF Matching = {} THEN [cursor |-> watch.cursor, seen |-> seen]
    ELSE [cursor |-> Max({landed[d] : d \in Matching}), seen |-> seen]

\* advanceCursor: to the last document returned; only ties with it can come again.
AdvanceCursor(page, seen) ==
    IF page = <<>> \/ landed[Last(page)] = watch.cursor
    THEN [cursor |-> watch.cursor, seen |-> seen]
    ELSE [cursor |-> landed[Last(page)],
          seen |-> {d \in ToSet(page) : landed[d] = landed[Last(page)]}]

\* lastPrintedTime of the command.
LastPrinted == Max({0} \cup {landed[d] : d \in ToSet(shown)})

\* The command's onPoint: in a replay nothing up to the last time printed is printed again.
Printed(fresh) ==
    Filtered(fresh, {d \in Documents : watch.replaying /\ landed[d] <= LastPrinted})

PollsMetrics ==
    /\ watch.of = "metrics" /\ watch.at = "polling"
    /\ \E S \in OldestPages : \E page \in Chronological(S) :
          LET fresh == Filtered(page, watch.seen)
              advanced == AdvanceCursor(page, watch.seen \cup ToSet(page))
          IN /\ shown' = shown \o Printed(fresh)
             /\ watch' = [watch EXCEPT !.cursor = advanced.cursor, !.seen = advanced.seen,
                                       !.replaying = @ /\ Printed(fresh) = <<>>]
             /\ missed' = missed \cup (ToSet(fresh) \ ToSet(shown'))
    /\ UNCHANGED <<landed, instant>>

\* The newest are fetched and given oldest first; what did not fit is passed for good.
PollsEvents ==
    /\ watch.of = "events" /\ watch.at = "polling"
    /\ \E S \in NewestPages : \E page \in Chronological(S) :
          /\ shown' = shown \o Filtered(page, watch.seen)
          /\ watch' = [watch EXCEPT !.seen = @ \cup S,
                                    !.cursor = IF S = {} THEN @ ELSE landed[Last(page)]]
          /\ missed' = missed \cup (Matching \ S)
    /\ UNCHANGED <<landed, instant>>

\* A cached credential is rejected: withOpenSearchClient enters the loop once more with
\* one it discovers.
RetriesWatch ==
    /\ watch.of = "metrics" /\ watch.at = "polling" /\ ~watch.retried
    /\ EntersLoop(TRUE)

\* Ctrl-C, another rejection, or in cf-events a poll that fails.
EndsWatch ==
    /\ watch.at = "polling"
    /\ watch' = [watch EXCEPT !.at = "ended"]
    /\ UNCHANGED <<landed, instant, shown, missed>>

(***************************************************************************)
(* The log and the clock.  A document that lands behind the cursor will    *)
(* not match any more.                                                     *)
(***************************************************************************)
LandsDocument ==
    /\ Len(landed) < MaxLanded
    /\ UNCHANGED <<instant, watch, shown>>
    /\ \E time \in {instant - 1, instant} \ {0} :
          /\ landed' = Append(landed, time)
          /\ missed' = IF watch.at = "polling" /\ Len(landed) + 1 \notin Matching'
                        THEN missed \cup {Len(landed) + 1} ELSE missed

TicksClock ==
    /\ instant < MaxInstant
    /\ instant' = instant + 1
    /\ UNCHANGED <<landed, watch, shown, missed>>

WatchNext ==
    \/ StartsWatch \/ PollsMetrics \/ PollsEvents \/ RetriesWatch \/ EndsWatch
    \/ LandsDocument \/ TicksClock

WatchSpec == WatchInit /\ [][WatchNext]_watchvars

-----------------------------------------------------------------------------
WatchTypeOK ==
    /\ landed \in BoundedSeq(1..MaxInstant, MaxLanded) /\ instant \in 1..MaxInstant
    /\ watch \in [of : Loops, at : {"starting", "polling", "ended"}, cursor : 0..MaxInstant,
                  seen : SUBSET Documents, replaying : BOOLEAN, retried : BOOLEAN]
    /\ ToSet(shown) \subseteq Documents /\ missed \subseteq Documents

\* Documents are shown "in chronological order" (watch.ts:93), each once, also across the
\* replay after a rejected credential; and no document that landed in time is left where
\* no later poll brings it, the cursor beyond it or its id remembered as seen: a full page
\* must not let the cursor "skip them forever" (watch.ts:66).
WatchPassesNothing ==
    /\ IsInjective(shown) /\ InTime(shown)
    /\ missed \cap ToSet(shown) = {}
    /\ watch.at = "polling" =>
          Documents \ (Matching \ watch.seen) \subseteq ToSet(shown) \cup missed
=============================================================================
