-------------------------- MODULE InspectorElection --------------------------
(***************************************************************************)
(* The session lock of cf-inspector (cli/sessionLock.ts).  There is no     *)
(* single lock file: each contender creates a file of its own, waits 25 ms *)
(* for the others to appear, lists the directory, reads every other file   *)
(* and withdraws if one of them is owned or comes first by token.  The     *)
(* listing, the look at a file and the reading of it are three steps, and  *)
(* the others go on between them.                                          *)
(*                                                                         *)
(* A contender is its token, a number.  Mishaps are what the election does *)
(* not guard against; the properties say which of them they tolerate.      *)
(***************************************************************************)
EXTENDS Naturals, FiniteSets

CONSTANT Contenders      \* the tokens of the processes that debug one target

ASSUME ContenderAssumption == Contenders \subseteq Nat

VARIABLES
    mark,        \* the lock file of each contender
    elect,       \* each contender: where it is and what it has seen
    waiting,     \* for each contender, the others that may still act on what they saw before it came
    mishaps      \* history: which of Mishaps have happened

electionvars == <<mark, elect, waiting, mishaps>>

\* "empty": created, or being rewritten; a reader takes the identity from the file's name.
Marks == {"none", "empty", "pending", "owned"}
ElectionPcs == {"new", "created", "window", "looking", "reading", "claiming", "owner",
                "withdrawing", "withdrawn", "released", "gone", "killed"}

\* slow: someone took longer from its listing to its verdict than another's whole window;
\* vanished: a file was gone between the look and the reading, and counted as owned;
\* failed: listing the directory, or writing the verdict, failed.
Mishaps == {"slow", "vanished", "failed"}

NoFile == 0
NewContender == [at |-> "new", names |-> {}, file |-> NoFile, refused |-> FALSE]

ElectionInit ==
    /\ mark = [c \in Contenders |-> "none"]
    /\ elect = [c \in Contenders |-> NewContender]
    /\ waiting = [c \in Contenders |-> {}]
    /\ mishaps = {}

Contends(c, at) == elect[c].at = at
Turns(c, to) == elect' = [elect EXCEPT ![c].at = to]

\* processIsAlive, with the start time that tells a reused pid apart.
OwnerIsAlive(c) == elect[c].at \notin {"new", "gone", "killed"}

\* A contender whose verdict is not yet in its file.
Undecided(c) == elect[c].at \in {"looking", "reading", "claiming", "withdrawing"}

CreatesMark(c) ==
    /\ Contends(c, "new")
    /\ mark' = [mark EXCEPT ![c] = "empty"]
    /\ Turns(c, "created")
    /\ UNCHANGED <<waiting, mishaps>>

\* The window of 25 ms begins.
WritesPending(c) ==
    /\ Contends(c, "created")
    /\ mark' = [mark EXCEPT ![c] = "pending"]
    /\ waiting' = [waiting EXCEPT ![c] = {d \in Contenders : Undecided(d)}]
    /\ Turns(c, "window")
    /\ UNCHANGED mishaps

\* readdir, after the window.
ListsDirectory(c) ==
    /\ Contends(c, "window")
    /\ elect' = [elect EXCEPT ![c].at = "looking",
                              ![c].names = {d \in Contenders \ {c} : mark[d] # "none"}]
    /\ mishaps' = mishaps \cup (IF waiting[c] # {} THEN {"slow"} ELSE {})
    /\ waiting' = [waiting EXCEPT ![c] = {}]
    /\ UNCHANGED mark

\* stat: a file that is gone is no contender's.
LooksAt(c, d) ==
    /\ Contends(c, "looking") /\ d \in elect[c].names
    /\ elect' = [elect EXCEPT ![c].names = @ \ {d},
                              ![c].file = IF mark[d] = "none" THEN NoFile ELSE d,
                              ![c].at = IF mark[d] = "none" THEN "looking" ELSE "reading"]
    /\ UNCHANGED <<mark, waiting, mishaps>>

\* Mutant: only a file that is owned keeps another contender away.
RefusesOwned(c, d) ==
    /\ OwnerIsAlive(d)
    /\ mark[d] # "pending"

\* The other file keeps this contender from owning the target: its owner lives and it is
\* owned, or cannot be read, or is pending under a smaller token.
Refuses(c, d) ==
    /\ OwnerIsAlive(d)
    /\ mark[d] # "pending" \/ d < c

\* readLockMetadata, and the reclaiming of a dead owner's file.
ReadsMark(c) ==
    LET d == elect[c].file
    IN  /\ Contends(c, "reading")
        /\ elect' = [elect EXCEPT ![c].at = "looking", ![c].file = NoFile,
                                  ![c].refused = @ \/ Refuses(c, d)]
        /\ mark' = IF OwnerIsAlive(d) THEN mark ELSE [mark EXCEPT ![d] = "none"]
        /\ mishaps' = mishaps \cup (IF mark[d] = "none" /\ OwnerIsAlive(d)
                                      THEN {"vanished"} ELSE {})
        /\ UNCHANGED waiting

ReachesVerdict(c) ==
    /\ Contends(c, "looking") /\ elect[c].names = {}
    /\ Turns(c, IF elect[c].refused THEN "withdrawing" ELSE "claiming")
    /\ UNCHANGED <<mark, waiting, mishaps>>

\* Nobody waits any longer for what c decides.
VerdictIsKnown(c) == waiting' = [d \in Contenders |-> waiting[d] \ {c}]

\* The file is rewritten as owned; while it is being written it reads as owned too.
ClaimsTarget(c) ==
    /\ Contends(c, "claiming")
    /\ mark' = [mark EXCEPT ![c] = "owned"]
    /\ Turns(c, "owner") /\ VerdictIsKnown(c)
    /\ UNCHANGED mishaps

DecisionFails(c) ==
    /\ elect[c].at \in {"window", "claiming"}
    /\ Turns(c, "withdrawing")
    /\ mishaps' = mishaps \cup {"failed"}
    /\ UNCHANGED <<mark, waiting>>

\* Mutant: a refused contender leaves its file where it is.
WithdrawsQuietly(c) ==
    /\ Contends(c, "withdrawing")
    /\ Turns(c, "withdrawn") /\ VerdictIsKnown(c)
    /\ UNCHANGED <<mark, mishaps>>

\* TARGET_ALREADY_DEBUGGED.
Withdraws(c) ==
    /\ Contends(c, "withdrawing")
    /\ mark' = [mark EXCEPT ![c] = "none"]
    /\ Turns(c, "withdrawn") /\ VerdictIsKnown(c)
    /\ UNCHANGED mishaps

\* release, after the session and its tunnel are closed.
ReleasesTarget(c) ==
    /\ Contends(c, "owner")
    /\ mark' = [mark EXCEPT ![c] = "none"]
    /\ Turns(c, "released")
    /\ UNCHANGED <<waiting, mishaps>>

ContenderExits(c) ==
    /\ elect[c].at \in {"withdrawn"}
    /\ Turns(c, "gone")
    /\ UNCHANGED <<mark, waiting, mishaps>>

ContenderKilled(c) ==
    /\ elect[c].at \notin {"new", "withdrawn", "released", "gone", "killed"}
    /\ elect' = [elect EXCEPT ![c] = [NewContender EXCEPT !.at = "killed"]]
    /\ VerdictIsKnown(c)
    /\ UNCHANGED <<mark, mishaps>>

ContenderStep(c) ==
    \/ CreatesMark(c) \/ WritesPending(c) \/ ListsDirectory(c)
    \/ \E d \in Contenders : LooksAt(c, d)
    \/ ReadsMark(c) \/ ReachesVerdict(c) \/ ClaimsTarget(c) \/ DecisionFails(c)
    \/ Withdraws(c) \/ ReleasesTarget(c) \/ ContenderExits(c) \/ ContenderKilled(c)

ElectionNext == \E c \in Contenders : ContenderStep(c)

ElectionSpec == ElectionInit /\ [][ElectionNext]_electionvars

-----------------------------------------------------------------------------
ElectionTypeOK ==
    /\ mark \in [Contenders -> Marks]
    /\ elect \in [Contenders -> [at : ElectionPcs, names : SUBSET Contenders,
                                 file : Contenders \cup {NoFile}, refused : BOOLEAN]]
    /\ waiting \in [Contenders -> SUBSET Contenders]
    /\ mishaps \subseteq Mishaps

\* "Only one local cf-inspector process may actively debug a given target at a time"
\* (README.md:20), unless a contender was slower from its listing to its claim than the
\* whole window of a later one.
OneDebugger ==
    "slow" \notin mishaps =>
        \A c, d \in Contenders : Contends(c, "owner") /\ Contends(d, "owner") => c = d

\* An election of two is never lost by both: when both have been heard, neither was killed
\* and nothing of Mishaps happened, one of them got the target.  (Three may all be refused:
\* the first by the empty file of the third, the second by the first, and the third by the
\* second, who has lost already but whose file is still there.)
SomeoneOfTwoWins ==
    LET came == {c \in Contenders : ~Contends(c, "new")}
    IN  (/\ mishaps = {} /\ Cardinality(came) \in {1, 2}
         /\ \A c \in came : elect[c].at \in {"withdrawn", "released", "gone"})
        => \E c \in came : Contends(c, "released")
=============================================================================
