----------------------------- MODULE RemoteShell -----------------------------
(***************************************************************************)
(* PersistentShell of the cf-explorer broker (persistent-shell.ts and      *)
(* protocol.ts): commands are written one after the other to the stdin of  *)
(* one remote sh, which wraps the output of each in markers of its own.    *)
(* Output comes back in chunks that break anywhere.  A command that is     *)
(* given up is not stopped: until the shell it was sent to is gone, its    *)
(* late output mixes with what the next command waits for.                 *)
(***************************************************************************)
EXTENDS Naturals, Sequences, FiniteSets, SequencesExt

CONSTANTS
    Scripts,         \* the number of commands queued
    Lines,           \* the lines that a command prints
    BufferLimit      \* maxBytes, in pieces of output

ASSUME ShellAssumption == {Scripts, Lines, BufferLimit} \subseteq Nat

VARIABLES
    awaited,     \* the command that is pending, if any
    executed,    \* the commands taken from the queue
    replies,     \* what each command was answered
    buffer,      \* buffer
    exited,      \* exited
    child,       \* the ssh process
    stdin,       \* the scripts the remote shell has not begun
    running,     \* the pieces the running script has still to print
    transit      \* printed, not yet received

shellvars == <<awaited, executed, replies, buffer, exited, child, stdin, running, transit>>

Ids == 1..Scripts
Nothing == 0

\* The pieces of a frame.  The end marker, the exit code and the end of its line may come
\* in different chunks; a chunk may even end inside a character.
Piece(i, kind, n) == [of |-> i, kind |-> kind, n |-> n]
Start(i) == Piece(i, "start", 0)
Line(i, n) == Piece(i, "line", n)
Garbled(i, n) == Piece(i, "garbled", n)
End(i) == Piece(i, "end", 0)
Code(i, n) == Piece(i, "code", n)
Pieces == [of : Ids, kind : {"start", "line", "garbled", "end", "code"}, n : 0..(Lines + 1)]

Output(i) == [n \in 1..Lines |-> Line(i, n)]
Frame(i, code) == <<Start(i)>> \o Output(i) \o <<End(i), Code(i, code)>>

Unanswered == [kind |-> "none", stdout |-> <<>>]
Rejected(why) == [kind |-> why, stdout |-> <<>>]
Resolved(out) == [kind |-> "resolved", stdout |-> out]

ShellInit ==
    /\ awaited = Nothing /\ executed = 0
    /\ replies = [i \in Ids |-> Unanswered]
    /\ buffer = <<>> /\ exited = FALSE /\ child = "up"
    /\ stdin = <<>> /\ running = <<>> /\ transit = <<>>

Replies(i, r) == replies' = [replies EXCEPT ![i] = r]

\* executeNow, for the next command of the queue once the one before is settled.
Executes ==
    /\ executed < Scripts /\ awaited = Nothing
    /\ executed' = executed + 1
    /\ IF exited
         THEN Replies(executed + 1, Rejected("stale")) /\ UNCHANGED <<awaited, buffer, stdin>>
         ELSE /\ buffer' = <<>>
              /\ awaited' = executed + 1
              /\ stdin' = Append(stdin, executed + 1)
              /\ UNCHANGED replies
    /\ UNCHANGED <<exited, child, running, transit>>

\* rejectPending and child.kill.
GivesUpCommand(why) ==
    /\ Replies(awaited, Rejected(why))
    /\ awaited' = Nothing
    /\ child' = IF child = "up" THEN "terminating" ELSE child

\* The timeout of the pending command; the ssh process gets SIGTERM.
CommandTimesOut ==
    /\ awaited # Nothing
    /\ GivesUpCommand("timeout")
    /\ UNCHANGED <<executed, buffer, exited, stdin, running, transit>>

IndexOf(p, s) == SelectInSeq(s, LAMBDA x : x = p)

\* Mutant: the frame begins where the buffer begins.
FrameOfBuffer(i, s) ==
    LET end == IndexOf(End(i), s)
    IN  IF end = 0 THEN Unanswered
        ELSE IF end = Len(s) THEN Rejected("malformed")
        ELSE IF s[end + 1] = Code(i, 0) THEN Resolved(SubSeq(s, 1, end - 1))
        ELSE Rejected("failed")

\* parseProtocolFrame and requireSuccessfulFrame: from the start marker of this command to
\* its end marker.  An end marker whose exit code has not come yet counts as malformed.
FrameOf(i, s) ==
    LET start == IndexOf(Start(i), s)
        end == IndexOf(End(i), s)
    IN  IF start = 0 \/ end = 0 THEN Unanswered
        ELSE IF end = Len(s) THEN Rejected("malformed")
        ELSE IF s[end + 1] = Code(i, 0) THEN Resolved(SubSeq(s, start + 1, end - 1))
        ELSE Rejected("failed")

\* Every chunk is decoded on its own: a character cut by its end is lost, in the output only.
Decoded(chunk, cut) ==
    [k \in DOMAIN chunk |->
        IF cut /\ k = Len(chunk) /\ chunk[k].kind = "line"
          THEN Garbled(chunk[k].of, chunk[k].n) ELSE chunk[k]]

\* handleStdout.
ReceivesChunk(n, cut) ==
    /\ n <= Len(transit)
    /\ transit' = SubSeq(transit, n + 1, Len(transit))
    /\ IF awaited = Nothing THEN UNCHANGED <<awaited, replies, buffer, child>>
       ELSE /\ buffer' = buffer \o Decoded(SubSeq(transit, 1, n), cut)
            /\ LET frame == FrameOf(awaited, buffer')
               IN  CASE Len(buffer') > BufferLimit -> GivesUpCommand("limit")
                     [] frame.kind = "malformed" -> GivesUpCommand("malformed")
                     [] OTHER -> /\ Replies(awaited, frame)
                                 /\ awaited' = IF frame = Unanswered THEN awaited ELSE Nothing
                                 /\ UNCHANGED child
    /\ UNCHANGED <<executed, exited, stdin, running>>

\* markExited: the process has closed, or its stderr speaks of something "closed".
MarksExited(closed) ==
    /\ ~exited
    /\ closed => child = "gone" /\ transit = <<>>
    /\ exited' = TRUE
    /\ replies' = IF awaited = Nothing THEN replies
                  ELSE [replies EXCEPT ![awaited] = Rejected("stale")]
    /\ awaited' = Nothing
    /\ UNCHANGED <<executed, buffer, child, stdin, running, transit>>

(***************************************************************************)
(* The remote shell, and the end of the ssh process.                       *)
(***************************************************************************)
BeginsScript ==
    /\ child # "gone" /\ running = <<>> /\ stdin # <<>>
    /\ \E code \in {0, 1} : running' = Frame(Head(stdin), code)
    /\ stdin' = Tail(stdin)
    /\ UNCHANGED <<awaited, executed, replies, buffer, exited, child, transit>>

Prints ==
    /\ child # "gone" /\ running # <<>>
    /\ transit' = Append(transit, Head(running))
    /\ running' = Tail(running)
    /\ UNCHANGED <<awaited, executed, replies, buffer, exited, child, stdin>>

ChildEnds ==
    /\ child # "gone"
    /\ child' = "gone"
    /\ UNCHANGED <<awaited, executed, replies, buffer, exited, stdin, running, transit>>

ShellNext ==
    \/ Executes \/ CommandTimesOut \/ (\E n \in 1..Len(transit), cut \in BOOLEAN : ReceivesChunk(n, cut))
    \/ (\E closed \in BOOLEAN : MarksExited(closed))
    \/ BeginsScript \/ Prints \/ ChildEnds

ShellSpec == ShellInit /\ [][ShellNext]_shellvars

-----------------------------------------------------------------------------
ShellTypeOK ==
    /\ awaited \in Ids \cup {Nothing} /\ executed \in 0..Scripts
    /\ replies \in [Ids -> [kind : {"none", "resolved", "stale", "timeout", "limit",
                                    "malformed", "failed"}, stdout : Seq(Pieces)]]
    /\ {buffer, running, transit} \subseteq Seq(Pieces) /\ stdin \in Seq(Ids)
    /\ exited \in BOOLEAN /\ child \in {"up", "terminating", "gone"}

\* "wraps remote output in sentinel markers" (README.md:304): a command that is answered
\* with an output gets the whole of its own and nothing of another's, line by line, in
\* whatever chunks it comes and whatever an earlier command that was given up still prints.
\* Only a character that a chunk cuts is lost.
AnswersAreOwn ==
    \A i \in Ids : replies[i].kind = "resolved" =>
        /\ Len(replies[i].stdout) = Lines
        /\ \A n \in 1..Lines : replies[i].stdout[n] \in {Line(i, n), Garbled(i, n)}
=============================================================================
