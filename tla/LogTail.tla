------------------------------- MODULE LogTail -------------------------------
(***************************************************************************)
(* internal/codexlog and internal/claudelog: how the poller follows the    *)
(* file an agent writes about its own turns.  The agent appends, a piece of *)
(* a line at a time; each look reads what was appended since the last, only *)
(* whole lines of it, and only the tail of a file that is new or was cut.  *)
(*                                                                         *)
(* A file is a sequence of bytes, TRUE where a line ends.  A line says      *)
(* something about the turn if it is no longer than Telling; what it says  *)
(* is where it ends.  One byte stands for many: InitialTail and OneRead are *)
(* the smallest numbers that stand to each other as the code's do.         *)
(***************************************************************************)
EXTENDS Integers, Sequences

CONSTANTS
    InitialTail, OneRead, Telling, MaxFile,
    MaxLooks,    \* looks at the same file between which the path is looked up again
    MaxFiles,    \* files an agent writes, one after another
    LongLines    \* codex writes lines longer than one read

ASSUME LogAssumption ==
    /\ {InitialTail, OneRead, Telling, MaxFile, MaxLooks, MaxFiles} \subseteq Nat \ {0}
    /\ Telling < InitialTail /\ InitialTail < OneRead
    /\ LongLines \in BOOLEAN

VARIABLES
    follows,     \* the agent whose file it is: the two watchers differ
    log,        \* the bytes of the file the agent writes
    fileNo,      \* which of its files that is; one begun anew counts as another
    path,        \* the file the watcher reads, 0 for none
    sinceFound,  \* looks since it was looked up
    offset,      \* how far it has been read, -1 for not at all
    heard,       \* the end of the last line that said something
    unopened,    \* the file could not be opened, once
    torn         \* history: the rest of a line was read as if it were one

logVars == <<follows, log, fileNo, path, sinceFound, offset, heard, unopened, torn>>

LogTypeOK ==
    /\ follows \in {"codex", "claude"}
    /\ log \in Seq(BOOLEAN) /\ Len(log) <= MaxFile
    /\ fileNo \in 1..MaxFiles /\ path \in 0..MaxFiles
    /\ sinceFound \in 0..MaxLooks
    /\ offset \in -1..MaxFile /\ heard \in 0..MaxFile
    /\ unopened \in BOOLEAN /\ torn \in BOOLEAN

LogInit ==
    /\ follows \in {"codex", "claude"}
    /\ log = <<>> /\ fileNo = 1
    /\ path = 0 /\ sinceFound = 0 /\ offset = -1 /\ heard = 0 /\ unopened = FALSE /\ torn = FALSE

Size == Len(log)
EndsLine(e) == e \in 1..Size /\ log[e]
StartsLine(at) == at = 0 \/ EndsLine(at)

\* Where the line that ends at e, or is being written, begins.
StartOf(e) == CHOOSE s \in 0..(e - 1) : StartsLine(s) /\ \A i \in (s + 1)..(e - 1) : ~log[i]

----------------------------------------------------------------------------
(* The agent.                                                              *)

\* A file that was cut is looked at before it is as long again.
Appends(newline) ==
    /\ Size < MaxFile
    /\ Size # offset - 1 \/ path # fileNo
    /\ log' = Append(log, newline)
    /\ follows = "codex" /\ ~LongLines => Size + 1 - StartOf(Size + 1) <= OneRead
    /\ UNCHANGED <<follows, fileNo, path, sinceFound, offset, heard, unopened, torn>>

\* A new conversation, or a resumed one, has a file of its own.
OpensAnother ==
    /\ fileNo < MaxFiles
    /\ fileNo' = fileNo + 1 /\ log' = <<>> /\ heard' = 0 /\ torn' = FALSE
    /\ UNCHANGED <<follows, path, sinceFound, offset, unopened>>

\* The file is begun anew, under its own name.
Truncates ==
    /\ path = fileNo /\ offset > 0 /\ fileNo < MaxFiles
    /\ fileNo' = fileNo + 1 /\ path' = fileNo' /\ log' = <<>> /\ heard' = 0 /\ torn' = FALSE
    /\ UNCHANGED <<follows, sinceFound, offset, unopened>>

----------------------------------------------------------------------------
(* State and Interrupted.                                                  *)

\* Mutant: the file that was found once is followed for good.
FoundOnce == IF path = 0 THEN fileNo ELSE path

\* codex's file is looked up among the process's descriptors now and then;
\* claude's path comes with every call.
Found == IF follows = "claude" \/ path = 0 \/ sinceFound >= MaxLooks THEN fileNo ELSE path

\* Whether to begin with the tail: at first sight, when the file is shorter than
\* what was read of it, and, for claude, when it has grown past a whole tail.
FromTail(at) ==
    \/ at < 0 \/ Size < at
    \/ follows = "claude" /\ Size - at > InitialTail

\* The first byte to read of the tail: past the line it begins in the middle of.
\* codex does not look whether it begins a line.
TailStart ==
    LET at == IF Size > InitialTail THEN Size - InitialTail ELSE 0
        ends == {e \in (at + 1)..Size : log[e]}
    IN IF at = 0 \/ (follows = "claude" /\ StartsLine(at)) THEN at
       ELSE IF ends = {} THEN Size ELSE CHOOSE e \in ends : \A o \in ends : e <= o

\* The last whole line within one read from at, or at.
ReadUpTo(at) ==
    LET n == IF Size - at < OneRead THEN Size - at ELSE OneRead
        ends == {e \in (at + 1)..(at + n) : log[e]}
    IN IF ends # {} THEN CHOOSE e \in ends : \A o \in ends : o <= e
       ELSE IF follows = "claude" /\ n = OneRead THEN at + n ELSE at

\* What was heard of a file that is newly found is forgotten.
Kept == IF Found # path THEN 0 ELSE heard

\* What Scan finds in the bytes from at to upTo.
TellingLines(at, upTo) == {e \in (at + 1)..upTo : log[e] /\ StartOf(e) >= at /\ e - StartOf(e) <= Telling}
Scanned(at, upTo) ==
    LET telling == TellingLines(at, upTo)
    IN IF telling = {} THEN Kept ELSE CHOOSE e \in telling : \A o \in telling : o <= e

LooksUp == sinceFound' = IF Found = path /\ sinceFound < MaxLooks THEN sinceFound + 1 ELSE 0

\* One look.  A file the agent has left is not read here any more: it says
\* nothing of the one that counts.
LooksAtLog ==
    /\ LooksUp
    /\ path' = Found
    /\ IF Found # fileNo THEN UNCHANGED <<offset, heard, torn>>
       ELSE LET from == IF Found # path THEN -1 ELSE offset
                at == IF FromTail(from) THEN TailStart ELSE from
            IN /\ offset' = ReadUpTo(at)
               /\ heard' = Scanned(at, ReadUpTo(at))
               /\ torn' = (torn \/ (~StartsLine(at) /\ \E e \in (at + 1)..ReadUpTo(at) : log[e]))
    /\ UNCHANGED <<follows, log, fileNo, unopened>>

\* The file cannot be opened: codex's is looked up again at the next look.
CannotOpen ==
    /\ ~unopened /\ unopened' = TRUE
    /\ Found = fileNo
    /\ LooksUp
    /\ path' = IF follows = "codex" THEN 0 ELSE Found
    /\ offset' = IF Found # path THEN -1 ELSE offset
    /\ heard' = Kept
    /\ UNCHANGED <<follows, log, fileNo, torn>>

----------------------------------------------------------------------------
LogNext == (\E newline \in BOOLEAN : Appends(newline)) \/ OpensAnother \/ Truncates \/ LooksAtLog \/ CannotOpen

\* The poller looks again and again.
LogSpec == LogInit /\ [][LogNext]_logVars /\ WF_logVars(LooksAtLog)

----------------------------------------------------------------------------
\* No line, nor the one being written, is so long that a tail can begin in it.
LinesFit == \A e \in 1..(Size + 1) : (e = Size + 1 \/ log[e]) => e - StartOf(e) < InitialTail

\* What is read is read as lines: no rest of a line is taken for one, unless it
\* is longer than a tail.
WholeLines == torn => ~LinesFit

\* The last line of a file's tail that says something is heard, in whatever
\* pieces it was written and whenever it was looked at; a line that says nothing
\* may be of any length.
LastHeard ==
    <>[](\A e \in 1..Size :
            log[e] /\ e - StartOf(e) <= Telling /\ Size - StartOf(e) < InitialTail => heard >= e)

LogHeard == []WholeLines /\ LastHeard
=============================================================================
