------------------------------ MODULE Scanners ------------------------------
(***************************************************************************)
(* internal/session/osc.go and internal/session/modes.go: what the pump    *)
(* takes from a pane's output on its way to the viewers: bells, the        *)
(* payloads of operating system commands, and the private modes that are   *)
(* on.  Output comes in chunks cut anywhere.  What a terminal makes of the *)
(* same bytes, one at a time, is kept beside what the scanners make of     *)
(* them a chunk at a time.                                                 *)
(*                                                                         *)
(* Nine bytes stand for all: of payloads only the first is told apart (9:  *)
(* a notification), and modes are numbered in ones.                        *)
(***************************************************************************)
EXTENDS Integers, Sequences, FiniteSets

CONSTANTS
    MaxRead,     \* the pump's buffer
    MaxPending,   \* maxPending
    TailLength,   \* how far back lastEscapeStart looks
    MaxMode,      \* maxPendingMode
    Abandons      \* a command may be left unfinished while it is being kept

\* In the code 32 KB, 64 KB, 8 and 64 bytes: a tail and a read fit in what may
\* be kept, and so does an unfinished mode, of at most five bytes here.
ASSUME ScannersAssumption ==
    /\ {MaxRead, TailLength} \subseteq Nat \ {0} /\ MaxPending \in Nat /\ TailLength + MaxRead <= MaxPending
    /\ MaxMode \in Nat /\ MaxMode >= 5 /\ Abandons \in BOOLEAN

VARIABLES
    osc,      \* oscScanner
    modes,    \* modeTracker
    screen,   \* history: where a terminal is in the same bytes
    last      \* history: what the last chunk was good for

scanVars == <<osc, modes, screen, last>>

ESC == "ESC"
BEL == "BEL"
OscBytes == {ESC, BEL, "]", "\\", "9", "x"}
ModeBytes == {ESC, "[", "?", "1", "h", "l"}
Chunks(bytes) == UNION {[1..n -> bytes] : n \in 1..MaxRead}

ByteAt(b, i) == IF i \in DOMAIN b THEN b[i] ELSE "end"
From(b, i) == SubSeq(b, i, Len(b))
Least(S) == CHOOSE i \in S : \A j \in S : i <= j
Head1(payload) == IF payload = <<>> THEN "none" ELSE payload[1]

\* A loop over the bytes of b from where s says, until s has had enough: after
\* each round.
Loop(Step(_, _), b, s) ==
    LET upTo[k \in 0..Len(b)] ==
            IF k = 0 THEN s
            ELSE LET t == upTo[k - 1] IN IF t.stop \/ t.i > Len(b) THEN t ELSE Step(b, t)
    IN upTo

----------------------------------------------------------------------------
(* osc.go *)

\* parseOSC, of the command that begins at i: 0 for one that does not end.
OscEnds(b, i) == {j \in (i + 2)..Len(b) : b[j] \in {BEL, ESC}}
EndOf(b, i) ==
    LET j == Least(OscEnds(b, i)) IN
    IF OscEnds(b, i) = {} THEN 0
    ELSE IF b[j] = BEL THEN j
    ELSE IF ByteAt(b, j + 1) = "\\" THEN j + 1 ELSE 0
PayloadOf(b, i) == SubSeq(b, i + 2, Least(OscEnds(b, i)) - 1)

\* The bytes before n are done with.
Consume(s, n) == [s EXCEPT !.i = n, !.consumed = n - 1]
Keep(b, s) == [s EXCEPT !.pending = From(b, s.i), !.stop = TRUE]

\* Mutant: what is too long to keep is scanned like any other output.
RescanBytes(b, s) ==
    LET e == EndOf(b, s.i) IN
    IF b[s.i] = BEL THEN [Consume(s, s.i + 1) EXCEPT !.bell = TRUE]
    ELSE IF b[s.i] # ESC \/ ByteAt(b, s.i + 1) # "]" THEN [s EXCEPT !.i = @ + 1]
    ELSE IF e # 0 THEN [Consume(s, e + 1) EXCEPT !.told = @ \o <<Head1(PayloadOf(b, s.i))>>,
                                                 !.bell = @ \/ Head1(PayloadOf(b, s.i)) = "9"]
    ELSE IF Len(b) - s.i + 1 <= MaxPending THEN Keep(b, s)
    ELSE Consume(s, s.i + 1)

\* One byte outside a command that is thrown away.
ScanByte(b, s) ==
    LET e == EndOf(b, s.i) IN
    IF b[s.i] = BEL THEN [Consume(s, s.i + 1) EXCEPT !.bell = TRUE]
    ELSE IF b[s.i] # ESC \/ ByteAt(b, s.i + 1) # "]" THEN [s EXCEPT !.i = @ + 1]
    ELSE IF e # 0 THEN [Consume(s, e + 1) EXCEPT !.told = @ \o <<Head1(PayloadOf(b, s.i))>>,
                                                 !.bell = @ \/ Head1(PayloadOf(b, s.i)) = "9"]
    ELSE IF Len(b) - s.i + 1 <= MaxPending THEN Keep(b, s)
    ELSE [Consume(s, s.i + 1) EXCEPT !.skipping = TRUE]

ScanStep(b, s) ==
    IF ~s.skipping THEN ScanByte(b, s)
    ELSE IF b[s.i] = BEL THEN [Consume(s, s.i + 1) EXCEPT !.skipping = FALSE]
    ELSE IF b[s.i] # ESC THEN Consume(s, s.i + 1)
    ELSE IF s.i = Len(b) THEN Keep(b, s)
    ELSE IF b[s.i + 1] = "\\" THEN [Consume(s, s.i + 2) EXCEPT !.skipping = FALSE]
    ELSE ScanByte(b, [s EXCEPT !.skipping = FALSE])

\* A tail that could be the beginning of a command is kept (lastEscapeStart).
KeepTail(b, s) ==
    LET escapes == {i \in (s.consumed + 1)..Len(b) : b[i] = ESC /\ Len(b) - i + 1 <= TailLength} IN
    IF s.stop \/ escapes = {} \/ Len(b) - s.consumed > MaxPending THEN s
    ELSE [s EXCEPT !.pending = From(b, CHOOSE i \in escapes : \A j \in escapes : j <= i)]

\* feed and drain.
FeedOsc(chunk) ==
    LET b == osc.pending \o chunk
        begin == [i |-> 1, consumed |-> 0, stop |-> FALSE, pending |-> <<>>, skipping |-> osc.skipping,
                  bell |-> FALSE, told |-> <<>>]
    IN KeepTail(b, Loop(ScanStep, b, begin)[Len(b)])

----------------------------------------------------------------------------
(* modes.go *)

\* parsePrivateMode of the bytes from an ESC on: the length of the sequence, 0
\* for another one, -1 if it is not all there.
Digits(b) == {j \in 4..Len(b) : b[j] # "1"}
ModeLength(b) ==
    IF Len(b) < 3 THEN IF \A j \in DOMAIN b : b[j] = <<ESC, "[", "?">>[j] THEN -1 ELSE 0
    ELSE IF b[2] # "[" \/ b[3] # "?" THEN 0
    ELSE LET d == IF Digits(b) = {} THEN Len(b) + 1 ELSE Least(Digits(b)) IN
         IF d - 4 > 2 THEN 0
         ELSE IF d > Len(b) THEN -1
         ELSE IF b[d] \in {"h", "l"} THEN d ELSE 0

ModeStep(b, s) ==
    LET n == ModeLength(From(b, s.i)) IN
    IF b[s.i] # ESC \/ n = 0 THEN [s EXCEPT !.i = @ + 1]
    ELSE IF n = -1 THEN [s EXCEPT !.stop = TRUE, !.pending = IF Len(b) - s.i + 1 <= MaxMode THEN From(b, s.i) ELSE <<>>]
    ELSE [s EXCEPT !.i = @ + n, !.on = IF n = 4 THEN @ ELSE [@ EXCEPT ![n - 4] = b[s.i + n - 1] = "h"]]

FeedModes(chunk) ==
    LET b == modes.pending \o chunk IN
    Loop(ModeStep, b, [i |-> 1, stop |-> FALSE, pending |-> <<>>, on |-> modes.on])[Len(b)]

----------------------------------------------------------------------------
(* The terminal: where it is in the stream, a byte at a time.              *)

Text == "text"
Fresh == [at |-> Text, head |-> "none", length |-> 0, ones |-> 0, on |-> [n \in 1..2 |-> FALSE],
          rang |-> FALSE, told |-> <<>>, all |-> <<>>, left |-> FALSE]

InText(t, c) == IF c = ESC THEN [t EXCEPT !.at = "esc"] ELSE [t EXCEPT !.rang = @ \/ c = BEL]

\* What an ESC has begun.
Begun(t, c) ==
    IF c = "]" THEN [t EXCEPT !.at = "osc", !.head = "none", !.length = 2]
    ELSE IF c = "[" THEN [t EXCEPT !.at = "csi"]
    ELSE IF c = ESC THEN [t EXCEPT !.at = "esc"]
    ELSE [t EXCEPT !.at = Text, !.rang = @ \/ c = BEL]

\* A command has ended: one that was not too long must be told.
Ended(t) ==
    [t EXCEPT !.at = Text, !.all = @ \o <<t.head>>, !.told = IF t.length <= MaxPending THEN @ \o <<t.head>> ELSE @]

InOsc(t, c) ==
    IF c = BEL THEN Ended([t EXCEPT !.length = @ + 1])
    ELSE IF c = ESC THEN [t EXCEPT !.at = "oscEsc"]
    ELSE [t EXCEPT !.head = IF t.length = 2 THEN c ELSE @, !.length = IF @ > MaxPending THEN @ ELSE @ + 1]

InMode(t, c) ==
    IF c = "1" THEN IF t.ones = 2 THEN [t EXCEPT !.at = Text] ELSE [t EXCEPT !.ones = @ + 1]
    ELSE IF c \in {"h", "l"}
    THEN [t EXCEPT !.at = Text, !.on = IF t.ones = 0 THEN @ ELSE [@ EXCEPT ![t.ones] = c = "h"]]
    ELSE IF c = ESC THEN [t EXCEPT !.at = "esc"] ELSE [t EXCEPT !.at = Text]

Shows(t, c) ==
    CASE t.at = Text -> InText(t, c)
      [] t.at = "esc" -> Begun(t, c)
      [] t.at = "osc" -> InOsc(t, c)
      [] t.at = "oscEsc" ->
            IF c = "\\" THEN Ended([t EXCEPT !.length = @ + 2])
            ELSE Begun([t EXCEPT !.left = @ \/ t.length <= MaxPending], c)
      [] t.at = "csi" -> IF c = "?" THEN [t EXCEPT !.at = "mode", !.ones = 0]
                         ELSE IF c = ESC THEN [t EXCEPT !.at = "esc"] ELSE [t EXCEPT !.at = Text]
      [] t.at = "mode" -> InMode(t, c)

\* After each byte of b.
Watched(t, b) ==
    LET upTo[k \in 0..Len(b)] == IF k = 0 THEN t ELSE Shows(upTo[k - 1], b[k])
    IN upTo

\* What has been rung and told is what this chunk rings and tells.
Quieted(t) == [t EXCEPT !.rang = FALSE, !.told = <<>>, !.all = <<>>, !.left = FALSE]
Shown(chunk) == Watched(Quieted(screen), chunk)[Len(chunk)]

----------------------------------------------------------------------------
Nothing == [bell |-> FALSE, told |-> <<>>]

ScanInit ==
    /\ osc = [pending |-> <<>>, skipping |-> FALSE]
    /\ modes = [pending |-> <<>>, on |-> [n \in 1..2 |-> FALSE]]
    /\ screen = Fresh /\ last = Nothing

ReadCommands ==
    \E chunk \in Chunks(OscBytes) :
        LET fed == FeedOsc(chunk) IN
        /\ screen' = Shown(chunk) /\ (screen'.left => Abandons)
        /\ osc' = [pending |-> fed.pending, skipping |-> fed.skipping]
        /\ last' = [bell |-> fed.bell, told |-> fed.told]
        /\ UNCHANGED modes

ReadModes ==
    \E chunk \in Chunks(ModeBytes) :
        LET fed == FeedModes(chunk) IN
        /\ screen' = Shown(chunk)
        /\ modes' = [pending |-> fed.pending, on |-> fed.on]
        /\ UNCHANGED <<osc, last>>

CommandsSpec == ScanInit /\ [][ReadCommands]_scanVars
ModesSpec == ScanInit /\ [][ReadModes]_scanVars

----------------------------------------------------------------------------
ScanTypeOK ==
    /\ Len(osc.pending) <= MaxPending /\ osc.skipping \in BOOLEAN
    /\ Len(modes.pending) <= MaxMode /\ modes.on \in [1..2 -> BOOLEAN]

Count(s, x) == Cardinality({i \in DOMAIN s : s[i] = x})

\* A bell is heard with the chunk it comes in, and nothing else is a bell: not
\* the end of a command, however it is cut and however long it is (feed).
BellsExact ==
    /\ screen.rang \/ Count(screen.told, "9") > 0 => last.bell
    /\ last.bell => screen.rang \/ Count(screen.all, "9") > 0

\* Every command that is short enough to keep is told once, in the chunk that
\* ends it, and none that there was not.
CommandsExact ==
    \A h \in {"none", "9", "x", "]", "\\"} :
        Count(last.told, h) \in Count(screen.told, h)..Count(screen.all, h)

\* The modes a late viewer is given are those a terminal that has seen all of
\* the stream has on.
ModesExact == modes.on = screen.on

\* What the pump takes from the stream does not depend on where it is cut.
CutAnywhere == BellsExact /\ CommandsExact /\ ModesExact
=============================================================================
