----------------------------- MODULE LocalEcho ------------------------------
(***************************************************************************)
(* web/src/components/localEcho.ts and localEchoLayer.ts: what is typed    *)
(* into an agent's input is drawn before the server has echoed it.  From   *)
(* where typing started the line is drawn as it should end up, over        *)
(* whatever the server shows in the meantime, until a round trip after the *)
(* last key the server's line is that, or is something else.               *)
(*                                                                         *)
(* The input is one row of characters one cell wide, begun at its marker,  *)
(* the cursor at its end.  A row that moves, a cursor that is hidden and   *)
(* text after the cursor end a prediction as an unpredicted key does; they *)
(* are left out, and so is what the agent draws around the input.          *)
(***************************************************************************)
EXTENDS Integers, Sequences, SequencesExt, FiniteSets

CONSTANTS
    Letters,
    MaxKeys,     \* keys pressed
    Edge,        \* cells of the input before the margin
    Prompt,      \* the round trip is never longer than it was measured
    Resets,      \* a click, a resize or a scrolled view drops a prediction
                 \* while keys are on their way
    LateSwitch,  \* a mode switch is typed on an input predicted to be empty
    Ignored      \* keys the agent may draw nothing for

ASSUME EchoAssumption ==
    {MaxKeys, Edge, Ignored} \subseteq Nat /\ {Prompt, Resets, LateSwitch} \subseteq BOOLEAN

VARIABLES
    pressed,    \* keys so far
    meant,      \* history: the lines the typist has typed, the newest last
    typed,      \* keys on their way to the agent
    line,       \* the agent's input
    echoed,     \* what the agent has drawn, on its way to the page
    screen,     \* the line as xterm has it
    echo,       \* EchoPredictor
    due,        \* localEchoLayer: output has come since the last settle
    ignored     \* keys the agent has drawn nothing for

echoVars == <<pressed, meant, typed, line, echoed, screen, echo, due, ignored>>
agentVars == <<line, ignored>>

Back == "back"
Enter == "enter"
Mode == "mode"     \* a mode switch on an empty input, a character elsewhere
Keys == Letters \cup {Back, Enter, Mode}

NoEcho == [active |-> FALSE, anchor |-> 0, text |-> <<>>, fresh |-> FALSE, suspended |-> FALSE]

EchoInit ==
    /\ pressed = 0 /\ meant = <<<<>>>> /\ typed = <<>> /\ line = <<>> /\ echoed = <<>> /\ screen = <<>>
    /\ echo = NoEcho /\ due = FALSE /\ ignored = 0

\* What a key makes of an input.
Apply(l, k) ==
    IF k = Back THEN IF l = <<>> THEN l ELSE Front(l)
    ELSE IF k = Enter THEN <<>>
    ELSE IF k = Mode /\ l = <<>> THEN l ELSE l \o <<k>>

Meant == Last(meant)

\* Nothing typed is on its way to the agent, and nothing it drew to the page.
CaughtUp == typed = <<>> /\ echoed = <<>>

----------------------------------------------------------------------------
(* The predictor *)

\* What is predicted from a cell of the row on.
Drawing(anchor, text) ==
    [active |-> TRUE, anchor |-> anchor, text |-> text, fresh |-> FALSE, suspended |-> FALSE]

Dropped(e) == [NoEcho EXCEPT !.anchor = e.anchor, !.suspended = e.suspended]
Suspended(e) == [NoEcho EXCEPT !.anchor = e.anchor, !.suspended = TRUE]

\* start, at the server's cursor.
Started(e) == IF e.active THEN e ELSE [Drawing(Len(screen), <<>>) EXCEPT !.fresh = TRUE]

\* backspace.
TakeBack(e) ==
    IF e.text # <<>> THEN Drawing(e.anchor, Front(e.text))
    ELSE IF e.anchor > 0 THEN Drawing(e.anchor - 1, <<>>)
    ELSE IF e.fresh THEN Dropped(e) ELSE e

Typed(e, k) ==
    IF e.anchor + Len(e.text) + 1 > Edge THEN Suspended(e)
    ELSE Drawing(e.anchor, e.text \o <<k>>)

\* A key, when predictions are on.
Predict(e, k) ==
    IF k = Mode /\ ~e.active /\ screen = <<>> THEN Suspended(e)
    ELSE IF k = Back THEN TakeBack(Started(e))
    ELSE IF k = Enter THEN Suspended(e)
    ELSE Typed(Started(e), k)

\* EchoPredictor.input.  Predictions come back after a pause of a round trip and
\* a half.
Press(k) ==
    /\ pressed < MaxKeys /\ pressed' = pressed + 1
    /\ k = Mode /\ Meant = <<>> /\ echo.active => LateSwitch
    /\ meant' = meant \o <<Apply(Meant, k)>>
    /\ typed' = typed \o <<k>>
    /\ \/ ~echo.suspended /\ echo' = Predict(echo, k)
       \/ echo.suspended /\ UNCHANGED echo
       \/ echo.suspended /\ (Prompt => CaughtUp) /\ echo' = Predict([echo EXCEPT !.suspended = FALSE], k)
    /\ UNCHANGED <<agentVars, echoed, screen, due>>

\* A mouse report, or a view that is not at the bottom or has another size.
Reset ==
    /\ echo.active /\ (Resets \/ CaughtUp) /\ echo' = Dropped(echo)
    /\ UNCHANGED <<pressed, meant, typed, agentVars, echoed, screen, due>>

Matches == SubSeq(screen, echo.anchor + 1, Len(screen)) = echo.text /\ Len(screen) >= echo.anchor

\* Mutant: a line that is the predicted one is believed at once.
SettleAtOnce ==
    /\ echo.active /\ due /\ due' = FALSE
    /\ IF Matches THEN echo' = Dropped(echo)
       ELSE IF CaughtUp THEN echo' = Suspended(echo) ELSE UNCHANGED echo
    /\ UNCHANGED <<pressed, meant, typed, agentVars, echoed, screen>>

\* settle, a round trip after the last key: the output has been quiet.
Settle ==
    /\ echo.active /\ due /\ due' = FALSE
    /\ Prompt => CaughtUp
    /\ echo' = IF Matches THEN Dropped(echo) ELSE Suspended(echo)
    /\ UNCHANGED <<pressed, meant, typed, agentVars, echoed, screen>>

\* expire: two seconds after the last key.
Expire ==
    /\ echo.active /\ (Prompt => CaughtUp) /\ echo' = Suspended(echo)
    /\ UNCHANGED <<pressed, meant, typed, agentVars, echoed, screen, due>>

----------------------------------------------------------------------------
(* The other end *)

AgentReads ==
    /\ typed # <<>> /\ typed' = Tail(typed)
    /\ line' = Apply(line, Head(typed))
    /\ echoed' = echoed \o <<line'>>
    /\ UNCHANGED <<pressed, meant, screen, echo, due, ignored>>

\* A key that is not a character to the agent.
AgentIgnores ==
    /\ typed # <<>> /\ Head(typed) \in Letters /\ ignored < Ignored
    /\ typed' = Tail(typed) /\ ignored' = ignored + 1
    /\ UNCHANGED <<pressed, meant, line, echoed, screen, echo, due>>

\* onWriteParsed.
PageDraws ==
    /\ echoed # <<>> /\ screen' = Head(echoed) /\ echoed' = Tail(echoed)
    /\ due' = (due \/ echo.active)
    /\ UNCHANGED <<pressed, meant, typed, agentVars, echo>>

----------------------------------------------------------------------------
Draws == AgentReads \/ PageDraws

EchoNext == Draws \/ AgentIgnores \/ Settle \/ Expire \/ Reset \/ \E k \in Keys : Press(k)

EchoSpec == EchoInit /\ [][EchoNext]_echoVars /\ WF_echoVars(Draws) /\ WF_echoVars(Settle) /\ WF_echoVars(Expire)

----------------------------------------------------------------------------
Lines == UNION {[1..n -> Letters \cup {Mode}] : n \in 0..MaxKeys}

EchoTypeOK ==
    /\ pressed \in 0..MaxKeys /\ ignored \in 0..Ignored /\ due \in BOOLEAN
    /\ Meant \in Lines /\ line \in Lines /\ screen \in Lines
    /\ echo \in [active: BOOLEAN, anchor: 0..MaxKeys, text: Lines, fresh: BOOLEAN, suspended: BOOLEAN]

\* What a person sees of the input.
Seen == IF echo.active THEN SubSeq(screen, 1, echo.anchor) \o echo.text ELSE screen

\* While a prediction is drawn the line is the one the typist has just typed,
\* whatever the server shows of it in the meantime ("every frame is then a state
\* the typist actually typed").
LineAsTyped == echo.active /\ ignored = 0 => Seen = Meant

\* What is drawn is never a line that nobody typed, also once the prediction is
\* dropped.
NoLineNobodyTyped == ignored = 0 => \E i \in DOMAIN meant : Seen = meant[i]

\* A prediction that was right is dropped without the line going back: what the
\* server shows is what was drawn.
DroppedUnseen == [][Settle /\ ignored = 0 /\ Len(meant) > 1 => Seen' = Seen]_echoVars

\* A prediction does not stay.
PredictionEnds == <>[]~echo.active

\* What is drawn over an input is what was typed into it, it is given up without
\* the line going back, and it is given up.
EchoHonest == [](LineAsTyped /\ NoLineNobodyTyped) /\ DroppedUnseen /\ PredictionEnds
=============================================================================
