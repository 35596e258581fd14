------------------------------- MODULE Notes -------------------------------
(***************************************************************************)
(* One project's note and the windows that edit it                         *)
(* (web/src/components/panels/Notes.tsx, saveNote of protocol/api.ts,      *)
(* handleGetNote and handlePutNote of internal/httpapi/panels.go, and      *)
(* internal/store/notes.go).                                               *)
(*                                                                         *)
(* A text is the number of the edit that made it, 0 the empty note.  The   *)
(* store keeps the last text and its revision; the model keeps them all,   *)
(* so that the revision is the length.  Requests are served, and their     *)
(* answers arrive, in any order.  A window may be closed and opened again; *)
(* what it had asked for is still served.                                  *)
(***************************************************************************)
EXTENDS Naturals, Sequences, Functions

CONSTANTS Windows,
          MaxEdits,   (* bound: edits and outside writes altogether        *)
          SlowSaves,  (* a save may take longer than the debounce          *)
          None

ASSUME NotesAssumption ==
    /\ MaxEdits \in Nat /\ SlowSaves \in BOOLEAN /\ None \notin Nat

VARIABLES notes,    (* the texts stored so far, the last one the note's    *)
          edits,    (* edits made so far                                   *)
          ed,       (* the Notes component of each window                  *)
          asks,     (* requests not yet served                             *)
          answers,  (* answers not yet received                            *)
          event,    (* a panel event on its way to the window              *)
          given,    (* history: the revisions a window has been given      *)
          missed    (* history: texts whose flush failed, which says so to *)
                    (* the console only                                    *)
vars == <<notes, edits, ed, asks, answers, event, given, missed>>

Texts    == 0..MaxEdits
Statuses == {"closed", "loading", "saved", "saving", "dirty", "error", "conflict"}

\* The revision now, and the text of a revision.
Rev     == Len(notes)
Text(r) == IF r = 0 THEN 0 ELSE notes[r]

\* The component before its note has been loaded; `mine' is what its user
\* typed last.
Fresh(status) == [status |-> status, content |-> 0, mine |-> None,
                  queued |-> None, saved |-> 0, base |-> 0]

Init ==
    /\ notes = <<>> /\ edits = 0
    /\ ed = [w \in Windows |-> Fresh("closed")]
    /\ asks = [w \in Windows |-> {}] /\ answers = [w \in Windows |-> {}]
    /\ event = [w \in Windows |-> FALSE]
    /\ given = [w \in Windows |-> {0}]
    /\ missed = {}

Get(kind)          == [kind |-> kind, text |-> None, base |-> None]
Put(kind, text, b) == [kind |-> kind, text |-> text, base |-> b]
Ask(w, q)          == asks' = [asks EXCEPT ![w] = @ \union {q}]

Answer(q, result, rev) == [kind |-> q.kind, text |-> q.text,
                           result |-> result, rev |-> rev]

-----------------------------------------------------------------------------
(* The component: mounting, typing, the debounce.                          *)

Open(w) ==
    /\ ed[w].status = "closed"
    /\ ed' = [ed EXCEPT ![w] = Fresh("loading")]
    /\ Ask(w, Get("load"))
    /\ UNCHANGED <<notes, edits, answers, event, given, missed>>

\* The user types something new, or goes back to what is saved.  Every
\* change starts the timer anew.
Type(w) ==
    /\ ed[w].status \notin {"closed", "loading"}
    /\ edits < MaxEdits
    /\ edits' = edits + 1
    /\ \E t \in {edits + 1, ed[w].saved} :
          ed' = [ed EXCEPT ![w].content = t, ![w].mine = t, ![w].queued = t,
                           ![w].status = "dirty"]
    /\ UNCHANGED <<notes, asks, answers, event, given, missed>>

\* The timer can run out only once the last save has been answered, unless
\* saves are slow.
Due(w) ==
    /\ ed[w].queued # None
    /\ SlowSaves \/ \A q \in asks[w] \union answers[w] : q.kind # "save"

\* Nothing to save.
FireIdle(w) ==
    /\ Due(w) /\ ed[w].queued = ed[w].saved
    /\ ed' = [ed EXCEPT ![w].queued = None, ![w].status = "saved"]
    /\ UNCHANGED <<notes, edits, asks, answers, event, given, missed>>

Fire(w) ==
    /\ Due(w) /\ ed[w].queued # ed[w].saved
    /\ ed' = [ed EXCEPT ![w].queued = None, ![w].status = "saving"]
    /\ Ask(w, Put("save", ed[w].queued, ed[w].base))
    /\ UNCHANGED <<notes, edits, answers, event, given, missed>>

\* flush: what is queued is sent now, if there is anything to it.
Flushed(w) == IF ed[w].queued \in {None, ed[w].saved} THEN {}
              ELSE {Put("flush", ed[w].queued, ed[w].base)}

\* The tab is hidden: flush, and the component stays as it is.
Hide(w) ==
    /\ ed[w].status # "closed" /\ ed[w].queued # None
    /\ ed' = [ed EXCEPT ![w].queued = None]
    /\ asks' = [asks EXCEPT ![w] = @ \union Flushed(w)]
    /\ UNCHANGED <<notes, edits, answers, event, given, missed>>

\* What a closed window asked is served, but nobody looks at the answer.
Orphan(q) == IF q.kind = "save" THEN [q EXCEPT !.kind = "flush"] ELSE q

\* Another tab of the panel, another project, or the page goes away.
Close(w) ==
    /\ ed[w].status # "closed"
    /\ ed' = [ed EXCEPT ![w] = Fresh("closed")]
    /\ asks' = [asks EXCEPT ![w] =
           {Orphan(q) : q \in {p \in @ : p.kind \in {"save", "flush"}}}
             \union Flushed(w)]
    /\ answers' = [answers EXCEPT ![w] =
           {Orphan(a) : a \in {b \in @ : b.kind \in {"save", "flush"}}}]
    /\ event' = [event EXCEPT ![w] = FALSE]
    /\ UNCHANGED <<notes, edits, given, missed>>

-----------------------------------------------------------------------------
(* The server.                                                             *)

\* notifyPanel, heard by every window, the writer's own among them.
Stored(text) ==
    /\ notes' = Append(notes, text)
    /\ event' = [w \in Windows |-> event[w] \/ ed[w].status # "closed"]

Served(w, q, a) ==
    /\ asks' = [asks EXCEPT ![w] = @ \ {q}]
    /\ answers' = [answers EXCEPT ![w] = @ \union {a}]

ServeGet(w) ==
    \E q \in asks[w] :
        /\ q.kind \in {"load", "adopt"}
        /\ Served(w, q, Answer(q, "ok", Rev))
        /\ UNCHANGED <<notes, edits, ed, event, given, missed>>

\* SetNoteIfUnchanged: the row is still at the revision it was built on, or
\* there is none and it was built on none.
Accept(w) ==
    \E q \in asks[w] :
        /\ q.kind \in {"save", "flush"} /\ q.base = Rev
        /\ Stored(q.text)
        /\ Served(w, q, Answer(q, "ok", Rev + 1))
        /\ UNCHANGED <<edits, ed, given, missed>>

\* ErrNoteStale: refused, with the note as it is.
Refuse(w) ==
    \E q \in asks[w] :
        /\ q.kind \in {"save", "flush"} /\ q.base # Rev
        /\ Served(w, q, Answer(q, "stale", Rev))
        /\ UNCHANGED <<notes, edits, ed, event, given, missed>>

\* The network or the database, before anything was done.
Fail(w) ==
    \E q \in asks[w] :
        /\ Served(w, q, Answer(q, "failed", None))
        /\ UNCHANGED <<notes, edits, ed, event, given, missed>>

\* It was done, and the answer is lost.
AnswerLost(w) ==
    \E a \in answers[w] :
        /\ a.result # "failed"
        /\ answers' = [answers EXCEPT
               ![w] = (@ \ {a}) \union {Answer(a, "failed", None)}]
        /\ UNCHANGED <<notes, edits, ed, asks, event, given, missed>>

\* SetNote: a client that sends no base revision.
OtherWrites ==
    /\ edits < MaxEdits
    /\ edits' = edits + 1
    /\ Stored(edits + 1)
    /\ UNCHANGED <<ed, asks, answers, given, missed>>

-----------------------------------------------------------------------------
(* The component: answers and events.                                      *)

Receive(w, a) ==
    /\ answers' = [answers EXCEPT ![w] = @ \ {a}]
    /\ given' = IF a.rev = None THEN given
                ELSE [given EXCEPT ![w] = @ \union {a.rev}]
    /\ UNCHANGED <<notes, edits, asks, event>>

\* The text of a revision takes the place of what is shown.
Adopted(w, rev) ==
    ed' = [ed EXCEPT ![w].content = Text(rev), ![w].saved = Text(rev),
                     ![w].base = rev, ![w].status = "saved"]

Loaded(w) ==
    \E a \in answers[w] :
        /\ a.kind = "load"
        /\ Receive(w, a)
        /\ IF a.result = "ok" THEN Adopted(w, a.rev)
           ELSE ed' = [ed EXCEPT ![w].status = "error"]
        /\ UNCHANGED missed

\* Only a window with nothing of its own to lose looks at the change.
Hear(w) ==
    /\ event[w]
    /\ event' = [event EXCEPT ![w] = FALSE]
    /\ IF ed[w].status = "saved" THEN Ask(w, Get("adopt")) ELSE UNCHANGED asks
    /\ UNCHANGED <<notes, edits, ed, answers, given, missed>>

\* ... and asks itself again when the note has come.
Adopt(w) ==
    \E a \in answers[w] :
        /\ a.kind = "adopt"
        /\ Receive(w, a)
        /\ IF a.result = "ok" /\ ed[w].status = "saved"
             THEN Adopted(w, a.rev) ELSE UNCHANGED ed
        /\ UNCHANGED missed

\* Mutant: what was typed while the request was out is taken for saved.
SaveAnsweredSaved(w) ==
    \E a \in answers[w] :
        /\ a.kind = "save" /\ a.result = "ok"
        /\ Receive(w, a)
        /\ ed' = [ed EXCEPT ![w].saved = a.text, ![w].base = a.rev,
                            ![w].status = "saved"]
        /\ UNCHANGED missed

SaveAnswered(w) ==
    \E a \in answers[w] :
        /\ a.kind = "save" /\ a.result = "ok"
        /\ Receive(w, a)
        /\ ed' = [ed EXCEPT ![w].saved = a.text, ![w].base = a.rev,
                            ![w].status = IF @ = "saving" THEN "saved" ELSE @]
        /\ UNCHANGED missed

\* Mutant: the conflict is noted and not shown.
SaveRefusedQuietly(w) ==
    \E a \in answers[w] :
        /\ a.kind = "save" /\ a.result = "stale"
        /\ Receive(w, a)
        /\ ed' = [ed EXCEPT ![w].saved = Text(a.rev), ![w].base = a.rev]
        /\ UNCHANGED missed

\* ConflictError: the text stays, and the next save goes over what the user
\* has been told of.
SaveRefused(w) ==
    \E a \in answers[w] :
        /\ a.kind = "save" /\ a.result = "stale"
        /\ Receive(w, a)
        /\ ed' = [ed EXCEPT ![w].saved = Text(a.rev), ![w].base = a.rev,
                            ![w].status = "conflict"]
        /\ UNCHANGED missed

SaveFailed(w) ==
    \E a \in answers[w] :
        /\ a.kind = "save" /\ a.result = "failed"
        /\ Receive(w, a)
        /\ ed' = [ed EXCEPT ![w].status = "error"]
        /\ UNCHANGED missed

\* flush looks at failures only, and says so to the console.
FlushAnswered(w) ==
    \E a \in answers[w] :
        /\ a.kind = "flush"
        /\ answers' = [answers EXCEPT ![w] = @ \ {a}]
        /\ missed' = IF a.result = "ok" THEN missed ELSE missed \union {a.text}
        /\ UNCHANGED <<notes, edits, ed, asks, event, given>>

-----------------------------------------------------------------------------
Timer(w)  == FireIdle(w) \/ Fire(w)
Serve(w)  == ServeGet(w) \/ Accept(w) \/ Refuse(w) \/ Fail(w)
Answers(w) ==
    \/ Loaded(w) \/ Adopt(w) \/ SaveAnswered(w) \/ SaveRefused(w)
    \/ SaveFailed(w) \/ FlushAnswered(w)

Next ==
    \/ OtherWrites
    \/ \E w \in Windows :
          \/ Open(w) \/ Type(w) \/ Timer(w) \/ Hide(w) \/ Close(w)
          \/ Serve(w) \/ AnswerLost(w) \/ Answers(w) \/ Hear(w)

(* Timers run out, requests are served and answers arrive.  Nobody has to  *)
(* type, to hide or close anything, or to hear of a change.                *)
Fairness == \A w \in Windows : WF_vars(Timer(w)) /\ WF_vars(Serve(w))
                               /\ WF_vars(Answers(w))

Spec == Init /\ [][Next]_vars /\ Fairness

-----------------------------------------------------------------------------
TypeOK ==
    /\ Rev <= edits /\ edits \in Texts
    /\ \A w \in Windows :
          /\ ed[w].status \in Statuses
          /\ ed[w].content \in Texts /\ ed[w].saved \in Texts
          /\ ed[w].mine \in Texts \union {None}
          /\ ed[w].base \in 0..Rev /\ given[w] \subseteq 0..Rev
          /\ ed[w].queued # None =>
                ed[w].queued = ed[w].content
                /\ ed[w].status \in {"dirty", "error", "conflict"}

(* A window's save never replaces a revision the window has not been       *)
(* given: the last writer does not win unseen (SetNoteIfUnchanged).        *)
NothingUnseenReplaced ==
    [][\A w \in Windows : \A q \in asks[w] :
          /\ q.kind \in {"save", "flush"} /\ q \notin asks'[w]
          /\ Len(notes') > Rev
          => Rev \in given[w]]_vars

IsStored(t) == t = 0 \/ t \in Range(notes)

(* While a window is open, what its user typed last is on its screen or    *)
(* has been stored: nothing fetched takes its place before that (the       *)
(* comments on the conflict and on adopting another viewer's text).        *)
MineKept ==
    \A w \in Windows :
        ed[w].mine # None => ed[w].content = ed[w].mine \/ IsStored(ed[w].mine)

(* `saved' means that what is on the screen has reached the server: it is  *)
(* the text of the revision the next save will be built on.                *)
SavedMeansSaved ==
    \A w \in Windows :
        ed[w].status = "saved" => ed[w].content = Text(ed[w].base)

(* What is typed is not lost: neither to a text fetched over it, nor to a  *)
(* `saved' that is not so, nor to a save of a window that had not seen it. *)
NothingLost == [](MineKept /\ SavedMeansSaved) /\ NothingUnseenReplaced
(* What is typed and then left alone is stored, or its user is told why it *)
(* is not; only a flush that fails tells nobody.                           *)
TypedIsSettled ==
    \A w \in Windows :
        ed[w].mine # None ~>
            \/ ed[w].mine = None \/ IsStored(ed[w].mine) \/ ed[w].mine \in missed
            \/ ed[w].status \in {"conflict", "error"}
=============================================================================
