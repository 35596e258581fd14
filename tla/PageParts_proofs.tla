-------------------------- MODULE PageParts_proofs --------------------------
(***************************************************************************)
(* What an open page shows, proved of each part alone and of the parts     *)
(* side by side.                                                           *)
(*                                                                         *)
(* Notes: the revision a save is built on is one the window has been given *)
(* (BasesOK), and that alone makes a blind overwrite impossible.  That     *)
(* `saved' can be believed needs to know which requests are out: at most   *)
(* one load, only while the component is loading, and, when saves are      *)
(* quicker than the debounce, at most one save, never while the status is  *)
(* `saved'.  ViewerStream: what a terminal has not been given of its       *)
(* subscription is on its way, without a gap.  SessionReports: what is on  *)
(* its way to the panel while a dialog is on the screen cannot take it     *)
(* down.                                                                   *)
(***************************************************************************)
EXTENDS PageParts, FiniteSets, FiniteSetTheorems, SequenceTheorems, TLAPS

Editor == [status : Statuses, content : Texts, mine : Texts \union {None},
           queued : Texts \union {None}, saved : Texts, base : Nat]
Kinds   == {"load", "adopt", "save", "flush"}
NoteRequest == [kind : Kinds, text : Texts \union {None}, base : Nat \union {None}]
NoteReply   == [kind : Kinds, text : Texts \union {None},
            result : {"ok", "stale", "failed"}, rev : Nat \union {None}]

Shapes ==
    /\ notes \in Seq(Texts) /\ edits \in Texts
    /\ ed \in [Windows -> Editor]
    /\ asks \in [Windows -> SUBSET NoteRequest]
    /\ answers \in [Windows -> SUBSET NoteReply]
    /\ given \in [Windows -> SUBSET Nat]

\* Whatever a window knows it has been given, and it exists.
BasesOK ==
    \A w \in Windows :
        /\ 0 \in given[w] /\ given[w] \subseteq 0..Len(notes)
        /\ ed[w].base \in given[w]
        /\ \A q \in asks[w] :
              q.kind \in {"save", "flush"} =>
                  q.text \in Texts /\ q.base \in given[w]

RepliesOK ==
    \A w \in Windows : \A a \in answers[w] :
        /\ a.rev \in 0..Len(notes) \union {None}
        /\ a.result # "failed" => a.rev # None
        /\ a.kind \in {"save", "flush"} => a.text \in Texts
        /\ a.kind = "save" /\ a.result = "ok" => a.text = Text(a.rev)

\* `saved' in the component is the text of the revision it builds on.
SavedOK == \A w \in Windows : ed[w].saved = Text(ed[w].base)

QueuedOK ==
    \A w \in Windows : ed[w].queued # None =>
        /\ ed[w].queued = ed[w].content
        /\ ed[w].status \in {"dirty", "error", "conflict"}

LoadsOK ==
    \A w \in Windows :
        /\ ed[w].status = "loading" => ed[w].mine = None
        /\ ed[w].status \in {"closed", "loading"} =>
              \A q \in asks[w] \union answers[w] : q.kind # "save"
        /\ \A q \in asks[w] : q.kind = "load" =>
              /\ q = Get("load") /\ ed[w].status = "loading"
              /\ \A a \in answers[w] : a.kind # "load"
        /\ \A a, b \in answers[w] : a.kind = "load" =>
              ed[w].status = "loading" /\ (b.kind = "load" => a = b)

Safe == Shapes /\ BasesOK /\ RepliesOK /\ SavedOK /\ QueuedOK /\ LoadsOK

-----------------------------------------------------------------------------
\* What was stored stays, whatever is stored next.
LEMMA Growth ==
    ASSUME notes \in Seq(Texts), NEW x \in Texts, notes' = Append(notes, x)
    PROVE  /\ notes' \in Seq(Texts) /\ Len(notes') = Len(notes) + 1
           /\ \A r \in 0..Len(notes) : Text(r)' = Text(r)
           /\ \A r \in Nat : r = Len(notes) + 1 => Text(r)' = x
  <1>1. notes' \in Seq(Texts) /\ Len(notes') = Len(notes) + 1
    OBVIOUS
  <1>2. \A i \in 1..Len(notes) : notes'[i] = notes[i]
    OBVIOUS
  <1>3. notes'[Len(notes) + 1] = x
    OBVIOUS
  <1>4. \A r \in 0..Len(notes) : Text(r)' = Text(r)
    BY <1>2 DEF Text
  <1>5. \A r \in Nat : r = Len(notes) + 1 => Text(r)' = x
    BY <1>3 DEF Text
  <1> QED BY <1>1, <1>4, <1>5

LEMMA StoredStays ==
    ASSUME notes \in Seq(Texts), NEW x \in Texts, notes' = Append(notes, x)
    PROVE  \A t : IsStored(t) => IsStored(t)'
  <1>1. \A i \in DOMAIN notes : i \in DOMAIN notes' /\ notes'[i] = notes[i]
    OBVIOUS
  <1> QED BY <1>1 DEF IsStored, Range

LEMMA TextInTexts ==
    ASSUME notes \in Seq(Texts), NEW r \in 0..Len(notes)
    PROVE  Text(r) \in Texts
  BY NotesAssumption DEF Text, Texts

\* What a closed window asked for is no longer a save, and otherwise the same.
LEMMA OrphanedRequest ==
    ASSUME NEW q \in NoteRequest
    PROVE  /\ Orphan(q) \in NoteRequest /\ Orphan(q).kind # "save"
           /\ Orphan(q).text = q.text /\ Orphan(q).base = q.base
           /\ q.kind \in {"save", "flush"} => Orphan(q).kind = "flush"
  BY DEF Orphan, NoteRequest, Kinds

LEMMA OrphanedReply ==
    ASSUME NEW a \in NoteReply
    PROVE  /\ Orphan(a) \in NoteReply /\ Orphan(a).kind # "save"
           /\ Orphan(a).text = a.text /\ Orphan(a).result = a.result
           /\ Orphan(a).rev = a.rev
           /\ a.kind \in {"save", "flush"} => Orphan(a).kind = "flush"
  BY DEF Orphan, NoteReply, Kinds

LEMMA SafeInit == Init => Safe
  <1> SUFFICES ASSUME Init PROVE Safe
    OBVIOUS
  <1>1. Shapes
    BY NotesAssumption DEF Init, Shapes, Fresh, Editor, Statuses, Texts
  <1>2. BasesOK /\ RepliesOK /\ SavedOK /\ QueuedOK /\ LoadsOK
    BY NotesAssumption
       DEF Init, BasesOK, RepliesOK, SavedOK, QueuedOK, LoadsOK, Fresh, Text
  <1> QED BY <1>1, <1>2 DEF Safe

-----------------------------------------------------------------------------
(* What the steps that change an editor, or take an answer, leave alone.   *)

\* The text and the base of a revision take the place of what was shown.
LEMMA AdoptedKeeps ==
    ASSUME Shapes, NEW w \in Windows, NEW r \in 0..Len(notes), Adopted(w, r)
    PROVE  /\ ed' \in [Windows -> Editor]
           /\ \A x \in Windows \ {w} : ed'[x] = ed[x]
           /\ ed'[w].content = Text(r) /\ ed'[w].saved = Text(r)
           /\ ed'[w].base = r /\ ed'[w].status = "saved"
           /\ ed'[w].queued = ed[w].queued /\ ed'[w].mine = ed[w].mine
  <1> DEFINE t == Text(r)
             e == [ed[w] EXCEPT !.content = t, !.saved = t, !.base = r,
                                !.status = "saved"]
  <1>1. t \in Texts /\ r \in Nat /\ ed[w] \in Editor
    BY TextInTexts DEF Shapes
  <1>2. ed' = [ed EXCEPT ![w] = e]
    BY DEF Adopted
  <1> HIDE DEF t
  <1>3. e \in Editor
    <2>1. "saved" \in Statuses
      BY DEF Statuses
    <2> QED BY <1>1, <2>1 DEF Editor
  <1> QED BY <1>1, <1>2, <1>3 DEF Shapes, Editor, t

\* The other ways to change an editor: the status alone, or with what is
\* saved.
SetStatus(w, s)      == ed' = [ed EXCEPT ![w].status = s]
SetSaved(w, t, r, s) == ed' = [ed EXCEPT ![w].saved = t, ![w].base = r,
                                         ![w].status = s]

LEMMA StatusKeeps ==
    ASSUME Shapes, NEW w \in Windows, NEW s \in Statuses, SetStatus(w, s)
    PROVE  /\ ed' \in [Windows -> Editor]
           /\ \A x \in Windows \ {w} : ed'[x] = ed[x]
           /\ ed'[w].status = s /\ ed'[w].content = ed[w].content
           /\ ed'[w].mine = ed[w].mine /\ ed'[w].queued = ed[w].queued
           /\ ed'[w].saved = ed[w].saved /\ ed'[w].base = ed[w].base
  <1>1. ed' = [ed EXCEPT ![w] = [@ EXCEPT !.status = s]]
    BY DEF SetStatus
  <1>2. [ed[w] EXCEPT !.status = s] \in Editor
    BY DEF Shapes, Editor
  <1>3. ed[w] \in Editor
    BY DEF Shapes
  <1> QED BY <1>1, <1>2, <1>3 DEF Shapes

LEMMA SavedKeeps ==
    ASSUME Shapes, NEW w \in Windows, NEW t \in Texts, NEW r \in Nat,
           NEW s \in Statuses, SetSaved(w, t, r, s)
    PROVE  /\ ed' \in [Windows -> Editor]
           /\ \A x \in Windows \ {w} : ed'[x] = ed[x]
           /\ ed'[w].status = s /\ ed'[w].content = ed[w].content
           /\ ed'[w].mine = ed[w].mine /\ ed'[w].queued = ed[w].queued
           /\ ed'[w].saved = t /\ ed'[w].base = r
  <1> DEFINE e == [ed[w] EXCEPT !.saved = t, !.base = r, !.status = s]
  <1>1. ed' = [ed EXCEPT ![w] = e]
    BY DEF SetSaved
  <1>2. e \in Editor
    BY DEF Shapes, Editor
  <1>3. ed[w] \in Editor
    BY DEF Shapes
  <1> QED BY <1>1, <1>2, <1>3 DEF Shapes

\* Taking an answer gives the window its revision, and nothing else.
LEMMA ReceiveKeeps ==
    ASSUME Safe, NEW w \in Windows, NEW a \in answers[w], Receive(w, a)
    PROVE  /\ UNCHANGED <<notes, edits, asks>>
           /\ answers' \in [Windows -> SUBSET NoteReply]
           /\ given' \in [Windows -> SUBSET Nat]
           /\ RepliesOK'
           /\ \A x \in Windows :
                 /\ answers'[x] \subseteq answers[x]
                 /\ given[x] \subseteq given'[x]
                 /\ given'[x] \subseteq 0..Len(notes)
           /\ a \notin answers'[w]
           /\ a.rev # None => a.rev \in given'[w]
  <1> USE DEF Safe
  <1>1. /\ UNCHANGED <<notes, edits, asks>>
        /\ answers' = [answers EXCEPT ![w] = @ \ {a}]
    BY DEF Receive
  <1>2. answers' \in [Windows -> SUBSET NoteReply] /\ a \notin answers'[w]
        /\ \A x \in Windows : answers'[x] \subseteq answers[x]
    BY <1>1 DEF Shapes
  <1>3. given' \in [Windows -> SUBSET Nat]
        /\ (a.rev # None => a.rev \in given'[w])
        /\ \A x \in Windows :
              given[x] \subseteq given'[x] /\ given'[x] \subseteq 0..Len(notes)
    BY DEF Receive, Shapes, BasesOK, RepliesOK
  <1>4. RepliesOK'
    BY <1>1, <1>2 DEF RepliesOK, Text
  <1> QED BY <1>1, <1>2, <1>3, <1>4

-----------------------------------------------------------------------------
(* Every action keeps Safe.                                                *)

LEMMA OpenSafe ==
    ASSUME Safe, NEW w \in Windows, Open(w) PROVE Safe'
  <1> USE DEF Safe
  <1>1. Shapes'
    <2>1. /\ notes' \in Seq(Texts) /\ edits' \in Texts
          /\ answers' \in [Windows -> SUBSET NoteReply]
          /\ given' \in [Windows -> SUBSET Nat]
      BY DEF Open, Shapes
    <2>2. ed' \in [Windows -> Editor]
      BY NotesAssumption DEF Open, Fresh, Shapes, Editor, Statuses, Texts
    <2>3. asks' \in [Windows -> SUBSET NoteRequest]
      BY DEF Open, Ask, Get, Shapes, NoteRequest, Kinds
    <2> QED BY <2>1, <2>2, <2>3 DEF Shapes
  <1>2. BasesOK'
    BY DEF Open, Ask, Get, Fresh, BasesOK
  <1>3. RepliesOK'
    BY DEF Open, RepliesOK, Text
  <1>4. SavedOK'
    BY DEF Open, Fresh, SavedOK, Text
  <1>5. QueuedOK'
    BY DEF Open, Fresh, QueuedOK
  <1>6. LoadsOK'
    BY DEF Open, Ask, Get, Fresh, Shapes, LoadsOK, Get
  <1> QED BY <1>1, <1>2, <1>3, <1>4, <1>5, <1>6

LEMMA TypeSafe ==
    ASSUME Safe, NEW w \in Windows, Type(w) PROVE Safe'
  <1> USE DEF Safe
  <1>1. Shapes'
    <2>1. notes' \in Seq(Texts) /\ edits' \in Texts
      BY NotesAssumption DEF Type, Shapes, Texts
    <2>2. ed' \in [Windows -> Editor]
      <3>1. PICK t \in {edits + 1, ed[w].saved} : ed' = [ed EXCEPT ![w] =
                [@ EXCEPT !.content = t, !.mine = t, !.queued = t,
                          !.status = "dirty"]]
        <4>1. PICK t \in {edits + 1, ed[w].saved} :
                 ed' = [ed EXCEPT ![w].content = t, ![w].mine = t, ![w].queued = t,
                                  ![w].status = "dirty"]
          BY Zenon DEF Type
        <4>2. ed' = [ed EXCEPT ![w] = [@ EXCEPT !.content = t, !.mine = t, !.queued = t,
                                               !.status = "dirty"]]
          BY <4>1 DEF Shapes, Editor
        <4> QED BY <4>2
      <3>2. t \in Texts /\ ed[w] \in Editor /\ "dirty" \in Statuses
        BY NotesAssumption DEF Type, Shapes, Editor, Texts, Statuses
      <3> DEFINE e == [ed[w] EXCEPT !.content = t, !.mine = t, !.queued = t,
                                   !.status = "dirty"]
      <3>3. e \in Editor
        BY <3>2 DEF Editor
      <3> QED BY <3>1, <3>3 DEF Shapes
    <2>3. /\ asks' \in [Windows -> SUBSET NoteRequest]
          /\ answers' \in [Windows -> SUBSET NoteReply]
          /\ given' \in [Windows -> SUBSET Nat]
      BY DEF Type, Shapes
    <2> QED BY <2>1, <2>2, <2>3 DEF Shapes
  <1>2. BasesOK' /\ RepliesOK' /\ SavedOK' /\ QueuedOK' /\ LoadsOK'
    BY DEF Type, Shapes, BasesOK, RepliesOK, SavedOK, QueuedOK, LoadsOK, Text
  <1> QED BY <1>1, <1>2

LEMMA FireIdleSafe ==
    ASSUME Safe, NEW w \in Windows, FireIdle(w) PROVE Safe'
  <1> USE DEF Safe
  <1>1. Shapes'
    <2>1. /\ notes' \in Seq(Texts) /\ edits' \in Texts
          /\ asks' \in [Windows -> SUBSET NoteRequest]
          /\ answers' \in [Windows -> SUBSET NoteReply]
          /\ given' \in [Windows -> SUBSET Nat]
      BY DEF FireIdle, Shapes
    <2>2. ed' \in [Windows -> Editor]
      <3> DEFINE e == [ed[w] EXCEPT !.queued = None, !.status = "saved"]
      <3>1. ed' = [ed EXCEPT ![w] = e]
        BY DEF FireIdle
      <3>2. e \in Editor
        BY DEF Shapes, Editor, Statuses
      <3> QED BY <3>1, <3>2 DEF Shapes
    <2> QED BY <2>1, <2>2 DEF Shapes
  <1>2. BasesOK' /\ RepliesOK' /\ SavedOK' /\ QueuedOK'
    BY DEF FireIdle, Shapes, BasesOK, RepliesOK, SavedOK, QueuedOK, Text
  <1>3. LoadsOK'
    <2>1. ed[w].status \in {"dirty", "error", "conflict"}
      BY DEF FireIdle, Due, QueuedOK
    <2>2. /\ UNCHANGED <<asks, answers>>
          /\ ed'[w].status = "saved"
          /\ \A x \in Windows \ {w} : ed'[x] = ed[x]
      BY DEF FireIdle, Shapes
    <2> QED BY <2>1, <2>2 DEF LoadsOK
  <1> QED BY <1>1, <1>2, <1>3

LEMMA FireSafe ==
    ASSUME Safe, NEW w \in Windows, Fire(w) PROVE Safe'
  <1> USE DEF Safe
  <1>1. Shapes'
    <2>1. /\ notes' \in Seq(Texts) /\ edits' \in Texts
          /\ answers' \in [Windows -> SUBSET NoteReply]
          /\ given' \in [Windows -> SUBSET Nat]
      BY DEF Fire, Shapes
    <2>2. ed' \in [Windows -> Editor]
      <3> DEFINE e == [ed[w] EXCEPT !.queued = None, !.status = "saving"]
      <3>1. ed' = [ed EXCEPT ![w] = e]
        BY DEF Fire
      <3>2. e \in Editor
        BY DEF Shapes, Editor, Statuses
      <3> QED BY <3>1, <3>2 DEF Shapes
    <2>3. asks' \in [Windows -> SUBSET NoteRequest]
      BY DEF Fire, Ask, Put, Shapes, NoteRequest, Kinds, Editor
    <2> QED BY <2>1, <2>2, <2>3 DEF Shapes
  <1>2. BasesOK'
    BY DEF Fire, Due, Ask, Put, Shapes, Editor, BasesOK
  <1>3. RepliesOK' /\ SavedOK' /\ QueuedOK'
    BY DEF Fire, RepliesOK, Shapes, SavedOK, QueuedOK, Text
  <1>4. LoadsOK'
    BY DEF Fire, Ask, Put, Shapes, Editor, LoadsOK, Get
  <1> QED BY <1>1, <1>2, <1>3, <1>4

LEMMA HideSafe ==
    ASSUME Safe, NEW w \in Windows, Hide(w) PROVE Safe'
  <1> USE DEF Safe
  <1>1. Shapes'
    <2>1. /\ notes' \in Seq(Texts) /\ edits' \in Texts
          /\ answers' \in [Windows -> SUBSET NoteReply]
          /\ given' \in [Windows -> SUBSET Nat]
      BY DEF Hide, Shapes
    <2>2. ed' \in [Windows -> Editor]
      <3> DEFINE e == [ed[w] EXCEPT !.queued = None]
      <3>1. ed' = [ed EXCEPT ![w] = e]
        BY DEF Hide
      <3>2. e \in Editor
        BY DEF Shapes, Editor
      <3> QED BY <3>1, <3>2 DEF Shapes
    <2>3. asks' \in [Windows -> SUBSET NoteRequest]
      BY DEF Hide, Flushed, Put, Shapes, NoteRequest, Kinds, Editor
    <2> QED BY <2>1, <2>2, <2>3 DEF Shapes
  <1>2. BasesOK'
    BY DEF Hide, Flushed, Put, Shapes, Editor, BasesOK
  <1>3. RepliesOK' /\ SavedOK' /\ QueuedOK'
    BY DEF Hide, RepliesOK, SavedOK, QueuedOK, Text
  <1>4. LoadsOK'
    BY DEF Hide, Flushed, Put, LoadsOK
  <1> QED BY <1>1, <1>2, <1>3, <1>4

LEMMA CloseSafe ==
    ASSUME Safe, NEW w \in Windows, Close(w) PROVE Safe'
  <1> USE DEF Safe
  <1>1. Shapes'
    <2>1. notes' \in Seq(Texts) /\ edits' \in Texts
      BY DEF Close, Orphan, Shapes
    <2>2. ed' \in [Windows -> Editor]
      BY NotesAssumption
         DEF Close, Orphan, Fresh, Shapes, Editor, Statuses, Texts
    <2>3. asks' \in [Windows -> SUBSET NoteRequest]
      BY OrphanedRequest
         DEF Close, Flushed, Put, Orphan, Shapes, NoteRequest, Kinds, Editor
    <2>4. answers' \in [Windows -> SUBSET NoteReply]
      BY OrphanedReply DEF Close, Orphan, Shapes
    <2>5. given' \in [Windows -> SUBSET Nat]
      BY DEF Close, Orphan, Shapes
    <2> QED BY <2>1, <2>2, <2>3, <2>4, <2>5 DEF Shapes
  <1>2. BasesOK'
    <2>1. \A q \in asks'[w] :
             \/ q \in Flushed(w)
             \/ \E p \in asks[w] :
                   p.kind \in {"save", "flush"} /\ q = Orphan(p)
      BY DEF Close, Shapes
    <2>2. \A q \in asks'[w] :
             q.kind \in {"save", "flush"} =>
                 q.text \in Texts /\ q.base \in given[w]
      <3>1. ASSUME NEW q \in Flushed(w)
            PROVE  q.text \in Texts /\ q.base \in given[w]
        BY <3>1 DEF Flushed, Put, Shapes, Editor, BasesOK
      <3>2. ASSUME NEW p \in asks[w], p.kind \in {"save", "flush"}
            PROVE  Orphan(p).text \in Texts /\ Orphan(p).base \in given[w]
        BY <3>2, OrphanedRequest DEF Shapes, BasesOK
      <3> QED BY <2>1, <3>1, <3>2
    <2>3. /\ notes' = notes /\ given' = given /\ ed'[w].base = 0
          /\ \A x \in Windows \ {w} : asks'[x] = asks[x] /\ ed'[x] = ed[x]
      BY DEF Close, Fresh, Shapes
    <2> QED BY <2>2, <2>3 DEF BasesOK
  <1>3. RepliesOK'
    <2>1. \A b \in answers'[w] :
             \E a \in answers[w] :
                 a.kind \in {"save", "flush"} /\ b = Orphan(a)
      BY DEF Close, Shapes
    <2>2. /\ notes' = notes
          /\ \A x \in Windows \ {w} : answers'[x] = answers[x]
      BY DEF Close
    <2>3. \A x \in Windows : \A b \in answers'[x] : \E a \in answers[x] :
             /\ a.kind \in {"save", "flush"} \/ b = a
             /\ b = a \/ b.kind # "save"
             /\ b.text = a.text /\ b.result = a.result /\ b.rev = a.rev
      BY <2>1, <2>2, OrphanedReply DEF Shapes
    <2> QED BY <2>2, <2>3 DEF RepliesOK, Text
  <1>4. SavedOK'
    BY DEF Close, Orphan, Fresh, SavedOK, Text
  <1>5. QueuedOK'
    BY DEF Close, Orphan, Fresh, QueuedOK
  <1>6. LoadsOK'
    BY DEF Close, Flushed, Put, Orphan, Fresh, Shapes, NoteRequest, NoteReply, LoadsOK
  <1> QED BY <1>1, <1>2, <1>3, <1>4, <1>5, <1>6

LEMMA ServeGetSafe ==
    ASSUME Safe, NEW w \in Windows, ServeGet(w) PROVE Safe'
  <1> USE DEF Safe
  <1>1. Shapes'
    <2>1. /\ notes' \in Seq(Texts) /\ edits' \in Texts
          /\ ed' \in [Windows -> Editor]
          /\ given' \in [Windows -> SUBSET Nat]
      BY DEF ServeGet, Shapes
    <2>2. asks' \in [Windows -> SUBSET NoteRequest]
      BY DEF ServeGet, Served, Shapes
    <2>3. answers' \in [Windows -> SUBSET NoteReply]
      BY DEF ServeGet, Served, Answer, Rev, Shapes, NoteRequest, NoteReply, Rev
    <2> QED BY <2>1, <2>2, <2>3 DEF Shapes
  <1>2. BasesOK'
    BY DEF ServeGet, Served, BasesOK
  <1>3. RepliesOK'
    BY NotesAssumption DEF ServeGet, Served, Answer, Rev, RepliesOK, Text
  <1>4. SavedOK' /\ QueuedOK'
    BY DEF ServeGet, SavedOK, QueuedOK, Text
  <1>5. LoadsOK'
    BY DEF ServeGet, Served, Answer, Shapes, LoadsOK
  <1> QED BY <1>1, <1>2, <1>3, <1>4, <1>5

LEMMA AcceptSafe ==
    ASSUME Safe, NEW w \in Windows, Accept(w) PROVE Safe'
  <1> USE DEF Safe
  <1>1. Shapes'
    <2>1. notes' \in Seq(Texts) /\ edits' \in Texts
      BY Growth DEF Accept, Stored, Shapes, BasesOK
    <2>2. ed' \in [Windows -> Editor]
      BY DEF Accept, Stored, Shapes
    <2>3. asks' \in [Windows -> SUBSET NoteRequest]
      BY DEF Accept, Served, Stored, Shapes
    <2>4. answers' \in [Windows -> SUBSET NoteReply]
      BY DEF Accept, Served, Stored, Answer, Rev, Shapes, NoteRequest, NoteReply, Rev
    <2>5. given' \in [Windows -> SUBSET Nat]
      BY DEF Accept, Stored, Shapes
    <2> QED BY <2>1, <2>2, <2>3, <2>4, <2>5 DEF Shapes
  <1>2. BasesOK'
    BY DEF Accept, Served, Stored, BasesOK
  <1>3. RepliesOK'
    BY NotesAssumption
       DEF Accept, Served, Stored, Answer, Rev, BasesOK, RepliesOK, Text
  <1>4. SavedOK'
    BY DEF Accept, Stored, BasesOK, SavedOK, Text
  <1>5. QueuedOK'
    BY DEF Accept, Stored, QueuedOK
  <1>6. LoadsOK'
    BY DEF Accept, Served, Stored, Answer, LoadsOK
  <1> QED BY <1>1, <1>2, <1>3, <1>4, <1>5, <1>6

LEMMA RefuseSafe ==
    ASSUME Safe, NEW w \in Windows, Refuse(w) PROVE Safe'
  <1> USE DEF Safe
  <1>1. Shapes'
    <2>1. /\ notes' \in Seq(Texts) /\ edits' \in Texts
          /\ ed' \in [Windows -> Editor]
          /\ given' \in [Windows -> SUBSET Nat]
      BY DEF Refuse, Shapes
    <2>2. asks' \in [Windows -> SUBSET NoteRequest]
      BY DEF Refuse, Served, Shapes
    <2>3. answers' \in [Windows -> SUBSET NoteReply]
      BY DEF Refuse, Served, Answer, Rev, Shapes, NoteRequest, NoteReply, Rev
    <2> QED BY <2>1, <2>2, <2>3 DEF Shapes
  <1>2. BasesOK'
    BY DEF Refuse, Served, BasesOK
  <1>3. RepliesOK'
    BY NotesAssumption
       DEF Refuse, Served, Answer, Rev, BasesOK, RepliesOK, Text
  <1>4. SavedOK' /\ QueuedOK'
    BY DEF Refuse, SavedOK, QueuedOK, Text
  <1>5. LoadsOK'
    BY DEF Refuse, Served, Answer, LoadsOK
  <1> QED BY <1>1, <1>2, <1>3, <1>4, <1>5

LEMMA FailSafe ==
    ASSUME Safe, NEW w \in Windows, Fail(w) PROVE Safe'
  <1> USE DEF Safe
  <1>1. Shapes'
    <2>1. /\ notes' \in Seq(Texts) /\ edits' \in Texts
          /\ ed' \in [Windows -> Editor]
          /\ given' \in [Windows -> SUBSET Nat]
      BY DEF Fail, Shapes
    <2>2. asks' \in [Windows -> SUBSET NoteRequest]
      BY DEF Fail, Served, Shapes
    <2>3. answers' \in [Windows -> SUBSET NoteReply]
      BY DEF Fail, Served, Answer, Shapes, NoteRequest, NoteReply
    <2> QED BY <2>1, <2>2, <2>3 DEF Shapes
  <1>2. BasesOK'
    BY DEF Fail, Served, BasesOK
  <1>3. RepliesOK'
    BY DEF Fail, Served, Answer, BasesOK, RepliesOK, Text
  <1>4. SavedOK' /\ QueuedOK'
    BY DEF Fail, SavedOK, QueuedOK, Text
  <1>5. LoadsOK'
    BY DEF Fail, Served, Answer, Shapes, LoadsOK
  <1> QED BY <1>1, <1>2, <1>3, <1>4, <1>5

LEMMA AnswerLostSafe ==
    ASSUME Safe, NEW w \in Windows, AnswerLost(w) PROVE Safe'
  <1> USE DEF Safe
  <1>1. Shapes'
    <2>1. /\ notes' \in Seq(Texts) /\ edits' \in Texts
          /\ ed' \in [Windows -> Editor]
          /\ asks' \in [Windows -> SUBSET NoteRequest]
          /\ given' \in [Windows -> SUBSET Nat]
      BY DEF AnswerLost, Shapes
    <2>2. answers' \in [Windows -> SUBSET NoteReply]
      BY DEF AnswerLost, Answer, Shapes, NoteReply
    <2> QED BY <2>1, <2>2 DEF Shapes
  <1>2. BasesOK' /\ SavedOK' /\ QueuedOK'
    BY DEF AnswerLost, BasesOK, SavedOK, QueuedOK, Text
  <1>3. RepliesOK'
    BY DEF AnswerLost, Answer, RepliesOK, Text
  <1>4. LoadsOK'
    BY DEF AnswerLost, Answer, LoadsOK
  <1> QED BY <1>1, <1>2, <1>3, <1>4

LEMMA FlushAnsweredSafe ==
    ASSUME Safe, NEW w \in Windows, FlushAnswered(w) PROVE Safe'
  <1> USE DEF Safe
  <1>1. Shapes'
    <2>1. /\ notes' \in Seq(Texts) /\ edits' \in Texts
          /\ ed' \in [Windows -> Editor]
          /\ asks' \in [Windows -> SUBSET NoteRequest]
          /\ answers' \in [Windows -> SUBSET NoteReply]
          /\ given' \in [Windows -> SUBSET Nat]
      BY DEF FlushAnswered, Shapes
    <2> QED BY <2>1 DEF Shapes
  <1>2. BasesOK' /\ RepliesOK' /\ SavedOK' /\ QueuedOK' /\ LoadsOK'
    BY DEF FlushAnswered, BasesOK, RepliesOK, SavedOK, QueuedOK, LoadsOK, Text
  <1> QED BY <1>1, <1>2

LEMMA HearSafe ==
    ASSUME Safe, NEW w \in Windows, Hear(w) PROVE Safe'
  <1> USE DEF Safe
  <1>1. Shapes'
    <2>1. /\ notes' \in Seq(Texts) /\ edits' \in Texts
          /\ ed' \in [Windows -> Editor]
          /\ answers' \in [Windows -> SUBSET NoteReply]
          /\ given' \in [Windows -> SUBSET Nat]
      BY DEF Hear, Shapes
    <2>2. asks' \in [Windows -> SUBSET NoteRequest]
      BY DEF Hear, Ask, Get, Shapes, NoteRequest, Kinds
    <2> QED BY <2>1, <2>2 DEF Shapes
  <1>2. BasesOK'
    <2>1. \A x \in Windows : \A q \in asks'[x] :
             q \in asks[x] \/ q.kind = "adopt"
      BY DEF Hear, Ask, Get, Shapes
    <2> QED BY <2>1 DEF Hear, BasesOK
  <1>3. RepliesOK' /\ SavedOK' /\ QueuedOK'
    BY DEF Hear, RepliesOK, SavedOK, QueuedOK, Text
  <1>4. LoadsOK'
    <2>1. \A x \in Windows : \A q \in asks'[x] :
             q \in asks[x] \/ q.kind = "adopt"
      BY DEF Hear, Ask, Get, Shapes
    <2> QED BY <2>1 DEF Hear, LoadsOK
  <1> QED BY <1>1, <1>2, <1>3, <1>4

LEMMA LoadedSafe ==
    ASSUME Safe, NEW w \in Windows, Loaded(w) PROVE Safe'
  <1> USE DEF Safe
  <1>1. PICK a \in answers[w] : a.kind = "load" /\ Receive(w, a)
        /\ IF a.result = "ok" THEN Adopted(w, a.rev)
           ELSE SetStatus(w, "error")
    BY DEF Loaded, SetStatus
  <1>2. /\ ed' \in [Windows -> Editor]
        /\ \A x \in Windows \ {w} : ed'[x] = ed[x]
        /\ ed'[w].queued = ed[w].queued /\ ed'[w].status \in {"saved", "error"}
        /\ \/ ed'[w].base = a.rev /\ a.rev # None /\ ed'[w].saved = Text(a.rev)
           \/ ed'[w].base = ed[w].base /\ ed'[w].saved = ed[w].saved
    <2>1. CASE a.result = "ok"
      <3>1. a.rev \in 0..Len(notes)
        BY <2>1 DEF RepliesOK
      <3>2. a.rev # None
        BY <3>1, NotesAssumption
      <3>3. Adopted(w, a.rev)
        BY <1>1, <2>1
      <3> QED BY <3>1, <3>2, <3>3, AdoptedKeeps
    <2>2. CASE a.result # "ok"
      <3>1. "error" \in Statuses
        BY DEF Statuses
      <3> QED BY <1>1, <2>2, <3>1, StatusKeeps
    <2> QED BY <2>1, <2>2
  <1>3. Shapes'
    BY <1>1, <1>2, ReceiveKeeps DEF Shapes
  <1>4. BasesOK'
    BY <1>1, <1>2, ReceiveKeeps DEF BasesOK
  <1>5. RepliesOK'
    BY <1>1, ReceiveKeeps
  <1>6. SavedOK'
    BY <1>1, <1>2, ReceiveKeeps DEF SavedOK, Text
  <1>7. QueuedOK'
    BY <1>1, <1>2 DEF QueuedOK, LoadsOK
  <1>8. LoadsOK'
    BY <1>1, <1>2, ReceiveKeeps DEF LoadsOK
  <1> QED BY <1>3, <1>4, <1>5, <1>6, <1>7, <1>8

LEMMA AdoptSafe ==
    ASSUME Safe, NEW w \in Windows, Adopt(w) PROVE Safe'
  <1> USE DEF Safe
  <1>1. PICK a \in answers[w] : a.kind = "adopt" /\ Receive(w, a)
        /\ IF a.result = "ok" /\ ed[w].status = "saved" THEN Adopted(w, a.rev)
           ELSE UNCHANGED ed
    BY DEF Adopt
  <1>2. CASE a.result = "ok" /\ ed[w].status = "saved"
    <2>1. a.rev \in 0..Len(notes)
      BY <1>2 DEF RepliesOK
    <2>2. /\ ed' \in [Windows -> Editor]
          /\ \A x \in Windows \ {w} : ed'[x] = ed[x]
          /\ ed'[w].queued = ed[w].queued /\ ed'[w].status = "saved"
          /\ ed'[w].base = a.rev /\ a.rev # None /\ ed'[w].saved = Text(a.rev)
      BY <1>1, <1>2, <2>1, AdoptedKeeps, NotesAssumption
    <2>3. Shapes'
      BY <1>1, <2>2, ReceiveKeeps DEF Shapes
    <2>4. BasesOK'
      BY <1>1, <2>2, ReceiveKeeps DEF BasesOK
    <2>5. RepliesOK'
      BY <1>1, ReceiveKeeps
    <2>6. SavedOK'
      BY <1>1, <2>2, ReceiveKeeps DEF SavedOK, Text
    <2>7. QueuedOK'
      BY <1>2, <2>2 DEF QueuedOK
    <2>8. LoadsOK'
      BY <1>1, <1>2, <2>2, ReceiveKeeps DEF LoadsOK
    <2> QED BY <2>3, <2>4, <2>5, <2>6, <2>7, <2>8
  <1>3. CASE UNCHANGED ed
    <2>1. Shapes'
      BY <1>1, <1>3, ReceiveKeeps DEF Shapes
    <2>2. BasesOK' /\ SavedOK' /\ QueuedOK'
      BY <1>1, <1>3, ReceiveKeeps DEF BasesOK, SavedOK, QueuedOK, Text
    <2>3. LoadsOK'
      BY <1>1, <1>3, ReceiveKeeps DEF LoadsOK
    <2> QED BY <1>1, <2>1, <2>2, <2>3, ReceiveKeeps
  <1> QED BY <1>1, <1>2, <1>3

\* The answer to a save, whatever it says.
LEMMA SaveAnswerSafe ==
    ASSUME Safe, NEW w \in Windows, NEW a \in answers[w], a.kind = "save",
           Receive(w, a), ed' \in [Windows -> Editor],
           \A x \in Windows \ {w} : ed'[x] = ed[x],
           ed'[w].queued = ed[w].queued, ed'[w].content = ed[w].content,
           \/ ed'[w].status = ed[w].status
           \/ ed'[w].status \in {"conflict", "error"}
           \/ ed[w].status = "saving" /\ ed'[w].status = "saved",
           \/ ed'[w].base = a.rev /\ a.rev # None /\ ed'[w].saved = Text(a.rev)
           \/ ed'[w].base = ed[w].base /\ ed'[w].saved = ed[w].saved
    PROVE  Safe'
  <1> USE DEF Safe
  <1>1. Shapes'
    BY ReceiveKeeps DEF Shapes
  <1>2. BasesOK'
    BY ReceiveKeeps DEF BasesOK
  <1>3. SavedOK'
    BY ReceiveKeeps DEF SavedOK, Text
  <1>4. QueuedOK'
    BY DEF QueuedOK
  <1>5. ed[w].status \notin {"closed", "loading"}
    BY DEF LoadsOK
  <1>6. LoadsOK'
    BY <1>5, ReceiveKeeps DEF LoadsOK
  <1> QED BY <1>1, <1>2, <1>3, <1>4, <1>6, ReceiveKeeps

LEMMA SaveAnsweredSafe ==
    ASSUME Safe, NEW w \in Windows, SaveAnswered(w) PROVE Safe'
  <1> USE DEF Safe
  <1> DEFINE s == IF ed[w].status = "saving" THEN "saved" ELSE ed[w].status
  <1>1. PICK a \in answers[w] :
        /\ a.kind = "save" /\ a.result = "ok" /\ Receive(w, a)
        /\ SetSaved(w, a.text, a.rev, s)
    BY DEF SaveAnswered, SetSaved
  <1>2. /\ a.rev \in 0..Len(notes) /\ a.rev # None /\ a.rev \in Nat
        /\ a.text \in Texts /\ a.text = Text(a.rev)
    BY <1>1 DEF RepliesOK
  <1>3. s \in Statuses
    BY DEF Shapes, Editor, Statuses
  <1> HIDE DEF s
  <1>4. /\ ed' \in [Windows -> Editor]
        /\ \A x \in Windows \ {w} : ed'[x] = ed[x]
        /\ ed'[w].queued = ed[w].queued /\ ed'[w].content = ed[w].content
        /\ ed'[w].status = s /\ ed'[w].base = a.rev /\ ed'[w].saved = a.text
    BY <1>1, <1>2, <1>3, SavedKeeps
  <1> HIDE DEF Safe
  <1> QED BY <1>1, <1>2, <1>4, SaveAnswerSafe DEF s

LEMMA SaveRefusedSafe ==
    ASSUME Safe, NEW w \in Windows, SaveRefused(w) PROVE Safe'
  <1> USE DEF Safe
  <1>1. PICK a \in answers[w] :
        /\ a.kind = "save" /\ a.result = "stale" /\ Receive(w, a)
        /\ SetSaved(w, Text(a.rev), a.rev, "conflict")
    BY DEF SaveRefused, SetSaved
  <1>2. /\ a.rev \in 0..Len(notes) /\ a.rev # None /\ a.rev \in Nat
        /\ Text(a.rev) \in Texts /\ "conflict" \in Statuses
    BY <1>1, TextInTexts DEF RepliesOK, Shapes, Statuses
  <1>3. /\ ed' \in [Windows -> Editor]
        /\ \A x \in Windows \ {w} : ed'[x] = ed[x]
        /\ ed'[w].queued = ed[w].queued /\ ed'[w].content = ed[w].content
        /\ ed'[w].status = "conflict" /\ ed'[w].base = a.rev
        /\ ed'[w].saved = Text(a.rev)
    BY <1>1, <1>2, SavedKeeps
  <1> HIDE DEF Safe
  <1> QED BY <1>1, <1>2, <1>3, SaveAnswerSafe

LEMMA SaveFailedSafe ==
    ASSUME Safe, NEW w \in Windows, SaveFailed(w) PROVE Safe'
  <1> USE DEF Safe
  <1>1. PICK a \in answers[w] : a.kind = "save" /\ Receive(w, a)
        /\ SetStatus(w, "error")
    BY DEF SaveFailed, SetStatus
  <1>2. "error" \in Statuses
    BY DEF Statuses
  <1>3. /\ ed' \in [Windows -> Editor]
        /\ \A x \in Windows \ {w} : ed'[x] = ed[x]
        /\ ed'[w].queued = ed[w].queued /\ ed'[w].content = ed[w].content
        /\ ed'[w].status = "error" /\ ed'[w].base = ed[w].base
        /\ ed'[w].saved = ed[w].saved
    BY <1>1, <1>2, StatusKeeps
  <1> HIDE DEF Safe
  <1> QED BY <1>1, <1>3, SaveAnswerSafe

LEMMA OtherWritesSafe ==
    ASSUME Safe, OtherWrites PROVE Safe'
  <1> USE DEF Safe
  <1>1. edits + 1 \in Texts
    BY NotesAssumption DEF OtherWrites, Shapes, Texts
  <1>2. notes' = Append(notes, edits + 1) /\ edits' = edits + 1
        /\ UNCHANGED <<ed, asks, answers, given>>
    BY DEF OtherWrites, Stored
  <1>3. Shapes'
    BY <1>1, <1>2, Growth DEF Shapes
  <1>4. BasesOK'
    BY <1>1, <1>2, Growth DEF BasesOK
  <1>5. RepliesOK'
    BY <1>1, <1>2, Growth DEF RepliesOK, Shapes
  <1>6. SavedOK'
    BY <1>1, <1>2, Growth DEF SavedOK, BasesOK, Shapes
  <1>7. QueuedOK' /\ LoadsOK'
    BY <1>2 DEF QueuedOK, LoadsOK
  <1> QED BY <1>3, <1>4, <1>5, <1>6, <1>7

\* Together, from any step of the specification.
LEMMA SafeStep ==
    ASSUME Safe, [Next]_vars PROVE Safe'
  <1>1. CASE OtherWrites
    BY <1>1, OtherWritesSafe
  <1>2. ASSUME NEW w \in Windows,
               Open(w) \/ Type(w) \/ Timer(w) \/ Hide(w) \/ Close(w)
        PROVE  Safe'
    BY <1>2, OpenSafe, TypeSafe, FireIdleSafe, FireSafe, HideSafe, CloseSafe
       DEF Timer
  <1>3. ASSUME NEW w \in Windows, Serve(w) \/ AnswerLost(w) \/ Hear(w)
        PROVE  Safe'
    BY <1>3, ServeGetSafe, AcceptSafe, RefuseSafe, FailSafe, AnswerLostSafe,
       HearSafe
       DEF Serve
  <1>4. ASSUME NEW w \in Windows, Answers(w)
        PROVE  Safe'
    BY <1>4, LoadedSafe, AdoptSafe, SaveAnsweredSafe, SaveRefusedSafe,
       SaveFailedSafe, FlushAnsweredSafe
       DEF Answers
  <1>5. CASE UNCHANGED vars
    BY <1>5
       DEF vars, Safe, Shapes, BasesOK, RepliesOK, SavedOK, QueuedOK, LoadsOK,
           Text
  <1> QED BY <1>1, <1>2, <1>3, <1>4, <1>5 DEF Next

-----------------------------------------------------------------------------
(* Which saves are out, as long as none is answered after the next is due. *)

\* At most one, of the text on the screen while the status is `saving'; none
\* while it is `saved'.
SavesOK ==
    \A w \in Windows :
        /\ ed[w].status = "saved" =>
              \A q \in asks[w] \union answers[w] : q.kind # "save"
        /\ ed[w].status = "saving" =>
              \A q \in asks[w] \union answers[w] :
                  q.kind = "save" => q.text = ed[w].content
        /\ \A p, q \in asks[w] : p.kind = "save" /\ q.kind = "save" => p = q
        /\ \A q \in asks[w], a \in answers[w] :
              q.kind # "save" \/ a.kind # "save"
        /\ \A a, b \in answers[w] : a.kind = "save" /\ b.kind = "save" => a = b

Settled == Safe /\ SavesOK /\ SavedMeansSaved /\ MineKept

LEMMA OpenSettles ==
    ASSUME ~SlowSaves, Settled, NEW w \in Windows, Open(w)
    PROVE  SavesOK' /\ SavedMeansSaved' /\ MineKept'
  <1> USE DEF Settled, Safe
  <1>1. SavesOK'
    BY DEF Open, Ask, Fresh, LoadsOK, SavesOK
  <1>2. SavedMeansSaved'
    BY DEF Open, Fresh, SavedMeansSaved, Text
  <1>3. MineKept'
    BY DEF Open, Fresh, MineKept, IsStored
  <1> QED BY <1>1, <1>2, <1>3

LEMMA TypeSettles ==
    ASSUME ~SlowSaves, Settled, NEW w \in Windows, Type(w)
    PROVE  SavesOK' /\ SavedMeansSaved' /\ MineKept'
  <1> USE DEF Settled, Safe
  <1>1. SavesOK' /\ SavedMeansSaved' /\ MineKept'
    BY DEF Type, Shapes, SavesOK, SavedMeansSaved, MineKept, Text, IsStored
  <1> QED BY <1>1

LEMMA FireIdleSettles ==
    ASSUME ~SlowSaves, Settled, NEW w \in Windows, FireIdle(w)
    PROVE  SavesOK' /\ SavedMeansSaved' /\ MineKept'
  <1> USE DEF Settled, Safe
  <1>1. SavesOK'
    BY DEF FireIdle, Shapes, Editor, SavesOK
  <1>2. SavedMeansSaved'
    BY DEF FireIdle, Shapes, Editor, SavedMeansSaved, Text
  <1>3. MineKept'
    BY DEF FireIdle, Shapes, MineKept, IsStored
  <1> QED BY <1>1, <1>2, <1>3

LEMMA FireSettles ==
    ASSUME ~SlowSaves, Settled, NEW w \in Windows, Fire(w)
    PROVE  SavesOK' /\ SavedMeansSaved' /\ MineKept'
  <1> USE DEF Settled, Safe
  <1>1. SavesOK'
    BY DEF Fire, Due, Ask, Put, Shapes, QueuedOK, SavesOK
  <1>2. SavedMeansSaved' /\ MineKept'
    BY DEF Fire, Shapes, SavedMeansSaved, MineKept, Text, IsStored
  <1> QED BY <1>1, <1>2

LEMMA HideSettles ==
    ASSUME ~SlowSaves, Settled, NEW w \in Windows, Hide(w)
    PROVE  SavesOK' /\ SavedMeansSaved' /\ MineKept'
  <1> USE DEF Settled, Safe
  <1>1. SavesOK'
    BY DEF Hide, Flushed, Put, SavesOK
  <1>2. SavedMeansSaved' /\ MineKept'
    BY DEF Hide, SavedMeansSaved, MineKept, Text, IsStored
  <1> QED BY <1>1, <1>2

LEMMA CloseSettles ==
    ASSUME ~SlowSaves, Settled, NEW w \in Windows, Close(w)
    PROVE  SavesOK' /\ SavedMeansSaved' /\ MineKept'
  <1> USE DEF Settled, Safe
  <1>1. SavesOK'
    <2>1. \A q \in asks'[w] : q.kind # "save"
      BY OrphanedRequest DEF Close, Flushed, Put, Shapes
    <2>2. \A a \in answers'[w] : a.kind # "save"
      BY OrphanedReply DEF Close, Shapes
    <2>3. \A x \in Windows \ {w} :
             asks'[x] = asks[x] /\ answers'[x] = answers[x] /\ ed'[x] = ed[x]
      BY DEF Close
    <2> QED BY <2>1, <2>2, <2>3 DEF SavesOK
  <1>2. SavedMeansSaved'
    BY DEF Close, Fresh, SavedMeansSaved, Text
  <1>3. MineKept'
    BY DEF Close, Fresh, MineKept, IsStored
  <1> QED BY <1>1, <1>2, <1>3

LEMMA ServeGetSettles ==
    ASSUME ~SlowSaves, Settled, NEW w \in Windows, ServeGet(w)
    PROVE  SavesOK' /\ SavedMeansSaved' /\ MineKept'
  <1> USE DEF Settled, Safe
  <1>1. SavesOK'
    BY DEF ServeGet, Served, Answer, SavesOK
  <1>2. SavedMeansSaved' /\ MineKept'
    BY DEF ServeGet, SavedMeansSaved, MineKept, Text, IsStored
  <1> QED BY <1>1, <1>2

LEMMA AcceptSettles ==
    ASSUME ~SlowSaves, Settled, NEW w \in Windows, Accept(w)
    PROVE  SavesOK' /\ SavedMeansSaved' /\ MineKept'
  <1> USE DEF Settled, Safe
  <1>1. SavesOK'
    BY DEF Accept, Served, Answer, Shapes, SavesOK
  <1>2. PICK q \in asks[w] : q.kind \in {"save", "flush"}
                             /\ notes' = Append(notes, q.text) /\ UNCHANGED ed
    BY DEF Accept, Stored
  <1>3. q.text \in Texts
    BY <1>2 DEF BasesOK
  <1>4. SavedMeansSaved'
    BY <1>2, <1>3, Growth DEF SavedMeansSaved, BasesOK, Shapes
  <1>5. MineKept'
    BY <1>2, <1>3, StoredStays DEF MineKept, Shapes
  <1> QED BY <1>1, <1>4, <1>5

LEMMA RefuseSettles ==
    ASSUME ~SlowSaves, Settled, NEW w \in Windows, Refuse(w)
    PROVE  SavesOK' /\ SavedMeansSaved' /\ MineKept'
  <1> USE DEF Settled, Safe
  <1>1. SavesOK'
    BY DEF Refuse, Served, Answer, Shapes, SavesOK
  <1>2. SavedMeansSaved' /\ MineKept'
    BY DEF Refuse, SavedMeansSaved, MineKept, Text, IsStored
  <1> QED BY <1>1, <1>2

LEMMA FailSettles ==
    ASSUME ~SlowSaves, Settled, NEW w \in Windows, Fail(w)
    PROVE  SavesOK' /\ SavedMeansSaved' /\ MineKept'
  <1> USE DEF Settled, Safe
  <1>1. SavesOK'
    BY DEF Fail, Served, Answer, Shapes, SavesOK
  <1>2. SavedMeansSaved' /\ MineKept'
    BY DEF Fail, SavedMeansSaved, MineKept, Text, IsStored
  <1> QED BY <1>1, <1>2

LEMMA AnswerLostSettles ==
    ASSUME ~SlowSaves, Settled, NEW w \in Windows, AnswerLost(w)
    PROVE  SavesOK' /\ SavedMeansSaved' /\ MineKept'
  <1> USE DEF Settled, Safe
  <1>1. SavesOK'
    BY DEF AnswerLost, Answer, SavesOK
  <1>2. SavedMeansSaved' /\ MineKept'
    BY DEF AnswerLost, SavedMeansSaved, MineKept, Text, IsStored
  <1> QED BY <1>1, <1>2

LEMMA LoadedSettles ==
    ASSUME ~SlowSaves, Settled, NEW w \in Windows, Loaded(w)
    PROVE  SavesOK' /\ SavedMeansSaved' /\ MineKept'
  <1> USE DEF Settled, Safe
  <1>1. SavesOK'
    BY DEF Loaded, Receive, Adopted, Shapes, Editor, SavesOK
  <1>2. SavedMeansSaved'
    BY DEF Loaded, Receive, Adopted, Shapes, Editor, BasesOK, SavedOK,
           SavedMeansSaved, Text
  <1>3. MineKept'
    <2> HIDE DEF Safe
    <2>1. notes' = notes /\ ed[w].status = "loading"
      BY DEF Safe, Loaded, Receive, LoadsOK
    <2>2. ed[w].mine = None
      BY <2>1 DEF Safe, LoadsOK
    <2>3. \A v \in Windows : ed'[v].mine = ed[v].mine /\ (v # w => ed'[v] = ed[v])
      BY DEF Safe, Loaded, Adopted, Shapes, Editor
    <2> QED BY <2>1, <2>2, <2>3 DEF MineKept, IsStored
  <1> QED BY <1>1, <1>2, <1>3

LEMMA AdoptSettles ==
    ASSUME ~SlowSaves, Settled, NEW w \in Windows, Adopt(w)
    PROVE  SavesOK' /\ SavedMeansSaved' /\ MineKept'
  <1> USE DEF Settled, Safe
  <1>1. SavesOK'
    BY DEF Adopt, Receive, Adopted, Shapes, SavesOK
  <1>2. SavedMeansSaved'
    BY DEF Adopt, Receive, Adopted, Shapes, Editor, SavedMeansSaved, Text
  <1>3. MineKept'
    BY DEF Adopt, Receive, Adopted, Shapes, Editor, SavedMeansSaved, MineKept,
           IsStored
  <1> QED BY <1>1, <1>2, <1>3

LEMMA SaveAnsweredSettles ==
    ASSUME ~SlowSaves, Settled, NEW w \in Windows, SaveAnswered(w)
    PROVE  SavesOK' /\ SavedMeansSaved' /\ MineKept'
  <1> USE DEF Settled, Safe
  <1>1. SavesOK'
    BY DEF SaveAnswered, Receive, Shapes, SavesOK
  <1>2. SavedMeansSaved'
    BY DEF SaveAnswered, Receive, Shapes, Editor, SavedMeansSaved, Text
  <1>3. MineKept'
    BY DEF SaveAnswered, Receive, Shapes, MineKept, IsStored
  <1> QED BY <1>1, <1>2, <1>3

LEMMA SaveRefusedSettles ==
    ASSUME ~SlowSaves, Settled, NEW w \in Windows, SaveRefused(w)
    PROVE  SavesOK' /\ SavedMeansSaved' /\ MineKept'
  <1> USE DEF Settled, Safe
  <1>1. SavesOK'
    BY DEF SaveRefused, Receive, Shapes, SavesOK
  <1>2. SavedMeansSaved'
    BY DEF SaveRefused, Receive, Shapes, SavedMeansSaved, Text
  <1>3. MineKept'
    BY DEF SaveRefused, Receive, Shapes, MineKept, IsStored
  <1> QED BY <1>1, <1>2, <1>3

LEMMA SaveFailedSettles ==
    ASSUME ~SlowSaves, Settled, NEW w \in Windows, SaveFailed(w)
    PROVE  SavesOK' /\ SavedMeansSaved' /\ MineKept'
  <1> USE DEF Settled, Safe
  <1>1. SavesOK'
    BY DEF SaveFailed, Receive, SavesOK
  <1>2. SavedMeansSaved'
    BY DEF SaveFailed, Receive, SavedMeansSaved, Text
  <1>3. MineKept'
    BY DEF SaveFailed, Receive, MineKept, IsStored
  <1> QED BY <1>1, <1>2, <1>3

LEMMA FlushAnsweredSettles ==
    ASSUME ~SlowSaves, Settled, NEW w \in Windows, FlushAnswered(w)
    PROVE  SavesOK' /\ SavedMeansSaved' /\ MineKept'
  <1> USE DEF Settled, Safe
  <1>1. SavesOK' /\ SavedMeansSaved' /\ MineKept'
    BY DEF FlushAnswered, SavesOK, SavedMeansSaved, MineKept, Text, IsStored
  <1> QED BY <1>1

LEMMA HearSettles ==
    ASSUME ~SlowSaves, Settled, NEW w \in Windows, Hear(w)
    PROVE  SavesOK' /\ SavedMeansSaved' /\ MineKept'
  <1> USE DEF Settled, Safe
  <1>1. SavesOK'
    <2>1. \A x \in Windows : \A q \in asks'[x] :
             q \in asks[x] \/ q.kind = "adopt"
      BY DEF Hear, Ask, Get, Shapes
    <2> QED BY <2>1 DEF Hear, SavesOK
  <1>2. SavedMeansSaved' /\ MineKept'
    BY DEF Hear, SavedMeansSaved, MineKept, Text, IsStored
  <1> QED BY <1>1, <1>2

LEMMA OtherWritesSettles ==
    ASSUME Settled, OtherWrites
    PROVE  SavesOK' /\ SavedMeansSaved' /\ MineKept'
  <1> USE DEF Settled, Safe
  <1>1. edits + 1 \in Texts
    BY NotesAssumption DEF OtherWrites, Shapes, Texts
  <1>2. notes' = Append(notes, edits + 1) /\ UNCHANGED <<ed, asks, answers>>
    BY DEF OtherWrites, Stored
  <1>3. SavesOK'
    BY <1>2 DEF SavesOK
  <1>4. SavedMeansSaved'
    BY <1>1, <1>2, Growth DEF SavedMeansSaved, BasesOK, Shapes
  <1>5. MineKept'
    BY <1>1, <1>2, StoredStays DEF MineKept, Shapes
  <1> QED BY <1>3, <1>4, <1>5

LEMMA SettledStep ==
    ASSUME ~SlowSaves, Settled, [Next]_vars PROVE Settled'
  <1>1. Safe'
    BY SafeStep DEF Settled
  <1>2. CASE OtherWrites
    BY <1>1, <1>2, OtherWritesSettles DEF Settled
  <1>3. ASSUME NEW w \in Windows,
               Open(w) \/ Type(w) \/ Timer(w) \/ Hide(w) \/ Close(w)
        PROVE  Settled'
    BY <1>1, <1>3, OpenSettles, TypeSettles, FireIdleSettles, FireSettles,
       HideSettles, CloseSettles
       DEF Timer, Settled
  <1>4. ASSUME NEW w \in Windows, Serve(w) \/ AnswerLost(w) \/ Hear(w)
        PROVE  Settled'
    BY <1>1, <1>4, ServeGetSettles, AcceptSettles, RefuseSettles, FailSettles,
       AnswerLostSettles, HearSettles
       DEF Serve, Settled
  <1>5. ASSUME NEW w \in Windows, Answers(w)
        PROVE  Settled'
    BY <1>1, <1>5, LoadedSettles, AdoptSettles, SaveAnsweredSettles,
       SaveRefusedSettles, SaveFailedSettles, FlushAnsweredSettles
       DEF Answers, Settled
  <1>6. CASE UNCHANGED vars
    BY <1>1, <1>6
       DEF vars, Settled, SavesOK, SavedMeansSaved, MineKept, Text, IsStored
  <1> QED BY <1>2, <1>3, <1>4, <1>5, <1>6 DEF Next

LEMMA SettledInit == Init => Settled
  <1> SUFFICES ASSUME Init PROVE Settled
    OBVIOUS
  <1>1. Safe
    BY SafeInit
  <1>2. SavesOK /\ SavedMeansSaved /\ MineKept
    BY DEF Init, Fresh, SavesOK, SavedMeansSaved, MineKept
  <1> QED BY <1>1, <1>2 DEF Settled

-----------------------------------------------------------------------------
(* What the windows and the requests carry is always of the right shape,   *)
(* every base has been given to its window, and `saved' in the component   *)
(* is the text of its base (Notes.tsx, SetNoteIfUnchanged).                *)
THEOREM SafeAlways == Spec => []Safe
  <1>1. Init => Safe
    BY SafeInit
  <1>2. Safe /\ [Next]_vars => Safe'
    BY SafeStep
  <1> QED BY <1>1, <1>2, PTL DEF Spec

LEMMA ReplacesGiven ==
    ASSUME Safe, [Next]_vars
    PROVE  [\A w \in Windows : \A q \in asks[w] :
               /\ q.kind \in {"save", "flush"} /\ q \notin asks'[w]
               /\ Len(notes') > Rev
               => Rev \in given[w]]_vars
  <1> SUFFICES ASSUME NEW w \in Windows, NEW q \in asks[w],
                      q.kind \in {"save", "flush"}, q \notin asks'[w],
                      Len(notes') > Rev, Next
               PROVE  Rev \in given[w]
    OBVIOUS
  <1>1. Len(notes) \in Nat
    BY DEF Safe
  <1>2. notes' # notes /\ asks' # asks
    BY <1>1 DEF Rev
  <1>3. PICK v \in Windows : Accept(v)
    <2>1. ~OtherWrites
      BY <1>2 DEF OtherWrites
    <2>2. PICK v \in Windows :
            \/ Open(v) \/ Type(v) \/ Timer(v) \/ Hide(v) \/ Close(v)
            \/ Serve(v) \/ AnswerLost(v) \/ Answers(v) \/ Hear(v)
      BY <2>1 DEF Next
    <2>3. ~(Open(v) \/ Type(v) \/ Timer(v) \/ Hide(v) \/ Close(v))
      BY <1>2 DEF Open, Type, Timer, FireIdle, Fire, Hide, Close
    <2>4. ~(AnswerLost(v) \/ Answers(v) \/ Hear(v))
      BY <1>2 DEF AnswerLost, Answers, Loaded, Adopt, SaveAnswered, SaveRefused, SaveFailed,
                  FlushAnswered, Receive, Hear
    <2>5. ~(ServeGet(v) \/ Refuse(v) \/ Fail(v))
      BY <1>2 DEF ServeGet, Refuse, Fail
    <2> QED BY <2>2, <2>3, <2>4, <2>5 DEF Serve
  <1>4. PICK p \in asks[v] : p.kind \in {"save", "flush"} /\ p.base = Rev
                             /\ asks' = [asks EXCEPT ![v] = @ \ {p}]
    BY <1>3 DEF Accept, Served
  <1>5. w = v /\ q = p
    BY <1>4 DEF Safe
  <1> QED BY <1>4, <1>5 DEF Safe, BasesOK

(* The last writer never wins unseen, however slow the saves are: what a   *)
(* save replaces, its window has been given (SetNoteIfUnchanged).          *)
THEOREM NothingUnseenReplacedCorrect == Spec => NothingUnseenReplaced
  BY ReplacesGiven, SafeAlways, PTL DEF NothingUnseenReplaced, Spec

(* `Saved' can be believed: what is shown then is the text of the revision *)
(* the next save is built on (Notes.tsx), if a save is answered before the *)
(* debounce can send the next.                                             *)
THEOREM SavedMeansSavedCorrect ==
    ASSUME ~SlowSaves PROVE Spec => []SavedMeansSaved
  <1>1. Init => Settled
    BY SettledInit
  <1>2. Settled /\ [Next]_vars => Settled'
    BY SettledStep
  <1>3. Settled => SavedMeansSaved
    BY DEF Settled
  <1> QED BY <1>1, <1>2, <1>3, PTL DEF Spec

(* Under the same assumption, what was typed last is on the screen or has  *)
(* been stored: neither another window's text nor a late answer takes its  *)
(* place before that.                                                      *)
THEOREM MineKeptCorrect ==
    ASSUME ~SlowSaves PROVE Spec => []MineKept
  <1>1. Init => Settled
    BY SettledInit
  <1>2. Settled /\ [Next]_vars => Settled'
    BY SettledStep
  <1>3. Settled => MineKept
    BY DEF Settled
  <1> QED BY <1>1, <1>2, <1>3, PTL DEF Spec

(* What is typed is not lost, when a save is answered before the next one  *)
(* can be sent (the 800 ms of the debounce).                               *)
THEOREM NothingLostCorrect ==
    ASSUME ~SlowSaves PROVE Spec => NothingLost
  BY NothingUnseenReplacedCorrect, SavedMeansSavedCorrect, MineKeptCorrect, PTL DEF NothingLost


-----------------------------------------------------------------------------
(* Every revision has been typed by somebody: a text that is queued or on  *)
(* its way to the server is the one edit's it was queued by, and is stored *)
(* once at most.                                                           *)

Queues == {w \in Windows : ed[w].queued # None}
Puts   == {p \in Windows \X NoteRequest : p[2] \in asks[p[1]] /\ p[2].kind \in {"save", "flush"}}

EditsPay ==
    /\ IsFiniteSet(Queues) /\ IsFiniteSet(Puts)
    /\ Rev + Cardinality(Queues) + Cardinality(Puts) <= edits

Paid == Safe /\ EditsPay

\* Nothing new is queued or sent.
LEMMA NothingAsked ==
    ASSUME Paid, Queues' \subseteq Queues, Puts' \subseteq Puts, UNCHANGED <<notes, edits>>
    PROVE  EditsPay'
  <1>1. /\ IsFiniteSet(Queues') /\ Cardinality(Queues') <= Cardinality(Queues)
        /\ IsFiniteSet(Puts') /\ Cardinality(Puts') <= Cardinality(Puts)
    BY FS_Subset DEF Paid, EditsPay
  <1>2. /\ Cardinality(Queues) \in Nat /\ Cardinality(Puts) \in Nat
        /\ Cardinality(Queues') \in Nat /\ Cardinality(Puts') \in Nat
    BY <1>1, FS_CardinalityType DEF Paid, EditsPay
  <1>3. Rev \in Nat /\ Rev' = Rev /\ edits \in Nat
    BY DEF Paid, Safe, Shapes, Rev, Texts
  <1> QED BY <1>1, <1>2, <1>3 DEF Paid, EditsPay

\* What was queued is sent.
LEMMA QueuedIsSent ==
    ASSUME Paid, NEW w \in Queues, NEW P, IsFiniteSet(P), Cardinality(P) <= Cardinality(Puts),
           NEW x, Puts' \subseteq P \union {x}, Queues' \subseteq Queues \ {w},
           UNCHANGED <<notes, edits>>
    PROVE  EditsPay'
  <1>1. /\ IsFiniteSet(Queues \ {w}) /\ Cardinality(Queues \ {w}) = Cardinality(Queues) - 1
        /\ IsFiniteSet(P \union {x})
        /\ Cardinality(P \union {x}) = IF x \in P THEN Cardinality(P) ELSE Cardinality(P) + 1
    BY FS_RemoveElement, FS_AddElement DEF Paid, EditsPay
  <1>2. /\ IsFiniteSet(Queues') /\ Cardinality(Queues') <= Cardinality(Queues \ {w})
        /\ IsFiniteSet(Puts') /\ Cardinality(Puts') <= Cardinality(P \union {x})
    BY <1>1, FS_Subset
  <1>3. /\ Cardinality(Queues) \in Nat /\ Cardinality(Puts) \in Nat /\ Cardinality(P) \in Nat
        /\ Cardinality(Queues') \in Nat /\ Cardinality(Puts') \in Nat
    BY <1>2, FS_CardinalityType DEF Paid, EditsPay
  <1>4. Rev \in Nat /\ Rev' = Rev /\ edits \in Nat
    BY DEF Paid, Safe, Shapes, Rev, Texts
  <1> QED BY <1>1, <1>2, <1>3, <1>4 DEF Paid, EditsPay

LEMMA TypePaid ==
    ASSUME Paid, NEW w \in Windows, Type(w) PROVE EditsPay'
  <1>1. Queues' \subseteq Queues \union {w} /\ Puts' = Puts /\ Rev' = Rev /\ edits' = edits + 1
    BY DEF Type, Queues, Puts, Rev, Paid, Safe, Shapes
  <1>2. /\ IsFiniteSet(Queues \union {w})
        /\ Cardinality(Queues \union {w})
              = IF w \in Queues THEN Cardinality(Queues) ELSE Cardinality(Queues) + 1
    BY FS_AddElement DEF Paid, EditsPay
  <1>3. IsFiniteSet(Queues') /\ Cardinality(Queues') <= Cardinality(Queues \union {w})
    BY <1>1, <1>2, FS_Subset
  <1>4. /\ Cardinality(Queues) \in Nat /\ Cardinality(Puts) \in Nat
        /\ Cardinality(Queues') \in Nat
    BY <1>3, FS_CardinalityType DEF Paid, EditsPay
  <1>5. Rev \in Nat /\ edits \in Nat
    BY DEF Paid, Safe, Shapes, Rev, Texts
  <1> QED BY <1>1, <1>2, <1>3, <1>4, <1>5 DEF Paid, EditsPay

LEMMA OtherWritesPaid ==
    ASSUME Paid, OtherWrites PROVE EditsPay'
  <1>1. Queues' = Queues /\ Puts' = Puts /\ edits' = edits + 1 /\ Rev \in Nat /\ edits \in Nat
    BY DEF OtherWrites, Queues, Puts, Paid, Safe, Shapes, Rev, Texts
  <1>2. Rev' = Rev + 1
    BY DEF OtherWrites, Stored, Rev, Paid, Safe, Shapes
  <1>3. Cardinality(Queues) \in Nat /\ Cardinality(Puts) \in Nat
    BY FS_CardinalityType DEF Paid, EditsPay
  <1> QED BY <1>1, <1>2, <1>3 DEF Paid, EditsPay

LEMMA AcceptPaid ==
    ASSUME Paid, NEW w \in Windows, Accept(w) PROVE EditsPay'
  <1>1. PICK q \in asks[w] : /\ q.kind \in {"save", "flush"}
                             /\ notes' = Append(notes, q.text)
                             /\ asks' = [asks EXCEPT ![w] = @ \ {q}]
                             /\ UNCHANGED <<edits, ed>>
    BY DEF Accept, Stored, Served
  <1>2. <<w, q>> \in Puts /\ Puts' \subseteq Puts \ {<<w, q>>} /\ Queues' = Queues
    BY <1>1 DEF Puts, Queues, Paid, Safe, Shapes
  <1>3. IsFiniteSet(Puts \ {<<w, q>>}) /\ Cardinality(Puts \ {<<w, q>>}) = Cardinality(Puts) - 1
    BY <1>2, FS_RemoveElement DEF Paid, EditsPay
  <1>4. IsFiniteSet(Puts') /\ Cardinality(Puts') <= Cardinality(Puts \ {<<w, q>>})
    BY <1>2, <1>3, FS_Subset
  <1>5. Rev' = Rev + 1 /\ Rev \in Nat /\ edits \in Nat /\ edits' = edits
    BY <1>1 DEF Rev, Paid, Safe, Shapes, Texts
  <1>6. /\ Cardinality(Queues) \in Nat /\ Cardinality(Puts) \in Nat
        /\ Cardinality(Puts') \in Nat
    BY <1>4, FS_CardinalityType DEF Paid, EditsPay
  <1> QED BY <1>2, <1>3, <1>4, <1>5, <1>6 DEF Paid, EditsPay

LEMMA FirePaid ==
    ASSUME Paid, NEW w \in Windows, Fire(w) PROVE EditsPay'
  <1>1. w \in Queues /\ Queues' \subseteq Queues \ {w} /\ UNCHANGED <<notes, edits>>
    BY DEF Fire, Due, Queues, Paid, Safe, Shapes
  <1>2. PICK q : asks' = [asks EXCEPT ![w] = @ \union {q}]
    BY DEF Fire, Ask
  <1>3. Puts' \subseteq Puts \union {<<w, q>>}
    BY <1>2 DEF Puts, Paid, Safe, Shapes
  <1>4. IsFiniteSet(Puts) /\ Cardinality(Puts) <= Cardinality(Puts)
    BY FS_CardinalityType DEF Paid, EditsPay
  <1> QED BY <1>1, <1>3, <1>4, QueuedIsSent

LEMMA HidePaid ==
    ASSUME Paid, NEW w \in Windows, Hide(w) PROVE EditsPay'
  <1>1. w \in Queues /\ Queues' \subseteq Queues \ {w} /\ UNCHANGED <<notes, edits>>
    BY DEF Hide, Queues, Paid, Safe, Shapes
  <1> DEFINE q == Put("flush", ed[w].queued, ed[w].base)
  <1>2. asks' = [asks EXCEPT ![w] = @ \union Flushed(w)] /\ Flushed(w) \subseteq {q}
    BY DEF Hide, Flushed
  <1>3. Puts' \subseteq Puts \union {<<w, q>>}
    BY <1>2 DEF Puts, Paid, Safe, Shapes
  <1>4. IsFiniteSet(Puts) /\ Cardinality(Puts) <= Cardinality(Puts)
    BY FS_CardinalityType DEF Paid, EditsPay
  <1> QED BY <1>1, <1>3, <1>4, QueuedIsSent

\* What a closed window has sent stays on its way, nobody's any more.
LEMMA ClosePaid ==
    ASSUME Paid, NEW w \in Windows, Close(w) PROVE EditsPay'
  <1> DEFINE left(p) == IF p[1] = w THEN <<w, Orphan(p[2])>> ELSE p
             P == {left(p) : p \in Puts}
             f == [p \in Puts |-> left(p)]
             q == Put("flush", ed[w].queued, ed[w].base)
  <1>1. IsFiniteSet(P) /\ Cardinality(P) <= Cardinality(Puts)
    <2>1. f \in Surjection(Puts, P)
      BY DEF Surjection
    <2> HIDE DEF f, P
    <2> QED BY <2>1, FS_Surjection DEF Paid, EditsPay
  <1>2. Queues' \subseteq Queues \ {w} /\ UNCHANGED <<notes, edits>>
    BY DEF Close, Queues, Fresh, Paid, Safe, Shapes
  <1>3. Flushed(w) \subseteq {q} /\ (w \notin Queues => Flushed(w) = {})
    BY DEF Flushed, Queues
  <1>4. \A x \in asks'[w] : x \in Flushed(w) \/ \E y \in asks[w] : y.kind \in {"save", "flush"} /\ x = Orphan(y)
    BY DEF Close, Paid, Safe, Shapes
  <1>5. \A v \in Windows \ {w} : asks'[v] = asks[v]
    BY DEF Close, Paid, Safe, Shapes
  <1>6. ASSUME NEW p \in Puts' PROVE p \in P \/ (p = <<w, q>> /\ w \in Queues)
    <2>1. PICK v \in Windows, x \in NoteRequest : p = <<v, x>> /\ x \in asks'[v] /\ x.kind \in {"save", "flush"}
      BY DEF Puts
    <2>2. CASE v # w
      <3>1. p \in Puts /\ left(p) = p
        BY <1>5, <2>1, <2>2 DEF Puts
      <3> QED BY <3>1
    <2>3. CASE v = w /\ x \in Flushed(w)
      BY <1>3, <2>1, <2>3
    <2>4. CASE v = w /\ x \notin Flushed(w)
      <3>1. PICK y \in asks[w] : y.kind \in {"save", "flush"} /\ x = Orphan(y)
        BY <1>4, <2>1, <2>4
      <3>2. <<w, y>> \in Puts
        BY <3>1 DEF Puts, Paid, Safe, Shapes
      <3>3. left(<<w, y>>) = p
        BY <2>1, <2>4, <3>1
      <3> QED BY <3>2, <3>3
    <2> QED BY <2>2, <2>3, <2>4
  <1> HIDE DEF P, q
  <1>7. CASE w \in Queues
    BY <1>1, <1>2, <1>6, <1>7, QueuedIsSent
  <1>8. CASE w \notin Queues
    <2>1. Puts' \subseteq P /\ Queues' \subseteq Queues
      BY <1>2, <1>6, <1>8
    <2>2. /\ IsFiniteSet(Queues') /\ Cardinality(Queues') <= Cardinality(Queues)
          /\ IsFiniteSet(Puts') /\ Cardinality(Puts') <= Cardinality(P)
      BY <1>1, <2>1, FS_Subset DEF Paid, EditsPay
    <2>3. /\ Cardinality(Queues) \in Nat /\ Cardinality(Puts) \in Nat /\ Cardinality(P) \in Nat
          /\ Cardinality(Queues') \in Nat /\ Cardinality(Puts') \in Nat
      BY <1>1, <2>2, FS_CardinalityType DEF Paid, EditsPay
    <2>4. Rev \in Nat /\ Rev' = Rev /\ edits \in Nat /\ edits' = edits
      BY <1>2 DEF Paid, Safe, Shapes, Rev, Texts
    <2> QED BY <1>1, <2>2, <2>3, <2>4 DEF Paid, EditsPay
  <1> QED BY <1>7, <1>8

\* All else that a window or the server does queues nothing and sends nothing.
LEMMA OthersPaid ==
    ASSUME Paid, NEW w \in Windows,
           \/ Open(w) \/ FireIdle(w) \/ ServeGet(w) \/ Refuse(w) \/ Fail(w)
           \/ AnswerLost(w) \/ Hear(w) \/ Answers(w)
    PROVE  EditsPay'
  <1> USE DEF Paid, Safe, Shapes, Queues, Puts
  <1>1. CASE Open(w)
    <2>1. Queues' \subseteq Queues /\ Puts' \subseteq Puts /\ UNCHANGED <<notes, edits>>
      BY <1>1 DEF Open, Fresh, Ask, Get
    <2> QED BY <2>1, NothingAsked
  <1>2. CASE FireIdle(w)
    <2>1. Queues' \subseteq Queues /\ Puts' \subseteq Puts /\ UNCHANGED <<notes, edits>>
      BY <1>2 DEF FireIdle
    <2> QED BY <2>1, NothingAsked
  <1>3. CASE ServeGet(w) \/ Refuse(w) \/ Fail(w)
    <2>1. Queues' \subseteq Queues /\ Puts' \subseteq Puts /\ UNCHANGED <<notes, edits>>
      BY <1>3 DEF ServeGet, Refuse, Fail, Served
    <2> QED BY <2>1, NothingAsked
  <1>4. CASE AnswerLost(w) \/ Hear(w)
    <2>1. Queues' \subseteq Queues /\ Puts' \subseteq Puts /\ UNCHANGED <<notes, edits>>
      BY <1>4 DEF AnswerLost, Hear, Ask, Get
    <2> QED BY <2>1, NothingAsked
  <1>5. CASE Answers(w)
    <2>1. Puts' = Puts /\ UNCHANGED <<notes, edits>>
      BY <1>5 DEF Answers, Loaded, Adopt, SaveAnswered, SaveRefused, SaveFailed, FlushAnswered, Receive
    <2>2. ed'[w].queued = ed[w].queued /\ \A v \in Windows \ {w} : ed'[v] = ed[v]
      <3>1. CASE Loaded(w) \/ Adopt(w)
        <4>1. \A a \in answers[w] : a.result = "ok" => a.rev \in 0..Len(notes)
          BY DEF RepliesOK
        <4>2. PICK a \in answers[w] :
                 \/ a.result = "ok" /\ Adopted(w, a.rev)
                 \/ SetStatus(w, "error")
                 \/ UNCHANGED ed
          BY <3>1 DEF Loaded, Adopt, SetStatus
        <4>3. CASE a.result = "ok" /\ Adopted(w, a.rev)
          BY <4>1, <4>3, AdoptedKeeps
        <4>4. CASE SetStatus(w, "error")
          BY <4>4, StatusKeeps DEF Statuses
        <4> QED BY <4>2, <4>3, <4>4
      <3>2. CASE SaveAnswered(w)
        BY <3>2 DEF SaveAnswered
      <3>3. CASE SaveRefused(w)
        BY <3>3 DEF SaveRefused
      <3>4. CASE SaveFailed(w)
        <4>1. SetStatus(w, "error") /\ "error" \in Statuses
          BY <3>4 DEF SaveFailed, SetStatus, Statuses
        <4> QED BY <4>1, StatusKeeps
      <3>5. CASE FlushAnswered(w)
        BY <3>5 DEF FlushAnswered
      <3> QED BY <1>5, <3>1, <3>2, <3>3, <3>4, <3>5 DEF Answers
    <2>3. Queues' = Queues
      BY <2>2
    <2> QED BY <2>1, <2>3, NothingAsked
  <1> QED BY <1>1, <1>2, <1>3, <1>4, <1>5

LEMMA PaidStep ==
    ASSUME Paid, [Next]_vars PROVE Paid'
  <1>1. Safe'
    BY SafeStep DEF Paid
  <1>2. CASE Next
    BY <1>1, <1>2, TypePaid, OtherWritesPaid, AcceptPaid, FirePaid, HidePaid, ClosePaid, OthersPaid
       DEF Next, Timer, Serve, Paid
  <1>3. CASE UNCHANGED vars
    BY <1>1, <1>3 DEF vars, Paid, EditsPay, Queues, Puts, Rev
  <1> QED BY <1>2, <1>3

LEMMA PaidInit == Init => Paid
  <1> SUFFICES ASSUME Init PROVE EditsPay
    BY SafeInit DEF Paid
  <1>1. Queues = {} /\ Puts = {} /\ Rev = 0 /\ edits = 0
    BY DEF Init, Fresh, Queues, Puts, Rev
  <1> QED BY <1>1, FS_EmptySet DEF EditsPay

LEMMA NotesTyped == Paid => TypeOK
  <1> SUFFICES ASSUME Paid PROVE TypeOK
    OBVIOUS
  <1>1. Cardinality(Queues) \in Nat /\ Cardinality(Puts) \in Nat
    BY FS_CardinalityType DEF Paid, EditsPay
  <1>2. Rev \in Nat /\ edits \in Texts /\ edits \in Nat
    BY DEF Paid, Safe, Shapes, Rev, Texts
  <1>3. Rev <= edits
    BY <1>1, <1>2 DEF Paid, EditsPay
  <1> QED BY <1>2, <1>3 DEF TypeOK, Paid, Safe, Shapes, BasesOK, QueuedOK, Editor, Rev

(* The types of the notes, and never more revisions than edits: no text is *)
(* stored twice for one edit, whatever is flushed, retried or orphaned     *)
(* (Notes.tsx, SetNoteIfUnchanged).                                        *)
THEOREM NotesTypeCorrect == Spec => []TypeOK
  <1>1. Spec => []Paid
    BY PaidInit, PaidStep, PTL DEF Spec
  <1> QED BY <1>1, NotesTyped, PTL


-----------------------------------------------------------------------------
(* A terminal shows the session's output, no byte twice, none left out.    *)
(*                                                                         *)
(* For each subscription, w says how far the connection has written it to  *)
(* the page.  What the page has not yet taken of the current subscription  *)
(* is, without a gap, what lies between what the terminal shows and w;     *)
(* what the pump holds, what is queued and what is left of the replay      *)
(* follow from there; and a terminal takes frames of one subscription only *)
(* because a page that lets go of a confirmed one alone never has two      *)
(* requests out.                                                           *)

StreamShape ==
    /\ lo \in Nat /\ hi \in Offsets /\ lo <= hi /\ hi - lo <= Capacity
    /\ registered \subseteq Refs /\ cancelled \subseteq Refs /\ pumping \subseteq Refs
    /\ queue \in [Refs -> Seq(Nat)] /\ (\A r \in Refs : Len(queue[r]) <= QueueCap)
    /\ holding \in [Refs -> Frames \cup {Unset}]
    /\ byID \in Refs \cup {Unset} /\ nextRef \in 0..MaxRef
    /\ replaying \in Replays \cup {Unset}
    /\ up \in BOOLEAN /\ mounted \in BOOLEAN
    /\ toPage \in Seq(Frames)
    /\ stream \in [ref : Refs \cup {Unset}, position : Offsets \cup {Unset}, confirmed : BOOLEAN]
    /\ byRef \subseteq Refs
    /\ shown \in [next : Offsets \cup {Unset}, torn : BOOLEAN]

Leaving == [kind |-> "unsubscribe"]

\* What the page has asked and the reader has not read.
AsksOK ==
    \/ toServer = <<>>
    \/ toServer = <<Leaving>> /\ ~mounted
    \/ toServer = <<SubscribeRequest(stream)>> /\ mounted
    \/ toServer = <<Leaving, SubscribeRequest(stream)>> /\ mounted

Asked     == toServer # <<>> /\ mounted
Answering == replaying # Unset /\ ~replaying.confirmed
Answered  == {k \in DOMAIN toPage : toPage[k].kind = "subscribed"}

OneSubscription ==
    /\ Asked => ~Answering /\ Answered = {}
    /\ Answering => Answered = {}
    /\ \A k, m \in Answered : k = m
    /\ Asked \/ Answering \/ Answered # {} => mounted /\ stream.ref = Unset
    /\ Answering \/ Answered # {} => toServer = <<>>
    /\ stream.ref = Unset => byRef = {}
    /\ stream.ref # Unset => byRef = {stream.ref} /\ stream.position # Unset
    /\ ~mounted => stream = NewStream /\ shown = Blank

DownOK ==
    ~up =>
        /\ registered = {} /\ pumping = {} /\ replaying = Unset /\ byID = Unset
        /\ nextRef = 0 /\ toServer = <<>> /\ toPage = <<>> /\ byRef = {}

\* The connection has not given out the refs above nextRef.
RefsOK ==
    \A r \in Refs : r > nextRef =>
        /\ r \notin registered /\ r \notin pumping /\ queue[r] = <<>> /\ holding[r] = Unset
        /\ \A k \in DOMAIN toPage : toPage[k].ref # r
        /\ replaying # Unset => replaying.ref # r

\* A page that resumes has been told so from where it is.
ResumesOK ==
    /\ Answering /\ replaying.resumed => replaying.from = stream.position
    /\ \A k \in Answered : toPage[k].resumed => toPage[k].off = stream.position

ReplayOK(w) ==
    replaying # Unset =>
        /\ replaying.from = w[replaying.ref] /\ replaying.from <= replaying.to
        /\ holding[replaying.ref] = Unset /\ replaying.ref \notin pumping
        /\ ~replaying.confirmed => \A k \in DOMAIN toPage : toPage[k].ref # replaying.ref

\* Where the queue of r goes on.
QueueStart(w, r) ==
    IF replaying # Unset /\ replaying.ref = r THEN replaying.to
    ELSE IF holding[r] # Unset THEN w[r] + 1 ELSE w[r]

QueuesOK(w) ==
    \A r \in Refs :
        /\ holding[r] # Unset => holding[r] = Frame(r, w[r], 1)
        /\ \A i \in DOMAIN queue[r] : queue[r][i] = QueueStart(w, r) + i - 1
        /\ QueueStart(w, r) + Len(queue[r]) <= hi
        /\ r \in registered => QueueStart(w, r) + Len(queue[r]) = hi

IsData(k, r) == k \in DOMAIN toPage /\ toPage[k].kind = "data" /\ toPage[k].ref = r
Ends(k)      == toPage[k].off + toPage[k].n

\* What is on its way to the page of r is p .. w[r] - 1, in order.
Gapless(w, r, p) ==
    /\ p <= w[r]
    /\ \A k \in DOMAIN toPage : IsData(k, r) => p <= toPage[k].off /\ toPage[k].n > 0 /\ Ends(k) <= w[r]
    /\ \A k, m \in DOMAIN toPage : IsData(k, r) /\ IsData(m, r) /\ k < m => Ends(k) <= toPage[m].off
    /\ \A x \in p .. w[r] - 1 : \E k \in DOMAIN toPage : IsData(k, r) /\ toPage[k].off <= x /\ x < Ends(k)

WireOK(w) ==
    /\ \A r \in byRef : shown.next # Unset /\ Gapless(w, r, shown.next)
    /\ \A k \in Answered :
          /\ Gapless(w, toPage[k].ref, toPage[k].off)
          /\ \A m \in DOMAIN toPage : IsData(m, toPage[k].ref) => k < m

Written == [Refs -> Offsets]

Flow(w) == ReplayOK(w) /\ QueuesOK(w) /\ WireOK(w)

ViewSafe ==
    /\ StreamShape /\ AsksOK /\ OneSubscription /\ DownOK /\ RefsOK /\ ResumesOK
    /\ ScreenExact
    /\ \E w \in Written : Flow(w)

LEMMA OffsetsAreNat == Offsets \subseteq Nat /\ 0 \in Offsets /\ \A x \in Nat : x <= MaxTotal => x \in Offsets
BY StreamAssumption DEF Offsets

LEMMA FrameOffsets == \A m \in Frames : m.off \in Nat /\ m.n \in Nat /\ m.ref \in Refs
BY OffsetsAreNat DEF Frames

LEMMA ViewLimits ==
    /\ Capacity \in Nat \ {0} /\ QueueCap \in Nat \ {0} /\ ReplayChunk \in Nat \ {0}
    /\ MaxTotal \in Nat /\ MaxRef \in Nat \ {0} /\ Unset \notin Nat
BY StreamAssumption

LEMMA Unframed == Unset \notin Frames /\ Unset \notin Replays
BY StreamAssumption

\* A frame of another subscription, or no bytes at all, is sent.
LEMMA GaplessSent ==
    ASSUME StreamShape, NEW w \in Written, NEW r \in Refs, NEW p \in Nat, NEW m \in Frames,
           m.kind # "data" \/ m.ref # r, toPage' = Append(toPage, m), Gapless(w, r, p)
    PROVE  Gapless(w, r, p)'
<1>1. /\ DOMAIN toPage = 1..Len(toPage) /\ DOMAIN toPage' = 1..(Len(toPage) + 1) /\ Len(toPage) \in Nat
      /\ \A k \in DOMAIN toPage : toPage'[k] = toPage[k]
      /\ toPage'[Len(toPage) + 1] = m
    BY DEF StreamShape
<1>2. \A k \in DOMAIN toPage' : IsData(k, r)' <=> IsData(k, r)
    BY <1>1 DEF IsData
<1>3. \A k \in DOMAIN toPage : Ends(k)' = Ends(k)
    BY <1>1 DEF Ends
<1>4. \A k : IsData(k, r) => k \in DOMAIN toPage
    BY DEF IsData
<1> QED BY <1>1, <1>2, <1>3, <1>4 DEF Gapless

\* The next bytes of r are sent.
LEMMA GaplessGrows ==
    ASSUME StreamShape, NEW w \in Written, NEW r \in Refs, NEW p \in Nat, NEW m \in Frames,
           m.kind = "data", m.ref = r, m.off = w[r], m.n > 0,
           NEW u \in Written, u[r] = w[r] + m.n,
           toPage' = Append(toPage, m), Gapless(w, r, p)
    PROVE  Gapless(u, r, p)'
<1>1. /\ DOMAIN toPage = 1..Len(toPage) /\ DOMAIN toPage' = 1..(Len(toPage) + 1) /\ Len(toPage) \in Nat
      /\ \A k \in DOMAIN toPage : toPage'[k] = toPage[k]
      /\ toPage'[Len(toPage) + 1] = m
    BY DEF StreamShape
<1>0. PICK new \in Nat : new = Len(toPage) + 1
    BY <1>1
<1>2. \A k \in DOMAIN toPage' : IsData(k, r)' <=> IsData(k, r) \/ k = new
    BY <1>0, <1>1 DEF IsData
<1>3. \A k \in DOMAIN toPage : Ends(k)' = Ends(k)
    BY <1>1 DEF Ends
<1>4. \A k : IsData(k, r) => k \in DOMAIN toPage
    BY DEF IsData
<1>5. toPage'[new].off = w[r] /\ Ends(new)' = u[r] /\ toPage'[new].n > 0
    BY <1>0, <1>1 DEF Ends
<1>6. w[r] \in Nat /\ u[r] \in Nat /\ w[r] < u[r]
    BY StreamAssumption DEF Written, Offsets, Frames
<1>7. new \in DOMAIN toPage' /\ new \notin DOMAIN toPage /\ \A k \in DOMAIN toPage' : k # new => k \in DOMAIN toPage /\ k < new
    BY <1>0, <1>1
<1>8. \A k \in DOMAIN toPage : toPage[k].off \in Nat /\ toPage[k].n \in Nat /\ Ends(k) \in Nat
    <2>1. \A k \in DOMAIN toPage : toPage[k] \in Frames
        BY DEF StreamShape
    <2> QED BY <2>1, FrameOffsets DEF Ends
<1>9. \A k \in DOMAIN toPage' : IsData(k, r)' => p <= toPage'[k].off /\ toPage'[k].n > 0 /\ Ends(k)' <= u[r]
    BY <1>1, <1>2, <1>3, <1>4, <1>5, <1>6, <1>7, <1>8 DEF Gapless
<1>10. \A k, l \in DOMAIN toPage' : IsData(k, r)' /\ IsData(l, r)' /\ k < l => Ends(k)' <= toPage'[l].off
    <2> SUFFICES ASSUME NEW k \in DOMAIN toPage', NEW l \in DOMAIN toPage', IsData(k, r)', IsData(l, r)', k < l
                 PROVE  Ends(k)' <= toPage'[l].off
        OBVIOUS
    <2>1. k # new
        BY <1>1, <1>7
    <2>2. IsData(k, r) /\ k \in DOMAIN toPage
        BY <1>2, <1>7, <2>1
    <2>3. CASE l = new
        BY <1>3, <1>5, <2>2, <2>3 DEF Gapless
    <2>4. CASE l # new
        BY <1>1, <1>2, <1>3, <1>7, <2>2, <2>4 DEF Gapless
    <2> QED BY <2>3, <2>4
<1>11. \A x \in p .. u[r] - 1 : \E k \in DOMAIN toPage' : IsData(k, r)' /\ toPage'[k].off <= x /\ x < Ends(k)'
    <2> SUFFICES ASSUME NEW x \in p .. u[r] - 1
                 PROVE  \E k \in DOMAIN toPage' : IsData(k, r)' /\ toPage'[k].off <= x /\ x < Ends(k)'
        OBVIOUS
    <2>1. CASE x < w[r]
        <3>1. PICK k \in DOMAIN toPage : IsData(k, r) /\ toPage[k].off <= x /\ x < Ends(k)
            BY <1>6, <2>1 DEF Gapless
        <3> QED BY <1>1, <1>2, <1>3, <3>1
    <2>2. CASE x >= w[r]
        BY <1>2, <1>5, <1>6, <1>7, <2>2
    <2> QED BY <1>6, <2>1, <2>2
<1> QED BY <1>6, <1>9, <1>10, <1>11 DEF Gapless

\* The page takes a frame of another subscription.
LEMMA GaplessTaken ==
    ASSUME StreamShape, NEW w \in Written, NEW r \in Refs, NEW p \in Nat,
           toPage # <<>>, ~IsData(1, r), toPage' = Tail(toPage), Gapless(w, r, p)
    PROVE  Gapless(w, r, p)'
<1>1. /\ DOMAIN toPage = 1..Len(toPage) /\ DOMAIN toPage' = 1..(Len(toPage) - 1) /\ Len(toPage) \in Nat \ {0}
      /\ \A k \in DOMAIN toPage' : k + 1 \in DOMAIN toPage /\ toPage'[k] = toPage[k + 1]
    BY DEF StreamShape
<1>2. \A k \in DOMAIN toPage' : IsData(k, r)' <=> IsData(k + 1, r)
    BY <1>1 DEF IsData
<1>3. \A k \in DOMAIN toPage' : Ends(k)' = Ends(k + 1)
    BY <1>1 DEF Ends
<1>4. \A x \in p .. w[r] - 1 : \E k \in DOMAIN toPage' : IsData(k, r)' /\ toPage'[k].off <= x /\ x < Ends(k)'
    <2> SUFFICES ASSUME NEW x \in p .. w[r] - 1
                 PROVE  \E k \in DOMAIN toPage' : IsData(k, r)' /\ toPage'[k].off <= x /\ x < Ends(k)'
        OBVIOUS
    <2>1. PICK k \in DOMAIN toPage : IsData(k, r) /\ toPage[k].off <= x /\ x < Ends(k)
        BY DEF Gapless
    <2>2. k - 1 \in DOMAIN toPage' /\ (k - 1) + 1 = k
        BY <1>1, <2>1
    <2>3. IsData(k - 1, r)' /\ toPage'[k - 1].off <= x /\ x < Ends(k - 1)'
        BY <1>1, <1>2, <1>3, <2>1, <2>2
    <2> QED BY <2>2, <2>3
<1>5. \A k \in DOMAIN toPage' : IsData(k, r)' => p <= toPage'[k].off /\ toPage'[k].n > 0 /\ Ends(k)' <= w[r]
    BY <1>1, <1>2, <1>3 DEF Gapless
<1>6. \A k, m \in DOMAIN toPage' : IsData(k, r)' /\ IsData(m, r)' /\ k < m => Ends(k)' <= toPage'[m].off
    <2> SUFFICES ASSUME NEW k \in DOMAIN toPage', NEW m \in DOMAIN toPage', IsData(k, r)', IsData(m, r)', k < m
                 PROVE  Ends(k)' <= toPage'[m].off
        OBVIOUS
    <2>1. k + 1 < m + 1 /\ IsData(k + 1, r) /\ IsData(m + 1, r)
        BY <1>1, <1>2
    <2> QED BY <1>1, <1>3, <2>1 DEF Gapless
<1> QED BY <1>4, <1>5, <1>6 DEF Gapless

\* The page takes the next frame of r: it begins where p is.
LEMMA GaplessShrinks ==
    ASSUME StreamShape, NEW w \in Written, NEW r \in Refs, NEW p \in Nat,
           toPage # <<>>, IsData(1, r), toPage' = Tail(toPage), Gapless(w, r, p)
    PROVE  /\ toPage[1].off = p /\ Ends(1) \in Offsets
           /\ \A q \in Nat : q = Ends(1) => Gapless(w, r, q)'
<1>1. /\ DOMAIN toPage = 1..Len(toPage) /\ DOMAIN toPage' = 1..(Len(toPage) - 1) /\ Len(toPage) \in Nat \ {0}
      /\ \A k \in DOMAIN toPage' : k + 1 \in DOMAIN toPage /\ toPage'[k] = toPage[k + 1]
    BY DEF StreamShape
<1>2. \A k \in DOMAIN toPage' : IsData(k, r)' <=> IsData(k + 1, r)
    BY <1>1 DEF IsData
<1>3. \A k \in DOMAIN toPage' : Ends(k)' = Ends(k + 1)
    BY <1>1 DEF Ends
<1>4. w[r] \in Offsets /\ w[r] \in Nat
    BY StreamAssumption DEF Written, Offsets
<1>5. \A k \in DOMAIN toPage : toPage[k].off \in Nat /\ toPage[k].n \in Nat /\ Ends(k) \in Nat
    BY FrameOffsets DEF StreamShape, Ends
<1>6. 1 \in DOMAIN toPage /\ p <= toPage[1].off /\ toPage[1].n > 0 /\ Ends(1) <= w[r]
    BY <1>1 DEF Gapless
<1>7. Ends(1) = toPage[1].off + toPage[1].n
    BY DEF Ends
<1>8. toPage[1].off = p
    <2> SUFFICES ASSUME p < toPage[1].off PROVE FALSE
        BY <1>5, <1>6
    <2>1. p \in p .. w[r] - 1
        BY <1>4, <1>5, <1>6, <1>7
    <2>2. PICK k \in DOMAIN toPage : IsData(k, r) /\ toPage[k].off <= p /\ p < Ends(k)
        BY <2>1 DEF Gapless
    <2>3. k > 1
        BY <1>1, <1>5, <1>6, <2>2
    <2>4. Ends(1) <= toPage[k].off
        BY <1>6, <2>2, <2>3 DEF Gapless
    <2> QED BY <1>5, <1>6, <1>7, <2>2, <2>4
<1>9. ASSUME NEW q \in Nat, q = Ends(1) PROVE Gapless(w, r, q)'
    <2>1. \A x \in q .. w[r] - 1 : \E k \in DOMAIN toPage' : IsData(k, r)' /\ toPage'[k].off <= x /\ x < Ends(k)'
        <3> SUFFICES ASSUME NEW x \in q .. w[r] - 1
                     PROVE  \E k \in DOMAIN toPage' : IsData(k, r)' /\ toPage'[k].off <= x /\ x < Ends(k)'
            OBVIOUS
        <3>1. PICK k \in DOMAIN toPage : IsData(k, r) /\ toPage[k].off <= x /\ x < Ends(k)
            BY <1>4, <1>5, <1>6, <1>7, <1>8, <1>9 DEF Gapless
        <3>2. k # 1
            BY <1>5, <1>6, <1>9, <3>1
        <3>3. k - 1 \in DOMAIN toPage' /\ (k - 1) + 1 = k
            BY <1>1, <3>1, <3>2
        <3>4. IsData(k - 1, r)' /\ toPage'[k - 1].off <= x /\ x < Ends(k - 1)'
            BY <1>1, <1>2, <1>3, <3>1, <3>3
        <3> QED BY <3>3, <3>4
    <2>2. \A k \in DOMAIN toPage' : IsData(k, r)' => q <= toPage'[k].off /\ toPage'[k].n > 0 /\ Ends(k)' <= w[r]
        <3> SUFFICES ASSUME NEW k \in DOMAIN toPage', IsData(k, r)'
                     PROVE  q <= toPage'[k].off /\ toPage'[k].n > 0 /\ Ends(k)' <= w[r]
            OBVIOUS
        <3>1. IsData(k + 1, r) /\ 1 < k + 1 /\ k + 1 \in DOMAIN toPage
            BY <1>1, <1>2
        <3> QED BY <1>1, <1>3, <1>6, <1>9, <3>1 DEF Gapless
    <2>3. \A k, m \in DOMAIN toPage' : IsData(k, r)' /\ IsData(m, r)' /\ k < m => Ends(k)' <= toPage'[m].off
        <3> SUFFICES ASSUME NEW k \in DOMAIN toPage', NEW m \in DOMAIN toPage', IsData(k, r)', IsData(m, r)', k < m
                     PROVE  Ends(k)' <= toPage'[m].off
            OBVIOUS
        <3>1. k + 1 < m + 1 /\ IsData(k + 1, r) /\ IsData(m + 1, r)
            BY <1>1, <1>2
        <3> QED BY <1>1, <1>3, <3>1 DEF Gapless
    <2> QED BY <1>6, <1>9, <2>1, <2>2, <2>3 DEF Gapless
<1>10. Ends(1) \in Offsets
    BY <1>4, <1>5, <1>6, StreamAssumption DEF Offsets
<1> QED BY <1>8, <1>9, <1>10


ViewKnown == StreamShape /\ AsksOK /\ OneSubscription /\ DownOK /\ RefsOK /\ ResumesOK /\ ScreenExact

\* Nothing is written to the page and nothing is taken.
LEMMA WireKept ==
    ASSUME NEW w, WireOK(w), UNCHANGED <<toPage, byRef, shown>> PROVE WireOK(w)'
<1>1. Answered' = Answered /\ \A k, r : (IsData(k, r)' <=> IsData(k, r)) /\ Ends(k)' = Ends(k)
    BY DEF Answered, IsData, Ends
<1>2. \A r, p : Gapless(w, r, p) => Gapless(w, r, p)'
    BY <1>1 DEF Gapless
<1> QED BY <1>1, <1>2 DEF WireOK

\* Nothing is asked or answered, and the page stays as it is.
LEMMA PageKept ==
    ASSUME ViewKnown, UNCHANGED <<up, toServer, toPage, mounted, stream, byRef, shown>>,
           UNCHANGED replaying \/ replaying' = Unset
    PROVE  AsksOK' /\ OneSubscription' /\ ResumesOK' /\ ScreenExact'
<1> USE DEF ViewKnown
<1>1. AsksOK'
    BY DEF AsksOK, SubscribeRequest, Leaving
<1>2. Answered' = Answered /\ (Asked' <=> Asked) /\ (Answering' => Answering)
    BY DEF Answered, Asked, Answering
<1>3. OneSubscription'
    BY <1>2 DEF OneSubscription
<1>4. ResumesOK'
    BY <1>2 DEF ResumesOK, Answering
<1>5. ScreenExact'
    BY DEF ScreenExact, ScreenContiguous, PositionExact
<1> QED BY <1>1, <1>3, <1>4, <1>5

LEMMA StartIsNat ==
    ASSUME StreamShape, NEW w \in Written, NEW r \in Refs
    PROVE  QueueStart(w, r) \in Nat /\ Len(queue[r]) \in Nat /\ DOMAIN queue[r] = 1..Len(queue[r])
<1>1. w[r] \in Nat
    BY OffsetsAreNat DEF Written
<1>2. replaying # Unset => replaying.to \in Nat
    BY OffsetsAreNat DEF StreamShape, Replays
<1> QED BY <1>1, <1>2 DEF QueueStart, StreamShape

LEMMA SessionOutputSafe ==
    ASSUME StreamShape, AsksOK, OneSubscription, DownOK, RefsOK, ResumesOK, ScreenExact,
           NEW w \in Written, ReplayOK(w), QueuesOK(w), WireOK(w),
           SessionOutput
    PROVE  ViewSafe'
<1>0. ViewKnown
    BY DEF ViewKnown
<1>1. /\ UNCHANGED <<cancelled, pumping, holding, byID, nextRef, replaying, up, toServer, toPage, mounted, stream, byRef, shown>>
      /\ registered' = registered \ Behind /\ hi' = hi + 1
    BY DEF SessionOutput, wireVars, pageVars
<1>2. \A r \in Refs : queue'[r] = IF r \in registered \ Behind THEN Append(queue[r], hi) ELSE queue[r]
    BY DEF SessionOutput, StreamShape
<1>3. hi \in Nat /\ hi' \in Offsets
    BY StreamAssumption, OffsetsAreNat DEF SessionOutput, StreamShape
<1>4. \A r \in registered \ Behind : Len(queue[r]) < QueueCap
    BY StreamAssumption DEF Behind, StreamShape
<1>5. \A r \in Refs : queue'[r] \in Seq(Nat) /\ Len(queue'[r]) <= QueueCap
    <2> SUFFICES ASSUME NEW r \in Refs PROVE queue'[r] \in Seq(Nat) /\ Len(queue'[r]) <= QueueCap
        OBVIOUS
    <2>1. queue[r] \in Seq(Nat) /\ Len(queue[r]) \in Nat /\ Len(queue[r]) <= QueueCap
        BY DEF StreamShape
    <2>2. Append(queue[r], hi) \in Seq(Nat) /\ Len(Append(queue[r], hi)) = Len(queue[r]) + 1
        BY <1>3, <2>1
    <2>3. CASE r \in registered \ Behind
        <3>1. queue'[r] = Append(queue[r], hi)
            BY <1>2, <2>3
        <3>2. Len(queue[r]) < QueueCap
            BY <1>4, <2>3
        <3>3. QueueCap \in Nat
            BY ViewLimits
        <3> QED BY <2>1, <2>2, <3>1, <3>2, <3>3
    <2>4. CASE r \notin registered \ Behind
        BY <1>2, <2>1, <2>4
    <2> QED BY <2>3, <2>4
<1>6. StreamShape'
    <2>1. queue' \in [Refs -> Seq(Nat)]
        BY <1>5 DEF SessionOutput
    <2>2. lo' \in Nat /\ lo' <= hi' /\ hi' - lo' <= Capacity
        BY <1>3, StreamAssumption DEF SessionOutput, StreamShape
    <2> QED BY <1>1, <1>3, <1>5, <2>1, <2>2 DEF StreamShape
<1>7. DownOK' /\ RefsOK'
    BY <1>1, <1>2 DEF DownOK, RefsOK
<1>8. ReplayOK(w)'
    BY <1>1 DEF ReplayOK
<1>9. QueuesOK(w)'
    <2> SUFFICES ASSUME NEW r \in Refs
                 PROVE  /\ \A i \in DOMAIN queue'[r] : queue'[r][i] = QueueStart(w, r) + i - 1
                        /\ QueueStart(w, r) + Len(queue'[r]) <= hi'
                        /\ r \in registered' => QueueStart(w, r) + Len(queue'[r]) = hi'
        BY <1>1 DEF QueuesOK, QueueStart, Frame
    <2>1. CASE r \in registered \ Behind
        <3>1. queue[r] \in Seq(Nat) /\ r \in registered
            BY <2>1 DEF StreamShape
        <3>2. /\ DOMAIN queue'[r] = 1..(Len(queue[r]) + 1) /\ Len(queue'[r]) = Len(queue[r]) + 1
              /\ \A i \in 1..Len(queue[r]) : queue'[r][i] = queue[r][i]
              /\ queue'[r][Len(queue[r]) + 1] = hi
            <4>1. queue'[r] = Append(queue[r], hi)
                BY <1>2, <2>1
            <4> QED BY <1>3, <3>1, <4>1
        <3>3. QueueStart(w, r) + Len(queue[r]) = hi /\ \A i \in DOMAIN queue[r] : queue[r][i] = QueueStart(w, r) + i - 1
            BY <3>1 DEF QueuesOK
        <3>4. QueueStart(w, r) \in Nat /\ Len(queue[r]) \in Nat /\ DOMAIN queue[r] = 1..Len(queue[r])
            BY StartIsNat
        <3>5. \A i \in DOMAIN queue'[r] : queue'[r][i] = QueueStart(w, r) + i - 1
            <4> SUFFICES ASSUME NEW i \in 1..(Len(queue[r]) + 1) PROVE queue'[r][i] = QueueStart(w, r) + i - 1
                BY <3>2
            <4>1. CASE i = Len(queue[r]) + 1
                BY <3>2, <3>3, <3>4, <4>1
            <4>2. CASE i \in 1..Len(queue[r])
                BY <3>2, <3>3, <3>4, <4>2
            <4> QED BY <3>4, <4>1, <4>2
        <3> QED BY <1>1, <1>3, <3>2, <3>3, <3>4, <3>5
    <2>2. CASE r \notin registered \ Behind
        BY <1>1, <1>2, <1>3, <2>2, StartIsNat DEF QueuesOK
    <2> QED BY <2>1, <2>2
<1>10. WireOK(w)'
    BY <1>1, WireKept
<1> QED BY <1>0, <1>1, <1>6, <1>7, <1>8, <1>9, <1>10, PageKept DEF ViewSafe, Flow

LEMMA PumpSafe ==
    ASSUME StreamShape, AsksOK, OneSubscription, DownOK, RefsOK, ResumesOK, ScreenExact,
           NEW w \in Written, ReplayOK(w), QueuesOK(w), WireOK(w),
           NEW r \in Refs, PumpTakes(r) \/ PumpCancelled(r) \/ PumpEnds(r)
    PROVE  ViewSafe'
<1>0. ViewKnown
    BY DEF ViewKnown
<1>1. CASE PumpTakes(r)
    <2> DEFINE f == Frame(r, Head(queue[r]), 1)
    <2>1. /\ UNCHANGED <<lo, hi, registered, cancelled, pumping, byID, nextRef, replaying, up, toServer, toPage,
                         mounted, stream, byRef, shown>>
          /\ r \in pumping /\ holding[r] = Unset /\ queue[r] # <<>>
          /\ holding' = [holding EXCEPT ![r] = f]
          /\ queue' = [queue EXCEPT ![r] = Tail(queue[r])]
        BY <1>1 DEF PumpTakes, ringVars, wireVars, pageVars, StreamShape
    <2>2. ~(replaying # Unset /\ replaying.ref = r)
        BY <2>1 DEF ReplayOK
    <2>3. /\ queue[r] \in Seq(Nat) /\ Head(queue[r]) = queue[r][1] /\ Len(queue[r]) \in Nat \ {0}
          /\ Tail(queue[r]) \in Seq(Nat) /\ Len(Tail(queue[r])) = Len(queue[r]) - 1
          /\ DOMAIN queue[r] = 1..Len(queue[r]) /\ DOMAIN Tail(queue[r]) = 1..(Len(queue[r]) - 1)
          /\ \A i \in DOMAIN Tail(queue[r]) : Tail(queue[r])[i] = queue[r][i + 1]
        BY <2>1 DEF StreamShape
    <2>4. w[r] \in Nat /\ QueueStart(w, r) = w[r] /\ Head(queue[r]) = w[r] /\ w[r] + 1 <= hi /\ hi <= MaxTotal
        <3>1. QueueStart(w, r) = w[r]
            BY <2>1, <2>2 DEF QueueStart
        <3>2. w[r] \in Nat /\ hi \in Nat /\ hi <= MaxTotal
            BY OffsetsAreNat, ViewLimits DEF Written, StreamShape, Offsets
        <3>3. queue[r][1] = QueueStart(w, r) + 1 - 1 /\ QueueStart(w, r) + Len(queue[r]) <= hi
            BY <2>3 DEF QueuesOK
        <3> QED BY <2>3, <3>1, <3>2, <3>3
    <2>5. f \in Frames /\ f # Unset
        <3>1. Head(queue[r]) \in Offsets /\ 1 \in Offsets
            BY <2>4, OffsetsAreNat, ViewLimits DEF StreamShape
        <3>2. f \in Frames
            BY <3>1 DEF Frame, Frames
        <3> QED BY <3>2, Unframed
    <2> HIDE DEF f
    <2>6. StreamShape'
        BY <2>1, <2>3, <2>5, StreamAssumption DEF StreamShape
    <2>7. DownOK' /\ RefsOK'
        BY <2>1 DEF DownOK, RefsOK, StreamShape
    <2>8. ReplayOK(w)'
        BY <2>1, <2>2 DEF ReplayOK, StreamShape, Replays
    <2>9. f = Frame(r, w[r], 1)
        BY <2>4 DEF f
    <2>10. \A q \in Refs : holding'[q] = (IF q = r THEN f ELSE holding[q])
                           /\ queue'[q] = IF q = r THEN Tail(queue[r]) ELSE queue[q]
        BY <2>1 DEF StreamShape
    <2>11. QueuesOK(w)'
        <3> SUFFICES ASSUME NEW q \in Refs
                     PROVE  /\ holding'[q] # Unset => holding'[q] = Frame(q, w[q], 1)
                            /\ \A i \in DOMAIN queue'[q] : queue'[q][i] = QueueStart(w, q)' + i - 1
                            /\ QueueStart(w, q)' + Len(queue'[q]) <= hi
                            /\ q \in registered => QueueStart(w, q)' + Len(queue'[q]) = hi
            BY <2>1 DEF QueuesOK, Frame
        <3>1. CASE q # r
            BY <2>1, <2>10, <3>1 DEF QueuesOK, QueueStart
        <3>2. CASE q = r
            <4>1. QueueStart(w, r)' = w[r] + 1
                BY <2>1, <2>2, <2>5, <2>10 DEF QueueStart
            <4>2. QueueStart(w, r) + Len(queue[r]) <= hi /\ (r \in registered => QueueStart(w, r) + Len(queue[r]) = hi)
                  /\ \A i \in DOMAIN queue[r] : queue[r][i] = QueueStart(w, r) + i - 1
                BY DEF QueuesOK
            <4>3. \A i \in DOMAIN queue'[r] : queue'[r][i] = queue[r][i + 1] /\ i + 1 \in DOMAIN queue[r] /\ i \in Nat
                <5>1. queue'[r] = Tail(queue[r])
                    BY <2>10
                <5> QED BY <2>3, <5>1
            <4>4. \A i \in DOMAIN queue'[r] : queue'[r][i] = QueueStart(w, r)' + i - 1
                <5> SUFFICES ASSUME NEW i \in DOMAIN queue'[r] PROVE queue'[r][i] = QueueStart(w, r)' + i - 1
                    OBVIOUS
                <5>1. queue'[r][i] = QueueStart(w, r) + (i + 1) - 1 /\ i \in Nat
                    BY <4>2, <4>3
                <5> QED BY <2>4, <4>1, <5>1
            <4>5. Len(queue'[r]) = Len(queue[r]) - 1
                BY <2>3, <2>10
            <4>6. holding'[r] = Frame(r, w[r], 1)
                BY <2>9, <2>10
            <4>7. QueueStart(w, q)' = w[q] + 1
                BY <2>1, <2>2, <2>5, <2>10, <3>2 DEF QueueStart
            <4>8. holding'[q] # Unset => holding'[q] = Frame(q, w[q], 1)
                BY <3>2, <4>6
            <4>9. \A i \in DOMAIN queue'[q] : queue'[q][i] = QueueStart(w, q)' + i - 1
                BY <3>2, <4>1, <4>4, <4>7
            <4>10. /\ QueueStart(w, q)' + Len(queue'[q]) <= hi
                   /\ q \in registered => QueueStart(w, q)' + Len(queue'[q]) = hi
                <5>1. hi \in Nat
                    BY OffsetsAreNat DEF StreamShape
                <5>2. Len(queue'[q]) = Len(queue[r]) - 1 /\ QueueStart(w, q)' = w[r] + 1
                    BY <3>2, <4>5, <4>7
                <5>3. w[r] + Len(queue[r]) <= hi /\ (q \in registered => w[r] + Len(queue[r]) = hi)
                    BY <2>4, <3>2, <4>2
                <5>4. Len(queue[r]) \in Nat /\ w[r] \in Nat
                    BY <2>3, <2>4
                <5> HIDE <3>2
                <5> QED BY <5>1, <5>2, <5>3, <5>4
            <4> QED BY <4>8, <4>9, <4>10
        <3> QED BY <3>1, <3>2
    <2> QED BY <1>0, <2>1, <2>6, <2>7, <2>8, <2>11, PageKept, WireKept DEF ViewSafe, Flow
<1>2. CASE PumpCancelled(r) \/ PumpEnds(r)
    <2>1. /\ UNCHANGED <<lo, hi, registered, queue, holding, nextRef, replaying, up, toServer, toPage,
                         mounted, stream, byRef, shown>>
          /\ pumping' = pumping \ {r} /\ r \in pumping /\ byID' \in {byID, Unset}
          /\ cancelled' \subseteq Refs
        BY <1>2 DEF PumpCancelled, PumpEnds, ringVars, wireVars, pageVars, StreamShape
    <2>2. StreamShape' /\ DownOK' /\ RefsOK'
        BY <2>1 DEF StreamShape, DownOK, RefsOK
    <2>3. ReplayOK(w)' /\ QueuesOK(w)'
        BY <2>1 DEF ReplayOK, QueuesOK, QueueStart, Frame
    <2> QED BY <1>0, <2>1, <2>2, <2>3, PageKept, WireKept DEF ViewSafe, Flow
<1> QED BY <1>1, <1>2


\* Bytes of one subscription are sent.
LEMMA DataSent ==
    ASSUME StreamShape, AsksOK, OneSubscription, RefsOK, ResumesOK, ScreenExact,
           NEW w \in Written, WireOK(w),
           NEW m \in Frames, m.kind = "data", m.off = w[m.ref], m.n > 0, m.ref <= nextRef,
           NEW u \in Written, u[m.ref] = w[m.ref] + m.n, \A r \in Refs \ {m.ref} : u[r] = w[r],
           toPage' = Append(toPage, m),
           UNCHANGED <<toServer, mounted, stream, byRef, shown>>, Answering' <=> Answering,
           Answering => UNCHANGED replaying
    PROVE  /\ WireOK(u)' /\ AsksOK' /\ OneSubscription' /\ ResumesOK' /\ ScreenExact'
           /\ toPage' \in Seq(Frames)
           /\ \A k \in DOMAIN toPage' : toPage'[k].ref # m.ref => k \in DOMAIN toPage /\ toPage'[k] = toPage[k]
<1>1. /\ DOMAIN toPage = 1..Len(toPage) /\ DOMAIN toPage' = 1..(Len(toPage) + 1) /\ Len(toPage) \in Nat
      /\ \A k \in DOMAIN toPage : toPage'[k] = toPage[k]
      /\ toPage'[Len(toPage) + 1] = m /\ toPage' \in Seq(Frames)
    BY DEF StreamShape
<1>2. Answered' = Answered
    BY <1>1 DEF Answered
<1>3. m.ref \in Refs
    BY FrameOffsets
<1>4. \A r \in Refs, p \in Nat : Gapless(w, r, p) => Gapless(u, r, p)'
    <2> SUFFICES ASSUME NEW r \in Refs, NEW p \in Nat, Gapless(w, r, p) PROVE Gapless(u, r, p)'
        OBVIOUS
    <2>1. CASE r = m.ref
        BY <2>1, GaplessGrows
    <2>2. CASE r # m.ref
        <3>1. Gapless(w, r, p)'
            BY <2>2, GaplessSent
        <3>2. u[r] = w[r]
            BY <2>2
        <3> QED BY <3>1, <3>2 DEF Gapless
    <2> QED BY <2>1, <2>2
<1>5. WireOK(u)'
    <2>1. \A r \in byRef : shown.next # Unset /\ Gapless(u, r, shown.next)'
        BY <1>4, OffsetsAreNat DEF WireOK, StreamShape
    <2>2. ASSUME NEW k \in Answered
          PROVE  /\ Gapless(u, toPage[k].ref, toPage[k].off)'
                 /\ \A l \in DOMAIN toPage' : IsData(l, toPage[k].ref)' => k < l
        <3>1. PICK r \in Refs, p \in Nat : r = toPage[k].ref /\ p = toPage[k].off /\ k \in DOMAIN toPage
            BY FrameOffsets DEF Answered, StreamShape
        <3>2. r = toPage'[k].ref /\ p = toPage'[k].off
            BY <1>1, <3>1
        <3>3. Gapless(u, r, p)'
            BY <1>4, <3>1 DEF WireOK
        <3>4. \A l \in DOMAIN toPage' : IsData(l, r)' => k < l
            BY <1>1, <3>1 DEF IsData, WireOK
        <3> QED BY <3>2, <3>3, <3>4
    <2>3. \A k \in Answered : toPage'[k] = toPage[k]
        BY <1>1 DEF Answered
    <2> QED BY <1>2, <2>1, <2>2, <2>3 DEF WireOK
<1>6. AsksOK' /\ ScreenExact'
    BY DEF AsksOK, SubscribeRequest, Leaving, ScreenExact, ScreenContiguous, PositionExact
<1>7. OneSubscription'
    BY <1>2 DEF OneSubscription, Asked
<1>8. ResumesOK'
    BY <1>1, <1>2 DEF ResumesOK, Answered, Answering
<1> QED BY <1>1, <1>5, <1>6, <1>7, <1>8

LEMMA PumpWritesSafe ==
    ASSUME StreamShape, AsksOK, OneSubscription, DownOK, RefsOK, ResumesOK, ScreenExact,
           NEW w \in Written, ReplayOK(w), QueuesOK(w), WireOK(w),
           NEW r \in Refs, PumpWrites(r)
    PROVE  ViewSafe'
<1>1. /\ UNCHANGED <<lo, hi, registered, cancelled, pumping, queue, byID, nextRef, replaying, up, toServer,
                     mounted, stream, byRef, shown>>
      /\ r \in pumping /\ holding[r] # Unset /\ up
      /\ holding' = [holding EXCEPT ![r] = Unset]
      /\ toPage' = Append(toPage, holding[r])
    BY DEF PumpWrites, ringVars, pageVars
<1>2. PICK m \in Frames : m = holding[r] /\ m = Frame(r, w[r], 1)
    BY <1>1 DEF StreamShape, QueuesOK
<1>3. m.kind = "data" /\ m.off = w[m.ref] /\ m.n = 1 /\ m.ref = r
    BY <1>2 DEF Frame
<1>4. ~(replaying # Unset /\ replaying.ref = r) /\ r <= nextRef
    <2>1. r \in Nat /\ nextRef \in Nat
        BY ViewLimits DEF Refs, StreamShape
    <2> QED BY <1>1, <2>1 DEF ReplayOK, RefsOK
<1>5. w[r] + 1 \in Offsets /\ w[r] \in Nat
    <2>1. w[r] \in Nat /\ hi \in Nat /\ hi <= MaxTotal
        BY OffsetsAreNat, ViewLimits DEF Written, StreamShape, Offsets
    <2>2. QueueStart(w, r) = w[r] + 1 /\ QueueStart(w, r) + Len(queue[r]) <= hi /\ Len(queue[r]) \in Nat
        BY <1>1, <1>4, StartIsNat DEF QueueStart, QueuesOK
    <2> QED BY <2>1, <2>2, OffsetsAreNat, ViewLimits
<1>6. PICK u \in Written : u = [w EXCEPT ![r] = w[r] + 1]
    BY <1>5 DEF Written
<1>7. u[r] = w[r] + 1 /\ \A q \in Refs \ {r} : u[q] = w[q]
    BY <1>6 DEF Written
<1>8. \A q \in Refs : holding'[q] = IF q = r THEN Unset ELSE holding[q]
    BY <1>1 DEF StreamShape
<1>9. /\ WireOK(u)' /\ AsksOK' /\ OneSubscription' /\ ResumesOK' /\ ScreenExact'
      /\ toPage' \in Seq(Frames)
      /\ \A k \in DOMAIN toPage' : toPage'[k].ref # r => k \in DOMAIN toPage /\ toPage'[k] = toPage[k]
    <2>1. Answering' <=> Answering
        BY <1>1 DEF Answering
    <2> QED BY <1>1, <1>2, <1>3, <1>4, <1>7, <2>1, DataSent
<1>10. StreamShape'
    BY <1>1, <1>8, <1>9 DEF StreamShape
<1>11. DownOK' /\ RefsOK'
    <2>1. \A q \in Refs : q > nextRef => q # r
        BY <1>1 DEF RefsOK
    <2> QED BY <1>1, <1>8, <1>9, <2>1 DEF DownOK, RefsOK
<1>12. ReplayOK(u)'
    BY <1>1, <1>4, <1>7, <1>8, <1>9 DEF ReplayOK, StreamShape, Replays
<1>13. \A q \in Refs : QueueStart(u, q)' = QueueStart(w, q)
    BY <1>1, <1>4, <1>7, <1>8 DEF QueueStart
<1>14. QueuesOK(u)'
    <2>1. \A q \in Refs : holding'[q] # Unset => holding'[q] = Frame(q, u[q], 1)
        BY <1>7, <1>8 DEF QueuesOK
    <2>2. \A q \in Refs : /\ \A i \in DOMAIN queue'[q] : queue'[q][i] = QueueStart(u, q)' + i - 1
                          /\ QueueStart(u, q)' + Len(queue'[q]) <= hi'
                          /\ q \in registered' => QueueStart(u, q)' + Len(queue'[q]) = hi'
        BY <1>1, <1>13 DEF QueuesOK
    <2> QED BY <2>1, <2>2 DEF QueuesOK, Frame
<1> QED BY <1>9, <1>10, <1>11, <1>12, <1>14 DEF ViewSafe, Flow

LEMMA ReplaySafe ==
    ASSUME StreamShape, AsksOK, OneSubscription, DownOK, RefsOK, ResumesOK, ScreenExact,
           NEW w \in Written, ReplayOK(w), QueuesOK(w), WireOK(w), Replay
    PROVE  ViewSafe'
<1>1. PICK p \in Replays : p = replaying
    BY DEF Replay, StreamShape
<1>2. /\ p.ref \in Refs /\ p.from \in Offsets /\ p.to \in Offsets /\ p.from \in Nat /\ p.to \in Nat
      /\ p.resumed \in BOOLEAN /\ p.confirmed
    BY <1>1, OffsetsAreNat DEF Replay, Replays
<1>3. PICK n \in Nat : n = Smaller(ReplayChunk, p.to - p.from) /\ n > 0
    BY <1>1, <1>2, ViewLimits DEF Replay, Smaller
<1>4. n <= p.to - p.from /\ p.from + n \in Offsets /\ p.to <= MaxTotal /\ n <= MaxTotal
    BY <1>2, <1>3, ViewLimits DEF Smaller, Offsets
<1> DEFINE m == Frame(p.ref, p.from, n)
<1>5. /\ UNCHANGED <<lo, hi, registered, cancelled, pumping, queue, holding, byID, nextRef, up, toServer,
                     mounted, stream, byRef, shown>>
      /\ up /\ replaying # Unset
      /\ toPage' = Append(toPage, m)
      /\ replaying' = [p EXCEPT !.from = p.from + n]
    BY <1>1, <1>3 DEF Replay, ringVars, pageVars
<1>6. replaying' \in Replays /\ replaying' # Unset /\ replaying'.ref = p.ref /\ replaying'.from = p.from + n
      /\ replaying'.to = p.to /\ replaying'.confirmed
    <2>1. replaying' \in Replays
        BY <1>1, <1>2, <1>4, <1>5 DEF Replays
    <2>2. replaying'.ref = p.ref /\ replaying'.from = p.from + n /\ replaying'.to = p.to /\ replaying'.confirmed
        BY <1>1, <1>2, <1>5 DEF Replays
    <2> QED BY <2>1, <2>2, Unframed
<1>7. /\ m \in Frames /\ m.kind = "data" /\ m.ref = p.ref /\ m.off = w[p.ref] /\ m.n = n
    <2>1. p.from = w[p.ref]
        BY <1>1, <1>5 DEF ReplayOK
    <2>2. n \in Offsets
        BY <1>4, OffsetsAreNat
    <2> QED BY <1>2, <2>1, <2>2 DEF Frame, Frames
<1> HIDE DEF m
<1>8. p.ref <= nextRef
    <2>1. p.ref \in Nat /\ nextRef \in Nat
        BY <1>2, ViewLimits DEF Refs, StreamShape
    <2> QED BY <1>1, <1>2, <1>5, <2>1 DEF RefsOK
<1>9. PICK u \in Written : u = [w EXCEPT ![p.ref] = p.from + n]
    BY <1>4 DEF Written
<1>10. u[p.ref] = w[p.ref] + n /\ u[p.ref] = p.from + n /\ \A q \in Refs \ {p.ref} : u[q] = w[q]
    <2>1. p.from = w[p.ref]
        BY <1>1, <1>5 DEF ReplayOK
    <2> QED BY <1>2, <1>9, <2>1 DEF Written
<1>11. ~Answering /\ ~Answering'
    BY <1>1, <1>2, <1>6 DEF Answering
<1>12. /\ WireOK(u)' /\ AsksOK' /\ OneSubscription' /\ ResumesOK' /\ ScreenExact'
       /\ toPage' \in Seq(Frames)
       /\ \A k \in DOMAIN toPage' : toPage'[k].ref # p.ref => k \in DOMAIN toPage /\ toPage'[k] = toPage[k]
    BY <1>3, <1>5, <1>7, <1>8, <1>10, <1>11, DataSent
<1>13. StreamShape'
    BY <1>5, <1>6, <1>12 DEF StreamShape
<1>14. DownOK' /\ RefsOK'
    <2>1. \A q \in Refs : q > nextRef => q # p.ref
        BY <1>1, <1>5 DEF RefsOK
    <2> QED BY <1>5, <1>6, <1>12, <2>1 DEF DownOK, RefsOK
<1>15. ReplayOK(u)'
    BY <1>1, <1>2, <1>3, <1>4, <1>5, <1>6, <1>10 DEF ReplayOK
<1>16. \A q \in Refs : QueueStart(u, q)' = QueueStart(w, q) /\ (holding[q] # Unset => u[q] = w[q])
    BY <1>1, <1>5, <1>6, <1>10 DEF QueueStart, ReplayOK
<1>17. QueuesOK(u)'
    BY <1>5, <1>16 DEF QueuesOK, Frame
<1> QED BY <1>12, <1>13, <1>14, <1>15, <1>17 DEF ViewSafe, Flow


\* What the reader finds first when the page has asked something.
LEMMA FirstAsked ==
    ASSUME AsksOK, toServer # <<>>
    PROVE  \/ /\ Head(toServer).kind = "subscribe" /\ mounted /\ Tail(toServer) = <<>>
              /\ Head(toServer).since = stream.position
           \/ /\ Head(toServer).kind = "unsubscribe" /\ ~mounted /\ Tail(toServer) = <<>>
           \/ /\ Head(toServer).kind = "unsubscribe" /\ mounted
              /\ Tail(toServer) = <<SubscribeRequest(stream)>>
<1>1. \A x : Head(<<x>>) = x /\ Tail(<<x>>) = <<>>
    OBVIOUS
<1>2. \A x, y : Head(<<x, y>>) = x /\ Tail(<<x, y>>) = <<y>>
    OBVIOUS
<1>3. CASE toServer = <<Leaving>> /\ ~mounted
    BY <1>1, <1>3 DEF Leaving
<1>4. CASE toServer = <<SubscribeRequest(stream)>> /\ mounted
    BY <1>1, <1>4 DEF SubscribeRequest
<1>5. CASE toServer = <<Leaving, SubscribeRequest(stream)>> /\ mounted
    BY <1>2, <1>5 DEF Leaving
<1> QED BY <1>3, <1>4, <1>5 DEF AsksOK

LEMMA SubscribeSafe ==
    ASSUME StreamShape, AsksOK, OneSubscription, DownOK, RefsOK, ResumesOK, ScreenExact,
           NEW w \in Written, ReplayOK(w), QueuesOK(w), WireOK(w), Subscribe
    PROVE  ViewSafe'
<1> DEFINE since == Head(toServer).since
<1>1. /\ UNCHANGED <<lo, hi, cancelled, pumping, queue, holding, up, toPage, mounted, stream, byRef, shown>>
      /\ toServer' = <<>> /\ replaying = Unset /\ up /\ toServer # <<>> /\ mounted
      /\ since = stream.position
    BY FirstAsked DEF Subscribe, Request, ringVars, pageVars
<1>2. Asked /\ stream.ref = Unset /\ byRef = {} /\ Answered = {}
    BY <1>1 DEF OneSubscription, Asked
<1>3. AsksOK' /\ ScreenExact' /\ Answered' = {} /\ ~Asked'
    BY <1>1, <1>2 DEF AsksOK, ScreenExact, ScreenContiguous, PositionExact, Answered, Asked
<1>4. OneSubscription'
    BY <1>1, <1>2, <1>3 DEF OneSubscription
<1>5. \A u : WireOK(u)'
    BY <1>1, <1>2, <1>3 DEF WireOK
<1>6. CASE byID # Unset
    <2>1. UNCHANGED <<nextRef, byID, registered, replaying>>
        BY <1>6 DEF Subscribe
    <2>2. StreamShape' /\ DownOK' /\ RefsOK'
        BY <1>1, <2>1 DEF StreamShape, DownOK, RefsOK
    <2>3. ReplayOK(w)' /\ QueuesOK(w)' /\ ResumesOK'
        BY <1>1, <1>3, <2>1 DEF ReplayOK, QueuesOK, QueueStart, Frame, ResumesOK, Answering
    <2> QED BY <1>3, <1>4, <1>5, <2>2, <2>3 DEF ViewSafe, Flow
<1>7. CASE byID = Unset
    <2>1. PICK r \in Refs, p \in Replays :
              /\ r = nextRef + 1 /\ nextRef' = r /\ byID' = r /\ registered' = registered \cup {r}
              /\ replaying' = p /\ p.ref = r /\ p.from = ReplayStart(since) /\ p.to = hi
              /\ p.resumed = Resumes(since) /\ p.confirmed = FALSE /\ p.from <= p.to
        <3>1. nextRef + 1 \in Refs
            BY <1>7, ViewLimits DEF Subscribe, StreamShape, Refs
        <3>2. lo \in Offsets /\ hi \in Offsets /\ lo <= hi
            BY OffsetsAreNat, ViewLimits DEF StreamShape, Offsets
        <3>3. ReplayStart(since) \in Offsets /\ ReplayStart(since) <= hi /\ Resumes(since) \in BOOLEAN
            BY <1>1, <3>2 DEF ReplayStart, Resumes, StreamShape
        <3>4. [ref |-> nextRef + 1, from |-> ReplayStart(since), to |-> hi, resumed |-> Resumes(since),
               confirmed |-> FALSE] \in Replays
            BY <3>1, <3>2, <3>3 DEF Replays
        <3> QED BY <1>7, <3>1, <3>3, <3>4 DEF Subscribe
    <2> HIDE DEF since
    <2>2. p # Unset /\ p.from \in Offsets
        BY Unframed DEF Replays
    <2>3. PICK u \in Written : u = [w EXCEPT ![r] = p.from]
        BY <2>2 DEF Written
    <2>4. u[r] = p.from /\ \A q \in Refs \ {r} : u[q] = w[q]
        BY <2>3 DEF Written
    <2>5. r \notin registered /\ r \notin pumping /\ queue[r] = <<>> /\ holding[r] = Unset
          /\ \A k \in DOMAIN toPage : toPage[k].ref # r
        <3>1. r > nextRef
            BY <2>1, ViewLimits DEF StreamShape, Refs
        <3> QED BY <3>1 DEF RefsOK
    <2>6. StreamShape'
        <3>1. nextRef' \in 0..MaxRef
            BY <2>1, ViewLimits DEF Refs
        <3> QED BY <1>1, <2>1, <3>1 DEF StreamShape
    <2>7. DownOK' /\ RefsOK'
        <3>1. \A q \in Refs : q > nextRef' => q > nextRef /\ q # r
            BY <2>1, ViewLimits DEF StreamShape, Refs
        <3> QED BY <1>1, <2>1, <3>1 DEF DownOK, RefsOK
    <2>8. ReplayOK(u)'
        BY <1>1, <2>1, <2>4, <2>5 DEF ReplayOK
    <2>9. QueuesOK(u)'
        <3> SUFFICES ASSUME NEW q \in Refs
                     PROVE  /\ holding[q] # Unset => holding[q] = Frame(q, u[q], 1)
                            /\ \A i \in DOMAIN queue[q] : queue[q][i] = QueueStart(u, q)' + i - 1
                            /\ QueueStart(u, q)' + Len(queue[q]) <= hi
                            /\ q \in registered' => QueueStart(u, q)' + Len(queue[q]) = hi
            BY <1>1 DEF QueuesOK, Frame
        <3>1. CASE q = r
            <4>1. QueueStart(u, q)' = hi
                BY <2>1, <2>2, <3>1 DEF QueueStart
            <4>2. hi \in Nat /\ holding[q] = Unset /\ Len(queue[q]) = 0 /\ DOMAIN queue[q] = {}
                BY <2>5, <3>1, OffsetsAreNat DEF StreamShape
            <4> QED BY <4>1, <4>2
        <3>2. CASE q # r
            <4>1. QueueStart(u, q)' = QueueStart(w, q) /\ u[q] = w[q]
                BY <1>1, <2>1, <2>4, <3>2 DEF QueueStart
            <4> QED BY <2>1, <3>2, <4>1 DEF QueuesOK
        <3> QED BY <3>1, <3>2
    <2>10. ResumesOK'
        <3>1. p.resumed => p.from = stream.position
            BY <1>1, <2>1 DEF ReplayStart, since
        <3> QED BY <1>1, <1>3, <2>1, <3>1 DEF ResumesOK, Answering
    <2> QED BY <1>3, <1>4, <1>5, <2>6, <2>7, <2>8, <2>9, <2>10 DEF ViewSafe, Flow
<1> QED BY <1>6, <1>7

LEMMA ConfirmSafe ==
    ASSUME StreamShape, AsksOK, OneSubscription, DownOK, RefsOK, ResumesOK, ScreenExact,
           NEW w \in Written, ReplayOK(w), QueuesOK(w), WireOK(w), Confirm
    PROVE  ViewSafe'
<1>1. PICK p \in Replays : p = replaying
    BY DEF Confirm, StreamShape
<1>2. /\ p.ref \in Refs /\ p.from \in Offsets /\ p.to \in Offsets
      /\ p.resumed \in BOOLEAN /\ ~p.confirmed /\ p # Unset /\ 0 \in Offsets
    BY <1>1, OffsetsAreNat, Unframed DEF Confirm, Replays
<1> DEFINE m == [kind |-> "subscribed", ref |-> p.ref, off |-> p.from, n |-> 0, resumed |-> p.resumed]
<1>3. /\ UNCHANGED <<lo, hi, registered, cancelled, pumping, queue, holding, byID, nextRef, up, toServer,
                     mounted, stream, byRef, shown>>
      /\ up /\ toPage' = Append(toPage, m) /\ replaying' = [p EXCEPT !.confirmed = TRUE]
    BY <1>1 DEF Confirm, ringVars, pageVars
<1>4. /\ m \in Frames /\ m.kind = "subscribed" /\ m.ref = p.ref /\ m.off = p.from /\ m.resumed = p.resumed
    BY <1>2 DEF Frames
<1>5. /\ replaying' \in Replays /\ replaying' # Unset /\ replaying'.ref = p.ref /\ replaying'.from = p.from
      /\ replaying'.to = p.to /\ replaying'.confirmed
    BY <1>1, <1>2, <1>3, Unframed DEF Replays
<1> HIDE DEF m
<1>6. /\ DOMAIN toPage = 1..Len(toPage) /\ DOMAIN toPage' = 1..(Len(toPage) + 1) /\ Len(toPage) \in Nat
      /\ \A k \in DOMAIN toPage : toPage'[k] = toPage[k]
      /\ toPage'[Len(toPage) + 1] = m /\ toPage' \in Seq(Frames)
    BY <1>3, <1>4 DEF StreamShape
<1>7. Answering /\ Answered = {} /\ mounted /\ stream.ref = Unset /\ toServer = <<>> /\ byRef = {}
    BY <1>1, <1>2 DEF OneSubscription, Answering
<1>8. \A k \in Answered' : k = Len(toPage) + 1 /\ toPage'[k] = m
    BY <1>6, <1>7 DEF Answered
<1>9. ~Answering' /\ ~Asked'
    BY <1>3, <1>5, <1>7 DEF Answering, Asked
<1>10. AsksOK' /\ ScreenExact'
    BY <1>3, <1>7 DEF AsksOK, ScreenExact, ScreenContiguous, PositionExact
<1>11. OneSubscription'
    BY <1>3, <1>7, <1>8, <1>9 DEF OneSubscription
<1>12. ResumesOK'
    BY <1>1, <1>3, <1>4, <1>7, <1>8, <1>9 DEF ResumesOK
<1>13. StreamShape'
    BY <1>3, <1>5, <1>6 DEF StreamShape
<1>14. DownOK' /\ RefsOK'
    <2>1. \A q \in Refs : q > nextRef => q # p.ref
        BY <1>1, <1>2 DEF RefsOK
    <2>2. \A k \in DOMAIN toPage' : toPage'[k].ref # p.ref => k \in DOMAIN toPage /\ toPage'[k] = toPage[k]
        BY <1>4, <1>6
    <2> QED BY <1>3, <1>5, <2>1, <2>2 DEF DownOK, RefsOK
<1>15. ReplayOK(w)' /\ QueuesOK(w)'
    BY <1>1, <1>2, <1>3, <1>5 DEF ReplayOK, QueuesOK, QueueStart, Frame
<1>16. WireOK(w)'
    <2>1. \A k \in DOMAIN toPage' : ~IsData(k, p.ref)'
        <3>1. \A k \in DOMAIN toPage : toPage[k].ref # p.ref
            BY <1>1, <1>2 DEF ReplayOK
        <3> QED BY <1>4, <1>6, <3>1 DEF IsData
    <2>2. w[p.ref] = p.from /\ p.from \in Nat
        BY <1>1, <1>2, OffsetsAreNat DEF ReplayOK
    <2>3. Gapless(w, p.ref, p.from)'
        BY <2>1, <2>2 DEF Gapless
    <2> QED BY <1>3, <1>4, <1>7, <1>8, <2>1, <2>3 DEF WireOK
<1> QED BY <1>10, <1>11, <1>12, <1>13, <1>14, <1>15, <1>16 DEF ViewSafe, Flow

LEMMA ReaderRestSafe ==
    ASSUME StreamShape, AsksOK, OneSubscription, DownOK, RefsOK, ResumesOK, ScreenExact,
           NEW w \in Written, ReplayOK(w), QueuesOK(w), WireOK(w), StartPump \/ Unsubscribe
    PROVE  ViewSafe'
<1>1. CASE StartPump
    <2>1. PICK p \in Replays : p = replaying /\ p # Unset
        BY <1>1 DEF StartPump, StreamShape
    <2>2. /\ UNCHANGED <<lo, hi, registered, cancelled, queue, holding, byID, nextRef, up, toServer, toPage,
                         mounted, stream, byRef, shown>>
          /\ up /\ pumping' = pumping \cup {p.ref} /\ replaying' = Unset /\ p.from = p.to /\ p.ref \in Refs
        BY <1>1, <2>1 DEF StartPump, ringVars, wireVars, pageVars, Replays
    <2>3. w[p.ref] = p.to /\ holding[p.ref] = Unset /\ \A q \in Refs : q > nextRef => q # p.ref
        BY <2>1, <2>2 DEF ReplayOK, RefsOK
    <2>4. StreamShape' /\ DownOK' /\ RefsOK'
        BY <2>2, <2>3 DEF StreamShape, DownOK, RefsOK
    <2>5. \A q \in Refs : QueueStart(w, q)' = QueueStart(w, q)
        BY <2>1, <2>2, <2>3 DEF QueueStart
    <2>6. ReplayOK(w)' /\ QueuesOK(w)'
        BY <2>2, <2>5 DEF ReplayOK, QueuesOK, Frame
    <2>7. ViewKnown
        BY DEF ViewKnown
    <2> QED BY <2>2, <2>4, <2>6, <2>7, PageKept, WireKept DEF ViewSafe, Flow
<1>2. CASE Unsubscribe
    <2>1. /\ UNCHANGED <<lo, hi, pumping, queue, holding, nextRef, replaying, up, toPage, mounted, stream, byRef, shown>>
          /\ toServer' = Tail(toServer) /\ up /\ toServer # <<>> /\ Head(toServer).kind = "unsubscribe"
          /\ registered' \subseteq registered /\ cancelled' \subseteq Refs /\ byID' \in Refs \cup {Unset}
        BY <1>2 DEF Unsubscribe, Request, ringVars, pageVars, StreamShape
    <2>2. toServer' = (IF mounted THEN <<SubscribeRequest(stream)>> ELSE <<>>)
        BY <2>1, FirstAsked
    <2>3. AsksOK' /\ (Asked' => Asked)
        BY <2>1, <2>2 DEF AsksOK, Asked, SubscribeRequest
    <2>4. Answered' = Answered /\ (Answering' <=> Answering)
        BY <2>1 DEF Answered, Answering
    <2>5. OneSubscription'
        BY <2>1, <2>3, <2>4 DEF OneSubscription
    <2>6. ResumesOK' /\ ScreenExact'
        BY <2>1, <2>4 DEF ResumesOK, Answering, ScreenExact, ScreenContiguous, PositionExact
    <2>7. StreamShape' /\ DownOK' /\ RefsOK'
        BY <2>1 DEF StreamShape, DownOK, RefsOK
    <2>8. ReplayOK(w)' /\ QueuesOK(w)'
        BY <2>1 DEF ReplayOK, QueuesOK, QueueStart, Frame
    <2> QED BY <2>1, <2>3, <2>5, <2>6, <2>7, <2>8, WireKept DEF ViewSafe, Flow
<1> QED BY <1>1, <1>2


\* Taking a message moves the others up.
LEMMA Taken ==
    ASSUME StreamShape, toPage # <<>>, toPage' = Tail(toPage)
    PROVE  /\ Head(toPage) = toPage[1] /\ 1 \in DOMAIN toPage /\ toPage[1] \in Frames
           /\ toPage' \in Seq(Frames)
           /\ \A k \in DOMAIN toPage' : k + 1 \in DOMAIN toPage /\ toPage'[k] = toPage[k + 1] /\ k + 1 > 1
           /\ \A k \in Answered' : k + 1 \in Answered
<1>1. /\ DOMAIN toPage = 1..Len(toPage) /\ DOMAIN toPage' = 1..(Len(toPage) - 1) /\ Len(toPage) \in Nat \ {0}
      /\ \A k \in DOMAIN toPage' : toPage'[k] = toPage[k + 1]
      /\ Head(toPage) = toPage[1] /\ toPage' \in Seq(Frames) /\ toPage[1] \in Frames
    BY DEF StreamShape
<1>2. \A k \in DOMAIN toPage' : k + 1 \in DOMAIN toPage /\ k + 1 > 1
    BY <1>1
<1> QED BY <1>1, <1>2 DEF Answered

LEMMA PageSubscribedSafe ==
    ASSUME StreamShape, AsksOK, OneSubscription, DownOK, RefsOK, ResumesOK, ScreenExact,
           NEW w \in Written, ReplayOK(w), QueuesOK(w), WireOK(w), PageSubscribed
    PROVE  ViewSafe'
<1>1. PICK m \in Frames : m = Head(toPage)
    BY DEF PageSubscribed, Arrives, StreamShape
<1>2. /\ up /\ toPage # <<>> /\ m.kind = "subscribed" /\ toPage' = Tail(toPage)
      /\ UNCHANGED <<lo, hi, registered, cancelled, pumping, queue, holding, byID, nextRef, replaying, up,
                     toServer, mounted>>
    BY <1>1 DEF PageSubscribed, Arrives, ringVars, serverVars
<1>3. /\ m = toPage[1] /\ 1 \in DOMAIN toPage /\ toPage' \in Seq(Frames)
      /\ \A k \in DOMAIN toPage' : k + 1 \in DOMAIN toPage /\ toPage'[k] = toPage[k + 1] /\ k + 1 > 1
      /\ \A k \in Answered' : k + 1 \in Answered
    BY <1>1, <1>2, Taken
<1>4. 1 \in Answered
    BY <1>2, <1>3 DEF Answered
<1>5. mounted /\ stream.ref = Unset /\ byRef = {} /\ toServer = <<>> /\ ~Answering /\ ~Asked
    BY <1>4 DEF OneSubscription
<1>6. Answered' = {}
    <2> SUFFICES ASSUME NEW k \in Answered' PROVE FALSE
        OBVIOUS
    <2>1. k \in DOMAIN toPage'
        BY DEF Answered
    <2>2. k + 1 = 1
        BY <1>3, <1>4 DEF OneSubscription
    <2> QED BY <1>3, <2>1, <2>2
<1>7. m.ref \in Refs /\ m.off \in Offsets /\ m.off \in Nat /\ m.ref # Unset /\ m.off # Unset
    <2>1. m.ref \in Refs /\ m.off \in Offsets
        BY DEF Frames
    <2>2. \A r \in Refs : r # Unset
        BY ViewLimits DEF Refs
    <2> QED BY <2>1, <2>2, OffsetsAreNat, ViewLimits
<1>8. /\ stream' = [ref |-> m.ref, position |-> m.off, confirmed |-> TRUE] /\ byRef' = {m.ref}
      /\ shown' = IF m.resumed /\ stream.position # Unset THEN shown ELSE [next |-> m.off, torn |-> FALSE]
    BY <1>1, <1>5 DEF PageSubscribed
<1>9. shown'.next = m.off /\ shown'.torn = FALSE
    <2>1. CASE m.resumed /\ stream.position # Unset
        BY <1>3, <1>4, <1>5, <1>8, <2>1 DEF ResumesOK, ScreenExact, ScreenContiguous, PositionExact, StreamShape
    <2>2. CASE ~(m.resumed /\ stream.position # Unset)
        BY <1>8, <2>2
    <2> QED BY <2>1, <2>2
<1>10. shown' \in [next : Offsets \cup {Unset}, torn : BOOLEAN]
    BY <1>7, <1>8 DEF StreamShape
<1>11. StreamShape'
    <2>1. stream' \in [ref : Refs \cup {Unset}, position : Offsets \cup {Unset}, confirmed : BOOLEAN]
        BY <1>7, <1>8
    <2> QED BY <1>2, <1>3, <1>7, <1>8, <1>10, <2>1 DEF StreamShape
<1>12. ~Answering' /\ ~Asked'
    BY <1>2, <1>5 DEF Answering, Asked
<1>13. AsksOK' /\ ScreenExact'
    BY <1>2, <1>5, <1>8, <1>9 DEF AsksOK, ScreenExact, ScreenContiguous, PositionExact
<1>14. OneSubscription'
    BY <1>2, <1>5, <1>6, <1>7, <1>8, <1>12 DEF OneSubscription
<1>15. ResumesOK'
    BY <1>6, <1>12 DEF ResumesOK
<1>16. DownOK' /\ RefsOK'
    BY <1>2, <1>3 DEF DownOK, RefsOK
<1>17. ReplayOK(w)'
    BY <1>2, <1>3 DEF ReplayOK
<1>18. QueuesOK(w)'
    BY <1>2 DEF QueuesOK, QueueStart, Frame
<1>19. WireOK(w)'
    <2>1. Gapless(w, m.ref, m.off) /\ ~IsData(1, m.ref)
        BY <1>2, <1>3, <1>4 DEF WireOK, IsData
    <2>2. Gapless(w, m.ref, m.off)'
        BY <1>2, <1>7, <2>1, GaplessTaken
    <2> QED BY <1>6, <1>7, <1>8, <1>9, <2>2 DEF WireOK
<1> QED BY <1>11, <1>13, <1>14, <1>15, <1>16, <1>17, <1>18, <1>19 DEF ViewSafe, Flow

LEMMA PageFrameSafe ==
    ASSUME StreamShape, AsksOK, OneSubscription, DownOK, RefsOK, ResumesOK, ScreenExact,
           NEW w \in Written, ReplayOK(w), QueuesOK(w), WireOK(w), PageFrame
    PROVE  ViewSafe'
<1>1. PICK m \in Frames : m = Head(toPage)
    BY DEF PageFrame, Arrives, StreamShape
<1>2. /\ up /\ toPage # <<>> /\ m.kind = "data" /\ toPage' = Tail(toPage)
      /\ UNCHANGED <<lo, hi, registered, cancelled, pumping, queue, holding, byID, nextRef, replaying, up,
                     toServer, mounted, byRef>>
    BY <1>1 DEF PageFrame, Arrives, ringVars, serverVars
<1>3. /\ m = toPage[1] /\ 1 \in DOMAIN toPage /\ toPage' \in Seq(Frames)
      /\ \A k \in DOMAIN toPage' : k + 1 \in DOMAIN toPage /\ toPage'[k] = toPage[k + 1] /\ k + 1 > 1
      /\ \A k \in Answered' : k + 1 \in Answered
    BY <1>1, <1>2, Taken
<1>4. /\ m.ref \in Refs /\ m.off \in Nat /\ m.n \in Nat /\ IsData(1, m.ref) /\ Ends(1) = m.off + m.n
    BY <1>2, <1>3, FrameOffsets DEF IsData, Ends
<1>5. DownOK' /\ RefsOK'
    BY <1>2, <1>3 DEF DownOK, RefsOK
<1>6. ReplayOK(w)'
    BY <1>2, <1>3 DEF ReplayOK
<1>7. QueuesOK(w)'
    BY <1>2 DEF QueuesOK, QueueStart, Frame
<1>8. CASE mounted /\ m.ref \in byRef
    <2>1. stream.ref # Unset /\ byRef = {m.ref} /\ stream.position # Unset
        BY <1>8 DEF OneSubscription
    <2>2. ~Asked /\ ~Answering /\ Answered = {}
        BY <2>1 DEF OneSubscription
    <2>3. shown.next # Unset /\ Gapless(w, m.ref, shown.next) /\ shown.next \in Nat
        BY <1>8, OffsetsAreNat DEF WireOK, StreamShape
    <2>4. m.off = shown.next /\ m.off + m.n \in Offsets /\ \A q \in Nat : q = m.off + m.n => Gapless(w, m.ref, q)'
        BY <1>2, <1>3, <1>4, <2>3, GaplessShrinks
    <2>5. /\ stream' = [stream EXCEPT !.position = stream.position + m.n]
          /\ shown' = [next |-> m.off + m.n, torn |-> shown.torn \/ m.off # shown.next]
        BY <1>1, <1>8 DEF PageFrame
    <2>6. stream.position = m.off /\ ~shown.torn
        BY <1>8, <2>1, <2>4 DEF ScreenExact, ScreenContiguous, PositionExact
    <2>7. /\ stream'.ref = stream.ref /\ stream'.position = m.off + m.n
          /\ stream' \in [ref : Refs \cup {Unset}, position : Offsets \cup {Unset}, confirmed : BOOLEAN]
        BY <2>4, <2>5, <2>6 DEF StreamShape
    <2>8. shown'.next = m.off + m.n /\ shown'.torn = FALSE /\ shown' \in [next : Offsets \cup {Unset}, torn : BOOLEAN]
        BY <2>4, <2>5, <2>6 DEF StreamShape
    <2>9. m.off + m.n # Unset /\ m.off + m.n \in Nat
        BY <1>4, ViewLimits
    <2>10. Answered' = {} /\ ~Asked' /\ ~Answering'
        BY <1>2, <1>3, <2>2 DEF Asked, Answering
    <2>11. StreamShape'
        BY <1>2, <1>3, <2>7, <2>8 DEF StreamShape
    <2>12. AsksOK' /\ ScreenExact'
        BY <1>2, <1>8, <2>2, <2>7, <2>8 DEF AsksOK, Asked, ScreenExact, ScreenContiguous, PositionExact
    <2>13. OneSubscription'
        BY <1>2, <1>8, <2>1, <2>7, <2>9, <2>10 DEF OneSubscription
    <2>14. ResumesOK'
        BY <2>10 DEF ResumesOK
    <2>15. WireOK(w)'
        BY <1>2, <2>1, <2>4, <2>8, <2>9, <2>10 DEF WireOK
    <2> QED BY <1>5, <1>6, <1>7, <2>11, <2>12, <2>13, <2>14, <2>15 DEF ViewSafe, Flow
<1>9. CASE ~(mounted /\ m.ref \in byRef)
    <2>1. UNCHANGED <<stream, shown>>
        BY <1>1, <1>9 DEF PageFrame
    <2>2. m.ref \notin byRef
        BY <1>9 DEF OneSubscription, NewStream
    <2>3. (Asked' <=> Asked) /\ (Answering' <=> Answering)
        BY <1>2 DEF Asked, Answering
    <2>4. StreamShape'
        BY <1>2, <1>3, <2>1 DEF StreamShape
    <2>5. AsksOK' /\ ScreenExact'
        BY <1>2, <2>1 DEF AsksOK, SubscribeRequest, Leaving, ScreenExact, ScreenContiguous, PositionExact
    <2>6. \A k \in Answered' : k \in DOMAIN toPage' /\ k \in Nat
        BY <1>3 DEF Answered
    <2>7. OneSubscription'
        <3>1. Answered = {} => Answered' = {}
            BY <1>3
        <3>2. \A k, l \in Answered' : k = l
            BY <1>3, <2>6 DEF OneSubscription
        <3> QED BY <1>2, <2>1, <2>3, <3>1, <3>2 DEF OneSubscription
    <2>8. ResumesOK'
        BY <1>2, <1>3, <2>1, <2>3, <2>6 DEF ResumesOK
    <2>9. \A r \in byRef : Gapless(w, r, shown.next)'
        <3> SUFFICES ASSUME NEW r \in byRef PROVE Gapless(w, r, shown.next)'
            OBVIOUS
        <3>1. r \in Refs /\ ~IsData(1, r) /\ shown.next \in Nat /\ Gapless(w, r, shown.next)
            BY <1>3, <2>2, OffsetsAreNat DEF WireOK, IsData, StreamShape
        <3>2. PICK p \in Nat : p = shown.next
            BY <3>1
        <3>3. Gapless(w, r, p)'
            BY <1>2, <3>1, <3>2, GaplessTaken
        <3> QED BY <2>1, <3>2, <3>3
    <2>10. ASSUME NEW k \in Answered'
           PROVE  /\ Gapless(w, toPage[k].ref, toPage[k].off)'
                  /\ \A l \in DOMAIN toPage' : IsData(l, toPage[k].ref)' => k < l
        <3>1. k + 1 \in Answered /\ k + 1 \in DOMAIN toPage /\ toPage'[k] = toPage[k + 1] /\ k \in Nat /\ k > 0
            BY <1>3, <2>6
        <3>2. PICK r \in Refs, p \in Nat : r = toPage[k + 1].ref /\ p = toPage[k + 1].off
            BY <3>1, FrameOffsets DEF StreamShape
        <3>3. Gapless(w, r, p) /\ \A l \in DOMAIN toPage : IsData(l, r) => k + 1 < l
            BY <3>1, <3>2 DEF WireOK
        <3>4. ~IsData(1, r)
            BY <1>3, <3>1, <3>3
        <3>5. Gapless(w, r, p)'
            BY <1>2, <3>3, <3>4, GaplessTaken
        <3>6. \A l \in DOMAIN toPage' : IsData(l, r)' => IsData(l + 1, r) /\ l \in Nat
            BY <1>3 DEF IsData
        <3>7. \A l \in DOMAIN toPage' : IsData(l, r)' => k < l
            BY <1>3, <3>1, <3>3, <3>6
        <3>8. r = toPage'[k].ref /\ p = toPage'[k].off
            BY <3>1, <3>2
        <3> QED BY <3>5, <3>7, <3>8
    <2>11. WireOK(w)'
        BY <1>2, <2>1, <2>9, <2>10 DEF WireOK
    <2> QED BY <1>5, <1>6, <1>7, <2>4, <2>5, <2>7, <2>8, <2>11 DEF ViewSafe, Flow
<1> QED BY <1>8, <1>9


\* The page mounts, lets go, and connects again.
LEMMA MountSafe ==
    ASSUME ~RemountEarly,
           StreamShape, AsksOK, OneSubscription, DownOK, RefsOK, ResumesOK, ScreenExact,
           NEW w \in Written, ReplayOK(w), QueuesOK(w), WireOK(w), Mount \/ Unmount \/ Reconnect
    PROVE  ViewSafe'
<1>1. /\ UNCHANGED <<lo, hi, registered, cancelled, pumping, queue, holding, byID, nextRef, replaying, toPage>>
      /\ up' = up \/ (~up /\ up' = TRUE)
    BY DEF Mount, Unmount, Reconnect, ringVars, serverVars, pageVars
<1>2. RefsOK' /\ ReplayOK(w)' /\ QueuesOK(w)' /\ Answered' = Answered /\ (Answering' <=> Answering)
    BY <1>1 DEF RefsOK, ReplayOK, QueuesOK, QueueStart, Frame, Answered, Answering
<1>3. CASE Mount
    <2>1. /\ UNCHANGED <<up, byRef>> /\ ~mounted /\ mounted' = TRUE /\ stream' = NewStream /\ shown' = Blank
          /\ toServer' = IF up THEN Append(toServer, SubscribeRequest(NewStream)) ELSE toServer
        BY <1>3 DEF Mount
    <2>2. stream = NewStream /\ shown = Blank /\ byRef = {} /\ ~Answering /\ Answered = {}
        BY <2>1 DEF OneSubscription, NewStream
    <2>3. toServer = <<>> \/ toServer = <<Leaving>>
        BY <2>1 DEF AsksOK
    <2>4. \A x, y : Append(<<>>, x) = <<x>> /\ Append(<<y>>, x) = <<y, x>>
        <3> SUFFICES ASSUME NEW x, NEW y PROVE Append(<<>>, x) = <<x>> /\ Append(<<y>>, x) = <<y, x>>
            OBVIOUS
        <3>1. <<>> \in Seq({x, y}) /\ <<y>> \in Seq({x, y}) /\ Len(<<>>) = 0 /\ Len(<<y>>) = 1
            OBVIOUS
        <3>2. Append(<<>>, x) = <<x>>
            BY <3>1
        <3>3. Append(<<y>>, x) = <<y, x>>
            <4>1. /\ Append(<<y>>, x) \in Seq({x, y}) /\ Len(Append(<<y>>, x)) = 2
                  /\ Append(<<y>>, x)[1] = y /\ Append(<<y>>, x)[2] = x
                BY <3>1, AppendProperties
            <4>2. <<y, x>> \in Seq({x, y}) /\ Len(<<y, x>>) = 2 /\ <<y, x>>[1] = y /\ <<y, x>>[2] = x
                OBVIOUS
            <4>3. \A i \in 1..2 : Append(<<y>>, x)[i] = <<y, x>>[i]
                BY <4>1, <4>2
            <4> QED BY <4>1, <4>2, <4>3, SeqEqual
        <3> QED BY <3>2, <3>3
    <2>5. AsksOK'
        <3>1. CASE up
            <4>1. toServer' = <<SubscribeRequest(NewStream)>> \/ toServer' = <<Leaving, SubscribeRequest(NewStream)>>
                BY <2>1, <2>3, <2>4, <3>1
            <4> QED BY <2>1, <4>1 DEF AsksOK, SubscribeRequest, Leaving
        <3>2. CASE ~up
            BY <2>1, <3>2 DEF AsksOK, DownOK
        <3> QED BY <3>1, <3>2 DEF StreamShape
    <2>6. OneSubscription' /\ ResumesOK' /\ ScreenExact'
        BY <1>1, <1>2, <2>1, <2>2
           DEF OneSubscription, NewStream, Blank, ResumesOK, ScreenExact, ScreenContiguous, PositionExact
    <2>7. StreamShape' /\ DownOK'
        BY <1>1, <2>1, <2>2 DEF StreamShape, DownOK
    <2>8. WireOK(w)'
        BY <1>2, <2>1, <2>2 DEF WireOK
    <2> QED BY <1>2, <2>5, <2>6, <2>7, <2>8 DEF ViewSafe, Flow
<1>4. CASE Unmount
    <2>1. /\ UNCHANGED up /\ mounted /\ mounted' = FALSE /\ stream' = NewStream /\ shown' = Blank /\ byRef' = {}
          /\ toServer' = IF up THEN Append(toServer, Leaving) ELSE toServer
          /\ stream.ref # Unset \/ ~up
        BY <1>4 DEF Unmount, Leaving
    <2>2. toServer = <<>> /\ ~Answering /\ Answered = {}
        BY <2>1 DEF OneSubscription, Asked, DownOK, Answering, Answered
    <2>3. toServer' = <<>> \/ toServer' = <<Leaving>>
        BY <2>1, <2>2
    <2>4. AsksOK' /\ ~Asked'
        BY <2>1, <2>3 DEF AsksOK, Asked, Leaving
    <2>5. OneSubscription' /\ ResumesOK' /\ ScreenExact'
        BY <1>1, <1>2, <2>1, <2>2, <2>4
           DEF OneSubscription, NewStream, Blank, ResumesOK, ScreenExact, ScreenContiguous, PositionExact
    <2>6. StreamShape' /\ DownOK'
        BY <1>1, <2>1, <2>2 DEF StreamShape, DownOK, NewStream, Blank
    <2>7. WireOK(w)'
        BY <1>2, <2>1, <2>2 DEF WireOK
    <2> QED BY <1>2, <2>4, <2>5, <2>6, <2>7 DEF ViewSafe, Flow
<1>5. CASE Reconnect
    <2>1. /\ ~up /\ up' = TRUE /\ UNCHANGED <<mounted, stream, byRef, shown>>
          /\ toServer' = IF mounted THEN <<SubscribeRequest(stream)>> ELSE <<>>
        BY <1>5 DEF Reconnect, pageVars
    <2>2. ~Answering /\ Answered = {} /\ byRef = {} /\ stream.ref = Unset
        BY <2>1 DEF DownOK, OneSubscription, Answering, Answered
    <2>3. AsksOK' /\ ScreenExact'
        BY <2>1 DEF AsksOK, SubscribeRequest, ScreenExact, ScreenContiguous, PositionExact
    <2>4. OneSubscription' /\ ResumesOK'
        BY <1>2, <2>1, <2>2 DEF OneSubscription, ResumesOK, Asked
    <2>5. StreamShape' /\ DownOK'
        BY <1>1, <2>1 DEF StreamShape, DownOK
    <2>6. WireOK(w)'
        BY <1>2, <2>1, <2>2 DEF WireOK
    <2> QED BY <1>2, <2>3, <2>4, <2>5, <2>6 DEF ViewSafe, Flow
<1> QED BY <1>3, <1>4, <1>5

LEMMA DisconnectSafe ==
    ASSUME StreamShape, AsksOK, OneSubscription, DownOK, RefsOK, ResumesOK, ScreenExact,
           NEW w \in Written, ReplayOK(w), QueuesOK(w), WireOK(w), Disconnect
    PROVE  ViewSafe'
<1>1. /\ UNCHANGED <<lo, hi, mounted, shown>> /\ up' = FALSE /\ toServer' = <<>> /\ toPage' = <<>>
      /\ registered' = {} /\ cancelled' = {} /\ pumping' = {} /\ byID' = Unset /\ nextRef' = 0 /\ replaying' = Unset
      /\ byRef' = {} /\ stream' = [stream EXCEPT !.ref = Unset]
      /\ queue' = [r \in Refs |-> <<>>] /\ holding' = [r \in Refs |-> Unset]
    BY DEF Disconnect, NoConnection, ringVars
<1>2. Answered' = {} /\ ~Answering' /\ ~Asked'
    BY <1>1 DEF Answered, Answering, Asked
<1>3. /\ stream'.ref = Unset /\ stream'.position = stream.position
      /\ stream' \in [ref : Refs \cup {Unset}, position : Offsets \cup {Unset}, confirmed : BOOLEAN]
      /\ stream = NewStream => stream' = NewStream
    <2>1. stream'.ref = Unset /\ stream'.position = stream.position /\ stream'.confirmed = stream.confirmed
        BY <1>1 DEF StreamShape
    <2>2. stream' \in [ref : Refs \cup {Unset}, position : Offsets \cup {Unset}, confirmed : BOOLEAN]
        BY <1>1 DEF StreamShape
    <2>3. stream = NewStream => stream' = NewStream
        <3>1. stream' = [ref |-> stream'.ref, position |-> stream'.position, confirmed |-> stream'.confirmed]
            BY <2>2
        <3>2. stream = NewStream => stream.position = Unset /\ stream.confirmed = FALSE
            BY DEF NewStream
        <3>3. stream = NewStream => stream' = [ref |-> Unset, position |-> Unset, confirmed |-> FALSE]
            BY <2>1, <3>1, <3>2
        <3> QED BY <3>3 DEF NewStream
    <2> QED BY <2>1, <2>2, <2>3
<1>4. StreamShape'
    <2>1. queue' \in [Refs -> Seq(Nat)] /\ (\A r \in Refs : Len(queue'[r]) = 0)
        BY <1>1
    <2>2. holding' \in [Refs -> Frames \cup {Unset}] /\ toPage' \in Seq(Frames)
        BY <1>1
    <2>3. /\ lo' \in Nat /\ hi' \in Offsets /\ lo' <= hi' /\ hi' - lo' <= Capacity /\ up' \in BOOLEAN
          /\ mounted' \in BOOLEAN /\ shown' \in [next : Offsets \cup {Unset}, torn : BOOLEAN]
        BY <1>1 DEF StreamShape
    <2>4. nextRef' \in 0..MaxRef /\ \A r \in Refs : Len(queue'[r]) <= QueueCap
        BY <1>1, <2>1, ViewLimits
    <2> QED BY <1>1, <1>3, <2>1, <2>2, <2>3, <2>4 DEF StreamShape
<1>5. AsksOK' /\ ScreenExact'
    BY <1>1, <1>3 DEF AsksOK, ScreenExact, ScreenContiguous, PositionExact
<1>6. OneSubscription' /\ ResumesOK' /\ DownOK' /\ RefsOK'
    BY <1>1, <1>2, <1>3 DEF OneSubscription, ResumesOK, DownOK, RefsOK
<1>7. PICK u \in Written : u = [r \in Refs |-> 0]
    BY OffsetsAreNat DEF Written
<1>8. ReplayOK(u)' /\ WireOK(u)'
    BY <1>1, <1>2 DEF ReplayOK, WireOK
<1>9. QueuesOK(u)'
    <2>1. \A r \in Refs : QueueStart(u, r)' = 0 /\ queue'[r] = <<>> /\ holding'[r] = Unset
        BY <1>1, <1>7 DEF QueueStart
    <2>2. hi' \in Nat
        BY <1>1, OffsetsAreNat DEF StreamShape
    <2> QED BY <1>1, <2>1, <2>2 DEF QueuesOK
<1> QED BY <1>4, <1>5, <1>6, <1>8, <1>9 DEF ViewSafe, Flow

LEMMA ViewInitial == ViewerInit => ViewSafe
<1> SUFFICES ASSUME ViewerInit PROVE ViewSafe
    OBVIOUS
<1> USE DEF ViewerInit
<1>1. StreamShape
    <2>1. queue \in [Refs -> Seq(Nat)] /\ \A r \in Refs : Len(queue[r]) = 0
        OBVIOUS
    <2>2. stream \in [ref : Refs \cup {Unset}, position : Offsets \cup {Unset}, confirmed : BOOLEAN]
          /\ shown \in [next : Offsets \cup {Unset}, torn : BOOLEAN]
        BY DEF NewStream, Blank
    <2>3. holding \in [Refs -> Frames \cup {Unset}] /\ toPage \in Seq(Frames) /\ lo \in Nat /\ hi \in Offsets
        BY OffsetsAreNat
    <2>4. \A r \in Refs : Len(queue[r]) <= QueueCap
        BY <2>1, ViewLimits
    <2>5. lo <= hi /\ hi - lo <= Capacity /\ nextRef \in 0..MaxRef
        BY ViewLimits
    <2> QED BY <2>1, <2>2, <2>3, <2>4, <2>5 DEF StreamShape
<1>2. Answered = {} /\ ~Answering /\ ~Asked
    BY DEF Answered, Answering, Asked
<1>3. AsksOK /\ OneSubscription /\ DownOK /\ RefsOK /\ ResumesOK /\ ScreenExact
    BY <1>2 DEF AsksOK, OneSubscription, DownOK, RefsOK, ResumesOK, ScreenExact, ScreenContiguous, PositionExact,
                NewStream, Blank
<1>4. PICK u \in Written : u = [r \in Refs |-> 0]
    BY OffsetsAreNat DEF Written
<1>5. ReplayOK(u) /\ WireOK(u)
    BY <1>2 DEF ReplayOK, WireOK
<1>6. QueuesOK(u)
    <2>1. \A r \in Refs : QueueStart(u, r) = 0 /\ queue[r] = <<>> /\ holding[r] = Unset
        BY <1>4 DEF QueueStart
    <2> QED BY <2>1 DEF QueuesOK
<1> QED BY <1>1, <1>3, <1>5, <1>6 DEF ViewSafe, Flow

LEMMA ViewStep ==
    ASSUME ~RemountEarly, ViewSafe, [ViewerNext]_viewerVars PROVE ViewSafe'
<1>1. StreamShape /\ AsksOK /\ OneSubscription /\ DownOK /\ RefsOK /\ ResumesOK /\ ScreenExact
    BY DEF ViewSafe
<1>2. PICK w \in Written : ReplayOK(w) /\ QueuesOK(w) /\ WireOK(w)
    BY DEF ViewSafe, Flow
<1>3. CASE SessionOutput
    BY <1>1, <1>2, <1>3, SessionOutputSafe
<1>4. CASE ReaderStep
    BY <1>1, <1>2, <1>4, SubscribeSafe, ConfirmSafe, ReplaySafe, ReaderRestSafe DEF ReaderStep
<1>5. ASSUME NEW r \in Refs, PumpStep(r) PROVE ViewSafe'
    BY <1>1, <1>2, <1>5, PumpSafe, PumpWritesSafe DEF PumpStep
<1>6. CASE PageStep
    BY <1>1, <1>2, <1>6, PageSubscribedSafe, PageFrameSafe DEF PageStep
<1>7. CASE Mount \/ Unmount \/ Reconnect
    BY <1>1, <1>2, <1>7, MountSafe
<1>8. CASE Disconnect
    BY <1>1, <1>2, <1>8, DisconnectSafe
<1>9. CASE UNCHANGED viewerVars
    <2>1. /\ UNCHANGED <<lo, hi, registered, cancelled, pumping, queue, holding, byID, nextRef, replaying, up>>
          /\ UNCHANGED <<toServer, toPage, mounted, stream, byRef, shown>>
        BY <1>9 DEF viewerVars, ringVars, serverVars, wireVars, pageVars
    <2>2. StreamShape' /\ DownOK' /\ RefsOK' /\ ReplayOK(w)' /\ QueuesOK(w)'
        BY <1>1, <1>2, <2>1 DEF StreamShape, DownOK, RefsOK, ReplayOK, QueuesOK, QueueStart, Frame
    <2>3. WireOK(w)'
        BY <1>2, <2>1, WireKept
    <2>4. AsksOK' /\ OneSubscription' /\ ResumesOK' /\ ScreenExact'
        BY <1>1, <2>1, PageKept DEF ViewKnown
    <2> QED BY <2>2, <2>3, <2>4 DEF ViewSafe, Flow
<1> QED BY <1>3, <1>4, <1>5, <1>6, <1>7, <1>8, <1>9 DEF ViewerNext

LEMMA ViewTyped == ViewSafe => ViewerTypeOK
<1> SUFFICES ASSUME StreamShape PROVE ViewerTypeOK
    BY DEF ViewSafe
<1> QED BY ViewLimits DEF StreamShape, ViewerTypeOK, Offsets

LEMMA ViewInvariant ==
    ASSUME ~RemountEarly PROVE ViewerSpec => []ViewSafe
<1>1. ViewSafe /\ [ViewerNext]_viewerVars => ViewSafe'
    BY ViewStep
<1> QED BY <1>1, ViewInitial, PTL DEF ViewerSpec, Safety

(* What a terminal shows is the session's output, no byte repeated, left   *)
(* out or out of place, and the page knows how far it is, across replays,  *)
(* resumes, slow viewers that are dropped, and connections that are lost,  *)
(* for a page that lets go of confirmed subscriptions alone (manager.go,   *)
(* conn.go, socket.ts).                                                    *)
THEOREM ScreenExactCorrect ==
    ASSUME ~RemountEarly PROVE ViewerSpec => []ScreenExact
<1>1. ViewSafe => ScreenExact
    BY DEF ViewSafe
<1> QED BY <1>1, ViewInvariant, PTL

\* The types of the stream, the queues and the frames (conn.go).
THEOREM ViewerTypeCorrect ==
    ASSUME ~RemountEarly PROVE ViewerSpec => []ViewerTypeOK
BY ViewTyped, ViewInvariant, PTL


-----------------------------------------------------------------------------
(* What the detector, the handlers and the poller hold is of its type.     *)

LEMMA DetectorData ==
    /\ Nothing \notin States /\ "working" \in States /\ "waiting" \in States /\ "done" \in States
    /\ Main \in Agents /\ 0 \in Times
BY ReportsAssumption DEF States, Nothing, Agents, Times

LEMMA NewTyped == NewTracker \in Trackers(Agents, Times)
BY DetectorData DEF NewTracker, Trackers

LEMMA ObserveTyped ==
    ASSUME NEW t \in Trackers(Agents, Times), NEW signals, NEW at \in Times
    PROVE  Observe(t, signals, at) \in Trackers(Agents, Times)
BY DEF Observe, Trackers

LEMMA KeysTyped ==
    ASSUME NEW t \in Trackers(Agents, Times), NEW at \in Times
    PROVE  Input(t, at) \in Trackers(Agents, Times) /\ Key(t, at) \in Trackers(Agents, Times)
BY DEF Input, Key, Trackers

LEMMA HookTyped ==
    ASSUME NEW t \in Trackers(Agents, Times), NEW r \in Reports, NEW at \in Times
    PROVE  Hook(t, r, at) \in Trackers(Agents, Times)
<1>1. CASE ~HookTaken(t, r, at)
    BY <1>1 DEF Hook
<1>2. CASE HookTaken(t, r, at)
    <2>1. r.state \in States /\ r.legacy \in BOOLEAN /\ r.agent \in Agents /\ r.answerable \in BOOLEAN
        BY <1>2 DEF HookTaken, Reports
    <2>2. (r.state = "waiting" /\ (r.answerable \/ (SamePrompt(t, r) /\ t.hookAnswerable))) \in BOOLEAN
        OBVIOUS
    <2> QED BY <1>2, <2>1, <2>2, DetectorData DEF Hook, Trackers
<1> QED BY <1>1, <1>2

LEMMA DropTyped ==
    ASSUME NEW t \in Trackers(Agents, Times), NEW at \in Times
    PROVE  DropManualBefore(t, at) \in Trackers(Agents, Times)
BY DetectorData DEF DropManualBefore, Trackers

LEMMA InterruptedTyped ==
    ASSUME NEW t \in Trackers(Agents, Times), NEW at \in Times
    PROVE  Interrupted(t, at) \in Trackers(Agents, Times)
<1>1. [t EXCEPT !.hookState = "done", !.hookAt = at, !.hookLegacy = FALSE, !.hookAgent = Main,
                !.hookAnswerable = FALSE] \in Trackers(Agents, Times)
    BY DetectorData DEF Trackers
<1> QED BY <1>1, DropTyped DEF Interrupted

LEMMA ReportLogTyped ==
    ASSUME NEW t \in Trackers(Agents, Times), NEW st \in States, NEW at \in Times
    PROVE  ReportLog(t, st, at) \in Trackers(Agents, Times)
<1>1. [t EXCEPT !.logState = st, !.logAt = at] \in Trackers(Agents, Times)
    BY DEF Trackers
<1> QED BY <1>1, DropTyped DEF ReportLog

LEMMA SetManualTyped ==
    ASSUME NEW t \in Trackers(Agents, Times), NEW st \in States, NEW at \in Times
    PROVE  SetManual(t, st, at) \in Trackers(Agents, Times)
BY DEF SetManual, Trackers

LEMMA RestoreTyped ==
    ASSUME NEW t \in Trackers(Agents, Times), NEW st \in States, NEW src \in Sources, NEW at \in Times
    PROVE  Restore(t, st, src, at) \in Trackers(Agents, Times)
<1>1. CASE at = 0
    BY <1>1 DEF Restore, Sources
<1>2. CASE at # 0 /\ src = "hook"
    BY <1>2 DEF Restore, Trackers
<1>3. CASE at # 0 /\ src = "manual"
    BY <1>3 DEF Restore, Trackers
<1>4. CASE at # 0 /\ src = "heuristic"
    BY <1>4 DEF Restore, Trackers
<1> QED BY <1>1, <1>2, <1>3, <1>4 DEF Sources

LEMMA MarkNotifyTyped ==
    ASSUME NEW t \in Trackers(Agents, Times)
    PROVE  MarkNotify(t) \in Trackers(Agents, Times)
BY DEF MarkNotify, Trackers

LEMMA EvaluateTyped ==
    ASSUME NEW t \in Trackers(Agents, Times), NEW dead \in BOOLEAN, NEW shell \in BOOLEAN
    PROVE  Evaluate(t, dead, shell) \in [state : States, source : Sources]
<1>1. \A st \in States, src \in Sources : Judged(st, src) \in [state : States, source : Sources]
    BY DEF Judged
<1>2. /\ t.manualState \in States \cup {Nothing} /\ t.logState \in States \cup {Nothing}
      /\ t.hookState \in States \cup {Nothing}
    BY DEF Trackers
<1>3. {"hook", "manual", "heuristic"} \subseteq Sources
    BY DEF Sources
<1> QED BY <1>1, <1>2, <1>3, DetectorData DEF Evaluate, ManualStands, LogStands, HookStands

LEMMA ReportsData ==
    /\ Nothing \notin Agents /\ Main \in Agents /\ Subagents \subseteq Agents
    /\ MaxTime \in Nat /\ 1 \in Times /\ 0 \in Times
    /\ \A c \in Calls : /\ c.pc = "read" => c \in [pc : {"read"}, report : Reports,
                              received : Times, sent : Times, prev : States]
                        /\ c.pc = "taken" => c \in [pc : {"taken"}, state : States,
                              source : Sources, prev : States]
    /\ \A p \in Polls : /\ p.pc = "listed" => p \in [pc : {"listed"}, state : States,
                              source : Sources, pane : Programs]
                        /\ p.pc = "judged" => p \in [pc : {"judged"}, prev : States,
                              state : States, source : Sources]
    /\ Resting \in Calls /\ Resting \in Polls
<1>1. Nothing \notin Agents /\ Main \in Agents /\ Subagents \subseteq Agents
    BY ReportsAssumption DEF Agents, Nothing, Main
<1>2. MaxTime \in Nat /\ 1 \in Times /\ 0 \in Times
    BY ReportsAssumption DEF Times
<1>3. ASSUME NEW c \in Calls
      PROVE  /\ c.pc = "read" => c \in [pc : {"read"}, report : Reports,
                              received : Times, sent : Times, prev : States]
             /\ c.pc = "taken" => c \in [pc : {"taken"}, state : States,
                              source : Sources, prev : States]
    BY <1>3 DEF Calls, Resting
<1>4. ASSUME NEW p \in Polls
      PROVE  /\ p.pc = "listed" => p \in [pc : {"listed"}, state : States,
                              source : Sources, pane : Programs]
             /\ p.pc = "judged" => p \in [pc : {"judged"}, prev : States,
                              state : States, source : Sources]
    BY <1>4 DEF Polls, Resting
<1>5. Resting \in Calls /\ Resting \in Polls
    BY DEF Calls, Polls
<1> QED BY <1>1, <1>2, <1>3, <1>4, <1>5

LEMMA ReportsInitial == ReportsInit => ReportsTypeOK
<1> SUFFICES ASSUME ReportsInit PROVE ReportsTypeOK
    OBVIOUS
<1>1. track \in Trackers(Agents, Times)
    <2>1. NewTracker \in Trackers(Agents, Times)
        BY NewTyped, ReportsData
    <2>2. [NewTracker EXCEPT !.hookState = "working", !.hookAt = 1] \in Trackers(Agents, Times)
        BY <2>1, ReportsData, DetectorData DEF Trackers
    <2> QED BY <2>1, <2>2 DEF ReportsInit
<1>2. row \in [state : States, source : Sources, changedAt : Times]
    BY ReportsData, DetectorData DEF ReportsInit, Sources
<1>3. call \in [Handlers -> Calls] /\ poll \in Polls
    BY ReportsData DEF ReportsInit
<1>4. rollout \in [state : States, at : Times] /\ click \in [state : States \cup {Nothing}, at : Times]
    BY ReportsData, DetectorData DEF ReportsInit, NoClick
<1>5. events \in 0..MaxEvents
    BY ReportsAssumption DEF ReportsInit
<1> QED BY <1>1, <1>2, <1>3, <1>4, <1>5, ReportsData, DetectorData
        DEF ReportsInit, ReportsTypeOK, Programs

\* What an agent sends is a document of one of its hooks.
LEMMA SendTyped ==
    ASSUME mail \subseteq Documents, clock \in Times, NEW es \in SUBSET Events, NEW a \in Agents,
           Send(es, a)
    PROVE  mail' \subseteq Documents
BY DEF Send, Documents

LEMMA HappensTyped ==
    ASSUME events \in 0..MaxEvents, Happens
    PROVE  events' \in 0..MaxEvents
BY ReportsAssumption DEF Happens

Dialogs == {NoPrompt} \cup [who : Agents, kind : {"menu", "questions"}, since : Times,
                            heard : BOOLEAN, news : BOOLEAN]

\* What the panel has heard of a dialog can only be said of one that is there.
LEMMA DialogTyped ==
    ASSUME NEW p \in Dialogs, NEW heard \in BOOLEAN, NEW news \in BOOLEAN,
           p.who = Nothing => ~heard /\ ~news
    PROVE  /\ [p EXCEPT !.heard = heard, !.news = news] \in Dialogs
           /\ news = p.news => [p EXCEPT !.heard = heard] \in Dialogs
<1>1. CASE p = NoPrompt
    <2>1. heard = FALSE /\ news = FALSE
        BY <1>1 DEF NoPrompt
    <2> DEFINE Nobody == [who : {Nothing}, kind : {Nothing}, since : {0}, heard : BOOLEAN,
                          news : BOOLEAN]
    <2>2. p \in Nobody
        BY <1>1 DEF NoPrompt
    <2>3. PICK q \in Nobody : q = [p EXCEPT !.heard = heard, !.news = news]
        BY <2>2
    <2>4. PICK r \in Nobody : r = [p EXCEPT !.heard = heard]
        BY <2>2
    <2>5. q.heard = FALSE /\ q.news = FALSE
        BY <2>1, <2>2, <2>3
    <2>6. news = p.news => r.heard = FALSE /\ r.news = FALSE
        BY <2>1, <2>2, <2>4
    <2>7. \A x \in Nobody : ~x.heard /\ ~x.news => x = NoPrompt
        BY DEF NoPrompt
    <2> QED BY <2>3, <2>4, <2>5, <2>6, <2>7 DEF Dialogs
<1>2. CASE p # NoPrompt
    BY <1>2 DEF Dialogs
<1> QED BY <1>1, <1>2

\* And a prompt that is not there has not been heard of.
LEMMA UnheardTyped ==
    ASSUME prompt \in Dialogs
    PROVE  /\ prompt.heard \in BOOLEAN /\ prompt.news \in BOOLEAN
           /\ prompt.who = Nothing => ~prompt.heard /\ ~prompt.news
<1>1. CASE prompt = NoPrompt
    BY <1>1 DEF NoPrompt
<1>2. CASE prompt # NoPrompt
    BY <1>2, ReportsData DEF Dialogs
<1> QED BY <1>1, <1>2

-----------------------------------------------------------------------------
LEMMA SessionTyped ==
    ASSUME ReportsTypeOK, Session
    PROVE  ReportsTypeOK'
<1> USE DetectorData, ReportsData, HappensTyped DEF ReportsTypeOK, panelVars
<1>1. ASSUME NEW a \in Agents, Works(a)
      PROVE  ReportsTypeOK'
    <2>1. mail' \subseteq Documents
        BY <1>1, SendTyped, {"tool"} \in SUBSET Events DEF Works, Events
    <2> QED BY <1>1, <2>1 DEF Works
<1>2. ASSUME NEW a \in Agents, NEW kind \in {"menu", "questions"}, Asks(a, kind)
      PROVE  ReportsTypeOK'
    <2>1. mail' \subseteq Documents
        BY <1>2, SendTyped, {"tool", "permission"} \in SUBSET Events,
           {"ask", "askRequest"} \in SUBSET Events DEF Asks, Events
    <2>2. prompt' \in [who : Agents, kind : {"menu", "questions"}, since : Times,
                       heard : BOOLEAN, news : BOOLEAN]
        BY <1>2 DEF Asks
    <2> QED BY <1>2, <2>1, <2>2 DEF Asks
<1>3. CASE Announces
    <2>1. prompt.who \in Agents
        BY <1>3 DEF Announces, NoPrompt
    <2>2. mail' \subseteq Documents
        BY <1>3, <2>1, SendTyped, {"announce"} \in SUBSET Events DEF Announces, Events
    <2> QED BY <1>3, <2>2 DEF Announces
<1>4. ASSUME NEW e \in {"stop", "stopWithAgents", "idle"}, Stops(e)
      PROVE  ReportsTypeOK'
    <2>1. mail' \subseteq Documents
        BY <1>4, SendTyped, {e} \in SUBSET Events DEF Stops, Events
    <2> QED BY <1>4, <2>1 DEF Stops
<1>5. CASE CodexStops
    <2>1. mail' \subseteq Documents
        BY <1>5, SendTyped, {"notify"} \in SUBSET Events DEF CodexStops, Events
    <2> QED BY <1>5, <2>1 DEF CodexStops
<1>6. ASSUME NEW st \in States, CodexLogs(st)
      PROVE  ReportsTypeOK'
    BY <1>6 DEF CodexLogs
<1>7. ASSUME NEW to \in {"shell", "dead"}, Exits(to)
      PROVE  ReportsTypeOK'
    BY <1>7 DEF Exits, Programs
<1>8. ASSUME NEW signals \in {{"advanced"}, {"bell"}}, Signals(signals)
      PROVE  ReportsTypeOK'
    <2>1. track' \in Trackers(Agents, Times)
        BY <1>8, ObserveTyped DEF Signals
    <2>2. click' \in [state : States \cup {Nothing}, at : Times]
        BY <1>8 DEF Signals, NoClick
    <2> QED BY <1>8, <2>1, <2>2 DEF Signals
<1> QED BY <1>1, <1>2, <1>3, <1>4, <1>5, <1>6, <1>7, <1>8 DEF Session

LEMMA PersonTyped ==
    ASSUME ReportsTypeOK, Person
    PROVE  ReportsTypeOK'
<1> USE DetectorData, ReportsData, HappensTyped DEF ReportsTypeOK, panelVars
<1>1. ASSUME NEW line \in BOOLEAN, Presses(line)
      PROVE  ReportsTypeOK'
    <2>1. track' \in Trackers(Agents, Times)
        BY <1>1, KeysTyped DEF Presses
    <2>2. prompt' \in {NoPrompt, prompt}
        BY <1>1 DEF Presses
    <2> QED BY <1>1, <2>1, <2>2 DEF Presses
<1>2. CASE Submits
    <2>1. track' \in Trackers(Agents, Times)
        BY <1>2, KeysTyped DEF Submits
    <2>2. mail' \subseteq Documents
        BY <1>2, SendTyped, {"tool"} \in SUBSET Events DEF Submits, Events
    <2> QED BY <1>2, <2>1, <2>2 DEF Submits
<1>3. CASE Escapes
    BY <1>3 DEF Escapes
<1>4. ASSUME NEW h \in Handlers, NEW st \in States, Clicks(h, st)
      PROVE  ReportsTypeOK'
    <2>1. track' \in Trackers(Agents, Times)
        BY <1>4, SetManualTyped DEF Clicks
    <2>2. call' \in [Handlers -> Calls]
        BY <1>4 DEF Clicks, Calls, Sources
    <2>3. prompt' \in Dialogs
        BY <1>4, UnheardTyped, DialogTyped DEF Clicks, Dialogs
    <2>4. click' \in [state : States \cup {Nothing}, at : Times]
        BY <1>4 DEF Clicks
    <2> QED BY <1>4, <2>1, <2>2, <2>3, <2>4 DEF Clicks, Dialogs
<1> QED BY <1>1, <1>2, <1>3, <1>4 DEF Person

LEMMA HookCallsTyped ==
    ASSUME ReportsTypeOK, HookCalls
    PROVE  ReportsTypeOK'
<1> USE DetectorData, ReportsData, HappensTyped DEF ReportsTypeOK, panelVars
<1>1. ASSUME NEW h \in Handlers, NEW d \in mail, HookArrives(h, d)
      PROVE  ReportsTypeOK'
    <2>1. d \in Documents
        OBVIOUS
    <2>2. ReadState(d.event) \in States \cup {Nothing} /\ d.agent \in Agents /\ d.sent \in Times
        BY <2>1 DEF Documents, ReadState, Reported, States
    <2>3. Report(d) \in Reports
        BY <2>2 DEF Report, Reports, ReadAnswerable
    <2>4. latest' \in {Nothing, "prompt", "questions", "other"}
        BY <1>1 DEF HookArrives, Recorded
    <2>5. call' \in [Handlers -> Calls]
        <3>1. CASE call' = call
            BY <3>1
        <3>2. CASE call' # call
            <4>1. call' = [call EXCEPT ![h] = [pc |-> "read", report |-> Report(d),
                              received |-> clock, sent |-> d.sent, prev |-> row.state]]
                BY <1>1, <3>2 DEF HookArrives
            <4> HIDE DEF ReportsTypeOK
            <4>2. clock \in Times /\ row.state \in States /\ call \in [Handlers -> Calls]
                BY DEF ReportsTypeOK
            <4>3. [pc |-> "read", report |-> Report(d), received |-> clock, sent |-> d.sent,
                   prev |-> row.state] \in Calls
                BY <2>2, <2>3, <4>2 DEF Calls
            <4> QED BY <4>1, <4>2, <4>3
        <3> QED BY <3>1, <3>2
    <2> QED BY <1>1, <2>4, <2>5 DEF HookArrives
<1>2. ASSUME NEW d \in mail, HookLost(d)
      PROVE  ReportsTypeOK'
    BY <1>2 DEF HookLost
<1>3. ASSUME NEW h \in Handlers, HookDecides(h)
      PROVE  ReportsTypeOK'
    <2>1. call[h] \in [pc : {"read"}, report : Reports, received : Times, sent : Times,
                       prev : States]
        BY <1>3 DEF HookDecides
    <2>2. call[h].report \in Reports /\ call[h].received \in Times /\ call[h].prev \in States
        BY <2>1
    <2>3. track' \in Trackers(Agents, Times)
        BY <1>3, <2>2, HookTyped DEF HookDecides
    <2>4. CASE HookTaken(track, call[h].report, call[h].received)
        <3>1. call[h].report.state \in States /\ call[h].report.agent \in Agents
            BY <2>2, <2>4 DEF HookTaken, Reports
        <3>2. call' \in [Handlers -> Calls]
            BY <1>3, <2>2, <2>4, <3>1 DEF HookDecides, Calls, Sources
        <3>3. prompt.who = Nothing => ~Announced(call[h])
            BY <3>1 DEF Announced
        <3>4. PICK heard \in BOOLEAN, news \in BOOLEAN :
                  /\ heard = (prompt.heard \/ Announced(call[h]))
                  /\ news = (prompt.news \/ (Announced(call[h]) /\ track.hookState # "waiting"))
            OBVIOUS
        <3>5. prompt' = [prompt EXCEPT !.heard = heard, !.news = news]
            BY <1>3, <2>4, <3>4 DEF HookDecides
        <3>6. prompt' \in Dialogs
            <4>1. prompt \in Dialogs
                BY DEF Dialogs
            <4> HIDE DEF ReportsTypeOK
            <4>2. prompt.who = Nothing => ~heard /\ ~news
                BY <3>3, <3>4, <4>1, UnheardTyped
            <4> QED BY <3>5, <4>1, <4>2, DialogTyped
        <3>7. click' \in [state : States \cup {Nothing}, at : Times]
            BY <1>3, <2>4 DEF HookDecides, NoClick
        <3> QED BY <1>3, <2>3, <3>2, <3>6, <3>7 DEF HookDecides, Dialogs
    <2>5. CASE ~HookTaken(track, call[h].report, call[h].received)
        BY <1>3, <2>3, <2>5 DEF HookDecides
    <2> QED BY <2>4, <2>5
<1>4. ASSUME NEW h \in Handlers, Writes(h)
      PROVE  ReportsTypeOK'
    <2>1. call[h] \in [pc : {"taken"}, state : States, source : Sources, prev : States]
        BY <1>4 DEF Writes
    <2>2. row' \in [state : States, source : Sources, changedAt : Times] /\ told' \in States
        BY <1>4, <2>1 DEF Writes, StoredState, Told
    <2> QED BY <1>4, <2>2 DEF Writes
<1>5. ASSUME NEW h \in Handlers, WriteFails(h)
      PROVE  ReportsTypeOK'
    BY <1>5 DEF WriteFails
<1> QED BY <1>1, <1>2, <1>3, <1>4, <1>5 DEF HookCalls, Handles

LEMMA PollerTyped ==
    ASSUME ReportsTypeOK, Poller
    PROVE  ReportsTypeOK'
<1> USE DetectorData, ReportsData, HappensTyped DEF ReportsTypeOK, panelVars
<1>1. CASE PollLists
    BY <1>1 DEF PollLists, Polls
<1>2. CASE PollJudges
    <2>1. poll \in [pc : {"listed"}, state : States, source : Sources, pane : Programs]
        BY <1>2 DEF PollJudges
    <2>2. rollout.state \in States /\ rollout.at \in Times
        OBVIOUS
    <2>3. WithLog \in Trackers(Agents, Times)
        BY <2>2, ReportLogTyped DEF WithLog
    <2>4. WithInterrupt \in Trackers(Agents, Times)
        BY <2>3, InterruptedTyped DEF WithInterrupt
    <2>5. PICK judged \in [state : States, source : Sources] :
              judged = Evaluate(WithInterrupt, poll.pane = "dead", poll.pane = "shell")
        BY <2>4, EvaluateTyped
    <2>6. poll' \in Polls
        BY <1>2, <2>1, <2>5 DEF PollJudges, Polls
    <2>7. click' \in [state : States \cup {Nothing}, at : Times]
        BY <1>2 DEF PollJudges, NoClick
    <2> QED BY <1>2, <2>4, <2>6, <2>7 DEF PollJudges
<1>3. CASE PollWrites
    <2>1. poll \in [pc : {"judged"}, prev : States, state : States, source : Sources]
        BY <1>3 DEF PollWrites
    <2>2. row' \in [state : States, source : Sources, changedAt : Times] /\ told' \in States
        BY <1>3, <2>1 DEF PollWrites, StoredState, Told
    <2> QED BY <1>3, <2>2 DEF PollWrites
<1>4. CASE PollFails
    BY <1>4 DEF PollFails
<1> QED BY <1>1, <1>2, <1>3, <1>4 DEF Poller, PollStep

LEMMA RestartsTyped ==
    ASSUME ReportsTypeOK, Restarts
    PROVE  ReportsTypeOK'
<1> USE DetectorData, ReportsData, HappensTyped DEF ReportsTypeOK
<1>1. row.state \in States /\ row.source \in Sources /\ row.changedAt \in Times
    OBVIOUS
<1>2. PICK restored \in Trackers(Agents, Times) :
          restored = Restore(NewTracker, row.state, row.source, row.changedAt)
    BY <1>1, NewTyped, RestoreTyped
<1>3. track' \in Trackers(Agents, Times)
    BY <1>2, MarkNotifyTyped DEF Restarts
<1>4. prompt' \in Dialogs
    <2>1. /\ prompt.heard \in BOOLEAN /\ prompt.news \in BOOLEAN
          /\ prompt.who = Nothing => ~prompt.heard /\ ~prompt.news
        BY UnheardTyped DEF Dialogs
    <2>2. PICK heard \in BOOLEAN :
              heard = (prompt.heard /\ row.state = "waiting" /\ row.source = "hook" /\ ~Predates)
        BY <2>1
    <2>3. prompt' = [prompt EXCEPT !.heard = heard]
        BY <2>2 DEF Restarts
    <2> QED BY <2>1, <2>2, <2>3, DialogTyped DEF Dialogs
<1>5. call' \in [Handlers -> Calls] /\ poll' \in Polls
    BY DEF Restarts
<1>6. click' \in [state : States \cup {Nothing}, at : Times]
    BY DEF Restarts, NoClick
<1> QED BY <1>3, <1>4, <1>5, <1>6 DEF Restarts, Dialogs

LEMMA TickTyped ==
    ASSUME ReportsTypeOK, Tick
    PROVE  ReportsTypeOK'
<1>1. clock' \in Times
    BY ReportsData DEF ReportsTypeOK, Tick, Times
<1> QED BY <1>1 DEF ReportsTypeOK, Tick

LEMMA ReportsStep ==
    ASSUME ReportsTypeOK, ReportsNext
    PROVE  ReportsTypeOK'
BY SessionTyped, PersonTyped, HookCallsTyped, PollerTyped, RestartsTyped, TickTyped DEF ReportsNext

LEMMA ReportsStays ==
    ASSUME ReportsTypeOK, UNCHANGED reportsVars
    PROVE  ReportsTypeOK'
BY DEF reportsVars, ReportsTypeOK

\* ReportsTypeOK of the specification: whatever order the hooks, the handlers,
\* the poller, the clicks and the restarts come in, the tracker, the row and
\* what is told of it hold one of the three states or nothing, a source the
\* store knows, and a time that has been.
THEOREM ReportsTypeCorrect == ReportsSpec => []ReportsTypeOK
<1>1. ReportsTypeOK /\ [ReportsNext]_reportsVars => ReportsTypeOK'
    BY ReportsStep, ReportsStays
<1> QED BY <1>1, ReportsInitial, PTL DEF ReportsSpec

-----------------------------------------------------------------------------
(* What the row is to say.  A click stands because whatever takes it from  *)
(* the tracker is newer than it is.  A prompt of the main thread stands    *)
(* because of what can be on its way while it is on the screen (OnTheWay): *)
(* reports of this very dialog, tools the main thread ran before it, which *)
(* come too soon after the report to be taken for an answer, and tools of  *)
(* subagents, which answer nothing of another agent's.                     *)

\* Times have been, and a report is carried for MaxDelay at most.
PastOK ==
    /\ clock >= 1 /\ 1 <= row.changedAt /\ row.changedAt <= clock /\ prompt.since <= clock
    /\ track.lastAdvance <= clock /\ track.lastBell <= clock /\ track.lastKey <= clock
    /\ \A d \in mail : d.sent <= clock /\ clock <= d.sent + MaxDelay
    /\ \A h \in Handlers : call[h].pc = "read" =>
           /\ call[h].received = clock
           /\ call[h].sent <= clock /\ clock <= call[h].sent + MaxDelay

\* A click that nothing has happened to since is what the tracker holds.
ClickOK ==
    click # NoClick /\ pane # "dead" =>
        /\ click.state \in States /\ 1 <= click.at /\ click.at <= clock
        /\ track.manualState = click.state /\ track.manualAt = click.at
        /\ track.lastAdvance <= click.at
        /\ pane = "shell" \/ track.lastBell <= click.at

\* Nothing of Codex comes near a session of Claude's.
ClaudeOK ==
    pane = "claude" =>
        /\ track.logState = Nothing /\ ~track.hookLegacy
        /\ poll.pc = "listed" => poll.pane # "codex"
        /\ \A d \in mail : d.event # "notify"
        /\ \A h \in Handlers : call[h].pc = "read" => ~call[h].report.legacy

\* The main thread asks in a turn, and a turn begins well after the last interrupt.
TurnOK ==
    /\ turn /\ transcript # 0 => transcript + LateReport <= clock
    /\ prompt.who = Main => pane = "claude"
    /\ prompt.who = Main /\ transcript # 0 => transcript + LateReport <= prompt.since

\* A document of the dialog that is on the screen.
OfDialog(d) ==
    /\ d.agent = Main
    /\ d.sent >= prompt.since
    /\ \/ prompt.kind = "menu" /\ d.event \in {"permission", "announce"}
       \/ prompt.kind = "questions" /\ d.event \in {"ask", "askRequest"}
       \/ prompt.kind = "questions" /\ d.event = "announce" /\ latest = "questions"

\* While the main thread asks, what is on its way is of this dialog, or a tool's
\* that the main thread ran before it.
OnTheWay ==
    prompt.who = Main =>
        /\ \A d \in mail : OfDialog(d) \/ (d.event = "tool" /\ (d.agent = Main => d.sent <= prompt.since))
        /\ \A h \in Handlers : call[h].pc = "read" =>
              \/ /\ call[h].report.state = "working"
                 /\ call[h].report.agent = Main => call[h].sent <= prompt.since
              \/ /\ call[h].report.state = "waiting" /\ call[h].report.agent = Main
                 /\ call[h].sent >= prompt.since
                 /\ prompt.kind = "questions" =>
                        ~call[h].report.answerable /\ latest = "questions"

\* What one key answers.
DialogOK ==
    prompt.who = Main =>
        /\ prompt.kind = "menu" => track.lastKey <= prompt.since
        /\ prompt.kind = "questions" /\ prompt.heard => latest = "questions"
        /\ prompt.kind = "questions" /\ prompt.news => ~track.hookAnswerable

\* What the panel has heard of stands.
HeardOK ==
    prompt.who = Main /\ prompt.heard =>
        /\ track.manualState = Nothing
        /\ track.hookState = "waiting" /\ track.hookAgent = Main
        /\ transcript # 0 => transcript + InterruptSkew <= track.hookAt
        /\ prompt.kind = "menu" /\ track.hookAnswerable => track.lastKey <= track.hookAt
        /\ \A d \in mail : d.event = "tool" /\ d.agent = Main => d.sent <= track.hookAt
        /\ \A h \in Handlers :
               call[h].pc = "read" /\ call[h].report.state = "working"
                   /\ call[h].report.agent = Main => call[h].sent <= track.hookAt

RowOK == PastOK /\ ClickOK /\ ClaudeOK /\ TurnOK /\ OnTheWay /\ DialogOK /\ HeardOK

LEMMA RowData ==
    ASSUME ReportsTypeOK
    PROVE  /\ Times \subseteq Nat /\ clock \in Nat /\ transcript \in Nat /\ rollout.at \in Nat
           /\ LateReport \in Nat /\ InterruptSkew \in Nat /\ MaxDelay \in Nat
           /\ MaxDelay < LateReport /\ InterruptSkew <= LateReport
           /\ track.lastAdvance \in Nat /\ track.lastBell \in Nat /\ track.lastKey \in Nat
           /\ track.hookAt \in Nat /\ track.manualAt \in Nat
           /\ row.changedAt \in Nat /\ click.at \in Nat /\ prompt.since \in Nat
           /\ \A d \in mail : d.sent \in Nat /\ d.agent \in Agents /\ d.event \in Events
           /\ \A h \in Handlers : call[h].pc = "read" =>
                  /\ call[h].sent \in Nat /\ call[h].received \in Nat
                  /\ call[h].report \in Reports
           /\ prompt.who = Main => prompt.kind \in {"menu", "questions"}
           /\ NoPrompt.who # Main /\ NoPrompt.since = 0
           /\ Resting.pc = "idle" /\ Main # Nothing
<1>1. Times \subseteq Nat
    BY ReportsData DEF Times
<1>2. track.lastAdvance \in Nat /\ track.lastBell \in Nat /\ track.lastKey \in Nat
      /\ track.hookAt \in Nat /\ track.manualAt \in Nat
    BY <1>1 DEF ReportsTypeOK, Trackers
<1>3. \A d \in mail : d.sent \in Nat /\ d.agent \in Agents /\ d.event \in Events
    BY <1>1 DEF ReportsTypeOK, Documents
<1>4. \A h \in Handlers : call[h].pc = "read" =>
          call[h].sent \in Nat /\ call[h].received \in Nat /\ call[h].report \in Reports
    <2> SUFFICES ASSUME NEW h \in Handlers, call[h].pc = "read"
                 PROVE  call[h].sent \in Nat /\ call[h].received \in Nat /\ call[h].report \in Reports
        OBVIOUS
    <2>1. call[h] \in Calls
        BY DEF ReportsTypeOK
    <2>2. call[h] \in [pc : {"read"}, report : Reports, received : Times, sent : Times, prev : States]
        BY <2>1, ReportsData
    <2> QED BY <1>1, <2>2
<1>5. prompt.since \in Nat
    <2>1. CASE prompt = NoPrompt
        BY <2>1 DEF NoPrompt
    <2>2. CASE prompt # NoPrompt
        BY <2>2, <1>1 DEF ReportsTypeOK
    <2> QED BY <2>1, <2>2
<1>6. /\ prompt.who = Main => prompt.kind \in {"menu", "questions"}
      /\ NoPrompt.who # Main /\ NoPrompt.since = 0
    BY DEF NoPrompt, Main, Nothing, ReportsTypeOK
<1>7. row.changedAt \in Nat /\ click.at \in Nat /\ rollout.at \in Nat
    BY <1>1 DEF ReportsTypeOK
<1> QED BY <1>1, <1>2, <1>3, <1>4, <1>5, <1>6, <1>7, ReportsAssumption, DetectorAssumption
        DEF ReportsTypeOK, Resting, Main, Nothing

LEMMA RowInitial == ReportsInit => RowOK
<1> SUFFICES ASSUME ReportsInit PROVE RowOK
    OBVIOUS
<1>1. \A h \in Handlers : call[h].pc # "read"
    BY DEF ReportsInit, Resting
<1>2. track.lastAdvance = 0 /\ track.lastBell = 0 /\ track.lastKey = 0
      /\ track.logState = Nothing /\ track.hookLegacy = FALSE
    <2>1. CASE track = NewTracker
        BY <2>1 DEF NewTracker
    <2>2. CASE track = [NewTracker EXCEPT !.hookState = "working", !.hookAt = 1]
        BY <2>2 DEF NewTracker
    <2> QED BY <2>1, <2>2 DEF ReportsInit
<1>3. prompt = NoPrompt /\ prompt.since = 0 /\ prompt.who # Main
    BY DEF ReportsInit, NoPrompt, Nothing, Main
<1>4. row.changedAt = 1 /\ clock = 1 /\ mail = {} /\ click = NoClick /\ transcript = 0
      /\ poll.pc # "listed"
    BY DEF ReportsInit, Resting
<1> QED BY <1>1, <1>2, <1>3, <1>4
        DEF RowOK, PastOK, ClickOK, ClaudeOK, TurnOK, OnTheWay, DialogOK, HeardOK

LEMMA WorksRow ==
    ASSUME ReportsTypeOK, RowOK, NEW a \in Agents, Works(a)
    PROVE  RowOK'
<1> USE RowData
<1>1. PastOK'
    BY DEF RowOK, PastOK, Works, Send, panelVars
<1>2. ClickOK'
    BY DEF RowOK, ClickOK, Works, Send, panelVars
<1>3. ClaudeOK'
    BY DEF RowOK, ClaudeOK, Works, Send, panelVars
<1>4. TurnOK'
    BY DEF RowOK, TurnOK, Works, Send, panelVars
<1>5. OnTheWay'
    BY DEF RowOK, OnTheWay, OfDialog, Works, Send, panelVars
<1>6. DialogOK'
    BY DEF RowOK, DialogOK, Works, Send, panelVars
<1>7. HeardOK'
    BY DEF RowOK, HeardOK, Works, Send, panelVars
<1> QED BY <1>1, <1>2, <1>3, <1>4, <1>5, <1>6, <1>7 DEF RowOK

LEMMA AsksRow ==
    ASSUME ReportsTypeOK, RowOK, NEW a \in Agents, NEW kind \in {"menu", "questions"}, Asks(a, kind)
    PROVE  RowOK'
<1> USE RowData
<1>1. PastOK'
    BY DEF RowOK, PastOK, Asks, Send, AllHeard, panelVars
<1>2. ClickOK'
    BY DEF RowOK, ClickOK, Asks, Send, AllHeard, panelVars
<1>3. ClaudeOK'
    BY DEF RowOK, ClaudeOK, Asks, Send, AllHeard, panelVars
<1>4. TurnOK'
    BY DEF RowOK, TurnOK, Asks, Send, AllHeard, panelVars
<1>5. OnTheWay'
    BY DEF RowOK, OnTheWay, OfDialog, PastOK, Asks, Send, AllHeard, panelVars
<1>6. DialogOK'
    BY DEF RowOK, DialogOK, PastOK, Asks, Send, AllHeard, panelVars
<1>7. HeardOK'
    BY DEF RowOK, HeardOK, Asks, Send, AllHeard, panelVars
<1> QED BY <1>1, <1>2, <1>3, <1>4, <1>5, <1>6, <1>7 DEF RowOK

LEMMA AnnouncesRow ==
    ASSUME ReportsTypeOK, RowOK, Announces
    PROVE  RowOK'
<1> USE RowData
<1>1. PastOK'
    BY DEF RowOK, PastOK, Announces, Send, panelVars
<1>2. ClickOK'
    BY DEF RowOK, ClickOK, Announces, Send, panelVars
<1>3. ClaudeOK'
    BY DEF RowOK, ClaudeOK, Announces, Send, panelVars
<1>4. TurnOK'
    BY DEF RowOK, TurnOK, Announces, Send, panelVars
<1>5. OnTheWay'
    BY DEF RowOK, OnTheWay, OfDialog, DialogOK, PastOK, Announces, Send, panelVars
<1>6. DialogOK'
    BY DEF RowOK, DialogOK, Announces, Send, panelVars
<1>7. HeardOK'
    BY DEF RowOK, HeardOK, Announces, Send, panelVars
<1> QED BY <1>1, <1>2, <1>3, <1>4, <1>5, <1>6, <1>7 DEF RowOK

LEMMA StopsRow ==
    ASSUME ReportsTypeOK, RowOK, NEW e \in {"stop", "stopWithAgents", "idle"}, Stops(e)
    PROVE  RowOK'
<1> USE RowData
<1>1. PastOK'
    BY DEF RowOK, PastOK, Stops, Send, panelVars
<1>2. ClickOK'
    BY DEF RowOK, ClickOK, Stops, Send, panelVars
<1>3. ClaudeOK'
    BY DEF RowOK, ClaudeOK, Stops, Send, panelVars
<1>4. TurnOK'
    BY DEF RowOK, TurnOK, Stops, Send, panelVars
<1>5. OnTheWay'
    BY DEF RowOK, OnTheWay, OfDialog, Stops, Send, panelVars
<1>6. DialogOK'
    BY DEF RowOK, DialogOK, Stops, Send, panelVars
<1>7. HeardOK'
    BY DEF RowOK, HeardOK, Stops, Send, panelVars
<1> QED BY <1>1, <1>2, <1>3, <1>4, <1>5, <1>6, <1>7 DEF RowOK

LEMMA CodexStopsRow ==
    ASSUME ReportsTypeOK, RowOK, CodexStops
    PROVE  RowOK'
<1> USE RowData
<1>1. PastOK'
    BY DEF RowOK, PastOK, CodexStops, Send, panelVars
<1>2. ClickOK'
    BY DEF RowOK, ClickOK, CodexStops, Send, panelVars
<1>3. ClaudeOK'
    BY DEF RowOK, ClaudeOK, CodexStops, Send, panelVars
<1>4. TurnOK'
    BY DEF RowOK, TurnOK, CodexStops, Send, panelVars
<1>5. OnTheWay'
    BY DEF RowOK, OnTheWay, OfDialog, TurnOK, CodexStops, Send, panelVars
<1>6. DialogOK'
    BY DEF RowOK, DialogOK, CodexStops, Send, panelVars
<1>7. HeardOK'
    BY DEF RowOK, HeardOK, CodexStops, Send, panelVars
<1> QED BY <1>1, <1>2, <1>3, <1>4, <1>5, <1>6, <1>7 DEF RowOK

LEMMA CodexLogsRow ==
    ASSUME ReportsTypeOK, RowOK, NEW st \in States, CodexLogs(st)
    PROVE  RowOK'
<1> USE RowData
<1>1. PastOK'
    BY DEF RowOK, PastOK, CodexLogs, panelVars
<1>2. ClickOK'
    BY DEF RowOK, ClickOK, CodexLogs, panelVars
<1>3. ClaudeOK'
    BY DEF RowOK, ClaudeOK, CodexLogs, panelVars
<1>4. TurnOK'
    BY DEF RowOK, TurnOK, CodexLogs, panelVars
<1>5. OnTheWay'
    BY DEF RowOK, OnTheWay, OfDialog, CodexLogs, panelVars
<1>6. DialogOK'
    BY DEF RowOK, DialogOK, CodexLogs, panelVars
<1>7. HeardOK'
    BY DEF RowOK, HeardOK, CodexLogs, panelVars
<1> QED BY <1>1, <1>2, <1>3, <1>4, <1>5, <1>6, <1>7 DEF RowOK

LEMMA ExitsRow ==
    ASSUME ReportsTypeOK, RowOK, NEW to \in {"shell", "dead"}, Exits(to)
    PROVE  RowOK'
<1> USE RowData
<1>1. PastOK'
    BY DEF RowOK, PastOK, Exits, panelVars
<1>2. ClickOK'
    BY DEF RowOK, ClickOK, Exits, panelVars
<1>3. ClaudeOK'
    BY DEF RowOK, ClaudeOK, Exits, panelVars
<1>4. TurnOK'
    BY DEF RowOK, TurnOK, Exits, panelVars
<1>5. OnTheWay'
    BY DEF RowOK, OnTheWay, OfDialog, Exits, panelVars
<1>6. DialogOK'
    BY DEF RowOK, DialogOK, Exits, panelVars
<1>7. HeardOK'
    BY DEF RowOK, HeardOK, Exits, panelVars
<1> QED BY <1>1, <1>2, <1>3, <1>4, <1>5, <1>6, <1>7 DEF RowOK

LEMMA SignalsRow ==
    ASSUME ReportsTypeOK, RowOK, NEW signals \in {{"advanced"}, {"bell"}}, Signals(signals)
    PROVE  RowOK'
<1> USE RowData
<1>1. PastOK'
    BY DEF RowOK, PastOK, Signals, Observe, panelVars
<1>2. ClickOK'
    BY DEF RowOK, ClickOK, Signals, Observe, panelVars
<1>3. ClaudeOK'
    BY DEF RowOK, ClaudeOK, Signals, Observe, panelVars
<1>4. TurnOK'
    BY DEF RowOK, TurnOK, Signals, Observe, panelVars
<1>5. OnTheWay'
    BY DEF RowOK, OnTheWay, OfDialog, Signals, Observe, panelVars
<1>6. DialogOK'
    BY DEF RowOK, DialogOK, Signals, Observe, panelVars
<1>7. HeardOK'
    BY DEF RowOK, HeardOK, Signals, Observe, panelVars
<1> QED BY <1>1, <1>2, <1>3, <1>4, <1>5, <1>6, <1>7 DEF RowOK

LEMMA PressesRow ==
    ASSUME ReportsTypeOK, RowOK, NEW line \in BOOLEAN, Presses(line)
    PROVE  RowOK'
<1> USE RowData
<1>1. PastOK'
    BY DEF RowOK, PastOK, Presses, Input, Key, panelVars
<1>2. ClickOK'
    BY DEF RowOK, ClickOK, Presses, Input, Key, panelVars
<1>3. ClaudeOK'
    BY DEF RowOK, ClaudeOK, Presses, Input, Key, panelVars
<1>4. TurnOK'
    BY DEF RowOK, TurnOK, Presses, Input, Key, panelVars
<1>5. OnTheWay'
    BY DEF RowOK, OnTheWay, OfDialog, Presses, Input, Key, panelVars
<1>6. DialogOK'
    BY DEF RowOK, DialogOK, Presses, Input, Key, panelVars
<1>7. HeardOK'
    BY DEF RowOK, HeardOK, Presses, Input, Key, panelVars
<1> QED BY <1>1, <1>2, <1>3, <1>4, <1>5, <1>6, <1>7 DEF RowOK

LEMMA SubmitsRow ==
    ASSUME ReportsTypeOK, RowOK, Submits
    PROVE  RowOK'
<1> USE RowData
<1>1. PastOK'
    BY DEF RowOK, PastOK, Submits, Input, Send, panelVars
<1>2. ClickOK'
    BY DEF RowOK, ClickOK, Submits, Input, Send, panelVars
<1>3. ClaudeOK'
    BY DEF RowOK, ClaudeOK, Submits, Input, Send, panelVars
<1>4. TurnOK'
    BY DEF RowOK, TurnOK, Submits, Input, Send, panelVars
<1>5. OnTheWay'
    BY DEF RowOK, OnTheWay, OfDialog, Submits, Input, Send, panelVars
<1>6. DialogOK'
    BY DEF RowOK, DialogOK, Submits, Input, Send, panelVars
<1>7. HeardOK'
    BY DEF RowOK, HeardOK, Submits, Input, Send, panelVars
<1> QED BY <1>1, <1>2, <1>3, <1>4, <1>5, <1>6, <1>7 DEF RowOK

LEMMA EscapesRow ==
    ASSUME ReportsTypeOK, RowOK, Escapes
    PROVE  RowOK'
<1> USE RowData
<1>1. PastOK'
    BY DEF RowOK, PastOK, Escapes, panelVars
<1>2. ClickOK'
    BY DEF RowOK, ClickOK, Escapes, panelVars
<1>3. ClaudeOK'
    BY DEF RowOK, ClaudeOK, Escapes, panelVars
<1>4. TurnOK'
    BY DEF RowOK, TurnOK, Escapes, panelVars
<1>5. OnTheWay'
    BY DEF RowOK, OnTheWay, OfDialog, Escapes, panelVars
<1>6. DialogOK'
    BY DEF RowOK, DialogOK, Escapes, panelVars
<1>7. HeardOK'
    BY DEF RowOK, HeardOK, Escapes, panelVars
<1> QED BY <1>1, <1>2, <1>3, <1>4, <1>5, <1>6, <1>7 DEF RowOK

LEMMA ClicksRow ==
    ASSUME ReportsTypeOK, RowOK, NEW h \in Handlers, NEW st \in States, Clicks(h, st)
    PROVE  RowOK'
<1> USE RowData
<1>1. PastOK'
    BY DEF RowOK, PastOK, Clicks, SetManual, panelVars
<1>2. ClickOK'
    <2>1. /\ track'.manualState = st /\ track'.manualAt = clock
          /\ track'.lastAdvance = track.lastAdvance /\ track'.lastBell = track.lastBell
        BY DEF Clicks, SetManual, ReportsTypeOK, Trackers
    <2>2. click'.state = st /\ click'.at = clock
        BY DEF Clicks
    <2> QED BY <2>1, <2>2 DEF RowOK, ClickOK, PastOK, Clicks
<1>3. ClaudeOK'
    BY DEF RowOK, ClaudeOK, Clicks, SetManual, panelVars
<1>4. TurnOK'
    BY DEF RowOK, TurnOK, Clicks, SetManual, panelVars
<1>5. OnTheWay'
    BY DEF RowOK, OnTheWay, OfDialog, Clicks, SetManual, panelVars
<1>6. DialogOK'
    BY DEF RowOK, DialogOK, Clicks, SetManual, panelVars
<1>7. HeardOK'
    BY DEF RowOK, HeardOK, Clicks, SetManual, panelVars
<1> QED BY <1>1, <1>2, <1>3, <1>4, <1>5, <1>6, <1>7 DEF RowOK

LEMMA HookLostRow ==
    ASSUME ReportsTypeOK, RowOK, NEW d \in mail, HookLost(d)
    PROVE  RowOK'
<1> USE RowData
<1>1. PastOK'
    BY DEF RowOK, PastOK, HookLost, panelVars
<1>2. ClickOK'
    BY DEF RowOK, ClickOK, HookLost, panelVars
<1>3. ClaudeOK'
    BY DEF RowOK, ClaudeOK, HookLost, panelVars
<1>4. TurnOK'
    BY DEF RowOK, TurnOK, HookLost, panelVars
<1>5. OnTheWay'
    BY DEF RowOK, OnTheWay, OfDialog, HookLost, panelVars
<1>6. DialogOK'
    BY DEF RowOK, DialogOK, HookLost, panelVars
<1>7. HeardOK'
    BY DEF RowOK, HeardOK, HookLost, panelVars
<1> QED BY <1>1, <1>2, <1>3, <1>4, <1>5, <1>6, <1>7 DEF RowOK

LEMMA WritesRow ==
    ASSUME ReportsTypeOK, RowOK, NEW h \in Handlers, Writes(h)
    PROVE  RowOK'
<1> USE RowData
<1>1. PastOK'
    BY DEF RowOK, PastOK, Writes, StoredState, panelVars
<1>2. ClickOK'
    BY DEF RowOK, ClickOK, Writes, StoredState, panelVars
<1>3. ClaudeOK'
    BY DEF RowOK, ClaudeOK, Writes, StoredState, panelVars
<1>4. TurnOK'
    BY DEF RowOK, TurnOK, Writes, StoredState, panelVars
<1>5. OnTheWay'
    BY DEF RowOK, OnTheWay, OfDialog, Writes, StoredState, panelVars
<1>6. DialogOK'
    BY DEF RowOK, DialogOK, Writes, StoredState, panelVars
<1>7. HeardOK'
    BY DEF RowOK, HeardOK, Writes, StoredState, panelVars
<1> QED BY <1>1, <1>2, <1>3, <1>4, <1>5, <1>6, <1>7 DEF RowOK

LEMMA WriteFailsRow ==
    ASSUME ReportsTypeOK, RowOK, NEW h \in Handlers, WriteFails(h)
    PROVE  RowOK'
<1> USE RowData
<1>1. PastOK'
    BY DEF RowOK, PastOK, WriteFails, panelVars
<1>2. ClickOK'
    BY DEF RowOK, ClickOK, WriteFails, panelVars
<1>3. ClaudeOK'
    BY DEF RowOK, ClaudeOK, WriteFails, panelVars
<1>4. TurnOK'
    BY DEF RowOK, TurnOK, WriteFails, panelVars
<1>5. OnTheWay'
    BY DEF RowOK, OnTheWay, OfDialog, WriteFails, panelVars
<1>6. DialogOK'
    BY DEF RowOK, DialogOK, WriteFails, panelVars
<1>7. HeardOK'
    BY DEF RowOK, HeardOK, WriteFails, panelVars
<1> QED BY <1>1, <1>2, <1>3, <1>4, <1>5, <1>6, <1>7 DEF RowOK

LEMMA PollListsRow ==
    ASSUME ReportsTypeOK, RowOK, PollLists
    PROVE  RowOK'
<1> USE RowData
<1>1. PastOK'
    BY DEF RowOK, PastOK, PollLists, panelVars
<1>2. ClickOK'
    BY DEF RowOK, ClickOK, PollLists, panelVars
<1>3. ClaudeOK'
    BY DEF RowOK, ClaudeOK, PollLists, panelVars
<1>4. TurnOK'
    BY DEF RowOK, TurnOK, PollLists, panelVars
<1>5. OnTheWay'
    BY DEF RowOK, OnTheWay, OfDialog, PollLists, panelVars
<1>6. DialogOK'
    BY DEF RowOK, DialogOK, PollLists, panelVars
<1>7. HeardOK'
    BY DEF RowOK, HeardOK, PollLists, panelVars
<1> QED BY <1>1, <1>2, <1>3, <1>4, <1>5, <1>6, <1>7 DEF RowOK

LEMMA PollWritesRow ==
    ASSUME ReportsTypeOK, RowOK, PollWrites
    PROVE  RowOK'
<1> USE RowData
<1>1. PastOK'
    BY DEF RowOK, PastOK, PollWrites, StoredState, panelVars
<1>2. ClickOK'
    BY DEF RowOK, ClickOK, PollWrites, StoredState, panelVars
<1>3. ClaudeOK'
    BY DEF RowOK, ClaudeOK, PollWrites, StoredState, panelVars
<1>4. TurnOK'
    BY DEF RowOK, TurnOK, PollWrites, StoredState, panelVars
<1>5. OnTheWay'
    BY DEF RowOK, OnTheWay, OfDialog, PollWrites, StoredState, panelVars
<1>6. DialogOK'
    BY DEF RowOK, DialogOK, PollWrites, StoredState, panelVars
<1>7. HeardOK'
    BY DEF RowOK, HeardOK, PollWrites, StoredState, panelVars
<1> QED BY <1>1, <1>2, <1>3, <1>4, <1>5, <1>6, <1>7 DEF RowOK

LEMMA PollFailsRow ==
    ASSUME ReportsTypeOK, RowOK, PollFails
    PROVE  RowOK'
<1> USE RowData
<1>1. PastOK'
    BY DEF RowOK, PastOK, PollFails, panelVars
<1>2. ClickOK'
    BY DEF RowOK, ClickOK, PollFails, panelVars
<1>3. ClaudeOK'
    BY DEF RowOK, ClaudeOK, PollFails, panelVars
<1>4. TurnOK'
    BY DEF RowOK, TurnOK, PollFails, panelVars
<1>5. OnTheWay'
    BY DEF RowOK, OnTheWay, OfDialog, PollFails, panelVars
<1>6. DialogOK'
    BY DEF RowOK, DialogOK, PollFails, panelVars
<1>7. HeardOK'
    BY DEF RowOK, HeardOK, PollFails, panelVars
<1> QED BY <1>1, <1>2, <1>3, <1>4, <1>5, <1>6, <1>7 DEF RowOK

LEMMA TickRow ==
    ASSUME ReportsTypeOK, RowOK, Tick
    PROVE  RowOK'
<1> USE RowData
<1>1. PastOK'
    BY DEF RowOK, PastOK, Tick, panelVars
<1>2. ClickOK'
    BY DEF RowOK, ClickOK, Tick, panelVars
<1>3. ClaudeOK'
    BY DEF RowOK, ClaudeOK, Tick, panelVars
<1>4. TurnOK'
    BY DEF RowOK, TurnOK, Tick, panelVars
<1>5. OnTheWay'
    BY DEF RowOK, OnTheWay, OfDialog, Tick, panelVars
<1>6. DialogOK'
    BY DEF RowOK, DialogOK, Tick, panelVars
<1>7. HeardOK'
    BY DEF RowOK, HeardOK, Tick, panelVars
<1> QED BY <1>1, <1>2, <1>3, <1>4, <1>5, <1>6, <1>7 DEF RowOK

LEMMA HookArrivesRow ==
    ASSUME ReportsTypeOK, RowOK, NEW h \in Handlers, NEW d \in mail, HookArrives(h, d)
    PROVE  RowOK'
<1> USE RowData
<1>1. \A g \in Handlers : call'[g].pc = "read" =>
          \/ call'[g] = call[g]
          \/ /\ call'[g].report = Report(d) /\ Report(d).state # Nothing
             /\ call'[g].received = clock /\ call'[g].sent = d.sent
    BY DEF HookArrives, ReportsTypeOK
<1>2. mail' \subseteq mail /\ d \notin mail'
    BY DEF HookArrives
<1>3. latest = "questions" /\ d.event \in {"ask", "askRequest", "announce", "tool"} => latest' = "questions"
    BY DEF HookArrives, Recorded
<1>4. d.event \in {"ask", "askRequest"} => latest' = "questions"
    BY DEF HookArrives, Recorded
<1>5. /\ Report(d).agent = d.agent
      /\ Report(d).legacy = (d.event = "notify")
      /\ d.event = "tool" => Report(d).state = "working"
      /\ d.event \in {"permission", "ask", "askRequest", "announce"} => Report(d).state = "waiting"
      /\ d.event \in {"ask", "askRequest"} => ~Report(d).answerable
      /\ d.event = "announce" /\ latest = "questions" => ~Report(d).answerable
    BY DEF Report, ReadState, Reported, ReadAnswerable
<1>6. PastOK'
    BY <1>1, <1>2 DEF RowOK, PastOK, HookArrives
<1>7. ClickOK'
    BY DEF RowOK, ClickOK, HookArrives
<1>8. ClaudeOK'
    BY <1>1, <1>2, <1>5 DEF RowOK, ClaudeOK, HookArrives
<1>9. TurnOK'
    BY DEF RowOK, TurnOK, HookArrives
<1>10. OnTheWay'
    <2> SUFFICES ASSUME prompt.who = Main PROVE OnTheWay'
        BY DEF OnTheWay, HookArrives
    <2>1. prompt' = prompt
        BY DEF HookArrives
    <2>2. \A x \in mail : x.event = "tool" \/ OfDialog(x)
        BY DEF RowOK, OnTheWay
    <2>3. prompt.kind = "questions" /\ latest = "questions" => latest' = "questions"
        BY <1>3, <2>2 DEF OfDialog
    <2>4. \A x \in mail' : OfDialog(x)' \/ (x.event = "tool" /\ (x.agent = Main => x.sent <= prompt.since))
        BY <1>2, <2>1, <2>3 DEF RowOK, OnTheWay, OfDialog
    <2>5. ASSUME NEW g \in Handlers, call'[g].pc = "read"
          PROVE  \/ /\ call'[g].report.state = "working"
                    /\ call'[g].report.agent = Main => call'[g].sent <= prompt.since
                 \/ /\ call'[g].report.state = "waiting" /\ call'[g].report.agent = Main
                    /\ call'[g].sent >= prompt.since
                    /\ prompt.kind = "questions" =>
                           ~call'[g].report.answerable /\ latest' = "questions"
        <3>1. CASE call'[g] = call[g]
            BY <2>3, <2>5, <3>1 DEF RowOK, OnTheWay
        <3>2. CASE /\ call'[g].report = Report(d)
                   /\ call'[g].sent = d.sent
            <4>1. CASE d.event = "tool"
                BY <1>5, <3>2, <4>1 DEF RowOK, OnTheWay, OfDialog
            <4>2. CASE OfDialog(d)
                BY <1>3, <1>4, <1>5, <3>2, <4>2 DEF OfDialog
            <4> QED BY <2>2, <4>1, <4>2
        <3> QED BY <1>1, <2>5, <3>1, <3>2
    <2> QED BY <2>1, <2>4, <2>5 DEF OnTheWay
<1>11. DialogOK'
    <2>1. prompt.who = Main => d.event = "tool" \/ OfDialog(d)
        BY DEF RowOK, OnTheWay
    <2>2. prompt.who = Main /\ prompt.kind = "questions" /\ latest = "questions" => latest' = "questions"
        BY <1>3, <2>1 DEF OfDialog
    <2> QED BY <2>2 DEF RowOK, DialogOK, HookArrives
<1>12. HeardOK'
    <2> SUFFICES ASSUME prompt.who = Main, prompt.heard PROVE HeardOK'
        BY DEF HeardOK, HookArrives
    <2>1. ASSUME NEW g \in Handlers, call'[g].pc = "read", call'[g].report.state = "working",
                 call'[g].report.agent = Main
          PROVE  call'[g].sent <= track.hookAt
        <3>1. CASE call'[g] = call[g]
            BY <2>1, <3>1 DEF RowOK, HeardOK
        <3>2. CASE call'[g].report = Report(d) /\ call'[g].sent = d.sent
            <4>1. d.event = "tool" /\ d.agent = Main
                BY <1>5, <2>1, <3>2 DEF RowOK, OnTheWay, OfDialog
            <4> QED BY <3>2, <4>1 DEF RowOK, HeardOK
        <3> QED BY <1>1, <2>1, <3>1, <3>2
    <2> QED BY <1>2, <2>1 DEF RowOK, HeardOK, HookArrives
<1> QED BY <1>6, <1>7, <1>8, <1>9, <1>10, <1>11, <1>12 DEF RowOK

\* A report that was taken while the main thread asks is one of the dialog.
LEMMA TakenRow ==
    ASSUME ReportsTypeOK, RowOK, NEW h \in Handlers, HookDecides(h),
           prompt.who = Main, HookTaken(track, call[h].report, call[h].received)
    PROVE  /\ prompt.heard => Announced(call[h])
           /\ call[h].report.state = "working" \/ Announced(call[h])
           /\ Announced(call[h]) /\ prompt.kind = "questions" =>
                  ~call[h].report.answerable /\ latest = "questions"
<1> USE RowData
<1>1. call[h].pc = "read"
    BY DEF HookDecides
<1>2. call[h].report.state \in {"working", "waiting"}
    BY <1>1 DEF RowOK, OnTheWay
<1>3. call[h].report.state = "waiting" => Announced(call[h])
    BY <1>1, DetectorData DEF RowOK, OnTheWay, Announced
<1>4. CASE prompt.heard /\ call[h].report.state = "working"
    <2>1. track.hookState = "waiting" /\ track.hookAgent = Main
        BY <1>4 DEF RowOK, HeardOK
    <2>2. call[h].report.agent = Main => call[h].received < track.hookAt + LateReport
        <3>1. call[h].report.agent = Main => call[h].sent <= track.hookAt
            BY <1>1, <1>4 DEF RowOK, HeardOK
        <3>2. call[h].received = clock /\ clock <= call[h].sent + MaxDelay
            BY <1>1 DEF RowOK, PastOK
        <3> QED BY <1>1, <3>1, <3>2
    <2>3. AnswersNothing(track, call[h].report, call[h].received)
        BY <1>4, <2>1, <2>2 DEF AnswersNothing
    <2> QED BY <2>3 DEF HookTaken
<1>5. Announced(call[h]) => call[h].report.state = "waiting"
    BY DEF Announced
<1>6. Announced(call[h]) /\ prompt.kind = "questions" => ~call[h].report.answerable /\ latest = "questions"
    BY <1>1, <1>5, "waiting" # "working" DEF RowOK, OnTheWay
<1> QED BY <1>2, <1>3, <1>4, <1>6

LEMMA HookDecidesRow ==
    ASSUME ReportsTypeOK, RowOK, NEW h \in Handlers, HookDecides(h)
    PROVE  RowOK'
<1> USE RowData
<1>1. call[h].pc = "read" /\ call[h].report \in Reports
    BY DEF HookDecides
<1>2. \A g \in Handlers : call'[g].pc = "read" => call'[g] = call[g]
    BY DEF HookDecides, ReportsTypeOK
<1>3. CASE ~HookTaken(track, call[h].report, call[h].received)
    <2>1. track' = track /\ UNCHANGED <<prompt, click>>
        BY <1>3 DEF HookDecides, Hook
    <2>2. UNCHANGED <<clock, mail, turn, transcript, pane, latest, row, poll>>
        BY DEF HookDecides
    <2>3. PastOK' /\ ClickOK' /\ ClaudeOK' /\ TurnOK' /\ DialogOK'
        BY <1>2, <2>1, <2>2 DEF RowOK, PastOK, ClickOK, ClaudeOK, TurnOK, DialogOK
    <2>4. OnTheWay' /\ HeardOK'
        BY <1>2, <2>1, <2>2 DEF RowOK, OnTheWay, OfDialog, HeardOK
    <2> QED BY <2>3, <2>4 DEF RowOK
<1>4. CASE HookTaken(track, call[h].report, call[h].received)
    <2>1. UNCHANGED <<clock, mail, turn, transcript, pane, latest, row, poll>> /\ click' = NoClick
        BY <1>4 DEF HookDecides
    <2>2. call[h].received = clock /\ call[h].sent <= clock
        BY <1>1 DEF RowOK, PastOK
    <2>3. /\ track'.lastAdvance = track.lastAdvance /\ track'.lastBell = track.lastBell
          /\ track'.lastKey = track.lastKey /\ track'.logState = track.logState
          /\ track'.hookState = call[h].report.state /\ track'.hookAt = clock
          /\ track'.hookLegacy = call[h].report.legacy /\ track'.hookAgent = call[h].report.agent
          /\ track'.manualState = Nothing
          /\ track'.hookAnswerable =
                 (/\ call[h].report.state = "waiting"
                  /\ call[h].report.answerable
                     \/ (SamePrompt(track, call[h].report) /\ track.hookAnswerable))
        BY <1>4, <2>2 DEF HookDecides, Hook, ReportsTypeOK, Trackers
    <2>4. /\ prompt'.who = prompt.who /\ prompt'.kind = prompt.kind /\ prompt'.since = prompt.since
          /\ prompt.who = Main => prompt'.heard = (prompt.heard \/ Announced(call[h]))
          /\ prompt.who = Main =>
                 prompt'.news = (prompt.news \/ (Announced(call[h]) /\ track.hookState # "waiting"))
        <3>1. prompt' = [prompt EXCEPT !.heard = prompt.heard \/ Announced(call[h]),
                              !.news = prompt.news \/ (Announced(call[h]) /\ track.hookState # "waiting")]
            BY <1>4 DEF HookDecides
        <3>2. CASE prompt = NoPrompt
            BY <3>1, <3>2 DEF NoPrompt
        <3>3. CASE prompt # NoPrompt
            BY <3>1, <3>3 DEF ReportsTypeOK
        <3> QED BY <3>2, <3>3
    <2>5. PastOK' /\ ClickOK' /\ ClaudeOK' /\ TurnOK'
        BY <1>1, <1>2, <2>1, <2>3, <2>4 DEF RowOK, PastOK, ClickOK, ClaudeOK, TurnOK
    <2>6. OnTheWay'
        BY <1>2, <2>1, <2>4 DEF RowOK, OnTheWay, OfDialog
    <2>7. DialogOK'
        <3> SUFFICES ASSUME prompt.who = Main PROVE DialogOK'
            BY <2>4 DEF DialogOK
        <3>1. CASE Announced(call[h])
            <4>1. prompt.kind = "questions" => ~call[h].report.answerable /\ latest = "questions"
                BY <1>4, <3>1, TakenRow
            <4>2. prompt.kind = "questions" /\ prompt'.news => ~track'.hookAnswerable
                BY <2>3, <2>4, <4>1 DEF SamePrompt, RowOK, DialogOK
            <4> QED BY <2>1, <2>3, <2>4, <4>1, <4>2 DEF RowOK, DialogOK
        <3>2. CASE ~Announced(call[h])
            <4>1. call[h].report.state = "working"
                BY <1>4, <3>2, TakenRow
            <4> QED BY <2>1, <2>3, <2>4, <3>2, <4>1 DEF RowOK, DialogOK
        <3> QED BY <3>1, <3>2
    <2>8. HeardOK'
        <3> SUFFICES ASSUME prompt.who = Main, prompt'.heard PROVE HeardOK'
            BY <2>4 DEF HeardOK
        <3>1. Announced(call[h])
            BY <1>4, <2>4, TakenRow
        <3>2. call[h].report.state = "waiting" /\ call[h].report.agent = Main /\ call[h].sent >= prompt.since
            BY <3>1 DEF Announced
        <3>3. transcript # 0 => transcript + InterruptSkew <= clock
            BY <1>1, <2>2, <3>2 DEF RowOK, TurnOK
        <3>4. prompt.kind = "menu" => track.lastKey <= clock
            BY DEF RowOK, PastOK
        <3>5. \A d \in mail : d.sent <= clock
            BY DEF RowOK, PastOK
        <3>6. \A g \in Handlers : call[g].pc = "read" => call[g].sent <= clock
            BY DEF RowOK, PastOK
        <3> QED BY <1>2, <2>1, <2>3, <2>4, <3>2, <3>3, <3>4, <3>5, <3>6 DEF HeardOK
    <2> QED BY <2>5, <2>6, <2>7, <2>8 DEF RowOK
<1> QED BY <1>3, <1>4

LEMMA PollJudgesRow ==
    ASSUME ReportsTypeOK, RowOK, PollJudges
    PROVE  RowOK'
<1> USE RowData
<1>1. UNCHANGED <<clock, prompt, turn, mail, transcript, pane, latest, row, call>>
    BY DEF PollJudges
<1>2. rollout.state \in States /\ WithLog \in Trackers(Agents, Times)
    BY ReportLogTyped DEF ReportsTypeOK, WithLog
<1>3. /\ WithLog.lastAdvance = track.lastAdvance /\ WithLog.lastBell = track.lastBell
      /\ WithLog.lastKey = track.lastKey /\ WithLog.hookState = track.hookState
      /\ WithLog.hookAt = track.hookAt /\ WithLog.hookLegacy = track.hookLegacy
      /\ WithLog.hookAgent = track.hookAgent /\ WithLog.hookAnswerable = track.hookAnswerable
      /\ poll.pane # "codex" => WithLog = track
      /\ WithLog.manualState \in {track.manualState, Nothing}
      /\ rollout.at <= track.manualAt => WithLog.manualState = track.manualState
                                          /\ WithLog.manualAt = track.manualAt
    <2>1. CASE WithLog = track
        BY <2>1
    <2>2. CASE WithLog # track
        <3>1. WithLog = DropManualBefore([track EXCEPT !.logState = rollout.state, !.logAt = rollout.at],
                                         rollout.at)
            BY <2>2 DEF WithLog, ReportLog
        <3>2. PICK t \in Trackers(Agents, Times) :
                  t = [track EXCEPT !.logState = rollout.state, !.logAt = rollout.at]
            BY <1>2 DEF ReportsTypeOK, Trackers
        <3>3. /\ t.lastAdvance = track.lastAdvance /\ t.lastBell = track.lastBell
              /\ t.lastKey = track.lastKey /\ t.hookState = track.hookState
              /\ t.hookAt = track.hookAt /\ t.hookLegacy = track.hookLegacy
              /\ t.hookAgent = track.hookAgent /\ t.hookAnswerable = track.hookAnswerable
              /\ t.manualState = track.manualState /\ t.manualAt = track.manualAt
            BY <3>2 DEF ReportsTypeOK, Trackers
        <3>4. WithLog = DropManualBefore(t, rollout.at)
            BY <3>1, <3>2
        <3>5. poll.pane = "codex"
            BY <2>2 DEF WithLog
        <3> QED BY <3>3, <3>4, <3>5 DEF DropManualBefore, Trackers
    <2> QED BY <2>1, <2>2
<1>4. /\ track'.lastAdvance = WithLog.lastAdvance /\ track'.lastBell = WithLog.lastBell
      /\ track'.lastKey = WithLog.lastKey /\ track'.logState = WithLog.logState
      /\ track'.hookLegacy \in {WithLog.hookLegacy, FALSE}
      /\ track'.hookAnswerable \in {WithLog.hookAnswerable, FALSE}
      /\ track'.manualState \in {WithLog.manualState, Nothing}
      /\ transcript <= WithLog.manualAt => track'.manualState = WithLog.manualState
                                            /\ track'.manualAt = WithLog.manualAt
      /\ transcript = 0 \/ transcript + InterruptSkew <= WithLog.hookAt => track' = WithLog
    <2>1. track' = WithInterrupt
        BY DEF PollJudges
    <2>2. CASE track' = WithLog
        BY <2>2
    <2>3. CASE track' # WithLog
        <3>1. /\ transcript # 0
              /\ transcript + InterruptSkew > WithLog.hookAt
              /\ track' = DropManualBefore([WithLog EXCEPT !.hookState = "done", !.hookAt = transcript,
                                    !.hookLegacy = FALSE, !.hookAgent = Main,
                                    !.hookAnswerable = FALSE], transcript)
            BY <2>1, <2>3 DEF WithInterrupt, Interrupted
        <3>2. PICK t \in Trackers(Agents, Times) :
                  t = [WithLog EXCEPT !.hookState = "done", !.hookAt = transcript,
                                    !.hookLegacy = FALSE, !.hookAgent = Main,
                                    !.hookAnswerable = FALSE]
            BY <1>2, DetectorData DEF ReportsTypeOK, Trackers
        <3>3. /\ t.lastAdvance = WithLog.lastAdvance /\ t.lastBell = WithLog.lastBell
              /\ t.lastKey = WithLog.lastKey /\ t.logState = WithLog.logState
              /\ t.hookLegacy = FALSE /\ t.hookAnswerable = FALSE
              /\ t.manualState = WithLog.manualState /\ t.manualAt = WithLog.manualAt
            BY <1>2, <3>2 DEF Trackers
        <3>4. WithLog.hookAt \in Nat
            BY <1>3
        <3>5. track' = DropManualBefore(t, transcript)
            BY <3>1, <3>2
        <3> QED BY <3>1, <3>3, <3>4, <3>5 DEF DropManualBefore, Trackers
    <2> QED BY <2>2, <2>3
<1>5. PastOK'
    BY <1>1, <1>3, <1>4 DEF RowOK, PastOK
<1>6. ClickOK'
    <2> SUFFICES ASSUME click' # NoClick, pane # "dead" PROVE ClickOK'
        BY <1>1 DEF ClickOK
    <2>1. click' = click /\ ~NewsSince(click.at)
        BY DEF PollJudges
    <2>2. rollout.at <= click.at /\ transcript <= click.at
        BY <2>1 DEF NewsSince
    <2>3. track.manualAt = click.at
        BY <2>1 DEF RowOK, ClickOK
    <2> QED BY <1>1, <1>3, <1>4, <2>1, <2>2, <2>3 DEF RowOK, ClickOK
<1>7. ClaudeOK'
    <2> SUFFICES ASSUME pane = "claude" PROVE ClaudeOK'
        BY <1>1 DEF ClaudeOK
    <2>1. poll.pane # "codex"
        BY DEF RowOK, ClaudeOK, PollJudges
    <2>2. poll'.pc # "listed"
        BY DEF PollJudges
    <2> QED BY <1>1, <1>3, <1>4, <2>1, <2>2 DEF RowOK, ClaudeOK
<1>8. TurnOK' /\ OnTheWay'
    BY <1>1 DEF RowOK, TurnOK, OnTheWay, OfDialog
<1>9. DialogOK'
    BY <1>1, <1>3, <1>4 DEF RowOK, DialogOK
<1>10. HeardOK'
    <2> SUFFICES ASSUME prompt.who = Main, prompt.heard PROVE HeardOK'
        BY <1>1 DEF HeardOK
    <2>1. poll.pane # "codex"
        BY DEF RowOK, TurnOK, ClaudeOK, PollJudges
    <2>2. track' = track
        BY <1>3, <1>4, <2>1 DEF RowOK, HeardOK
    <2> QED BY <1>1, <2>2 DEF RowOK, HeardOK
<1> QED BY <1>5, <1>6, <1>7, <1>8, <1>9, <1>10 DEF RowOK

LEMMA RestartsRow ==
    ASSUME ReportsTypeOK, RowOK, Restarts
    PROVE  RowOK'
<1> USE RowData
<1>1. UNCHANGED <<clock, turn, transcript, pane, latest, row>> /\ mail' = {}
    BY DEF Restarts
<1>2. \A h \in Handlers : call'[h].pc # "read"
    BY DEF Restarts
<1>3. poll'.pc # "listed"
    BY DEF Restarts
<1>4. PICK restored \in Trackers(Agents, Times) :
          restored = Restore(NewTracker, row.state, row.source, row.changedAt)
    BY NewTyped, RestoreTyped DEF ReportsTypeOK
<1>5. row.source \in Sources /\ row.changedAt # 0 /\ row.changedAt >= 1
    BY DEF RowOK, PastOK, ReportsTypeOK
<1>6. /\ restored.lastAdvance = 0 /\ restored.lastKey = 0 /\ restored.logState = Nothing
      /\ restored.hookLegacy = FALSE /\ restored.hookAnswerable = FALSE /\ restored.hookAgent = Main
      /\ row.source \in {"hook", "manual"} => restored.lastBell = 0
      /\ restored.lastBell \in {0, row.changedAt}
      /\ row.source = "hook" => /\ restored.hookState = row.state /\ restored.hookAt = row.changedAt
                                /\ restored.manualState = Nothing
      /\ row.source = "manual" => restored.manualState = row.state /\ restored.manualAt = row.changedAt
    BY <1>4, <1>5 DEF Restore, NewTracker, Sources
<1>7. track' = IF pane = "codex" /\ row.source = "hook" THEN MarkNotify(restored) ELSE restored
    BY <1>4 DEF Restarts
<1>8. /\ track'.lastAdvance = 0 /\ track'.lastKey = 0 /\ track'.logState = Nothing
      /\ pane # "codex" \/ row.source # "hook" => track' = restored
      /\ track'.hookAnswerable = FALSE /\ track'.lastBell = restored.lastBell
    BY <1>6, <1>7 DEF MarkNotify, Trackers
<1>9. /\ prompt'.who = prompt.who /\ prompt'.kind = prompt.kind /\ prompt'.since = prompt.since
      /\ prompt'.heard => prompt.heard /\ row.state = "waiting" /\ row.source = "hook" /\ ~Predates
    <2>1. prompt' = [prompt EXCEPT !.heard = prompt.heard /\ row.state = "waiting"
                                              /\ row.source = "hook" /\ ~Predates]
        BY DEF Restarts
    <2>2. CASE prompt = NoPrompt
        BY <2>1, <2>2 DEF NoPrompt
    <2>3. CASE prompt # NoPrompt
        BY <2>1, <2>3 DEF ReportsTypeOK
    <2> QED BY <2>2, <2>3
<1>10. PastOK'
    <2>1. CASE restored.lastBell = 0
        BY <1>1, <1>2, <1>8, <1>9, <2>1 DEF RowOK, PastOK
    <2>2. CASE restored.lastBell # 0
        BY <1>1, <1>2, <1>6, <1>8, <1>9, <2>2 DEF RowOK, PastOK
    <2> QED BY <2>1, <2>2
<1>11. ClickOK'
    <2> SUFFICES ASSUME click' # NoClick, pane # "dead" PROVE ClickOK'
        BY <1>1 DEF ClickOK
    <2>1. click' = click /\ row = [state |-> click.state, source |-> "manual", changedAt |-> click.at]
        BY DEF Restarts
    <2>2. row.state = click.state /\ row.source = "manual" /\ row.changedAt = click.at
        BY <2>1
    <2> QED BY <1>1, <1>5, <1>6, <1>8, <2>1, <2>2 DEF RowOK, ClickOK
<1>12. ClaudeOK'
    BY <1>1, <1>2, <1>3, <1>6, <1>8 DEF ClaudeOK
<1>13. TurnOK'
    BY <1>1, <1>9 DEF RowOK, TurnOK
<1>14. OnTheWay'
    BY <1>1, <1>2 DEF OnTheWay
<1>15. DialogOK'
    BY <1>1, <1>8, <1>9 DEF RowOK, DialogOK
<1>16. HeardOK'
    <2> SUFFICES ASSUME prompt.who = Main, prompt'.heard PROVE HeardOK'
        BY <1>9 DEF HeardOK
    <2>1. track' = restored
        BY <1>8 DEF RowOK, TurnOK
    <2>2. transcript # 0 => transcript + InterruptSkew <= row.changedAt
        BY <1>9 DEF Predates
    <2> QED BY <1>1, <1>2, <1>6, <1>8, <1>9, <2>1, <2>2 DEF HeardOK
<1> QED BY <1>10, <1>11, <1>12, <1>13, <1>14, <1>15, <1>16 DEF RowOK

LEMMA RowStep ==
    ASSUME ReportsTypeOK, RowOK, [ReportsNext]_reportsVars
    PROVE  RowOK'
<1>1. CASE Session
    BY <1>1, WorksRow, AsksRow, AnnouncesRow, StopsRow, CodexStopsRow, CodexLogsRow, ExitsRow,
       SignalsRow DEF Session
<1>2. CASE Person
    BY <1>2, PressesRow, SubmitsRow, EscapesRow, ClicksRow DEF Person
<1>3. CASE HookCalls
    BY <1>3, HookArrivesRow, HookLostRow, HookDecidesRow, WritesRow, WriteFailsRow
       DEF HookCalls, Handles
<1>4. CASE Poller
    BY <1>4, PollListsRow, PollJudgesRow, PollWritesRow, PollFailsRow DEF Poller, PollStep
<1>5. CASE Restarts \/ Tick
    BY <1>5, RestartsRow, TickRow
<1>6. CASE UNCHANGED reportsVars
    BY <1>6 DEF reportsVars, RowOK, PastOK, ClickOK, ClaudeOK, TurnOK, OnTheWay, OfDialog,
       DialogOK, HeardOK
<1> QED BY <1>1, <1>2, <1>3, <1>4, <1>5, <1>6 DEF ReportsNext

LEMMA RowShown ==
    ASSUME ReportsTypeOK, RowOK
    PROVE  RowTells
<1> USE RowData
<1>1. ClickStands
    <2> SUFFICES ASSUME click # NoClick, pane # "dead" PROVE Shown = Judged(click.state, "manual")
        BY DEF ClickStands
    <2>1. ManualStands(track, pane = "shell")
        BY DetectorData DEF RowOK, ClickOK, ManualStands
    <2> QED BY <2>1 DEF Shown, Evaluate, RowOK, ClickOK
<1>2. PromptShown
    <2> SUFFICES ASSUME prompt.who = Main, prompt.heard, prompt.kind = "questions" => prompt.news
                 PROVE  Shown.state = "waiting"
        BY DEF PromptShown
    <2>1. pane = "claude"
        BY DEF RowOK, TurnOK
    <2>2. track.manualState = Nothing /\ track.hookState = "waiting"
        BY DEF RowOK, HeardOK
    <2>3. track.logState = Nothing /\ ~track.hookLegacy
        BY <2>1 DEF RowOK, ClaudeOK
    <2>4. ~ReleasedPrompt(track)
        BY DEF ReleasedPrompt, RowOK, HeardOK, DialogOK
    <2>5. ~ManualStands(track, FALSE) /\ ~LogStands(track, FALSE) /\ HookStands(track, FALSE)
        BY <2>2, <2>3, <2>4, DetectorData DEF ManualStands, LogStands, HookStands, ReleasedNotify
    <2>6. Shown = Evaluate(track, FALSE, FALSE)
        BY <2>1 DEF Shown
    <2>7. Shown = Judged("waiting", "hook")
        BY <2>2, <2>5, <2>6 DEF Evaluate
    <2> QED BY <2>7 DEF Judged
<1> QED BY <1>1, <1>2 DEF RowTells

\* RowTells: a prompt of the main thread that the panel has heard of is shown
\* until it is answered, and a click stands until the session does something
\* new, whatever is lost, late, delivered out of order or fails to be written,
\* and across restarts (detect.go, handleHookState, pollOnce, RestoreState).
\* This is the safety half of RowComesRight.
THEOREM RowTellsCorrect == ReportsSpec => []RowTells
<1>1. ReportsInit => ReportsTypeOK /\ RowOK
    BY ReportsInitial, RowInitial
<1>2. ReportsTypeOK /\ RowOK /\ [ReportsNext]_reportsVars => (ReportsTypeOK /\ RowOK)'
    BY ReportsStep, ReportsStays, RowStep
<1>3. ReportsTypeOK /\ RowOK => RowTells
    BY RowShown
<1> QED BY <1>1, <1>2, <1>3, PTL DEF ReportsSpec

-----------------------------------------------------------------------------
(* The page, part by part: each step of it is a step of one part and a     *)
(* stuttering one of the others.                                           *)

PageInv == Paid /\ ViewSafe /\ ReportsTypeOK /\ RowOK

LEMMA PageInvariant ==
    ASSUME ~RemountEarly PROVE PageSpec => []PageInv
<1>1. PageInit => PageInv
    BY PaidInit, ViewInitial, ReportsInitial, RowInitial DEF PageInit, PageInv
<1>2. PageInv /\ [PageNext]_pagePartsVars => PageInv'
    <2> SUFFICES ASSUME Paid, ViewSafe, ReportsTypeOK, RowOK, [PageNext]_pagePartsVars
                 PROVE  Paid' /\ ViewSafe' /\ ReportsTypeOK' /\ RowOK'
        BY DEF PageInv
    <2>1. [Next]_vars /\ [ViewerNext]_viewerVars /\ [ReportsNext]_reportsVars
        BY DEF PageNext, pagePartsVars
    <2> QED BY <2>1, PaidStep, ViewStep, ReportsStep, ReportsStays, RowStep
<1> QED BY <1>1, <1>2, PTL DEF PageSpec

\* The types of the parts, side by side, for a page that lets go of confirmed
\* subscriptions alone.
THEOREM PartsTypeCorrect ==
    ASSUME ~RemountEarly PROVE PageSpec => []PartsTypeOK
<1>1. PageInv => PartsTypeOK
    BY NotesTyped, ViewTyped DEF PageInv, PartsTypeOK
<1> QED BY <1>1, PageInvariant, PTL

\* And what is proved of the terminal and of the row alone holds of the page the
\* run checks: the screen is exact, and the row tells what it should.
THEOREM PartsSafe ==
    ASSUME ~RemountEarly PROVE PageSpec => [](ScreenExact /\ RowTells)
<1>1. PageInv => ScreenExact /\ RowTells
    BY RowShown DEF PageInv, ViewSafe
<1> QED BY <1>1, PageInvariant, PTL

\* And nothing a user typed is lost on that page, when a save is answered before the
\* next one can be sent.
THEOREM PartsNothingLost ==
    ASSUME ~SlowSaves PROVE PageSpec => NothingLost
<1>1. PageInit => Safe /\ Settled
    BY SafeInit, SettledInit DEF PageInit
<1>2. [PageNext]_pagePartsVars => [Next]_vars
    BY DEF PageNext, pagePartsVars
<1>3. Safe /\ Settled /\ [PageNext]_pagePartsVars => (Safe /\ Settled)'
    BY <1>2, SafeStep, SettledStep
<1>4. Settled => MineKept /\ SavedMeansSaved
    BY DEF Settled
<1>5. Safe /\ [PageNext]_pagePartsVars =>
         [\A w \in Windows : \A q \in asks[w] :
             /\ q.kind \in {"save", "flush"} /\ q \notin asks'[w]
             /\ Len(notes') > Rev
             => Rev \in given[w]]_vars
    BY <1>2, ReplacesGiven
<1> QED BY <1>1, <1>3, <1>4, <1>5, PTL DEF PageSpec, NothingLost, NothingUnseenReplaced
=============================================================================
