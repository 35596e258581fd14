-------------------------- MODULE PanelParts_proofs --------------------------
(***************************************************************************)
(* Proofs about what the panel keeps and passes on, one section for each   *)
(* part: the replay buffer, the chat bridge, the life of a session, the    *)
(* governor, the chat channels, the agents' logs, the scanners of a        *)
(* terminal's stream, and the parts side by side.                          *)
(*                                                                         *)
(* The replay buffer comes first.  Its inductive invariant is Contents:    *)
(* read circularly from start, the array holds the last `size' offsets of  *)
(* the stream.  Every index the code computes with % is at most one lap    *)
(* out of range, which the lemmas on % turn into the conditional the       *)
(* provers can follow.                                                     *)
(***************************************************************************)
EXTENDS PanelParts, FiniteSetTheorems, WellFoundedInduction, TLAPS

\* A modulus of a number less than two laps is that number or one lap less.
LEMMA ModLap ==
    ASSUME NEW c \in Nat \ {0}, NEW a \in 0..(2 * c - 1)
    PROVE  a % c = IF a < c THEN a ELSE a - c
<1>1. CASE a < c
    BY <1>1, Z3
<1>2. CASE a >= c
    <2>1. a - c \in 0..(c - 1)
        BY <1>2
    <2>2. (a - c) % c = a - c
        BY <2>1, Z3
    <2>3. a % c = (a - c) % c
        BY <1>2, Z3
    <2>4. QED BY <1>2, <2>1, <2>2, <2>3
<1>3. QED BY <1>1, <1>2

LEMMA ModRange ==
    ASSUME NEW c \in Nat \ {0}, NEW a \in Nat
    PROVE  a % c \in 0..(c - 1)
BY Z3

\* The same for the length of the array.
LEMMA Lap ==
    \A a \in 0..(2 * Capacity - 1) :
        a % Capacity = IF a < Capacity THEN a ELSE a - Capacity
<1> TAKE a \in 0..(2 * Capacity - 1)
<1>1. QED BY ModLap, RingAssumption

-----------------------------------------------------------------------------
\* The bytes and counters, apart from the flag: the two need different provers.
CountersOK ==
    /\ buf \in [Index -> Int]
    /\ size \in 0..Capacity
    /\ start \in Index
    /\ total \in Nat
    /\ base \in Nat

LEMMA TypeSplit == TypeOK <=> CountersOK /\ overflow \in BOOLEAN
BY Zenon DEF TypeOK, CountersOK

(* Type correctness: in particular start never leaves the array, so no     *)
(* write and no copy indexes past its end.                                 *)
THEOREM TypeCorrect == Spec => []TypeOK
<1> USE RingAssumption
<1>1. Init => TypeOK
    <2>1. Init => CountersOK
        BY DEF Init, CountersOK, Index
    <2>2. Init => overflow \in BOOLEAN
        BY Zenon DEF Init
    <2>3. QED BY <2>1, <2>2, TypeSplit
<1>2. TypeOK /\ [Next]_vars => TypeOK'
    <2> SUFFICES ASSUME TypeOK, [Next]_vars PROVE CountersOK' /\ overflow' \in BOOLEAN
        BY TypeSplit, Zenon DEF TypeOK, CountersOK
    <2>0. CountersOK /\ overflow \in BOOLEAN
        BY TypeSplit
    <2>1. ASSUME NEW n \in 1..MaxChunk, Write(n), WriteAll(n)
          PROVE  CountersOK' /\ overflow' \in BOOLEAN
        <3>1. CountersOK'
            BY <2>0, <2>1 DEF Write, WriteAll, CountersOK, Index
        <3>2. overflow' \in BOOLEAN
            BY <2>0, <2>1, Zenon DEF WriteAll
        <3>3. QED BY <3>1, <3>2
    <2>2. ASSUME NEW n \in 1..MaxChunk, Write(n), WriteTail(n)
          PROVE  CountersOK' /\ overflow' \in BOOLEAN
        <3> USE <2>0, <2>2 DEF Write, WriteTail, CountersOK, Index
        <3>1. End \in 0..(Capacity - 1)
            <4>1. start + size \in Nat
                OBVIOUS
            <4>2. QED BY <4>1, ModRange DEF End
        <3>a. First(n) \in Int
            BY <3>1 DEF First, Smaller
        <3>2. buf' \in [Index -> Int]
            BY <3>1, <3>a
        <3>3. start' \in Index
            <4>1. CASE size + n > Capacity
                <5>1. start + (size + n - Capacity) \in Nat
                    BY <4>1
                <5>2. QED BY <4>1, <5>1, ModRange
            <4>2. QED BY <4>1
        <3>4. size' \in 0..Capacity /\ total' \in Nat /\ base' \in Nat
            OBVIOUS
        <3>5. overflow' \in BOOLEAN
            BY Zenon
        <3>6. QED BY <3>2, <3>3, <3>4, <3>5
    <2>3. CASE Reset
        <3>1. CountersOK'
            BY <2>0, <2>3 DEF Reset, CountersOK, Index
        <3>2. overflow' \in BOOLEAN
            BY <2>3, Zenon DEF Reset
        <3>3. QED BY <3>1, <3>2
    <2>4. CASE UNCHANGED vars
        <3>1. CountersOK'
            BY <2>0, <2>4 DEF vars, CountersOK, Index
        <3>2. overflow' \in BOOLEAN
            BY <2>0, <2>4, Zenon DEF vars
        <3>3. QED BY <3>1, <3>2
    <2>5. QED BY <2>1, <2>2, <2>3, <2>4, Zenon DEF Next, Write
<1>3. QED BY <1>1, <1>2, PTL DEF Spec

-----------------------------------------------------------------------------
\* What the type invariant says of the counters, as plain numbers.
LEMMA Numbers ==
    ASSUME CountersOK
    PROVE  /\ Capacity \in Nat \ {0} /\ total \in Nat
           /\ size \in Nat /\ size <= Capacity
           /\ start \in Nat /\ start < Capacity
BY RingAssumption DEF CountersOK, Index

\* One step around the array, as the code writes it and as Slot writes it.
LEMMA Around ==
    ASSUME CountersOK, NEW k \in Nat, k <= Capacity
    PROVE  (start + k) % Capacity = Slot(k) /\ Slot(k) \in 0..(Capacity - 1)
<1>1. /\ Capacity \in Nat \ {0} /\ k \in Int /\ start \in Int
      /\ start >= 0 /\ start < Capacity /\ k >= 0 /\ k <= Capacity
    BY Numbers
<1>2. start + k \in 0..(2 * Capacity - 1)
    BY <1>1
<1>3. (start + k) % Capacity = IF start + k < Capacity THEN start + k
                                                       ELSE start + k - Capacity
    BY <1>1, <1>2, Lap
<1>4. QED BY <1>1, <1>3 DEF Slot

\* What a write leaves in the slot that is k bytes after the new oldest byte.
LEMMA TailContents ==
    ASSUME CountersOK, Contents, NEW n \in Nat \ {0}, WriteTail(n),
           total' = total + n, NEW k \in 0..(size' - 1)
    PROVE  buf'[Slot(k)'] = total' - size' + k
<1> DEFINE e == Slot(size)
           f == IF n < Capacity - e THEN n ELSE Capacity - e
           d == IF size + n > Capacity THEN size + n - Capacity ELSE 0
           s == Slot(d)
           slot == IF s + k < Capacity THEN s + k ELSE s + k - Capacity
<1>0. /\ Capacity \in Nat \ {0} /\ total \in Nat
      /\ size \in Nat /\ size <= Capacity
      /\ start \in Nat /\ start < Capacity
    BY Numbers
<1>1. n \in Nat \ {0} /\ n < Capacity
    BY DEF WriteTail
<1>2. End = e /\ e \in 0..(Capacity - 1)
    BY <1>0, Around DEF End
<1>3. First(n) = f /\ f \in 0..n
    BY <1>0, <1>1, <1>2 DEF First, Smaller
<1>4. d \in Nat /\ d <= n /\ d <= Capacity
    BY <1>0, <1>1
<1>5. start' = s /\ s \in 0..(Capacity - 1)
    <2>1. (start + d) % Capacity = s /\ s \in 0..(Capacity - 1)
        BY <1>4, Around
    <2>2. CASE size + n > Capacity
        <3>1. start' = (start + (size + n - Capacity)) % Capacity
            BY <2>2 DEF WriteTail
        <3>2. QED BY <2>1, <2>2, <3>1
    <2>3. CASE ~(size + n > Capacity)
        <3>1. start' = start
            BY <2>3 DEF WriteTail
        <3>2. s = start
            BY <2>3, <1>0 DEF Slot
        <3>3. QED BY <2>1, <3>1, <3>2
    <2>4. QED BY <2>2, <2>3
<1>6. size' = size + n - d
    <2>1. CASE size + n > Capacity
        BY <2>1, <1>0, <1>1 DEF WriteTail
    <2>2. CASE ~(size + n > Capacity)
        BY <2>2, <1>0, <1>1 DEF WriteTail
    <2>3. QED BY <2>1, <2>2
<1>7. k \in Nat /\ k < size + n - d
    BY <1>6, <1>0, <1>1, <1>4
<1>8. size + n - d <= Capacity
    BY <1>0, <1>1
<1>9. Slot(k)' = slot /\ slot \in 0..(Capacity - 1)
    BY <1>0, <1>5, <1>7, <1>8, <1>4, <1>1 DEF Slot
<1>10. buf'[slot] = IF slot >= e /\ slot - e < f THEN total + (slot - e)
                    ELSE IF slot < n - f THEN total + f + slot
                    ELSE buf[slot]
    BY <1>2, <1>3, <1>9 DEF WriteTail, Index
<1> HIDE DEF f
<1>11. f = IF n < Capacity - e THEN n ELSE Capacity - e
    BY DEF f
<1>12. CASE k + d < size
    <2>1. buf[Slot(k + d)] = total - size + (k + d)
        BY <1>12, <1>0, <1>4, <1>7 DEF Contents
    <2>2. Slot(k + d) = slot
        BY <1>12, <1>0, <1>4, <1>7 DEF Slot
    <2>3. ~(slot >= e /\ slot - e < f) /\ ~(slot < n - f)
        BY <1>12, <1>0, <1>1, <1>2, <1>3, <1>4, <1>7, <1>11 DEF Slot
    <2>4. QED BY <2>1, <2>2, <2>3, <1>0, <1>1, <1>4, <1>6, <1>7, <1>9, <1>10
<1>13. CASE k + d >= size
    <2> DEFINE j == k + d - size
    <2>1. j \in 0..(n - 1)
        BY <1>13, <1>0, <1>1, <1>4, <1>7
    <2>2. slot = IF e + j < Capacity THEN e + j ELSE e + j - Capacity
        BY <1>13, <1>0, <1>1, <1>4, <1>7 DEF Slot
    <2> HIDE DEF j, slot, e
    <2>3. buf'[slot] = total + j
        <3>1. CASE j < f
            <4>1. slot = e + j
                BY <3>1, <2>1, <2>2, <1>0, <1>1, <1>2, <1>3, <1>11
            <4>2. QED BY <4>1, <3>1, <2>1, <1>0, <1>1, <1>2, <1>3, <1>10
        <3>2. CASE j >= f
            <4>1. slot = j - f
                BY <3>2, <2>1, <2>2, <1>0, <1>1, <1>2, <1>3, <1>11
            <4>2. ~(slot >= e) /\ slot < n - f
                BY <4>1, <3>2, <2>1, <1>0, <1>1, <1>2, <1>3, <1>11
            <4>3. QED BY <4>1, <4>2, <3>2, <2>1, <1>0, <1>1, <1>2, <1>3, <1>10
        <3>3. QED BY <3>1, <3>2, <2>1, <1>0, <1>1, <1>3
    <2>4. total + j = total' - size' + k
        BY <1>0, <1>1, <1>4, <1>6, <1>7 DEF j
    <2>5. QED BY <2>3, <2>4, <1>9
<1>14. QED BY <1>12, <1>13, <1>0, <1>4, <1>7

(* The array read circularly from start is the last `size` offsets of the  *)
(* stream, after every write and every wrap.                               *)
THEOREM ContentsCorrect == Spec => []Contents
<1> USE RingAssumption
<1>1. Init => Contents
    BY DEF Init, Contents
<1>2. TypeOK /\ Contents /\ [Next]_vars => Contents'
    <2> SUFFICES ASSUME TypeOK, Contents, [Next]_vars PROVE Contents'
        OBVIOUS
    <2>0. CountersOK
        BY TypeSplit
    <2>1. ASSUME NEW n \in 1..MaxChunk, Write(n), WriteAll(n) PROVE Contents'
        BY <2>0, <2>1 DEF Write, WriteAll, Contents, CountersOK, Index, Slot
    <2>2. ASSUME NEW n \in 1..MaxChunk, Write(n), WriteTail(n) PROVE Contents'
        <3>0. n \in Nat \ {0} /\ total' = total + n
            BY <2>2 DEF Write
        <3>1. size' <= total'
            BY <2>0, <2>2, <3>0 DEF WriteTail, CountersOK, Contents
        <3>2. ASSUME NEW k \in 0..(size' - 1)
              PROVE  buf'[Slot(k)'] = total' - size' + k
            BY <2>0, <2>2, <3>0, TailContents
        <3>3. QED BY <3>1, <3>2 DEF Contents
    <2>3. CASE Reset
        BY <2>0, <2>3 DEF Reset, Contents, CountersOK
    <2>4. CASE UNCHANGED vars
        BY <2>0, <2>4 DEF vars, Contents, Slot
    <2>5. QED BY <2>1, <2>2, <2>3, <2>4, Zenon DEF Next, Write
<1>3. QED BY <1>1, <1>2, TypeCorrect, PTL DEF Spec

-----------------------------------------------------------------------------
(* A snapshot is the window, byte for byte.                                *)
THEOREM SnapshotCorrect == Spec => []SnapshotExact
<1>1. TypeOK /\ Contents => SnapshotExact
    <2> SUFFICES ASSUME CountersOK, Contents, NEW k \in 0..(size - 1)
                 PROVE  Snapshot[k] = total - size + k
        BY TypeSplit DEF SnapshotExact
    <2>1. Snapshot[k] = Copied(start, size, k)
        BY DEF Snapshot
    <2>2. Copied(start, size, k) = buf[Slot(k)]
        BY RingAssumption DEF Copied, Slot, Smaller, CountersOK, Index
    <2>3. QED BY <2>1, <2>2 DEF Contents
<1>2. QED BY <1>1, TypeCorrect, ContentsCorrect, PTL

(* A resume at any offset still held hands over exactly what follows it.   *)
THEOREM ResumeCorrect == Spec => []ResumeExact
<1>1. TypeOK /\ Contents => ResumeExact
    <2> SUFFICES ASSUME CountersOK, Contents,
                        NEW since \in (total - size)..total,
                        NEW k \in 0..(total - since - 1)
                 PROVE  SnapshotFrom(since)[k] = since + k
        BY TypeSplit DEF ResumeExact
    <2> DEFINE n    == total - since
               from == Slot(size - n)
               j    == size - n + k
    <2>0. /\ Capacity \in Nat \ {0} /\ total \in Nat
          /\ size \in Nat /\ size <= Capacity
          /\ start \in Nat /\ start < Capacity
        BY Numbers
    <2>1. n \in 1..size /\ k \in 0..(n - 1) /\ since = total - n
        BY <2>0 DEF Contents
    <2> HIDE DEF n
    <2>2. (start + (size - n)) % Capacity = from /\ from \in 0..(Capacity - 1)
        BY <2>0, <2>1, Around
    <2>3. start + size - n = start + (size - n)
        BY <2>0, <2>1
    <2>4. SnapshotFrom(since)[k] = Copied(from, n, k)
        BY <2>1, <2>2, <2>3 DEF SnapshotFrom, n
    <2>5. Copied(from, n, k) = buf[Slot(j)]
        BY <2>0, <2>1, <2>2 DEF Copied, Smaller, Slot
    <2>6. buf[Slot(j)] = total - size + j
        BY <2>0, <2>1 DEF Contents
    <2>7. QED BY <2>0, <2>1, <2>4, <2>5, <2>6
<1>2. QED BY <1>1, TypeCorrect, ContentsCorrect, PTL

-----------------------------------------------------------------------------
\* What is held was written since the buffer was last emptied.
SinceBase == base <= total /\ size <= total - base

(* The flag, written for a prover of arithmetic: what it says when it is   *)
(* up, and what it says when it is down.                                   *)
FlagExact == /\ overflow => total - base > size
             /\ ~overflow => ~(total - base > size)

LEMMA FlagSplit == OverflowExact <=> FlagExact
BY Zenon DEF OverflowExact, FlagExact

(* Overflowed() is up exactly when a byte written since the buffer was     *)
(* last emptied has been lost, so a snapshot is trimmed exactly when its   *)
(* head may be the middle of an escape sequence.                           *)
THEOREM OverflowCorrect == Spec => []OverflowExact
<1>1. Init => SinceBase /\ FlagExact
    <2>1. Init => SinceBase /\ ~(total - base > size)
        BY DEF Init, SinceBase
    <2>2. Init => ~overflow
        BY Zenon DEF Init
    <2>3. QED BY <2>1, <2>2, Zenon DEF FlagExact
<1>2. TypeOK /\ SinceBase /\ FlagExact /\ [Next]_vars => (SinceBase /\ FlagExact)'
    <2> SUFFICES ASSUME TypeOK, SinceBase, FlagExact, [Next]_vars
                 PROVE  SinceBase' /\ FlagExact'
        BY Zenon
    <2>0. CountersOK /\ base \in Nat
        BY TypeSplit DEF CountersOK
    <2>n. /\ Capacity \in Nat \ {0} /\ total \in Nat
          /\ size \in Nat /\ size <= Capacity
        BY <2>0, Numbers
    <2>m. MaxChunk \in Nat
        BY RingAssumption
    <2>1. ASSUME NEW n \in 1..MaxChunk, Write(n), WriteAll(n)
          PROVE  SinceBase' /\ FlagExact'
        <3>1. total' = total + n /\ base' = base /\ size' = Capacity /\ n >= Capacity
            BY <2>1, Zenon DEF Write, WriteAll
        <3>2. SinceBase'
            BY <3>1, <2>0, <2>n, <2>m DEF SinceBase
        <3>3. (total - base > size \/ n > Capacity \/ size > 0)
                <=> (total' - base' > size')
            BY <3>1, <2>0, <2>n, <2>m DEF SinceBase
        <3>4. overflow' <=> (overflow \/ n > Capacity \/ size > 0)
            BY <2>1, Zenon DEF WriteAll
        <3>5. QED BY <3>2, <3>3, <3>4, Zenon DEF FlagExact
    <2>2. ASSUME NEW n \in 1..MaxChunk, Write(n), WriteTail(n)
          PROVE  SinceBase' /\ FlagExact'
        <3>1. total' = total + n /\ base' = base
            BY <2>2, Zenon DEF Write
        <3>2. CASE size + n > Capacity
            <4>1. size' = Capacity
                BY <2>2, <3>2, Zenon DEF WriteTail
            <4>2. SinceBase' /\ total' - base' > size'
                BY <3>1, <3>2, <4>1, <2>0, <2>n, <2>m DEF SinceBase
            <4>3. overflow'
                BY <2>2, <3>2, Zenon DEF WriteTail
            <4>4. QED BY <4>2, <4>3, Zenon DEF FlagExact
        <3>3. CASE ~(size + n > Capacity)
            <4>1. size' = size + n /\ overflow' = overflow
                BY <2>2, <3>3, Zenon DEF WriteTail
            <4>2. SinceBase' /\ (total' - base' > size' <=> total - base > size)
                BY <3>1, <4>1, <2>0, <2>n, <2>m DEF SinceBase
            <4>3. QED BY <4>1, <4>2, Zenon DEF FlagExact
        <3>4. QED BY <3>2, <3>3, Zenon
    <2>3. CASE Reset
        <3>1. SinceBase' /\ ~(total' - base' > size')
            BY <2>3, <2>n DEF Reset, SinceBase
        <3>2. ~overflow'
            BY <2>3, Zenon DEF Reset
        <3>3. QED BY <3>1, <3>2, Zenon DEF FlagExact
    <2>4. CASE UNCHANGED vars
        <3>1. /\ total' = total /\ base' = base /\ size' = size
              /\ overflow' = overflow
            BY <2>4, Zenon DEF vars
        <3>2. QED BY <3>1, Zenon DEF SinceBase, FlagExact
    <2>5. QED BY <2>1, <2>2, <2>3, <2>4, Zenon DEF Next, Write
<1>3. QED BY <1>1, <1>2, TypeCorrect, FlagSplit, PTL DEF Spec

-----------------------------------------------------------------------------
(* The array with its two indices implements the window: every write       *)
(* forgets from the old end, and only what does not fit.                   *)
THEOREM ImplementsCorrect == Spec => ImplementsWindow
<1>1. Init => Window!Init
    BY DEF Init, Window!Init
<1>2. TypeOK /\ [Next]_vars => [Window!Next]_(Window!windowVars)
    <2> SUFFICES ASSUME TypeOK, [Next]_vars
                 PROVE  Window!Next \/ UNCHANGED Window!windowVars
        OBVIOUS
    <2>0. /\ Capacity \in Nat \ {0} /\ total \in Nat
          /\ size \in Nat /\ size <= Capacity
        BY TypeSplit, Numbers
    <2>m. MaxChunk \in Nat
        BY RingAssumption
    <2>1. ASSUME NEW n \in 1..MaxChunk, Write(n), WriteAll(n)
          PROVE  Window!Append(n)
        <3>1. total' = total + n /\ size' = Capacity /\ n >= Capacity
            BY <2>1, Zenon DEF Write, WriteAll
        <3>2. QED BY <3>1, <2>0, <2>m DEF Window!Append
    <2>2. ASSUME NEW n \in 1..MaxChunk, Write(n), WriteTail(n)
          PROVE  Window!Append(n)
        <3>1. total' = total + n
            BY <2>2, Zenon DEF Write
        <3>2. size' = IF size + n > Capacity THEN Capacity ELSE size + n
            BY <2>2, Zenon DEF WriteTail
        <3>3. QED BY <3>1, <3>2, <2>0, <2>m DEF Window!Append
    <2>3. CASE Reset
        BY <2>3, <2>0 DEF Reset, Window!Next, Window!Clear
    <2>4. CASE UNCHANGED vars
        BY <2>4 DEF vars, Window!windowVars
    <2>5. QED BY <2>1, <2>2, <2>3, <2>4, Zenon DEF Next, Write, Window!Next
<1>3. QED BY <1>1, <1>2, TypeCorrect, PTL DEF Spec, ImplementsWindow, Window!Spec

(* All that a replay has to be, for every capacity and every stream.       *)
THEOREM ReplayCorrect == Spec => []ReplayExact
BY ContentsCorrect, SnapshotCorrect, ResumeCorrect, OverflowCorrect, PTL DEF ReplayExact

-----------------------------------------------------------------------------
(***************************************************************************)
(* The chat bridge, for any people, with or without buttons, and as many   *)
(* requests, pushes and mishaps as there may be.  A card is recorded only  *)
(* once it has been shown, so whatever a card, a menu or a finished push   *)
(* says of a person and a request was on that person's phone.              *)
(***************************************************************************)

\* A row that says the session waits has the request it waits on.
RowNamesOK == reported.waiting => reported.last \in Made

\* A card that reached a phone is in front of that person.
CardsOK == \A p \in People, m \in Made : card[p][m] # "none" => m \in shown[p]

\* So is the one a push has just sent.
PushesOK == \A i \in Pushes : push[i].at = "sent" => push[i].last \in shown[push[i].to]

\* And the one a button being handled was on.
ButtonsOK == \A p \in People :
    inbound[p].at = "looks" => inbound[p].bound = 0 \/ inbound[p].bound \in shown[p]

ChatInv ==
    /\ ChatTypeOK
    /\ RowNamesOK /\ CardsOK /\ PushesOK /\ ButtonsOK
    /\ ReadBeforeAllowed

NextPushes == [at : {"next"}, last : Made, left : SUBSET People]
SentPushes == [at : {"sent"}, last : Made, left : SUBSET People, to : People]
LooksAtIt == [at : {"looks"}, bound : {0} \cup Made, safe : BOOLEAN]
KeysFor == [at : {"keys"}, request : Made, safe : BOOLEAN]
ClosesIt == [at : {"close"}, request : Made]

LEMMA ChatNumbers == /\ MaxRequests \in Nat /\ MaxPushes \in Nat /\ MaxMishaps \in Nat
                     /\ Tappers \subseteq People
BY ChatAssumption

\* What is not a push under way has none of its fields.
LEMMA PushAt ==
    ASSUME ChatTypeOK, NEW i \in Pushes
    PROVE  /\ push[i].at = "next" => push[i] \in NextPushes
           /\ push[i].at = "sent" => push[i] \in SentPushes
BY DEF ChatTypeOK, NextPushes, SentPushes, NoPush

LEMMA InboundAt ==
    ASSUME ChatTypeOK, NEW p \in People
    PROVE  /\ inbound[p].at = "looks" => inbound[p] \in LooksAtIt
           /\ inbound[p].at = "keys" => inbound[p] \in KeysFor
           /\ inbound[p].at = "close" => inbound[p] \in ClosesIt
BY DEF ChatTypeOK, LooksAtIt, KeysFor, ClosesIt, Waits

LEMMA CurrentIsMade ==
    ASSUME ChatTypeOK, RowNamesOK
    PROVE  Current \in {0} \cup Made
BY DEF ChatTypeOK, RowNamesOK, Current

\* Requests are counted from one.
LEMMA MadeAreNumbers == 0 \notin Made /\ \A m \in Made : m \in Nat /\ m # 0
BY ChatNumbers DEF Made

\* Sweeping, in whichever form, changes no card that was not on a phone.
LEMMA SweepKeeps ==
    ASSUME ChatTypeOK, Sweep
    PROVE  /\ card' \in [People -> [Made -> Cards]]
           /\ \A p \in People, m \in Made : card'[p][m] # "none" => card[p][m] # "none"
<1>1. \A p \in People, m \in Made : Swept(p, m) \in Cards
    BY DEF ChatTypeOK, Swept, Cards
<1>2. card' \in [People -> [Made -> Cards]]
    BY <1>1 DEF Sweep
<1>3. \A p \in People, m \in Made : card'[p][m] = Swept(p, m)
    BY DEF Sweep
<1>4. QED BY <1>2, <1>3 DEF Swept

LEMMA ChatInitHolds == ChatInit => ChatInv
<1> SUFFICES ASSUME ChatInit PROVE ChatInv
    OBVIOUS
<1> USE DEF ChatInit
<1>1. ChatTypeOK
    <2>1. reported \in [waiting : BOOLEAN, last : {0} \cup Made]
        BY Zenon
    <2>2. \A p \in People : inbound[p] = Waits
        OBVIOUS
    <2>3. card \in [People -> [Made -> Cards]]
        BY DEF Cards
    <2>4. mishaps \in 0..MaxMishaps
        BY ChatNumbers
    <2>5. shown \in [People -> SUBSET Made]
        OBVIOUS
    <2>6. QED BY <2>1, <2>2, <2>3, <2>4, <2>5, ChatNumbers DEF ChatTypeOK
<1>2. RowNamesOK /\ CardsOK /\ PushesOK /\ ButtonsOK
    BY DEF RowNamesOK, CardsOK, PushesOK, ButtonsOK, NoPush, Waits
<1>3. ReadBeforeAllowed
    BY DEF ReadBeforeAllowed, Waits
<1>4. QED BY <1>1, <1>2, <1>3 DEF ChatInv


LEMMA AgentSteps ==
    ASSUME ChatInv, Asks \/ AnsweredAtLaptop \/ Hooked
    PROVE  ChatInv'
<1> USE DEF ChatInv, bridgeVars
<1>1. CASE Asks
    <2>1. requests + 1 \in Made
        BY <1>1, ChatNumbers DEF Asks, ChatTypeOK, Made
    <2>2. ChatTypeOK'
        BY <1>1, <2>1 DEF Asks, ChatTypeOK
    <2>3. RowNamesOK' /\ CardsOK' /\ PushesOK' /\ ButtonsOK'
        BY <1>1 DEF Asks, RowNamesOK, CardsOK, PushesOK, ButtonsOK
    <2>4. ReadBeforeAllowed'
        BY <1>1 DEF Asks, ReadBeforeAllowed
    <2>5. QED BY <2>2, <2>3, <2>4
<1>2. CASE AnsweredAtLaptop
    <2>2. ChatTypeOK'
        BY <1>2 DEF AnsweredAtLaptop, ChatTypeOK
    <2>3. RowNamesOK' /\ CardsOK' /\ PushesOK' /\ ButtonsOK'
        BY <1>2 DEF AnsweredAtLaptop, RowNamesOK, CardsOK, PushesOK, ButtonsOK
    <2>4. ReadBeforeAllowed'
        BY <1>2 DEF AnsweredAtLaptop, ReadBeforeAllowed
    <2>5. QED BY <2>2, <2>3, <2>4
<1>3. CASE Hooked
    <2>1. (IF prompt # 0 THEN prompt ELSE reported.last) \in {0} \cup Made
        BY DEF ChatTypeOK
    <2>2. reported' \in [waiting : BOOLEAN, last : {0} \cup Made]
        BY <1>3, <2>1, Zenon DEF Hooked
    <2>3. ChatTypeOK'
        BY <1>3, <2>2 DEF Hooked, ChatTypeOK
    <2>4. RowNamesOK'
        BY <1>3 DEF Hooked, RowNamesOK, ChatTypeOK
    <2>5. CardsOK' /\ PushesOK' /\ ButtonsOK'
        BY <1>3 DEF Hooked, CardsOK, PushesOK, ButtonsOK
    <2>6. ReadBeforeAllowed'
        BY <1>3 DEF Hooked, ReadBeforeAllowed
    <2>7. QED BY <2>3, <2>4, <2>5, <2>6
<1>4. QED BY <1>1, <1>2, <1>3

\* What a push does with the person it has come to.
LEMMA LeavesFits ==
    ASSUME ChatTypeOK, NEW i \in Pushes, NEW p \in People, push[i] \in NextPushes \/ push[i] \in SentPushes
    PROVE  Leaves(i, p) \in {NoPush} \cup NextPushes
<1>1. push[i].last \in Made /\ push[i].left \ {p} \in SUBSET People
    BY DEF NextPushes, SentPushes
<1>2. QED BY <1>1 DEF Leaves, NextPushes

\* An answer, a card or a hold of one push leaves the others where they were.
LEMMA PushChanges ==
    ASSUME ChatTypeOK, NEW i \in Pushes, NEW x \in {NoPush} \cup NextPushes \cup SentPushes,
           push' = [push EXCEPT ![i] = x]
    PROVE  /\ push' \in [Pushes -> {NoPush} \cup NextPushes \cup SentPushes]
           /\ push'[i] = x
           /\ \A j \in Pushes : j # i => push'[j] = push[j]
BY DEF ChatTypeOK, NextPushes, SentPushes

LEMMA FireStep ==
    ASSUME ChatInv, NEW i \in Pushes, Fire(i)
    PROVE  ChatInv'
<1> USE DEF ChatInv
<1> DEFINE x == [at |-> "next", last |-> reported.last, left |-> People]
<1>1. \/ push' = push
      \/ reported.waiting /\ push' = [push EXCEPT ![i] = x]
    BY DEF Fire
<1>2. reported.waiting => x \in NextPushes
    BY DEF RowNamesOK, NextPushes
<1>3. /\ push' \in [Pushes -> {NoPush} \cup NextPushes \cup SentPushes]
      /\ \A j \in Pushes : push'[j] = push[j] \/ push'[j].at = "next"
    <2>1. CASE push' = push
        BY <2>1 DEF ChatTypeOK, NextPushes, SentPushes
    <2>2. CASE reported.waiting /\ push' = [push EXCEPT ![i] = x]
        BY <2>2, <1>2, PushChanges
    <2>3. QED BY <1>1, <2>1, <2>2
<1>4. /\ card' \in [People -> [Made -> Cards]]
      /\ \A p \in People, m \in Made : card'[p][m] # "none" => card[p][m] # "none"
    BY SweepKeeps DEF Fire
<1>5. /\ mishaps' \in 0..MaxMishaps
      /\ overlapped' \in BOOLEAN
    <2>1. mishaps' \in 0..MaxMishaps
        BY ChatNumbers DEF Fire, Overlaps, Mishap, ChatTypeOK
    <2>2. overlapped' \in BOOLEAN
        BY Zenon DEF Fire, Overlaps, Mishap, ChatTypeOK
    <2>3. QED BY <2>1, <2>2
<1>6. armed' \in BOOLEAN
    BY DEF Fire, ChatTypeOK
<1>7. ChatTypeOK'
    BY <1>3, <1>4, <1>5, <1>6 DEF Fire, ChatTypeOK, NextPushes, SentPushes
<1>8. RowNamesOK' /\ ButtonsOK'
    BY DEF Fire, RowNamesOK, ButtonsOK
<1>9. CardsOK'
    BY <1>4 DEF Fire, CardsOK
<1>10. PushesOK'
    BY <1>3 DEF Fire, PushesOK
<1>11. ReadBeforeAllowed'
    BY DEF Fire, ReadBeforeAllowed
<1>12. QED BY <1>7, <1>8, <1>9, <1>10, <1>11

LEMMA PassOverStep ==
    ASSUME ChatInv, NEW i \in Pushes, NEW p \in People, PassOver(i, p)
    PROVE  ChatInv'
<1> USE DEF ChatInv
<1>1. Leaves(i, p) \in {NoPush} \cup NextPushes
    BY PushAt, LeavesFits DEF PassOver
<1>2. /\ push' \in [Pushes -> {NoPush} \cup NextPushes \cup SentPushes]
      /\ push'[i] = Leaves(i, p)
      /\ \A j \in Pushes : j # i => push'[j] = push[j]
    BY <1>1, PushChanges DEF PassOver
<1>3. skipped' \subseteq People /\ missed' \subseteq People
    BY DEF PassOver, ChatTypeOK
<1>4. ChatTypeOK'
    BY <1>2, <1>3 DEF PassOver, ChatTypeOK, NextPushes, SentPushes
<1>5. RowNamesOK' /\ CardsOK' /\ ButtonsOK'
    BY DEF PassOver, RowNamesOK, CardsOK, ButtonsOK
<1>6. PushesOK'
    BY <1>1, <1>2 DEF PassOver, PushesOK, NextPushes, NoPush
<1>7. ReadBeforeAllowed'
    BY DEF PassOver, ReadBeforeAllowed
<1>8. QED BY <1>4, <1>5, <1>6, <1>7

LEMMA SendCardStep ==
    ASSUME ChatInv, NEW i \in Pushes, NEW p \in People, SendCard(i, p)
    PROVE  ChatInv'
<1> USE DEF ChatInv
<1> DEFINE m == push[i].last
           x == [at |-> "sent", last |-> push[i].last, left |-> push[i].left, to |-> p]
<1>1. push[i] \in NextPushes /\ m \in Made
    BY PushAt DEF SendCard, NextPushes
<1>2. x \in SentPushes
    BY <1>1 DEF NextPushes, SentPushes
<1>3. push' = [push EXCEPT ![i] = x]
    BY DEF SendCard, ChatTypeOK
<1>4. /\ push' \in [Pushes -> {NoPush} \cup NextPushes \cup SentPushes]
      /\ push'[i] = x
      /\ \A j \in Pushes : j # i => push'[j] = push[j]
    BY <1>2, <1>3, PushChanges
<1>5. /\ shown' \in [People -> SUBSET Made]
      /\ m \in shown'[p]
      /\ \A q \in People : shown[q] \subseteq shown'[q]
    BY <1>1 DEF SendCard, ChatTypeOK
<1>6. /\ card' \in [People -> [Made -> Cards]]
      /\ \A q \in People, n \in Made : card'[q][n] = card[q][n] \/ (q = p /\ n = m)
    BY <1>1 DEF SendCard, ChatTypeOK, Cards
<1>7. ChatTypeOK'
    BY <1>4, <1>5, <1>6 DEF SendCard, ChatTypeOK, NextPushes, SentPushes
<1>8. RowNamesOK'
    BY DEF SendCard, RowNamesOK
<1>9. CardsOK'
    BY <1>5, <1>6 DEF CardsOK
<1>10. PushesOK'
    <2> SUFFICES ASSUME NEW j \in Pushes, push'[j].at = "sent"
                 PROVE  push'[j].last \in shown'[push'[j].to]
        BY DEF PushesOK
    <2>1. CASE j = i
        BY <2>1, <1>4, <1>5
    <2>2. CASE j # i
        <3>1. push[j] \in SentPushes /\ push[j].last \in shown[push[j].to]
            BY <2>2, <1>4, PushAt DEF PushesOK
        <3>2. push[j].to \in People
            BY <3>1 DEF SentPushes
        <3>3. QED BY <3>1, <3>2, <2>2, <1>4, <1>5
    <2>3. QED BY <2>1, <2>2
<1>11. ButtonsOK'
    BY <1>5 DEF SendCard, ButtonsOK
<1>12. ReadBeforeAllowed'
    BY <1>5 DEF SendCard, ReadBeforeAllowed
<1>13. QED BY <1>7, <1>8, <1>9, <1>10, <1>11, <1>12


LEMMA SendFailsStep ==
    ASSUME ChatInv, NEW i \in Pushes, NEW p \in People, SendFails(i, p)
    PROVE  ChatInv'
<1> USE DEF ChatInv
<1>1. Leaves(i, p) \in {NoPush} \cup NextPushes
    BY PushAt, LeavesFits DEF SendFails
<1>2. /\ push' \in [Pushes -> {NoPush} \cup NextPushes \cup SentPushes]
      /\ push'[i] = Leaves(i, p)
      /\ \A j \in Pushes : j # i => push'[j] = push[j]
    BY <1>1, PushChanges DEF SendFails
<1>3. /\ mishaps' \in 0..MaxMishaps
      /\ missed' \subseteq People /\ spoke' \subseteq People
    BY ChatNumbers DEF SendFails, Mishap, ChatTypeOK
<1>4. ChatTypeOK'
    BY <1>2, <1>3 DEF SendFails, ChatTypeOK, NextPushes, SentPushes
<1>5. RowNamesOK' /\ CardsOK' /\ ButtonsOK'
    BY DEF SendFails, RowNamesOK, CardsOK, ButtonsOK
<1>6. PushesOK'
    BY <1>1, <1>2 DEF SendFails, PushesOK, NextPushes, NoPush
<1>7. ReadBeforeAllowed'
    BY DEF SendFails, ReadBeforeAllowed
<1>8. QED BY <1>4, <1>5, <1>6, <1>7

LEMMA RecordCardStep ==
    ASSUME ChatInv, NEW i \in Pushes, RecordCard(i)
    PROVE  ChatInv'
<1> USE DEF ChatInv
<1> DEFINE p == push[i].to
           m == push[i].last
<1>1. push[i] \in SentPushes /\ p \in People /\ m \in Made /\ m \in shown[p]
    BY PushAt DEF RecordCard, SentPushes, PushesOK
<1>2. Leaves(i, p) \in {NoPush} \cup NextPushes
    BY <1>1, LeavesFits
<1>3. /\ push' \in [Pushes -> {NoPush} \cup NextPushes \cup SentPushes]
      /\ push'[i] = Leaves(i, p)
      /\ \A j \in Pushes : j # i => push'[j] = push[j]
    BY <1>2, PushChanges DEF RecordCard
<1>4. /\ card' \in [People -> [Made -> Cards]]
      /\ \A q \in People, n \in Made : card'[q][n] = card[q][n] \/ (q = p /\ n = m)
    BY <1>1 DEF RecordCard, ChatTypeOK, Cards, Kind
<1>5. ChatTypeOK'
    BY <1>3, <1>4 DEF RecordCard, ChatTypeOK, NextPushes, SentPushes
<1>6. RowNamesOK' /\ ButtonsOK'
    BY DEF RecordCard, RowNamesOK, ButtonsOK
<1>7. CardsOK'
    BY <1>1, <1>4 DEF RecordCard, CardsOK
<1>8. PushesOK'
    BY <1>2, <1>3 DEF RecordCard, PushesOK, NextPushes, NoPush
<1>9. ReadBeforeAllowed'
    BY DEF RecordCard, ReadBeforeAllowed
<1>10. QED BY <1>5, <1>6, <1>7, <1>8, <1>9

LEMMA BridgeSteps ==
    ASSUME ChatInv, QuietEnds \/ Reload
    PROVE  ChatInv'
<1> USE DEF ChatInv
<1>1. mishaps' \in 0..MaxMishaps
    BY ChatNumbers DEF QuietEnds, Reload, Mishap, ChatTypeOK
<1>2. quietHours' \in BOOLEAN /\ running' \in BOOLEAN
    BY DEF QuietEnds, Reload, ChatTypeOK
<1>3. ChatTypeOK'
    BY <1>1, <1>2 DEF QuietEnds, Reload, ChatTypeOK
<1>4. RowNamesOK' /\ CardsOK' /\ PushesOK' /\ ButtonsOK'
    BY DEF QuietEnds, Reload, RowNamesOK, CardsOK, PushesOK, ButtonsOK
<1>5. ReadBeforeAllowed'
    BY DEF QuietEnds, Reload, ReadBeforeAllowed
<1>6. QED BY <1>3, <1>4, <1>5

\* A message moves one person's handling, whatever becomes of the others.
LEMMA InboundChanges ==
    ASSUME ChatTypeOK, NEW p \in People, NEW x \in {Waits} \cup LooksAtIt \cup KeysFor \cup ClosesIt,
           inbound' = [inbound EXCEPT ![p] = x]
    PROVE  /\ inbound' \in [People -> {Waits} \cup LooksAtIt \cup KeysFor \cup ClosesIt]
           /\ inbound'[p] = x
           /\ \A q \in People : q # p => inbound'[q] = inbound[q]
BY DEF ChatTypeOK, LooksAtIt, KeysFor, ClosesIt

\* Showing a person a request never takes one away.
LEMMA ShownGrows ==
    ASSUME ChatTypeOK, NEW p \in People, NEW m \in Made, shown' = [shown EXCEPT ![p] = @ \cup {m}]
    PROVE  /\ shown' \in [People -> SUBSET Made]
           /\ m \in shown'[p]
           /\ \A q \in People : shown[q] \subseteq shown'[q]
BY DEF ChatTypeOK

\* A message with the request of a button that was on the phone, or with none.
LEMMA WritesStep ==
    ASSUME ChatInv, NEW p \in People, NEW bound \in {0} \cup Made, NEW safe \in BOOLEAN,
           bound = 0 \/ bound \in shown[p], Writes(p, bound, safe)
    PROVE  ChatInv'
<1> USE DEF ChatInv
<1>1. missed' \subseteq People /\ spoke' \subseteq People
    BY DEF Writes, ChatTypeOK
<1>2. Current \in {0} \cup Made
    BY CurrentIsMade
<1>3. CASE p \in missed /\ Current # 0
    <2>1. /\ card' = [card EXCEPT ![p][Current] = Kind(p)]
          /\ shown' = [shown EXCEPT ![p] = @ \cup {Current}]
          /\ inbound' = inbound
        BY <1>3 DEF Writes
    <2>2. /\ shown' \in [People -> SUBSET Made]
          /\ Current \in shown'[p]
          /\ \A q \in People : shown[q] \subseteq shown'[q]
        BY <1>2, <1>3, <2>1, ShownGrows
    <2>3. /\ card' \in [People -> [Made -> Cards]]
          /\ \A q \in People, n \in Made : card'[q][n] = card[q][n] \/ (q = p /\ n = Current)
        BY <1>2, <1>3, <2>1 DEF ChatTypeOK, Cards, Kind
    <2>4. ChatTypeOK'
        BY <1>1, <2>1, <2>2, <2>3 DEF Writes, handleVars, ChatTypeOK
    <2>5. RowNamesOK'
        BY DEF Writes, handleVars, RowNamesOK
    <2>6. CardsOK'
        BY <2>2, <2>3 DEF CardsOK
    <2>7. PushesOK'
        BY <2>2, PushAt DEF Writes, handleVars, PushesOK, SentPushes
    <2>8. ButtonsOK'
        BY <2>1, <2>2 DEF ButtonsOK
    <2>9. ReadBeforeAllowed'
        BY <2>1, <2>2 DEF ReadBeforeAllowed
    <2>10. QED BY <2>4, <2>5, <2>6, <2>7, <2>8, <2>9
<1>4. CASE ~(p \in missed /\ Current # 0)
    <2> DEFINE x == [at |-> "looks", bound |-> bound, safe |-> safe]
    <2>1. inbound' = [inbound EXCEPT ![p] = x] /\ card' = card /\ shown' = shown
        BY <1>4 DEF Writes
    <2>2. x \in LooksAtIt
        BY Zenon DEF LooksAtIt
    <2>3. /\ inbound' \in [People -> {Waits} \cup LooksAtIt \cup KeysFor \cup ClosesIt]
          /\ inbound'[p] = x
          /\ \A q \in People : q # p => inbound'[q] = inbound[q]
        BY <2>1, <2>2, InboundChanges
    <2>4. ChatTypeOK'
        BY <1>1, <2>1, <2>3 DEF Writes, handleVars, ChatTypeOK, LooksAtIt, KeysFor, ClosesIt
    <2>5. RowNamesOK' /\ PushesOK'
        BY <2>1 DEF Writes, handleVars, RowNamesOK, PushesOK
    <2>6. CardsOK'
        BY <2>1 DEF CardsOK
    <2>7. ButtonsOK'
        BY <2>1, <2>3 DEF ButtonsOK
    <2>8. ReadBeforeAllowed'
        BY <2>1, <2>3 DEF ReadBeforeAllowed
    <2>9. QED BY <2>4, <2>5, <2>6, <2>7, <2>8
<1>5. QED BY <1>3, <1>4

LEMMA LooksAtStep ==
    ASSUME ChatInv, NEW p \in People, LooksAt(p)
    PROVE  ChatInv'
<1> USE DEF ChatInv
<1>1. inbound[p] \in LooksAtIt
    BY InboundAt DEF LooksAt
<1>2. Current \in {0} \cup Made
    BY CurrentIsMade
<1>3. CASE Current = 0
    <2>1. inbound' = [inbound EXCEPT ![p] = Waits] /\ shown' = shown
        BY <1>3 DEF LooksAt
    <2>2. /\ card' \in [People -> [Made -> Cards]]
          /\ \A q \in People, m \in Made : card'[q][m] # "none" => card[q][m] # "none"
        BY <1>3, SweepKeeps DEF LooksAt, ChatTypeOK
    <2>3. /\ inbound' \in [People -> {Waits} \cup LooksAtIt \cup KeysFor \cup ClosesIt]
          /\ inbound'[p] = Waits
          /\ \A q \in People : q # p => inbound'[q] = inbound[q]
        BY <2>1, InboundChanges
    <2>4. ChatTypeOK'
        BY <2>1, <2>2, <2>3 DEF LooksAt, handleVars, ChatTypeOK, LooksAtIt, KeysFor, ClosesIt
    <2>5. RowNamesOK' /\ PushesOK'
        BY <2>1 DEF LooksAt, handleVars, RowNamesOK, PushesOK
    <2>6. CardsOK'
        BY <2>1, <2>2 DEF CardsOK
    <2>7. ButtonsOK' /\ ReadBeforeAllowed'
        BY <2>1, <2>3 DEF ButtonsOK, ReadBeforeAllowed, Waits
    <2>8. QED BY <2>4, <2>5, <2>6, <2>7
<1>4. CASE Current # 0 /\ (Names(p) \/ (inbound[p].bound = 0 /\ Seen(p, Current)))
    <2> DEFINE x == [at |-> "keys", request |-> Current, safe |-> inbound[p].safe]
    <2>1. inbound' = [inbound EXCEPT ![p] = x] /\ card' = card /\ shown' = shown
        BY <1>4 DEF LooksAt, ChatTypeOK
    <2>2. inbound[p].safe \in BOOLEAN
        BY <1>1, Zenon DEF LooksAtIt
    <2>3. x \in KeysFor
        BY <1>2, <1>4, <2>2, Zenon DEF KeysFor
    <2>4. /\ inbound' \in [People -> {Waits} \cup LooksAtIt \cup KeysFor \cup ClosesIt]
          /\ inbound'[p] = x
          /\ \A q \in People : q # p => inbound'[q] = inbound[q]
        BY <2>1, <2>3, InboundChanges
    <2>5. ChatTypeOK'
        BY <2>1, <2>4 DEF LooksAt, handleVars, ChatTypeOK, LooksAtIt, KeysFor, ClosesIt
    <2>6. RowNamesOK' /\ PushesOK'
        BY <2>1 DEF LooksAt, handleVars, RowNamesOK, PushesOK
    <2>7. CardsOK' /\ ButtonsOK'
        BY <2>1, <2>4 DEF CardsOK, ButtonsOK
    <2>8. inbound[p].safe \/ Current \in shown[p]
        <3>1. CASE inbound[p].bound = Current
            BY <3>1, <1>4 DEF ButtonsOK, LooksAt
        <3>2. CASE Seen(p, Current)
            BY <3>2, <1>2, <1>4 DEF CardsOK, Seen
        <3>3. QED BY <1>4, <3>1, <3>2 DEF Names
    <2>9. ReadBeforeAllowed'
        BY <2>1, <2>4, <2>8 DEF ReadBeforeAllowed
    <2>10. QED BY <2>5, <2>6, <2>7, <2>9
<1>5. CASE Current # 0 /\ ~(Names(p) \/ (inbound[p].bound = 0 /\ Seen(p, Current)))
    <2>1. /\ inbound' = [inbound EXCEPT ![p] = Waits]
          /\ shown' = [shown EXCEPT ![p] = @ \cup {Current}]
        BY <1>5 DEF LooksAt
    <2>2. /\ shown' \in [People -> SUBSET Made]
          /\ Current \in shown'[p]
          /\ \A q \in People : shown[q] \subseteq shown'[q]
        BY <1>2, <1>5, <2>1, ShownGrows
    <2>3. /\ card' \in [People -> [Made -> Cards]]
          /\ \A q \in People, m \in Made :
                card'[q][m] # "none" => card[q][m] # "none" \/ (q = p /\ m = Current)
        <3>1. card' = [q \in People |-> [m \in Made |->
                          IF q = p /\ m = Current THEN Kind(p)
                          ELSE IF inbound[p].bound # 0 THEN Swept(q, m) ELSE card[q][m]]]
            BY <1>5 DEF LooksAt
        <3>2. \A q \in People, m \in Made : Swept(q, m) \in Cards /\ card[q][m] \in Cards
            BY DEF Swept, ChatTypeOK, Cards
        <3>3. \A q \in People : Kind(q) \in Cards
            BY DEF Kind, Cards
        <3>4. \A q \in People, m \in Made : Swept(q, m) # "none" => card[q][m] # "none"
            BY DEF Swept
        <3>5. QED BY <3>1, <3>2, <3>3, <3>4
    <2>4. /\ inbound' \in [People -> {Waits} \cup LooksAtIt \cup KeysFor \cup ClosesIt]
          /\ inbound'[p] = Waits
          /\ \A q \in People : q # p => inbound'[q] = inbound[q]
        BY <2>1, InboundChanges
    <2>5. ChatTypeOK'
        BY <2>2, <2>3, <2>4 DEF LooksAt, handleVars, ChatTypeOK, LooksAtIt, KeysFor, ClosesIt
    <2>6. RowNamesOK'
        BY DEF LooksAt, handleVars, RowNamesOK
    <2>7. CardsOK'
        BY <2>2, <2>3 DEF CardsOK
    <2>8. PushesOK'
        BY <2>2, PushAt DEF LooksAt, handleVars, PushesOK, SentPushes
    <2>9. ButtonsOK'
        BY <2>2, <2>4 DEF ButtonsOK, Waits
    <2>10. ReadBeforeAllowed'
        BY <2>2, <2>4 DEF ReadBeforeAllowed, Waits
    <2>11. QED BY <2>5, <2>6, <2>7, <2>8, <2>9, <2>10
<1>6. QED BY <1>3, <1>4, <1>5


LEMMA AnswerSteps ==
    ASSUME ChatInv, NEW p \in People, PressKeys(p) \/ Closes(p)
    PROVE  ChatInv'
<1> USE DEF ChatInv
<1>1. CASE PressKeys(p)
    <2> DEFINE x == [at |-> "close", request |-> inbound[p].request]
    <2>1. inbound[p] \in KeysFor
        BY <1>1, InboundAt DEF PressKeys
    <2>2. x \in ClosesIt
        BY <2>1 DEF KeysFor, ClosesIt
    <2>3. inbound' = [inbound EXCEPT ![p] = x]
        BY <1>1 DEF PressKeys, ChatTypeOK
    <2>4. /\ inbound' \in [People -> {Waits} \cup LooksAtIt \cup KeysFor \cup ClosesIt]
          /\ inbound'[p] = x
          /\ \A q \in People : q # p => inbound'[q] = inbound[q]
        BY <2>2, <2>3, InboundChanges
    <2>5. ChatTypeOK'
        BY <1>1, <2>4 DEF PressKeys, handleVars, ChatTypeOK, LooksAtIt, KeysFor, ClosesIt
    <2>6. RowNamesOK' /\ CardsOK' /\ PushesOK'
        BY <1>1 DEF PressKeys, handleVars, RowNamesOK, CardsOK, PushesOK
    <2>7. ButtonsOK' /\ ReadBeforeAllowed'
        BY <1>1, <2>4 DEF PressKeys, ButtonsOK, ReadBeforeAllowed
    <2>8. QED BY <2>5, <2>6, <2>7
<1>2. CASE Closes(p)
    <2>1. inbound' = [inbound EXCEPT ![p] = Waits]
        BY <1>2 DEF Closes
    <2>2. /\ inbound' \in [People -> {Waits} \cup LooksAtIt \cup KeysFor \cup ClosesIt]
          /\ inbound'[p] = Waits
          /\ \A q \in People : q # p => inbound'[q] = inbound[q]
        BY <2>1, InboundChanges
    <2>3. inbound[p].request \in Made
        BY <1>2, InboundAt DEF Closes, ClosesIt
    <2>4. /\ card' \in [People -> [Made -> Cards]]
          /\ \A q \in People, m \in Made : card'[q][m] # "none" => card[q][m] # "none"
        BY <1>2, <2>3 DEF Closes, ChatTypeOK, Cards
    <2>5. ChatTypeOK'
        BY <1>2, <2>2, <2>4 DEF Closes, handleVars, ChatTypeOK, LooksAtIt, KeysFor, ClosesIt
    <2>6. RowNamesOK' /\ PushesOK'
        BY <1>2 DEF Closes, handleVars, RowNamesOK, PushesOK
    <2>7. CardsOK'
        BY <1>2, <2>4 DEF Closes, CardsOK
    <2>8. ButtonsOK' /\ ReadBeforeAllowed'
        BY <1>2, <2>2 DEF Closes, ButtonsOK, ReadBeforeAllowed, Waits
    <2>9. QED BY <2>5, <2>6, <2>7, <2>8
<1>3. QED BY <1>1, <1>2

LEMMA ChatKeeps == ChatInv /\ [ChatNext]_chatVars => ChatInv'
<1> SUFFICES ASSUME ChatInv, [ChatNext]_chatVars PROVE ChatInv'
    OBVIOUS
<1>1. CASE Asks \/ AnsweredAtLaptop \/ Hooked
    BY <1>1, AgentSteps
<1>2. CASE QuietEnds \/ Reload
    BY <1>2, BridgeSteps
<1>3. ASSUME NEW i \in Pushes, Pushing(i) \/ \E p \in People : SendFails(i, p)
      PROVE  ChatInv'
    BY <1>3, FireStep, PassOverStep, SendCardStep, SendFailsStep, RecordCardStep DEF Pushing
<1>4. ASSUME NEW p \in People, NEW m \in Made, Press(p, m)
      PROVE  ChatInv'
    <2>1. m \in shown[p]
        BY <1>4 DEF Press, Seen, ChatInv, CardsOK
    <2>2. QED BY <1>4, <2>1, WritesStep DEF Press
<1>5. ASSUME NEW p \in People, NEW safe \in BOOLEAN, Types(p, safe)
      PROVE  ChatInv'
    BY <1>5, WritesStep DEF Types
<1>6. ASSUME NEW p \in People, Handling(p)
      PROVE  ChatInv'
    BY <1>6, LooksAtStep, AnswerSteps DEF Handling
<1>7. CASE UNCHANGED chatVars
    <2>1. ChatTypeOK'
        BY <1>7 DEF ChatInv, chatVars, ChatTypeOK
    <2>2. RowNamesOK' /\ CardsOK' /\ PushesOK' /\ ButtonsOK'
        BY <1>7 DEF ChatInv, chatVars, RowNamesOK, CardsOK, PushesOK, ButtonsOK
    <2>3. ReadBeforeAllowed'
        BY <1>7 DEF ChatInv, chatVars, ReadBeforeAllowed
    <2>4. QED BY <2>1, <2>2, <2>3 DEF ChatInv
<1>8. QED BY <1>1, <1>2, <1>3, <1>4, <1>5, <1>6, <1>7 DEF ChatNext

\* The variables of the chat bridge have their types.
THEOREM ChatTypeCorrect == ChatSpec => []ChatTypeOK
<1>1. ChatInv => ChatTypeOK
    BY DEF ChatInv
<1>2. QED BY ChatInitHolds, ChatKeeps, <1>1, PTL DEF ChatSpec

\* Whoever allows a request was shown that request: however many pushes,
\* reloads, failed sends, old buttons and words typed in between.
THEOREM ReadBeforeAllowedCorrect == ChatSpec => []ReadBeforeAllowed
<1>1. ChatInv => ReadBeforeAllowed
    BY DEF ChatInv
<1>2. QED BY ChatInitHolds, ChatKeeps, <1>1, PTL DEF ChatSpec

-----------------------------------------------------------------------------
(***************************************************************************)
(* A session's pane, row, archived screen and restore file, for any number *)
(* of processes and of troubles, while its requests come one at a time:    *)
(* with two at once NothingStranded fails, which TLC shows.  The poller,   *)
(* the archiver, the restores of a starting panel, a killed pane and a     *)
(* panel that stops anywhere are as the model has them.                    *)
(***************************************************************************)

OneRequest == \A a, b \in Requests : a = b

\* What the pane shows, or will once it has printed its file.
OnPane == (IF pane.up THEN pane.screen ELSE {})
             \cup (IF pane.up /\ pane.prints /\ file # NoFile THEN file ELSE {})

\* One handler at a time, and none before the panel serves.
TurnsOK ==
    /\ \A a, b \in Actors : work[a].at # "idle" /\ work[b].at # "idle" => a = b
    /\ panel # "serving" => \A a \in Actors : work[a].at = "idle"

\* Nothing is archived or promised without a row.
ForgottenOK == ~row.kept => archive = {} /\ promised = {}

\* A restored pane shows nothing until it has printed.
PrintsOK == pane.up /\ pane.prints => pane.screen = {}

\* A handler that creates has no row yet, any other has one.
RowAsTaken(a) ==
    /\ work[a].at \in {"created", "cleanup"} => ~row.kept
    /\ work[a].at \notin {"idle", "created", "cleanup"} => row.kept

\* What a handler has learnt of the pane is still so.
PaneAsLearnt(a) ==
    /\ work[a].at \in {"absent", "read", "killed"} => ~pane.up
    /\ work[a].at = "dead" => ~pane.up \/ pane.dead

\* A restore has in hand, and then on the pane, whatever is promised.
PromiseInHand(a) ==
    /\ work[a].at = "read" => promised \subseteq work[a].screen
    /\ work[a].at = "made" => promised \subseteq OnPane

\* Only a request looks whether a process runs, and may fail to.
BlindIsRequest(a) == work[a].at \in {"restart", "blind"} => a \in Requests

HandlerOK(a) == RowAsTaken(a) /\ PaneAsLearnt(a) /\ PromiseInHand(a) /\ BlindIsRequest(a)
HandlersOK == \A a \in Actors : HandlerOK(a)

\* A pane without a row is one a handler is about to give a row, or to end.
PanesOK ==
    pane.up /\ ~row.kept /\ ~excused
        => \E a \in Actors : work[a].at \in {"created", "cleanup"}

LifeInv ==
    /\ LifeTypeOK
    /\ TurnsOK /\ HandlersOK
    /\ ForgottenOK /\ PrintsOK /\ PanesOK
    /\ ScreenKept

\* What the mutual exclusion of handlers leaves to say of one that is under way.
Works == [at : Places] \cup [at : {"read"}, screen : Screens]
PanesUp == [up : {TRUE}, life : 1..MaxLives, dead : BOOLEAN, prints : BOOLEAN, screen : Screens]

LEMMA LifeNumbers == MaxLives \in Nat \ {0} /\ MaxTrouble \in Nat
BY LifeAssumption

LEMMA AtFits == /\ \A l \in Places : At(l) \in Works /\ At(l).at = l
                /\ Idle \in Works /\ Idle.at = "idle"
                /\ \A s \in Screens : [at |-> "read", screen |-> s] \in Works
BY DEF At, Idle, Works, Places

LEMMA PaneFits ==
    ASSUME NEW l \in 1..MaxLives, NEW p \in BOOLEAN, NEW s \in Screens
    PROVE  /\ Pane(l, p, s) \in PanesUp
           /\ Pane(l, p, s) \in Panes
           /\ Pane(l, p, s).up /\ Pane(l, p, s).screen = s
           /\ Pane(l, p, s).prints = p /\ Pane(l, p, s).life = l
<1>1. Pane(l, p, s) \in PanesUp
    BY Zenon DEF Pane, PanesUp
<1>2. QED BY <1>1 DEF Pane, Panes, PanesUp

LEMMA QuietPaneFits ==
    ASSUME NEW l \in 1..MaxLives, NEW s \in Screens
    PROVE  Pane(l, FALSE, s) \in Panes /\ Pane(l, FALSE, s).up /\ Pane(l, FALSE, s).prints = FALSE
<1>1. FALSE \in BOOLEAN
    OBVIOUS
<1>2. Pane(l, FALSE, s) \in Panes
    BY <1>1, PaneFits
<1>3. QED BY <1>2 DEF Pane

LEMMA NoPaneFits == NoPane \in Panes /\ ~NoPane.up
BY DEF NoPane, Panes

LEMMA PaneUp ==
    ASSUME LifeTypeOK, pane.up
    PROVE  pane \in PanesUp
<1>1. pane = NoPane \/ pane \in PanesUp
    BY Zenon DEF LifeTypeOK, Panes, PanesUp
<1>2. QED BY <1>1, NoPaneFits

LEMMA ScreensAre == {} \in Screens /\ NoFile \notin Screens /\ (\A s, t \in Screens : s \cup t \in Screens)
BY LifeNumbers DEF Screens, NoFile

LEMMA RowFits ==
    /\ NoRow \in Rows /\ ~NoRow.kept
    /\ \A x \in {"no", "yes", "vanished"}, f \in BOOLEAN : Row(x, f) \in Rows /\ Row(x, f).kept
<1>1. NoRow \in Rows /\ ~NoRow.kept
    BY DEF NoRow, Rows
<1>2. ASSUME NEW x \in {"no", "yes", "vanished"}, NEW f \in BOOLEAN
      PROVE  Row(x, f) \in Rows /\ Row(x, f).kept
    BY Zenon DEF Row, Rows
<1>3. QED BY <1>1, <1>2

\* An UPDATE changes what the row says, and not whether there is one.
LEMMA SetExitKeeps ==
    ASSUME LifeTypeOK, NEW x \in {"no", "yes", "vanished"}, SetExit(x)
    PROVE  row' \in Rows /\ row'.kept = row.kept /\ trouble' \in 0..MaxTrouble
<1>1. trouble' \in 0..MaxTrouble
    BY LifeNumbers DEF SetExit, Trouble, LifeTypeOK
<1>2. CASE row' = row
    BY <1>1, <1>2 DEF LifeTypeOK
<1>3. CASE row.kept /\ row' = [row EXCEPT !.exit = x]
    <2>1. row \in [kept : {TRUE}, exit : {"no", "yes", "vanished"}, flagged : BOOLEAN]
        <3>1. row = NoRow \/ row \in [kept : {TRUE}, exit : {"no", "yes", "vanished"}, flagged : BOOLEAN]
            BY Zenon DEF LifeTypeOK, Rows
        <3>2. QED BY <1>3, <3>1, RowFits
    <2>2. row' \in [kept : {TRUE}, exit : {"no", "yes", "vanished"}, flagged : BOOLEAN]
        BY <1>3, <2>1
    <2>3. row' \in Rows
        BY <2>2 DEF Rows
    <2>4. QED BY <1>1, <1>3, <2>1, <2>2, <2>3
<1>4. QED BY <1>2, <1>3 DEF SetExit

LEMMA TroubleFits ==
    ASSUME LifeTypeOK, Trouble \/ UNCHANGED trouble
    PROVE  trouble' \in 0..MaxTrouble
BY LifeNumbers DEF LifeTypeOK, Trouble

\* A handler goes from one place to the next while every other is idle.
LEMMA Turn ==
    ASSUME LifeTypeOK, TurnsOK, NEW a \in Actors, NEW to \in Works, NEW from, from # "idle",
           Goes(a, from, to)
    PROVE  /\ work' \in [Actors -> Works]
           /\ work'[a] = to
           /\ \A b \in Actors : b # a => work[b].at = "idle" /\ work'[b].at = "idle"
           /\ panel = "serving"
<1>1. work' = [work EXCEPT ![a] = to] /\ work[a].at # "idle"
    BY DEF Goes
<1>2. work \in [Actors -> Works]
    BY DEF LifeTypeOK, Works
<1>3. QED BY <1>1, <1>2 DEF TurnsOK

\* So it is with one that begins.
LEMMA FirstTurn ==
    ASSUME LifeTypeOK, TurnsOK, OneRequest, NEW a \in Actors, NEW to \in Places, Begins(a, to)
    PROVE  /\ work' \in [Actors -> Works]
           /\ work'[a] = At(to)
           /\ \A b \in Actors : b # a => work[b].at = "idle" /\ work'[b].at = "idle"
           /\ panel = "serving"
           /\ work[a].at = "idle"
           /\ a \in Requests
<1>1. /\ work' = [work EXCEPT ![a] = At(to)]
      /\ a \in Requests /\ panel = "serving" /\ work[a].at = "idle"
    BY DEF Begins, Goes, Serving
<1>2. work \in [Actors -> Works] /\ At(to) \in Works
    BY AtFits DEF LifeTypeOK, Works
<1>3. \A b \in Actors : b # a => b = Boot
    BY <1>1 DEF OneRequest, Actors
<1>4. work[Boot].at = "idle"
    BY DEF Begins, Serving, Idle
<1>5. QED BY <1>1, <1>2, <1>3, <1>4

\* What is to be shown of the handlers when only one of them is under way.
LEMMA OneHandler ==
    ASSUME NEW a \in Actors, panel' = "serving", \A b \in Actors : b # a => work'[b].at = "idle",
           HandlerOK(a)'
    PROVE  TurnsOK' /\ HandlersOK'
<1>1. TurnsOK'
    BY DEF TurnsOK
<1>2. ASSUME NEW b \in Actors, work'[b].at = "idle"
      PROVE  HandlerOK(b)'
    BY <1>2 DEF HandlerOK, RowAsTaken, PaneAsLearnt, PromiseInHand, BlindIsRequest
<1>3. QED BY <1>1, <1>2 DEF HandlersOK

\* With none under way the same holds, whatever the panel does.
LEMMA NoHandler ==
    ASSUME \A b \in Actors : work'[b].at = "idle"
    PROVE  TurnsOK' /\ HandlersOK'
BY DEF TurnsOK, HandlersOK, HandlerOK, RowAsTaken, PaneAsLearnt, PromiseInHand, BlindIsRequest

LEMMA ScreenIs == ScreenKept <=> (row.kept => promised \subseteq archive \cup OnPane)
BY DEF ScreenKept, OnPane

LEMMA LifeInitHolds == LifeInit => LifeInv
<1> SUFFICES ASSUME LifeInit PROVE LifeInv
    OBVIOUS
<1> USE DEF LifeInit
<1>1. LifeTypeOK
    <2>1. work \in [Actors -> Works]
        BY AtFits
    <2>2. trouble \in 0..MaxTrouble /\ lives \in 0..MaxLives
        BY LifeNumbers
    <2>3. excused \in BOOLEAN /\ look \in {Idle}
        OBVIOUS
    <2>4. pane \in Panes /\ row \in Rows /\ archive \in Screens /\ shot \in Screens /\ promised \in Screens
        BY NoPaneFits, RowFits, ScreensAre
    <2>5. QED BY <2>1, <2>2, <2>3, <2>4 DEF LifeTypeOK, Works
<1>2. \A a \in Actors : work[a].at = "idle"
    BY DEF Idle
<1>3. TurnsOK /\ HandlersOK
    BY <1>2 DEF TurnsOK, HandlersOK, HandlerOK, RowAsTaken, PaneAsLearnt, PromiseInHand, BlindIsRequest
<1>4. ForgottenOK /\ PrintsOK /\ PanesOK
    BY <1>2, NoPaneFits DEF ForgottenOK, PrintsOK, PanesOK
<1>5. ScreenKept
    BY DEF ScreenKept
<1>6. QED BY <1>1, <1>3, <1>4, <1>5 DEF LifeInv


\* Creating: the pane, the row, and what is done without the row.
LEMMA CreatePaneStep ==
    ASSUME LifeInv, OneRequest, NEW a \in Actors, CreatePane(a)
    PROVE  LifeInv'
<1> USE DEF LifeInv
<1>1. /\ work' \in [Actors -> Works]
      /\ work'[a] = At("created")
      /\ \A b \in Actors : b # a => work[b].at = "idle" /\ work'[b].at = "idle"
      /\ panel' = "serving"
    BY FirstTurn DEF CreatePane, Places
<1>2. work'[a].at = "created"
    BY <1>1 DEF At
<1>3. {1} \in Screens /\ 1 \in 1..MaxLives
    BY LifeNumbers DEF Screens
<1>4. /\ pane' \in Panes /\ pane'.up /\ pane'.prints = FALSE
      /\ lives' \in 0..MaxLives
    <2>1. pane' = Pane(1, FALSE, {1}) /\ lives' = 1
        BY DEF CreatePane
    <2>3. pane' \in Panes /\ pane'.up /\ pane'.prints = FALSE
        BY <1>3, <2>1, QuietPaneFits
    <2>4. lives' \in 0..MaxLives
        BY <2>1, LifeNumbers
    <2>5. QED BY <2>3, <2>4, Zenon
<1>5. LifeTypeOK'
    BY <1>1, <1>4, TroubleFits DEF CreatePane, LifeTypeOK, Works
<1>6. HandlerOK(a)'
    BY <1>2 DEF CreatePane, HandlerOK, RowAsTaken, PaneAsLearnt, PromiseInHand, BlindIsRequest
<1>7. TurnsOK' /\ HandlersOK'
    BY <1>1, <1>6, OneHandler
<1>8. ForgottenOK' /\ PrintsOK' /\ PanesOK'
    BY <1>2, <1>4 DEF CreatePane, ForgottenOK, PrintsOK, PanesOK
<1>9. ScreenKept'
    BY DEF CreatePane, ScreenKept
<1>10. QED BY <1>5, <1>7, <1>8, <1>9

LEMMA CreateRowStep ==
    ASSUME LifeInv, NEW a \in Actors, CreateRow(a)
    PROVE  LifeInv'
<1> USE DEF LifeInv
<1>1. /\ work' \in [Actors -> Works]
      /\ work'[a] = Idle
      /\ \A b \in Actors : b # a => work[b].at = "idle" /\ work'[b].at = "idle"
      /\ panel' = "serving"
    BY Turn, AtFits DEF CreateRow
<1>2. \A b \in Actors : work'[b].at = "idle"
    BY <1>1 DEF Idle
<1>3. row' \in Rows /\ row'.kept
    BY RowFits DEF CreateRow
<1>4. ~row.kept /\ promised = {}
    BY DEF CreateRow, Goes, HandlersOK, HandlerOK, RowAsTaken, ForgottenOK
<1>5. LifeTypeOK'
    BY <1>1, <1>3 DEF CreateRow, LifeTypeOK, Works
<1>6. TurnsOK' /\ HandlersOK'
    BY <1>2, NoHandler
<1>7. ForgottenOK' /\ PrintsOK' /\ PanesOK'
    BY <1>3 DEF CreateRow, ForgottenOK, PrintsOK, PanesOK
<1>8. ScreenKept'
    BY <1>4 DEF CreateRow, ScreenKept
<1>9. QED BY <1>5, <1>6, <1>7, <1>8

LEMMA CreateFailsStep ==
    ASSUME LifeInv, NEW a \in Actors, CreateFails(a)
    PROVE  LifeInv'
<1> USE DEF LifeInv
<1>1. /\ work' \in [Actors -> Works]
      /\ work'[a] = At("cleanup")
      /\ \A b \in Actors : b # a => work[b].at = "idle" /\ work'[b].at = "idle"
      /\ panel' = "serving"
    <2>1. At("cleanup") \in Works
        BY AtFits DEF Places
    <2>2. QED BY <2>1, Turn DEF CreateFails
<1>2. work'[a].at = "cleanup" /\ ~row.kept
    BY <1>1 DEF At, CreateFails, Goes, HandlersOK, HandlerOK, RowAsTaken
<1>3. LifeTypeOK'
    BY <1>1, TroubleFits DEF CreateFails, LifeTypeOK, Works
<1>4. HandlerOK(a)'
    BY <1>2 DEF CreateFails, HandlerOK, RowAsTaken, PaneAsLearnt, PromiseInHand, BlindIsRequest
<1>5. TurnsOK' /\ HandlersOK'
    BY <1>1, <1>4, OneHandler
<1>6. ForgottenOK' /\ PrintsOK' /\ PanesOK'
    BY <1>2 DEF CreateFails, ForgottenOK, PrintsOK, PanesOK
<1>7. ScreenKept'
    BY DEF CreateFails, ScreenKept
<1>8. QED BY <1>3, <1>5, <1>6, <1>7

LEMMA CleanUpStep ==
    ASSUME LifeInv, NEW a \in Actors, CleanUp(a)
    PROVE  LifeInv'
<1> USE DEF LifeInv
<1>1. /\ work' \in [Actors -> Works]
      /\ work'[a] = Idle
      /\ \A b \in Actors : b # a => work[b].at = "idle" /\ work'[b].at = "idle"
      /\ panel' = "serving"
    BY Turn, AtFits DEF CleanUp
<1>2. \A b \in Actors : work'[b].at = "idle"
    BY <1>1 DEF Idle
<1>3. ~row.kept
    BY DEF CleanUp, Goes, HandlersOK, HandlerOK, RowAsTaken
<1>4. /\ pane' \in Panes /\ (pane' = pane \/ ~pane'.up)
      /\ pane'.up => excused'
    BY NoPaneFits DEF CleanUp, LifeTypeOK
<1>5. excused' \in BOOLEAN
    BY Zenon DEF CleanUp, LifeTypeOK
<1>6. trouble' \in 0..MaxTrouble
    BY TroubleFits DEF CleanUp
<1>7. LifeTypeOK'
    BY <1>1, <1>4, <1>5, <1>6 DEF CleanUp, LifeTypeOK, Works
<1>8. TurnsOK' /\ HandlersOK'
    BY <1>2, NoHandler
<1>9. ForgottenOK' /\ PrintsOK' /\ PanesOK'
    BY <1>4 DEF CleanUp, ForgottenOK, PrintsOK, PanesOK
<1>10. ScreenKept'
    BY <1>3 DEF CleanUp, ScreenKept
<1>11. QED BY <1>7, <1>8, <1>9, <1>10

\* A request to delete, restart or restore begins with a row that is kept.
LEMMA RequestBegins ==
    ASSUME LifeInv, OneRequest, NEW a \in Actors, Delete(a) \/ Restart(a) \/ Restore(a)
    PROVE  LifeInv'
<1> USE DEF LifeInv
<1>1. PICK to \in {"delete", "restart", "restore"} : Begins(a, to)
    BY DEF Delete, Restart, Restore
<1>2. /\ work' \in [Actors -> Works]
      /\ work'[a] = At(to)
      /\ \A b \in Actors : b # a => work[b].at = "idle" /\ work'[b].at = "idle"
      /\ panel = "serving"
      /\ a \in Requests
    BY <1>1, FirstTurn DEF Places
<1>3. work'[a].at \in {"delete", "restart", "restore"}
    BY <1>2 DEF At
<1>4. row.kept /\ Trouble
    BY DEF Delete, Restart, Restore, Restorable
<1>5. UNCHANGED <<panel, lives, pane, row, archive, file, look, shot, promised, excused>>
    BY DEF Delete, Restart, Restore
<1>6. LifeTypeOK'
    BY <1>2, <1>4, <1>5, TroubleFits DEF LifeTypeOK, Works
<1>7. HandlerOK(a)'
    BY <1>2, <1>3, <1>4, <1>5 DEF HandlerOK, RowAsTaken, PaneAsLearnt, PromiseInHand, BlindIsRequest
<1>8. TurnsOK' /\ HandlersOK'
    BY <1>2, <1>5, <1>7, OneHandler
<1>9. ForgottenOK' /\ PrintsOK' /\ PanesOK'
    BY <1>4, <1>5 DEF ForgottenOK, PrintsOK, PanesOK
<1>10. ScreenKept'
    BY <1>5 DEF ScreenKept
<1>11. QED BY <1>6, <1>8, <1>9, <1>10

\* Deleting: the pane, then the row and its archive.
LEMMA DeleteKillsStep ==
    ASSUME LifeInv, NEW a \in Actors, DeleteKills(a)
    PROVE  LifeInv'
<1> USE DEF LifeInv
<1>1. row.kept
    BY DEF DeleteKills, Goes, HandlersOK, HandlerOK, RowAsTaken
<1>2. PICK to \in {At("killed"), Idle} : Goes(a, "delete", to)
    BY DEF DeleteKills
<1>3. to \in Works /\ to.at \in {"killed", "idle"}
    BY <1>2, AtFits DEF Places
<1>4. /\ work' \in [Actors -> Works]
      /\ work'[a] = to
      /\ \A b \in Actors : b # a => work[b].at = "idle" /\ work'[b].at = "idle"
      /\ panel' = "serving"
    BY <1>2, <1>3, Turn DEF DeleteKills
<1>5. trouble' \in 0..MaxTrouble
    BY TroubleFits DEF DeleteKills
<1>6. /\ pane' \in Panes /\ promised' \in Screens
      /\ (pane' = pane /\ promised' = promised) \/ (~pane'.up /\ promised' = archive)
    BY NoPaneFits DEF DeleteKills, LifeTypeOK
<1>7. work'[a].at = "killed" => ~pane'.up
    BY <1>4, NoPaneFits DEF DeleteKills, Goes, Idle, At
<1>8. LifeTypeOK'
    BY <1>4, <1>5, <1>6 DEF DeleteKills, LifeTypeOK, Works
<1>9. HandlerOK(a)'
    BY <1>1, <1>3, <1>4, <1>7
       DEF DeleteKills, HandlerOK, RowAsTaken, PaneAsLearnt, PromiseInHand, BlindIsRequest
<1>10. TurnsOK' /\ HandlersOK'
    BY <1>4, <1>9, OneHandler
<1>11. ForgottenOK' /\ PrintsOK' /\ PanesOK'
    BY <1>1, <1>6 DEF DeleteKills, ForgottenOK, PrintsOK, PanesOK
<1>12. ScreenKept'
    BY <1>6 DEF DeleteKills, ScreenKept
<1>13. QED BY <1>8, <1>10, <1>11, <1>12

LEMMA DeleteRowStep ==
    ASSUME LifeInv, NEW a \in Actors, DeleteRow(a)
    PROVE  LifeInv'
<1> USE DEF LifeInv
<1>1. /\ work' \in [Actors -> Works]
      /\ work'[a] = Idle
      /\ \A b \in Actors : b # a => work[b].at = "idle" /\ work'[b].at = "idle"
      /\ panel' = "serving"
    BY Turn, AtFits DEF DeleteRow
<1>2. \A b \in Actors : work'[b].at = "idle"
    BY <1>1 DEF Idle
<1>3. row.kept /\ ~pane.up
    BY DEF DeleteRow, Goes, HandlersOK, HandlerOK, RowAsTaken, PaneAsLearnt
<1>4. trouble' \in 0..MaxTrouble
    BY TroubleFits DEF DeleteRow
<1>5. /\ row' \in Rows /\ archive' \in Screens /\ promised' \in Screens
      /\ \/ row' = row /\ archive' = archive /\ promised' = promised
         \/ ~row'.kept /\ archive' = {} /\ promised' = {}
    BY RowFits, ScreensAre DEF DeleteRow, LifeTypeOK
<1>6. LifeTypeOK'
    BY <1>1, <1>4, <1>5 DEF DeleteRow, LifeTypeOK, Works
<1>7. TurnsOK' /\ HandlersOK'
    BY <1>2, NoHandler
<1>8. ForgottenOK' /\ PrintsOK' /\ PanesOK'
    BY <1>3, <1>5 DEF DeleteRow, ForgottenOK, PrintsOK, PanesOK
<1>9. ScreenKept'
    BY <1>5 DEF DeleteRow, ScreenKept
<1>10. QED BY <1>6, <1>7, <1>8, <1>9


\* Restarting: whether the process runs, then the respawn, then the row.
LEMMA RestartLooksStep ==
    ASSUME LifeInv, NEW a \in Actors, RestartLooks(a)
    PROVE  LifeInv'
<1> USE DEF LifeInv
<1>1. row.kept /\ a \in Requests
    BY DEF RestartLooks, Goes, HandlersOK, HandlerOK, RowAsTaken, BlindIsRequest
<1>2. PICK to \in {At("restore"), At("dead"), At("blind"), Idle} : Goes(a, "restart", to)
    BY DEF RestartLooks
<1>3. to \in Works /\ to.at \in {"restore", "dead", "blind", "idle"}
    BY <1>2, AtFits DEF Places
<1>4. /\ work' \in [Actors -> Works]
      /\ work'[a] = to
      /\ \A b \in Actors : b # a => work[b].at = "idle" /\ work'[b].at = "idle"
      /\ panel' = "serving"
    BY <1>2, <1>3, Turn DEF RestartLooks
<1>5. trouble' \in 0..MaxTrouble
    BY TroubleFits DEF RestartLooks
<1>6. work'[a].at = "dead" => pane.dead
    <2>1. work'[a] = work[a] \/ work'[a] = (IF ~pane.up THEN At("restore")
                             ELSE IF pane.dead THEN At("dead") ELSE Idle) \/ work'[a] = At("blind")
        BY DEF RestartLooks, Goes, LifeTypeOK
    <2>2. work[a].at = "restart"
        BY DEF RestartLooks, Goes
    <2>3. QED BY <2>1, <2>2 DEF At, Idle
<1>7. LifeTypeOK'
    BY <1>4, <1>5 DEF RestartLooks, LifeTypeOK, Works
<1>8. HandlerOK(a)'
    BY <1>1, <1>3, <1>4, <1>6
       DEF RestartLooks, HandlerOK, RowAsTaken, PaneAsLearnt, PromiseInHand, BlindIsRequest
<1>9. TurnsOK' /\ HandlersOK'
    BY <1>4, <1>8, OneHandler
<1>10. ForgottenOK' /\ PrintsOK' /\ PanesOK'
    BY <1>1 DEF RestartLooks, ForgottenOK, PrintsOK, PanesOK
<1>11. ScreenKept'
    BY DEF RestartLooks, ScreenKept
<1>12. QED BY <1>7, <1>9, <1>10, <1>11

LEMMA RespawnStep ==
    ASSUME LifeInv, NEW a \in Actors, Respawn(a)
    PROVE  LifeInv'
<1> USE DEF LifeInv
<1>1. row.kept
    BY DEF Respawn, Goes, HandlersOK, HandlerOK, RowAsTaken
<1>2. PICK from \in {"dead", "blind"}, to \in {At("respawned"), Idle} : Goes(a, from, to)
    BY DEF Respawn
<1>3. to \in Works /\ to.at \in {"respawned", "idle"}
    BY <1>2, AtFits DEF Places
<1>4. /\ work' \in [Actors -> Works]
      /\ work'[a] = to
      /\ \A b \in Actors : b # a => work[b].at = "idle" /\ work'[b].at = "idle"
      /\ panel' = "serving"
    BY <1>2, <1>3, Turn DEF Respawn
<1>5. /\ pane' \in Panes /\ lives' \in 0..MaxLives /\ promised' \in Screens
      /\ \/ pane' = pane /\ promised' = promised
         \/ pane'.up /\ ~pane'.prints /\ promised' = archive
    <2>1. CASE UNCHANGED <<lives, pane, promised>>
        BY <2>1 DEF LifeTypeOK
    <2>2. CASE ~UNCHANGED <<lives, pane, promised>>
        <3>1. /\ lives' = lives + 1 /\ lives < MaxLives
              /\ pane' = Pane(lives', FALSE, {lives'}) /\ promised' = archive
            BY <2>2 DEF Respawn
        <3>2. lives' \in 1..MaxLives /\ {lives'} \in Screens
            <4>1. lives \in 0..MaxLives
                BY DEF LifeTypeOK
            <4>2. lives' \in 1..MaxLives
                BY <3>1, <4>1, LifeNumbers
            <4>3. QED BY <4>2 DEF Screens
        <3>3. pane' \in Panes /\ pane'.up /\ pane'.prints = FALSE
            BY <3>1, <3>2, QuietPaneFits, Zenon
        <3>4. lives' \in 0..MaxLives /\ promised' \in Screens
            BY <3>1, <3>2, LifeNumbers DEF LifeTypeOK
        <3>5. QED BY <3>1, <3>3, <3>4, Zenon
    <2>3. QED BY <2>1, <2>2
<1>6. LifeTypeOK'
    BY <1>4, <1>5 DEF Respawn, LifeTypeOK, Works
<1>7. HandlerOK(a)'
    BY <1>1, <1>3, <1>4
       DEF Respawn, HandlerOK, RowAsTaken, PaneAsLearnt, PromiseInHand, BlindIsRequest
<1>8. TurnsOK' /\ HandlersOK'
    BY <1>4, <1>7, OneHandler
<1>9. ForgottenOK' /\ PrintsOK' /\ PanesOK'
    BY <1>1, <1>5 DEF Respawn, ForgottenOK, PrintsOK, PanesOK
<1>10. ScreenKept'
    BY <1>5 DEF Respawn, ScreenKept
<1>11. QED BY <1>6, <1>8, <1>9, <1>10

\* The end of a restart and of a restore: the row says that it runs.
LEMMA ExitClears ==
    ASSUME LifeInv, NEW a \in Actors, RestartDone(a) \/ RestoreClears(a)
    PROVE  LifeInv'
<1> USE DEF LifeInv
<1>1. PICK from \in {"respawned", "dropped"} : Goes(a, from, Idle)
    BY DEF RestartDone, RestoreClears
<1>2. /\ work' \in [Actors -> Works]
      /\ work'[a] = Idle
      /\ \A b \in Actors : b # a => work[b].at = "idle" /\ work'[b].at = "idle"
      /\ panel = "serving"
    BY <1>1, Turn, AtFits
<1>3. \A b \in Actors : work'[b].at = "idle"
    BY <1>2 DEF Idle
<1>4. row' \in Rows /\ row'.kept = row.kept /\ trouble' \in 0..MaxTrouble
    BY SetExitKeeps DEF RestartDone, RestoreClears
<1>5. row.kept
    BY <1>1 DEF Goes, HandlersOK, HandlerOK, RowAsTaken
<1>6. UNCHANGED <<panel, lives, pane, archive, file, look, shot, promised, excused>>
    BY DEF RestartDone, RestoreClears
<1>7. LifeTypeOK'
    BY <1>2, <1>4, <1>6 DEF LifeTypeOK, Works
<1>8. TurnsOK' /\ HandlersOK'
    BY <1>3, NoHandler
<1>9. ForgottenOK' /\ PrintsOK' /\ PanesOK'
    BY <1>4, <1>5, <1>6 DEF ForgottenOK, PrintsOK, PanesOK
<1>10. ScreenKept'
    BY <1>4, <1>5, <1>6 DEF ScreenKept
<1>11. QED BY <1>7, <1>8, <1>9, <1>10

\* Restoring: nothing is there, the archive is read, the pane made, the archive
\* dropped.
LEMMA RestoreLooksStep ==
    ASSUME LifeInv, NEW a \in Actors, RestoreLooks(a)
    PROVE  LifeInv'
<1> USE DEF LifeInv
<1>1. row.kept
    BY DEF RestoreLooks, Goes, HandlersOK, HandlerOK, RowAsTaken
<1> DEFINE to == IF pane.up THEN Idle ELSE At("absent")
<1>2. to \in Works /\ to.at = IF pane.up THEN "idle" ELSE "absent"
    BY AtFits DEF Places
<1>3. Goes(a, "restore", to)
    BY DEF RestoreLooks
<1> HIDE DEF to
<1>4. /\ work' \in [Actors -> Works]
      /\ work'[a] = to
      /\ \A b \in Actors : b # a => work[b].at = "idle" /\ work'[b].at = "idle"
      /\ panel' = "serving"
    BY <1>2, <1>3, Turn DEF RestoreLooks
<1>5. LifeTypeOK'
    BY <1>4 DEF RestoreLooks, LifeTypeOK, Works
<1>6. HandlerOK(a)'
    BY <1>1, <1>2, <1>4
       DEF RestoreLooks, HandlerOK, RowAsTaken, PaneAsLearnt, PromiseInHand, BlindIsRequest
<1>7. TurnsOK' /\ HandlersOK'
    BY <1>4, <1>6, OneHandler
<1>8. ForgottenOK' /\ PrintsOK' /\ PanesOK'
    BY <1>1 DEF RestoreLooks, ForgottenOK, PrintsOK, PanesOK
<1>9. ScreenKept'
    BY DEF RestoreLooks, ScreenKept
<1>10. QED BY <1>5, <1>7, <1>8, <1>9

LEMMA RestoreReadsStep ==
    ASSUME LifeInv, NEW a \in Actors, RestoreReads(a)
    PROVE  LifeInv'
<1> USE DEF LifeInv
<1>1. row.kept /\ ~pane.up
    BY DEF RestoreReads, Goes, HandlersOK, HandlerOK, RowAsTaken, PaneAsLearnt
<1>2. PICK s \in {archive, {}} : /\ Goes(a, "absent", [at |-> "read", screen |-> s])
                                 /\ promised' \in {promised, {}}
                                 /\ s # archive => promised' = {}
    BY DEF RestoreReads
<1> DEFINE to == [at |-> "read", screen |-> s]
<1>3. s \in Screens /\ to \in Works /\ to.at = "read" /\ to.screen = s
    BY ScreensAre, AtFits DEF LifeTypeOK
<1>4. Goes(a, "absent", to)
    BY <1>2
<1> HIDE DEF to
<1>5. /\ work' \in [Actors -> Works]
      /\ work'[a] = to
      /\ \A b \in Actors : b # a => work[b].at = "idle" /\ work'[b].at = "idle"
      /\ panel' = "serving"
    BY <1>3, <1>4, Turn DEF RestoreReads
<1>6. trouble' \in 0..MaxTrouble
    BY TroubleFits DEF RestoreReads
<1>7. promised' \in Screens /\ promised' \subseteq s /\ promised' \subseteq archive
    BY <1>1, <1>2, ScreensAre DEF LifeTypeOK, ScreenKept
<1>8. LifeTypeOK'
    BY <1>5, <1>6, <1>7 DEF RestoreReads, LifeTypeOK, Works
<1>9. HandlerOK(a)'
    BY <1>1, <1>3, <1>5, <1>7
       DEF RestoreReads, HandlerOK, RowAsTaken, PaneAsLearnt, PromiseInHand, BlindIsRequest
<1>10. TurnsOK' /\ HandlersOK'
    BY <1>5, <1>9, OneHandler
<1>11. ForgottenOK' /\ PrintsOK' /\ PanesOK'
    BY <1>1 DEF RestoreReads, ForgottenOK, PrintsOK, PanesOK
<1>12. ScreenKept'
    BY <1>7 DEF RestoreReads, ScreenKept
<1>13. QED BY <1>8, <1>10, <1>11, <1>12


LEMMA RestoreMakesStep ==
    ASSUME LifeInv, NEW a \in Actors, RestoreMakes(a)
    PROVE  LifeInv'
<1> USE DEF LifeInv
<1>1. /\ row.kept /\ ~pane.up /\ promised \subseteq work[a].screen
      /\ work[a].at = "read" /\ promised \subseteq archive
    BY DEF RestoreMakes, Goes, HandlersOK, HandlerOK, RowAsTaken, PaneAsLearnt, PromiseInHand, ScreenKept
<1>2. work[a].screen \in Screens
    <2>1. work[a] \in Works
        BY DEF LifeTypeOK, Works
    <2>2. QED BY <1>1, <2>1 DEF Works, Places
<1>3. trouble' \in 0..MaxTrouble
    BY TroubleFits DEF RestoreMakes
<1>4. CASE Goes(a, "read", At("made")) /\ lives < MaxLives /\ file' = work[a].screen
           /\ lives' = lives + 1 /\ pane' = Pane(lives', TRUE, {})
    <2>1. At("made") \in Works /\ At("made").at = "made"
        BY AtFits DEF Places
    <2>2. /\ work' \in [Actors -> Works]
          /\ work'[a] = At("made")
          /\ \A b \in Actors : b # a => work[b].at = "idle" /\ work'[b].at = "idle"
          /\ panel' = "serving"
        BY <1>4, <2>1, Turn DEF RestoreMakes
    <2>3. lives' \in 1..MaxLives /\ lives' \in 0..MaxLives
        BY <1>4, LifeNumbers DEF LifeTypeOK
    <2>4. TRUE \in BOOLEAN /\ {} \in Screens
        BY ScreensAre
    <2>5. pane' \in Panes /\ pane'.up /\ pane'.prints = TRUE /\ pane'.screen = {}
        <3> DEFINE p == Pane(lives', TRUE, {})
        <3>1. p \in Panes /\ p.up
            BY <2>3, <2>4, PaneFits
        <3>2. p.prints = TRUE
            BY DEF Pane
        <3>3. p.screen = {}
            BY DEF Pane
        <3>4. pane' = p
            BY <1>4
        <3> HIDE DEF p
        <3>5. QED BY <3>1, <3>2, <3>3, <3>4
    <2>6. promised' \subseteq OnPane'
        BY <1>1, <1>2, <1>4, <2>5, ScreensAre DEF RestoreMakes, OnPane
    <2>7. LifeTypeOK'
        BY <1>2, <1>3, <1>4, <2>2, <2>3, <2>5 DEF RestoreMakes, LifeTypeOK, Works
    <2>8. HandlerOK(a)'
        BY <1>1, <2>1, <2>2, <2>6
           DEF RestoreMakes, HandlerOK, RowAsTaken, PaneAsLearnt, PromiseInHand, BlindIsRequest
    <2>9. TurnsOK' /\ HandlersOK'
        BY <2>2, <2>8, OneHandler
    <2>10. ForgottenOK' /\ PrintsOK' /\ PanesOK'
        BY <1>1, <2>5 DEF RestoreMakes, ForgottenOK, PrintsOK, PanesOK
    <2>11. ScreenKept'
        BY <1>1 DEF RestoreMakes, ScreenKept
    <2>12. QED BY <2>7, <2>9, <2>10, <2>11
<1>5. CASE Goes(a, "read", Idle) /\ file' = NoFile /\ UNCHANGED <<lives, pane>>
    <2>1. /\ work' \in [Actors -> Works]
          /\ work'[a] = Idle
          /\ \A b \in Actors : b # a => work[b].at = "idle" /\ work'[b].at = "idle"
          /\ panel' = "serving"
        BY <1>5, AtFits, Turn DEF RestoreMakes
    <2>2. \A b \in Actors : work'[b].at = "idle"
        BY <2>1 DEF Idle
    <2>3. LifeTypeOK'
        BY <1>3, <1>5, <2>1 DEF RestoreMakes, LifeTypeOK, Works
    <2>4. TurnsOK' /\ HandlersOK'
        BY <2>2, NoHandler
    <2>5. ForgottenOK' /\ PrintsOK' /\ PanesOK'
        BY <1>1, <1>5 DEF RestoreMakes, ForgottenOK, PrintsOK, PanesOK
    <2>6. ScreenKept'
        BY <1>1, <1>5 DEF RestoreMakes, ScreenKept
    <2>7. QED BY <2>3, <2>4, <2>5, <2>6
<1>6. QED BY <1>4, <1>5 DEF RestoreMakes

LEMMA RestoreDropsStep ==
    ASSUME LifeInv, NEW a \in Actors, RestoreDrops(a)
    PROVE  LifeInv'
<1> USE DEF LifeInv
<1>1. row.kept /\ promised \subseteq OnPane
    BY DEF RestoreDrops, Goes, HandlersOK, HandlerOK, RowAsTaken, PromiseInHand
<1>2. At("dropped") \in Works /\ At("dropped").at = "dropped"
    BY AtFits DEF Places
<1>3. /\ work' \in [Actors -> Works]
      /\ work'[a] = At("dropped")
      /\ \A b \in Actors : b # a => work[b].at = "idle" /\ work'[b].at = "idle"
      /\ panel' = "serving"
    BY <1>2, Turn DEF RestoreDrops
<1>4. trouble' \in 0..MaxTrouble
    BY TroubleFits DEF RestoreDrops
<1>5. archive' \in Screens
    BY ScreensAre DEF RestoreDrops, LifeTypeOK
<1>6. LifeTypeOK'
    BY <1>3, <1>4, <1>5 DEF RestoreDrops, LifeTypeOK, Works
<1>7. HandlerOK(a)'
    BY <1>1, <1>2, <1>3
       DEF RestoreDrops, HandlerOK, RowAsTaken, PaneAsLearnt, PromiseInHand, BlindIsRequest
<1>8. TurnsOK' /\ HandlersOK'
    BY <1>3, <1>7, OneHandler
<1>9. ForgottenOK' /\ PrintsOK' /\ PanesOK'
    BY <1>1 DEF RestoreDrops, ForgottenOK, PrintsOK, PanesOK
<1>10. OnPane' = OnPane
    BY DEF RestoreDrops, OnPane
<1>11. promised' \subseteq OnPane'
    BY <1>1, <1>10 DEF RestoreDrops
<1>12. ScreenKept'
    BY <1>11 DEF ScreenKept, OnPane
<1>13. QED BY <1>6, <1>8, <1>9, <1>12

-----------------------------------------------------------------------------
\* What handlers have learnt outlives a step of the others that leaves them
\* alone, if it keeps these facts.
LEMMA HandlersKept ==
    ASSUME HandlersOK, UNCHANGED work,
           (row'.kept = row.kept),
           (pane'.up => pane.up),
           (pane'.up /\ pane.dead => pane'.dead),
           \A a \in Actors :
              /\ work[a].at = "read" => promised' \subseteq promised
              /\ work[a].at = "made" => promised' \subseteq OnPane'
    PROVE  HandlersOK'
<1> SUFFICES ASSUME NEW a \in Actors PROVE HandlerOK(a)'
    BY DEF HandlersOK
<1>1. HandlerOK(a)
    BY DEF HandlersOK
<1>2. RowAsTaken(a)'
    BY <1>1 DEF HandlerOK, RowAsTaken
<1>3. PaneAsLearnt(a)'
    BY <1>1 DEF HandlerOK, PaneAsLearnt
<1>4. PromiseInHand(a)'
    BY <1>1 DEF HandlerOK, PromiseInHand
<1>5. BlindIsRequest(a)'
    BY <1>1 DEF HandlerOK, BlindIsRequest
<1>6. QED BY <1>2, <1>3, <1>4, <1>5 DEF HandlerOK

LEMMA PrintsStep ==
    ASSUME LifeInv, Prints
    PROVE  LifeInv'
<1> USE DEF LifeInv
<1> DEFINE s == (IF file = NoFile THEN {} ELSE file) \cup {pane.life}
<1>1. pane \in PanesUp /\ pane.screen = {} /\ pane.up
    BY PaneUp DEF Prints, PrintsOK
<1>2. s \in Screens
    <2>1. (IF file = NoFile THEN {} ELSE file) \in Screens
        BY ScreensAre DEF LifeTypeOK
    <2>2. {pane.life} \in Screens
        BY <1>1 DEF PanesUp, Screens
    <2>3. QED BY <2>1, <2>2, ScreensAre
<1>3. /\ pane' = [pane EXCEPT !.prints = FALSE, !.screen = s]
      /\ file' = NoFile
    BY DEF Prints
<1>4. OnPane \subseteq s
    BY <1>1 DEF OnPane
<1> HIDE DEF s
<1>5. /\ pane' \in PanesUp /\ pane'.up /\ pane'.prints = FALSE /\ pane'.screen = s
      /\ pane'.dead = pane.dead
    BY <1>1, <1>2, <1>3 DEF PanesUp
<1>6. OnPane \subseteq OnPane'
    BY <1>4, <1>5 DEF OnPane
<1>7. LifeTypeOK'
    BY <1>3, <1>5 DEF Prints, LifeTypeOK, Panes, PanesUp
<1>8. TurnsOK'
    BY DEF Prints, TurnsOK
<1>9. HandlersOK'
    <2>1. \A a \in Actors : work[a].at = "made" => promised' \subseteq OnPane'
        BY <1>6 DEF Prints, HandlersOK, HandlerOK, PromiseInHand
    <2>2. UNCHANGED <<work, row, promised>>
        BY DEF Prints
    <2>3. QED BY <1>1, <1>5, <2>1, <2>2, HandlersKept
<1>10. ForgottenOK' /\ PrintsOK' /\ PanesOK'
    BY <1>1, <1>5 DEF Prints, ForgottenOK, PrintsOK, PanesOK
<1>11. ScreenKept'
    <2>1. row.kept => promised \subseteq archive \cup OnPane
        BY ScreenIs
    <2>2. row'.kept => promised' \subseteq archive' \cup OnPane'
        BY <1>6, <2>1 DEF Prints
    <2>3. QED BY <2>2 DEF ScreenKept, OnPane
<1>12. QED BY <1>7, <1>8, <1>9, <1>10, <1>11

LEMMA EndsStep ==
    ASSUME LifeInv, Ends
    PROVE  LifeInv'
<1> USE DEF LifeInv
<1>1. pane \in PanesUp /\ pane.up
    BY PaneUp DEF Ends
<1>2. pane' = [pane EXCEPT !.dead = TRUE]
    BY DEF Ends
<1>3. /\ pane' \in PanesUp /\ pane'.up /\ pane'.dead = TRUE
      /\ pane'.prints = pane.prints /\ pane'.screen = pane.screen
    BY <1>1, <1>2 DEF PanesUp
<1>4. OnPane' = OnPane
    BY <1>1, <1>3 DEF Ends, OnPane
<1>5. trouble' \in 0..MaxTrouble
    BY TroubleFits DEF Ends
<1>6. LifeTypeOK'
    BY <1>3, <1>5 DEF Ends, LifeTypeOK, Panes, PanesUp
<1>7. TurnsOK'
    BY DEF Ends, TurnsOK
<1>8. HandlersOK'
    <2>1. \A a \in Actors : work[a].at = "made" => promised' \subseteq OnPane'
        BY <1>4 DEF Ends, HandlersOK, HandlerOK, PromiseInHand
    <2>2. UNCHANGED <<work, row, promised>>
        BY DEF Ends
    <2>3. QED BY <1>1, <1>3, <2>1, <2>2, HandlersKept
<1>9. ForgottenOK' /\ PrintsOK' /\ PanesOK'
    BY <1>1, <1>3 DEF Ends, ForgottenOK, PrintsOK, PanesOK
<1>10. ScreenKept'
    <2>1. row.kept => promised \subseteq archive \cup OnPane
        BY ScreenIs
    <2>2. row'.kept => promised' \subseteq archive' \cup OnPane'
        BY <1>4, <2>1 DEF Ends
    <2>3. QED BY <2>2 DEF ScreenKept, OnPane
<1>11. QED BY <1>6, <1>7, <1>8, <1>9, <1>10

LEMMA KilledStep ==
    ASSUME LifeInv, Killed
    PROVE  LifeInv'
<1> USE DEF LifeInv
<1>1. /\ pane' \in Panes /\ ~pane'.up /\ pane.up
      /\ trouble' \in 0..MaxTrouble
    BY NoPaneFits, TroubleFits DEF Killed
<1>2. /\ promised' \in Screens /\ promised' \subseteq archive
      /\ (\E a \in Actors : work[a].at = "made") => promised' = {}
    BY ScreensAre DEF Killed, LifeTypeOK
<1>3. \A a \in Actors : work[a].at # "read"
    BY <1>1 DEF HandlersOK, HandlerOK, PaneAsLearnt
<1>4. LifeTypeOK'
    BY <1>1, <1>2 DEF Killed, LifeTypeOK
<1>5. TurnsOK'
    BY DEF Killed, TurnsOK
<1>6. HandlersOK'
    BY <1>1, <1>2, <1>3, HandlersKept DEF Killed
<1>7. ForgottenOK' /\ PrintsOK' /\ PanesOK'
    BY <1>1, <1>2 DEF Killed, ForgottenOK, PrintsOK, PanesOK
<1>8. ScreenKept'
    BY <1>2 DEF Killed, ScreenKept
<1>9. QED BY <1>4, <1>5, <1>6, <1>7, <1>8


\* The panel stops, and every handler with it.
LEMMA StopsStep ==
    ASSUME LifeInv, NEW withMachine \in BOOLEAN, Stops(withMachine)
    PROVE  LifeInv'
<1> USE DEF LifeInv
<1>1. /\ work' \in [Actors -> Works]
      /\ \A a \in Actors : work'[a].at = "idle"
    BY AtFits DEF Stops
<1>2. /\ pane' \in Panes /\ promised' \in Screens
      /\ \/ pane' = pane /\ promised' = promised
         \/ ~pane'.up /\ promised' = archive
    BY NoPaneFits DEF Stops, LifeTypeOK
<1>3. trouble' \in 0..MaxTrouble
    BY TroubleFits DEF Stops
<1>4. excused' = TRUE
    BY DEF Stops
<1>5. shot' \in Screens
    BY ScreensAre DEF Stops
<1>6. LifeTypeOK'
    BY <1>1, <1>2, <1>3, <1>4, <1>5 DEF Stops, LifeTypeOK, Works
<1>7. TurnsOK' /\ HandlersOK'
    BY <1>1, NoHandler
<1>8. ForgottenOK' /\ PrintsOK' /\ PanesOK'
    BY <1>2, <1>4 DEF Stops, ForgottenOK, PrintsOK, PanesOK
<1>9. ScreenKept'
    BY <1>2 DEF Stops, ScreenKept
<1>10. QED BY <1>6, <1>7, <1>8, <1>9

\* The panel comes up again; the flagged are restored before it serves.
LEMMA StartsStep ==
    ASSUME LifeInv, Starts
    PROVE  LifeInv'
<1> USE DEF LifeInv
<1>1. LifeTypeOK'
    BY DEF Starts, LifeTypeOK
<1>2. TurnsOK'
    BY DEF Starts, TurnsOK
<1>3. HandlersOK'
    BY DEF Starts, HandlersOK, HandlerOK, RowAsTaken, PaneAsLearnt, PromiseInHand, BlindIsRequest, OnPane
<1>4. ForgottenOK' /\ PrintsOK' /\ PanesOK'
    BY DEF Starts, ForgottenOK, PrintsOK, PanesOK
<1>5. ScreenKept'
    BY DEF Starts, ScreenKept
<1>6. QED BY <1>1, <1>2, <1>3, <1>4, <1>5

LEMMA RestoreFlaggedStep ==
    ASSUME LifeInv, RestoreFlagged
    PROVE  LifeInv'
<1> USE DEF LifeInv
<1> DEFINE to == IF Restorable /\ row.flagged THEN At("restore") ELSE Idle
<1>1. Boot \in Actors
    BY DEF Actors
<1>2. to \in Works /\ to.at \in {"restore", "idle"} /\ (to.at = "restore" => row.kept)
    BY AtFits DEF Places, Restorable
<1>3. work \in [Actors -> Works] /\ work' = [work EXCEPT ![Boot] = to]
    BY DEF LifeTypeOK, Works, RestoreFlagged, Goes
<1> HIDE DEF to
<1>4. /\ work' \in [Actors -> Works]
      /\ work'[Boot] = to
      /\ \A b \in Actors : b # Boot => work'[b] = work[b]
    BY <1>1, <1>2, <1>3
<1>5. \A b \in Actors : b # Boot => work'[b].at = "idle"
    BY <1>4 DEF RestoreFlagged, TurnsOK
<1>6. LifeTypeOK'
    BY <1>4 DEF RestoreFlagged, LifeTypeOK, Works
<1>7. HandlerOK(Boot)'
    BY <1>2, <1>4
       DEF RestoreFlagged, HandlerOK, RowAsTaken, PaneAsLearnt, PromiseInHand, BlindIsRequest
<1>8. TurnsOK' /\ HandlersOK'
    BY <1>1, <1>5, <1>7, OneHandler DEF RestoreFlagged
<1>9. PanesOK'
    <2>1. \A b \in Actors : work[b].at = "idle"
        BY DEF RestoreFlagged, TurnsOK
    <2>2. QED BY <2>1 DEF RestoreFlagged, PanesOK
<1>10. ForgottenOK' /\ PrintsOK'
    BY DEF RestoreFlagged, ForgottenOK, PrintsOK
<1>11. ScreenKept'
    BY DEF RestoreFlagged, ScreenKept
<1>12. QED BY <1>6, <1>8, <1>9, <1>10, <1>11

\* The poller lists, reads and writes, whatever has become of both since.
LooksWritten == {Idle} \cup [at : {"listed"}, pane : Panes] \cup [at : {"read"}, pane : Panes, row : Rows]

LEMMA LooksSteps ==
    ASSUME LifeInv, Looks
    PROVE  LifeInv'
<1> USE DEF LifeInv
<1>1. UNCHANGED <<lives, pane, archive, file, work, shot, promised, excused>>
    BY DEF Looks, LookLists, LookReads, LookWrites
<1>2. look' \in LooksWritten
    <2>1. CASE LookLists
        BY <2>1 DEF LookLists, LooksWritten, LifeTypeOK
    <2>2. CASE LookReads
        <3>1. look \in [at : {"listed"}, pane : Panes]
            BY <2>2 DEF LookReads, LifeTypeOK, Idle
        <3>2. look' = [at |-> "read", pane |-> look.pane, row |-> row] /\ row \in Rows
            BY <2>2 DEF LookReads, LifeTypeOK
        <3>3. look.pane \in Panes
            BY <3>1
        <3>4. QED BY <3>2, <3>3 DEF LooksWritten
    <2>3. CASE LookWrites
        BY <2>3 DEF LookWrites, LooksWritten
    <2>4. QED BY <2>1, <2>2, <2>3 DEF Looks
<1>3. row' \in Rows /\ row'.kept = row.kept /\ trouble' \in 0..MaxTrouble
    <2>1. CASE UNCHANGED <<row, trouble>>
        BY <2>1 DEF LifeTypeOK
    <2>2. CASE \E x \in Judgement : SetExit(x)
        <3>1. Judgement \subseteq {"no", "yes", "vanished"}
            BY DEF Judgement
        <3>2. QED BY <2>2, <3>1, SetExitKeeps
    <2>3. QED BY <2>1, <2>2 DEF Looks, LookLists, LookReads, LookWrites
<1>4. /\ panel' \in {"stopped", "starting", "flagged", "serving"}
      /\ panel' = panel \/ (panel = "starting" /\ panel' = "flagged")
    BY DEF Looks, LookLists, LookReads, LookWrites, LifeTypeOK
<1>5. LifeTypeOK'
    BY <1>1, <1>2, <1>3, <1>4 DEF LifeTypeOK, LooksWritten
<1>6. TurnsOK'
    BY <1>1, <1>4 DEF TurnsOK
<1>7. OnPane' = OnPane
    BY <1>1 DEF OnPane
<1>8. HandlersOK'
    BY <1>1, <1>3, <1>7 DEF HandlersOK, HandlerOK, RowAsTaken, PaneAsLearnt, PromiseInHand, BlindIsRequest
<1>9. ForgottenOK' /\ PrintsOK' /\ PanesOK'
    BY <1>1, <1>3 DEF ForgottenOK, PrintsOK, PanesOK
<1>10. ScreenKept'
    BY <1>1, <1>3 DEF ScreenKept
<1>11. QED BY <1>5, <1>6, <1>8, <1>9, <1>10

\* A capture is stored later, over whatever was archived, and promised unless
\* a restore is past reading it.
LEMMA CapturesStep ==
    ASSUME LifeInv, Captures
    PROVE  LifeInv'
<1> USE DEF LifeInv
<1>1. shot' \in Screens
    BY PaneUp DEF Captures, PanesUp
<1>2. LifeTypeOK'
    BY <1>1 DEF Captures, LifeTypeOK
<1>3. TurnsOK'
    BY DEF Captures, TurnsOK
<1>4. HandlersOK'
    BY DEF Captures, HandlersOK, HandlerOK, RowAsTaken, PaneAsLearnt, PromiseInHand, BlindIsRequest, OnPane
<1>5. ForgottenOK' /\ PrintsOK' /\ PanesOK'
    BY DEF Captures, ForgottenOK, PrintsOK, PanesOK
<1>6. ScreenKept'
    BY DEF Captures, ScreenKept
<1>7. QED BY <1>2, <1>3, <1>4, <1>5, <1>6

LEMMA StoresStep ==
    ASSUME LifeInv, Stores
    PROVE  LifeInv'
<1> USE DEF LifeInv
<1>1. archive' \in Screens /\ promised' \in Screens /\ shot' \in Screens
    BY ScreensAre DEF Stores, LifeTypeOK
<1>2. LifeTypeOK'
    BY <1>1 DEF Stores, LifeTypeOK
<1>3. TurnsOK'
    BY DEF Stores, TurnsOK
<1>4. OnPane' = OnPane
    BY DEF Stores, OnPane
<1>5. \A a \in Actors :
         /\ work[a].at = "read" => promised' \subseteq work[a].screen
         /\ work[a].at = "made" => promised' \subseteq OnPane'
    <2> SUFFICES ASSUME NEW a \in Actors
                 PROVE  /\ work[a].at = "read" => promised' \subseteq work[a].screen
                        /\ work[a].at = "made" => promised' \subseteq OnPane'
        OBVIOUS
    <2>1. HandlerOK(a)
        BY DEF HandlersOK
    <2>2. CASE ~row.kept
        BY <2>1, <2>2, <1>4 DEF Stores, HandlerOK, PromiseInHand
    <2>3. CASE row.kept /\ TooLate
        BY <2>3 DEF Stores
    <2>4. CASE row.kept /\ ~TooLate
        <3>1. promised' = shot
            BY <2>4 DEF Stores
        <3>2. work[a].at \in {"read", "made"} => pane.up /\ shot \subseteq pane.screen
            BY <2>4 DEF TooLate
        <3>3. work[a].at = "read" => FALSE
            BY <3>2, <2>1 DEF HandlerOK, PaneAsLearnt
        <3>4. work[a].at = "made" => promised' \subseteq OnPane
            BY <3>1, <3>2 DEF OnPane
        <3>5. QED BY <1>4, <3>3, <3>4
    <2>5. QED BY <2>2, <2>3, <2>4
<1>6. HandlersOK'
    <2>1. UNCHANGED <<work, row, pane>>
        BY DEF Stores
    <2>2. QED BY <1>5, <2>1 DEF HandlersOK, HandlerOK, RowAsTaken, PaneAsLearnt, PromiseInHand, BlindIsRequest
<1>7. ForgottenOK' /\ PrintsOK' /\ PanesOK'
    BY DEF Stores, ForgottenOK, PrintsOK, PanesOK
<1>8. ScreenKept'
    BY DEF Stores, ScreenKept
<1>9. QED BY <1>2, <1>3, <1>6, <1>7, <1>8

LEMMA LifeKeeps == OneRequest /\ LifeInv /\ [LifeNext]_lifeVars => LifeInv'
<1> SUFFICES ASSUME OneRequest, LifeInv, [LifeNext]_lifeVars PROVE LifeInv'
    OBVIOUS
<1>1. ASSUME NEW a \in Actors,
             CreatePane(a) \/ CreateFails(a) \/ Delete(a) \/ Restart(a) \/ Restore(a)
      PROVE  LifeInv'
    BY <1>1, CreatePaneStep, CreateFailsStep, RequestBegins
<1>2. ASSUME NEW a \in Actors, Handles(a)
      PROVE  LifeInv'
    BY <1>2, CreateRowStep, CleanUpStep, DeleteKillsStep, DeleteRowStep, RestartLooksStep,
       RespawnStep, ExitClears, RestoreLooksStep, RestoreReadsStep, RestoreMakesStep, RestoreDropsStep
       DEF Handles
<1>3. CASE Looks \/ RestoreFlagged \/ Captures \/ Stores \/ Prints \/ Ends \/ Killed \/ Starts
    BY <1>3, LooksSteps, RestoreFlaggedStep, CapturesStep, StoresStep, PrintsStep, EndsStep,
       KilledStep, StartsStep
<1>4. ASSUME NEW withMachine \in BOOLEAN, Stops(withMachine)
      PROVE  LifeInv'
    BY <1>4, StopsStep
<1>5. CASE UNCHANGED lifeVars
    <2>1. LifeTypeOK'
        BY <1>5 DEF LifeInv, lifeVars, LifeTypeOK
    <2>2. TurnsOK' /\ HandlersOK'
        BY <1>5 DEF LifeInv, lifeVars, TurnsOK, HandlersOK, HandlerOK, RowAsTaken, PaneAsLearnt,
                    PromiseInHand, BlindIsRequest, OnPane
    <2>3. ForgottenOK' /\ PrintsOK' /\ PanesOK'
        BY <1>5 DEF LifeInv, lifeVars, ForgottenOK, PrintsOK, PanesOK
    <2>4. ScreenKept'
        BY <1>5 DEF LifeInv, lifeVars, ScreenKept
    <2>5. QED BY <2>1, <2>2, <2>3, <2>4 DEF LifeInv
<1>6. QED BY <1>1, <1>2, <1>3, <1>4, <1>5 DEF LifeNext


\* The variables of a session's life have their types, with one request at a time.
THEOREM LifeTypeCorrect ==
    ASSUME OneRequest
    PROVE  LifeSpec => []LifeTypeOK
<1>1. LifeInv /\ [LifeNext]_lifeVars => LifeInv'
    BY LifeKeeps
<1>2. LifeInv => LifeTypeOK
    BY DEF LifeInv
<1>3. QED BY LifeInitHolds, <1>1, <1>2, PTL DEF LifeSpec

LEMMA LifeStrands == LifeInv => NothingStranded
<1> SUFFICES ASSUME LifeInv PROVE ScreenKept /\ NoOrphan
    BY DEF NothingStranded
<1>1. ScreenKept
    BY DEF LifeInv
<1>2. NoOrphan
    BY DEF LifeInv, PanesOK, NoOrphan, Idle
<1>3. QED BY <1>1, <1>2

\* Whatever fails and wherever the panel stops, an archived screen stays
\* readable and no pane is left without a row.
THEOREM NothingStrandedCorrect ==
    ASSUME OneRequest
    PROVE  LifeSpec => []NothingStranded
<1>1. LifeInv /\ [LifeNext]_lifeVars => LifeInv'
    BY LifeKeeps
<1>2. QED BY LifeInitHolds, LifeStrands, <1>1, PTL DEF LifeSpec

\* No pane is there before the first process is started.
BornOK == lives = 0 => ~pane.up

LEMMA BornKeeps == LifeTypeOK /\ BornOK /\ [LifeNext]_lifeVars => BornOK'
<1> SUFFICES ASSUME LifeTypeOK, BornOK, [LifeNext]_lifeVars PROVE BornOK'
    OBVIOUS
<1>1. ASSUME NEW a \in Actors,
             CreatePane(a) \/ CreateFails(a) \/ Delete(a) \/ Restart(a) \/ Restore(a)
      PROVE  BornOK'
    BY <1>1 DEF BornOK, CreatePane, CreateFails, Delete, Restart, Restore
<1>2. ASSUME NEW a \in Actors, Handles(a)
      PROVE  BornOK'
    <2>1. CASE UNCHANGED lives /\ (pane' = pane \/ pane' = NoPane)
        BY <2>1, NoPaneFits DEF BornOK
    <2>2. CASE lives' = lives + 1
        BY <2>2 DEF BornOK, LifeTypeOK
    <2>3. QED BY <1>2, <2>1, <2>2
        DEF Handles, CreateRow, CleanUp, DeleteKills, DeleteRow, RestartLooks, Respawn, RestartDone,
            RestoreLooks, RestoreReads, RestoreMakes, RestoreDrops, RestoreClears
<1>3. CASE Prints \/ Ends
    <2>1. pane.up /\ lives' = lives
        BY <1>3 DEF Prints, Ends
    <2>2. QED BY <2>1 DEF BornOK
<1>4. CASE Killed \/ \E withMachine \in BOOLEAN : Stops(withMachine)
    <2>1. lives' = lives /\ (pane' = pane \/ pane' = NoPane)
        BY <1>4 DEF Killed, Stops
    <2>2. QED BY <2>1, NoPaneFits DEF BornOK
<1>5. CASE Looks \/ RestoreFlagged \/ Captures \/ Stores \/ Starts \/ UNCHANGED lifeVars
    <2>1. UNCHANGED <<lives, pane>>
        BY <1>5 DEF Looks, LookLists, LookReads, LookWrites, RestoreFlagged, Captures, Stores, Starts, lifeVars
    <2>2. QED BY <2>1 DEF BornOK
<1>6. QED BY <1>1, <1>2, <1>3, <1>4, <1>5 DEF LifeNext

\* Only a respawn replaces a process, and it is sent to one that has ended, or
\* by a restart that was not told.
LEMMA ReplacesAsked ==
    ASSUME LifeInv, BornOK, [LifeNext]_lifeVars
    PROVE  pane.up /\ ~pane.dead /\ pane'.up =>
              pane'.life = pane.life \/ \E a \in Requests : work[a].at = "blind"
<1> SUFFICES ASSUME pane.up, ~pane.dead, pane'.up
             PROVE  pane'.life = pane.life \/ \E a \in Requests : work[a].at = "blind"
    OBVIOUS
<1> USE DEF LifeInv
<1>1. ASSUME NEW a \in Actors,
             CreatePane(a) \/ CreateFails(a) \/ Delete(a) \/ Restart(a) \/ Restore(a)
      PROVE  pane' = pane
    BY <1>1 DEF BornOK, CreatePane, CreateFails, Delete, Restart, Restore
<1>2. ASSUME NEW a \in Actors, Respawn(a), pane' # pane
      PROVE  \E b \in Requests : work[b].at = "blind"
    <2>1. work[a].at \in {"dead", "blind"}
        BY <1>2 DEF Respawn, Goes
    <2>2. work[a].at # "dead"
        BY DEF HandlersOK, HandlerOK, PaneAsLearnt
    <2>3. a \in Requests
        BY <2>1, <2>2 DEF HandlersOK, HandlerOK, BlindIsRequest
    <2>4. QED BY <2>1, <2>2, <2>3
<1>3. ASSUME NEW a \in Actors, Handles(a), ~Respawn(a)
      PROVE  pane' = pane
    <2>1. ~NoPane.up
        BY NoPaneFits
    <2>2. QED BY <1>3, <2>1
        DEF Handles, CreateRow, CleanUp, DeleteKills, DeleteRow, RestartLooks, RestartDone,
            RestoreLooks, RestoreReads, RestoreMakes, RestoreDrops, RestoreClears
<1>4. CASE Prints \/ Ends
    <2>1. pane \in PanesUp
        BY PaneUp
    <2>2. QED BY <1>4, <2>1 DEF Prints, Ends, PanesUp
<1>5. CASE Killed \/ \E withMachine \in BOOLEAN : Stops(withMachine)
    BY <1>5, NoPaneFits DEF Killed, Stops
<1>6. CASE Looks \/ RestoreFlagged \/ Captures \/ Stores \/ Starts \/ UNCHANGED lifeVars
    BY <1>6 DEF Looks, LookLists, LookReads, LookWrites, RestoreFlagged, Captures, Stores, Starts, lifeVars
<1>7. QED BY <1>1, <1>2, <1>3, <1>4, <1>5, <1>6 DEF LifeNext

\* No restart or restore replaces a running process, but a restart that could
\* not ask whether it runs.
THEOREM RunningNotReplacedCorrect ==
    ASSUME OneRequest
    PROVE  LifeSpec => RunningNotReplaced
<1>1. LifeInit => BornOK
    BY NoPaneFits DEF LifeInit, BornOK
<1>2. LifeInv /\ [LifeNext]_lifeVars => LifeInv'
    BY LifeKeeps
<1>3. LifeInv /\ BornOK /\ [LifeNext]_lifeVars => BornOK'
    BY BornKeeps DEF LifeInv
<1>4. LifeInv /\ BornOK /\ [LifeNext]_lifeVars =>
         [pane.up /\ ~pane.dead /\ pane'.up =>
             pane'.life = pane.life \/ \E a \in Requests : work[a].at = "blind"]_lifeVars
    BY ReplacesAsked
<1>5. QED BY LifeInitHolds, <1>1, <1>2, <1>3, <1>4, PTL DEF LifeSpec, RunningNotReplaced

-----------------------------------------------------------------------------
(***************************************************************************)
(* The governor, for any suspects, intervals and grace.  What the pages    *)
(* were told last stands while a round is under way, so a round ends a     *)
(* process only for a deadline it found told; and an answer's quiet is     *)
(* either still in force when the round looks again, or over.              *)
(***************************************************************************)

TellsOf(a) == told.id = a.id /\ told.suspect = a.suspect /\ told.autoAt = a.autoAt

\* Rounds follow one another in time, and each asks at most one question.
RoundsOK ==
    /\ round = Resting => asked < time /\ (told # NoAlert => told.by < time)
    /\ round # Resting =>
          /\ time < MaxClock /\ round.now <= time
          /\ asked <= time
          /\ round.at \in {"clears", "read"} => asked < time
          /\ told # NoAlert => told.by <= round.now
          /\ told # NoAlert /\ round.at # "shown" => told.by < round.now

\* The pages were told of the question that is up, and of the one a round read.
UpIsTold == alert # NoAlert => TellsOf(alert)
ReadIsTold == round.at = "read" /\ round.alert # NoAlert => TellsOf(round.alert)

\* A deadline is none, a whole grace away, or the one that was told.
FreshDeadline == round.next.autoAt \in {0, round.now + Grace}
ShowsOK == round.at = "shows" => FreshDeadline \/ TellsOf(round.next)
ShownOK == round.at = "shown" =>
    TellsOf(round.next) /\ (FreshDeadline \/ told.by < round.now)

\* What is owed is in force or over, and over where a round no longer looks.
OwedOK ==
    /\ owed <= quiet \/ owed <= time
    /\ round.at \in {"shows", "kills"} /\ ~passed => owed <= time

GovInv ==
    /\ GovernorTypeOK
    /\ RoundsOK /\ UpIsTold /\ ReadIsTold /\ ShowsOK /\ ShownOK
    /\ KillAnnounced /\ OwedOK

ReadRounds == [at : {"read"}, now : Clock, alert : {NoAlert} \cup Alerts, level : Levels,
               suspect : Suspects, actable : BOOLEAN]
ActRounds == [at : {"shows", "shown", "kills"}, now : Clock, next : Alerts]
ClearRounds == [at : {"clears"}, now : Clock]
Rounds == {Resting} \cup ClearRounds \cup ReadRounds \cup ActRounds
Answers == [at : {"acted", "answered"}, suspect : Suspects]
Tellings == [id : Ids, suspect : Suspects, autoAt : Deadlines, by : Clock]

LEMMA GovernorNumbers ==
    /\ Grace \in Nat /\ Grace > 0
    /\ QuietAfterAnswer \in Nat /\ QuietAfterFailure \in Nat
    /\ WarnForgets \in Nat /\ SnoozeFor \in Nat /\ MaxClock \in Nat /\ MaxClock > 0
BY GovernorAssumption

\* A moment within the clock, and later by as much as is ever added to one.
LEMMA Moments ==
    ASSUME NEW t \in Clock
    PROVE  /\ t \in Nat /\ t \in Deadlines /\ 0 \in Deadlines
           /\ t + Grace \in Deadlines /\ t + SnoozeFor \in Deadlines
           /\ t + QuietAfterAnswer \in Deadlines /\ t + QuietAfterFailure \in Deadlines
BY GovernorNumbers DEF Clock, Deadlines

LEMMA RoundAt ==
    ASSUME GovernorTypeOK
    PROVE  /\ round \in Rounds
           /\ round.at = "clears" => round \in ClearRounds
           /\ round.at = "read" => round \in ReadRounds
           /\ round.at \in {"shows", "shown", "kills"} => round \in ActRounds
           /\ round # Resting => round.now \in Clock /\ round.at # "rest"
           /\ round.at # "rest" => round # Resting
<1>1. round \in Rounds
    BY Zenon DEF GovernorTypeOK, Rounds, ClearRounds, ReadRounds, ActRounds
<1>2. QED BY <1>1 DEF Rounds, ClearRounds, ReadRounds, ActRounds, Resting

LEMMA AlertUp ==
    ASSUME GovernorTypeOK
    PROVE  /\ alert # NoAlert => alert \in Alerts
           /\ told # NoAlert => told \in Tellings
           /\ \A a \in Alerts : a # NoAlert /\ a.id # 0 /\ a.id \in Ids /\ a.suspect \in Suspects
                                /\ a.autoAt \in Deadlines /\ a.level \in Levels
BY GovernorNumbers DEF GovernorTypeOK, Alerts, Tellings, NoAlert, Ids

\* Setting an alert tells the pages of it; taking one down tells nothing.
LEMMA SetAlertTells ==
    ASSUME GovernorTypeOK, NEW a \in Alerts, NEW by \in Clock, SetAlert(a, by)
    PROVE  /\ alert' = a
           /\ told' \in Tellings /\ told' # NoAlert
           /\ TellsOf(a)'
           /\ told'.by = by \/ (TellsOf(a) /\ told' = told /\ told # NoAlert)
<1>1. a # NoAlert /\ a.id # 0
    BY AlertUp
<1>2. CASE TellsOf(a)
    <2>1. told # NoAlert
        BY <1>1, <1>2 DEF TellsOf, NoAlert
    <2>2. told' = told /\ alert' = a
        BY <1>1, <1>2 DEF SetAlert, TellsOf
    <2>3. QED BY <1>2, <2>1, <2>2, AlertUp DEF TellsOf
<1>3. CASE ~TellsOf(a)
    <2>1. told' = [id |-> a.id, suspect |-> a.suspect, autoAt |-> a.autoAt, by |-> by] /\ alert' = a
        BY <1>1, <1>3 DEF SetAlert, TellsOf
    <2>2. told' \in Tellings
        BY <2>1, AlertUp DEF Tellings
    <2>3. told' # NoAlert
        BY <1>1, <2>1 DEF NoAlert
    <2>4. TellsOf(a)' /\ told'.by = by
        BY <2>1 DEF TellsOf
    <2>5. QED BY <2>1, <2>2, <2>3, <2>4
<1>4. QED BY <1>2, <1>3

LEMMA GovernorInitHolds == GovernorInit => GovInv
<1> SUFFICES ASSUME GovernorInit PROVE GovInv
    OBVIOUS
<1> USE DEF GovernorInit
<1>1. GovernorTypeOK
    <2>1. time \in Clock /\ quiet \in Deadlines /\ owed \in Deadlines /\ warnSince \in Clock
        BY GovernorNumbers DEF Clock, Deadlines
    <2>2. snoozed \in [Suspects -> Deadlines]
        BY GovernorNumbers DEF Deadlines
    <2>3. okTicks \in 0..2 /\ unkillable \subseteq Suspects
        OBVIOUS
    <2>4. passed \in BOOLEAN
        OBVIOUS
    <2>5. QED BY <2>1, <2>2, <2>3, <2>4 DEF GovernorTypeOK
<1>2. RoundsOK
    BY DEF RoundsOK
<1>3. UpIsTold /\ ReadIsTold /\ ShowsOK /\ ShownOK /\ KillAnnounced
    BY DEF UpIsTold, ReadIsTold, ShowsOK, ShownOK, KillAnnounced, Resting
<1>4. OwedOK
    BY DEF OwedOK, Resting
<1>5. QED BY <1>1, <1>2, <1>3, <1>4 DEF GovInv

LEMMA TickWellStep ==
    ASSUME GovInv, TickWell
    PROVE  GovInv'
<1> USE DEF GovInv
<1>1. time \in Clock /\ time < MaxClock /\ time + 1 \in Clock
    BY GovernorNumbers DEF TickWell, GovernorTypeOK, Clock
<1>2. okTicks' \in 0..2
    BY DEF TickWell, GovernorTypeOK
<1>3. \/ round' = Resting /\ time' = time + 1
      \/ round' = [at |-> "clears", now |-> time] /\ time' = time
    BY DEF TickWell, Resting
<1>4. round' \in {Resting} \cup ClearRounds /\ time' \in Clock
    BY <1>1, <1>3 DEF ClearRounds
<1>5. GovernorTypeOK'
    BY <1>2, <1>4 DEF TickWell, GovernorTypeOK, ClearRounds
<1>6. asked < time /\ (told # NoAlert => told.by < time)
    BY DEF TickWell, RoundsOK
<1>7. asked \in Nat /\ (told # NoAlert => told.by \in Nat)
    BY AlertUp, GovernorNumbers DEF GovernorTypeOK, Ids, Tellings, Clock
<1>8. RoundsOK'
    BY <1>1, <1>3, <1>6, <1>7 DEF TickWell, RoundsOK, Resting, Clock
<1>9. UpIsTold'
    BY DEF TickWell, UpIsTold, TellsOf
<1>10. ReadIsTold' /\ ShowsOK' /\ ShownOK' /\ KillAnnounced'
    BY <1>3 DEF ReadIsTold, ShowsOK, ShownOK, KillAnnounced, Resting
<1>11. OwedOK'
    <2>1. owed \in Nat /\ quiet \in Nat
        BY GovernorNumbers DEF GovernorTypeOK, Deadlines
    <2>2. QED BY <1>1, <1>3, <2>1 DEF TickWell, OwedOK, Resting, Clock
<1>12. QED BY <1>5, <1>8, <1>9, <1>10, <1>11

LEMMA TickShortStep ==
    ASSUME GovInv, NEW level \in Levels, NEW s \in Suspects, NEW actable \in BOOLEAN,
           TickShort(level, s, actable)
    PROVE  GovInv'
<1> USE DEF GovInv
<1> DEFINE r == [at |-> "read", now |-> time, alert |-> alert, level |-> level,
                 suspect |-> s, actable |-> actable]
<1>1. time \in Clock /\ time < MaxClock /\ time + 1 \in Clock
    BY GovernorNumbers DEF TickShort, GovernorTypeOK, Clock
<1>2. \/ round' = Resting /\ time' = time + 1
      \/ round' = r /\ time' = time
    BY DEF TickShort
<1>3. alert \in {NoAlert} \cup Alerts
    BY DEF GovernorTypeOK
<1>4. r \in ReadRounds
    BY <1>1, <1>3, Zenon DEF ReadRounds
<1>5. r.at = "read" /\ r.now = time /\ r.alert = alert
    OBVIOUS
<1> HIDE DEF r
<1>6. round' \in {Resting} \cup ReadRounds /\ time' \in Clock
    BY <1>1, <1>2, <1>4
<1>7. GovernorTypeOK'
    <2>1. passed' \in BOOLEAN
        BY DEF TickShort
    <2>2. okTicks' \in 0..2
        BY DEF TickShort
    <2>3. round' \in Rounds
        BY <1>6 DEF Rounds
    <2>4. QED BY <1>6, <2>1, <2>2, <2>3
             DEF TickShort, GovernorTypeOK, Rounds, ReadRounds, ClearRounds, ActRounds
<1>8. asked < time /\ (told # NoAlert => told.by < time)
    BY DEF TickShort, RoundsOK
<1>9. asked \in Nat /\ (told # NoAlert => told.by \in Nat)
    BY AlertUp, GovernorNumbers DEF GovernorTypeOK, Ids, Tellings, Clock
<1>10. RoundsOK'
    BY <1>1, <1>2, <1>5, <1>8, <1>9 DEF TickShort, RoundsOK, Resting, Clock
<1>11. UpIsTold' /\ ReadIsTold'
    BY <1>2, <1>5 DEF TickShort, UpIsTold, ReadIsTold, TellsOf, Resting
<1>12. ShowsOK' /\ ShownOK' /\ KillAnnounced'
    BY <1>2, <1>5 DEF ShowsOK, ShownOK, KillAnnounced, Resting
<1>13. OwedOK'
    <2>1. owed \in Nat /\ quiet \in Nat
        BY GovernorNumbers DEF GovernorTypeOK, Deadlines
    <2>2. QED BY <1>1, <1>2, <1>5, <2>1 DEF TickShort, OwedOK, Resting, Clock
<1>14. QED BY <1>7, <1>10, <1>11, <1>12, <1>13


LEMMA SlowStep ==
    ASSUME GovInv, Slow
    PROVE  GovInv'
<1> USE DEF GovInv
<1>1. time \in Clock /\ time' = time + 1 /\ time' < MaxClock /\ time' \in Clock
    BY GovernorNumbers DEF Slow, GovernorTypeOK, Clock
<1>2. round # Resting /\ round' = round /\ round.now \in Nat
    BY RoundAt DEF Slow, roundVars, Clock
<1>3. GovernorTypeOK'
    BY <1>1 DEF Slow, roundVars, GovernorTypeOK
<1>4. asked \in Nat
    BY GovernorNumbers DEF GovernorTypeOK, Ids
<1>5. RoundsOK'
    BY <1>1, <1>2, <1>4 DEF Slow, RoundsOK, Clock
<1>6. UpIsTold' /\ ReadIsTold'
    BY <1>2 DEF Slow, UpIsTold, ReadIsTold, TellsOf
<1>7. ShowsOK' /\ ShownOK'
    BY <1>2 DEF Slow, ShowsOK, ShownOK, FreshDeadline, TellsOf
<1>8. KillAnnounced'
    <2> SUFFICES ASSUME round.at = "kills" PROVE KillAnnounced'
        BY <1>2 DEF KillAnnounced
    <2>1. round \in ActRounds
        BY RoundAt
    <2>2. told.autoAt = round.next.autoAt /\ round.next \in Alerts
        BY <2>1 DEF KillAnnounced, ActRounds
    <2>3. told.autoAt \in Nat
        BY <2>2, AlertUp, GovernorNumbers DEF Deadlines
    <2>4. QED BY <1>1, <1>2, <2>3 DEF Slow, KillAnnounced, Clock
<1>9. OwedOK'
    <2>1. owed \in Nat /\ quiet \in Nat
        BY GovernorNumbers DEF GovernorTypeOK, Deadlines
    <2>2. QED BY <1>1, <1>2, <2>1 DEF Slow, OwedOK, Clock
<1>10. QED BY <1>3, <1>5, <1>6, <1>7, <1>8, <1>9

\* The end of a round, whatever it did: the next one is later.
LEMMA RoundOver ==
    ASSUME GovernorTypeOK, RoundsOK, round # Resting, RoundEnds
    PROVE  /\ round' = Resting /\ time' = time + 1 /\ time' \in Clock
           /\ asked < time'
           /\ round.now < time'
           /\ told # NoAlert => told.by < time'
<1>1. time \in Clock /\ time < MaxClock /\ time + 1 \in Clock
    BY GovernorNumbers DEF RoundsOK, GovernorTypeOK, Clock
<1>2. round.now \in Nat /\ round.now <= time
    BY RoundAt DEF RoundsOK, Clock
<1>3. asked \in Nat /\ asked <= time
    BY GovernorNumbers DEF RoundsOK, GovernorTypeOK, Ids
<1>4. told # NoAlert => told.by \in Nat /\ told.by <= round.now
    BY AlertUp DEF RoundsOK, Tellings, Clock
<1>5. QED BY <1>1, <1>2, <1>3, <1>4 DEF RoundEnds, Clock

\* A round that is over leaves nothing to say of rounds.
LEMMA NoRound ==
    ASSUME round' = Resting
    PROVE  ReadIsTold' /\ ShowsOK' /\ ShownOK' /\ KillAnnounced'
BY DEF ReadIsTold, ShowsOK, ShownOK, KillAnnounced, Resting

LEMMA TickClearsStep ==
    ASSUME GovInv, TickClears
    PROVE  GovInv'
<1> USE DEF GovInv
<1>1. round # Resting
    BY RoundAt DEF TickClears, Resting
<1>2. /\ round' = Resting /\ time' = time + 1 /\ time' \in Clock
      /\ asked < time'
      /\ told # NoAlert => told.by < time'
    BY <1>1, RoundOver DEF TickClears
<1>3. alert' = NoAlert /\ told' = told
    BY DEF TickClears, SetAlert
<1>4. GovernorTypeOK'
    BY <1>2, <1>3 DEF TickClears, GovernorTypeOK
<1>5. RoundsOK'
    BY <1>2, <1>3 DEF TickClears, RoundsOK
<1>6. UpIsTold'
    BY <1>3 DEF UpIsTold
<1>7. ReadIsTold' /\ ShowsOK' /\ ShownOK' /\ KillAnnounced'
    BY <1>2, NoRound
<1>8. OwedOK'
    <2>1. owed \in Nat /\ quiet \in Nat /\ time \in Nat
        BY GovernorNumbers DEF GovernorTypeOK, Deadlines, Clock
    <2>2. QED BY <1>2, <2>1 DEF TickClears, OwedOK, Resting
<1>9. QED BY <1>4, <1>5, <1>6, <1>7, <1>8

\* A deadline that a round sets is a whole grace away or was told already.
LEMMA AutoAtFits ==
    ASSUME GovInv, round.at = "read"
    PROVE  /\ AutoAt \in Deadlines
           /\ \/ AutoAt \in {0, round.now + Grace}
              \/ SameQuestion /\ AutoAt = round.alert.autoAt
<1> USE DEF GovInv
<1>1. /\ round \in ReadRounds /\ round.now \in Clock /\ round.level \in Levels
      /\ round.alert \in {NoAlert} \cup Alerts
    BY RoundAt DEF ReadRounds
<1>2. round.actable \in BOOLEAN
    BY <1>1, Zenon DEF ReadRounds
<1>3. round.now + Grace \in Deadlines /\ 0 \in Deadlines
    BY <1>1, Moments
<1>4. Carried = 0 \/ (SameQuestion /\ Carried = round.alert.autoAt /\ Carried \in Deadlines)
    BY <1>1, AlertUp DEF Carried, SameQuestion
<1>5. AutoAt \in {0, round.now + Grace, Carried}
    <2>1. CASE ~round.actable
        BY <2>1 DEF AutoAt
    <2>2. CASE round.actable /\ round.level = "critical"
        <3>1. AutoAt = IF Carried = 0 THEN round.now + Grace ELSE Carried
            BY <2>2 DEF AutoAt
        <3>2. QED BY <3>1
    <2>3. CASE round.actable /\ round.level = "warn"
        <3>1. AutoAt = IF Warned # 0 /\ round.now > Warned + WarnForgets THEN 0 ELSE Carried
            BY <2>3 DEF AutoAt
        <3>2. QED BY <3>1
    <2>4. QED BY <1>1, <1>2, <2>1, <2>2, <2>3 DEF Levels
<1>6. QED BY <1>3, <1>4, <1>5


LEMMA TickAsksStep ==
    ASSUME GovInv, TickAsks
    PROVE  GovInv'
<1> USE DEF GovInv
<1> DEFINE n == [id |-> IF SameQuestion THEN round.alert.id ELSE asked + 1,
                 level |-> round.level, suspect |-> round.suspect, autoAt |-> AutoAt]
           c == [at |-> "clears", now |-> round.now]
           r == [at |-> "shows", now |-> round.now, next |-> n]
<1>1. /\ round.at = "read" /\ round # Resting
      /\ round \in ReadRounds /\ round.now \in Clock /\ round.level \in Levels
      /\ round.suspect \in Suspects /\ round.alert \in {NoAlert} \cup Alerts
    BY RoundAt DEF TickAsks, ReadRounds, Resting
<1>2. /\ time \in Clock /\ time \in Nat /\ time < MaxClock /\ time + 1 \in Clock
      /\ round.now \in Nat /\ round.now <= time
      /\ asked \in Nat /\ asked < time
      /\ owed \in Nat /\ quiet \in Nat
      /\ told # NoAlert => told.by < round.now /\ told.by \in Nat
    BY <1>1, AlertUp, GovernorNumbers DEF RoundsOK, GovernorTypeOK, Clock, Ids, Deadlines, Tellings
<1>3. asked + 1 \in Ids
    BY <1>2, GovernorNumbers DEF Ids
<1>4. n \in Alerts
    <2>1. (IF SameQuestion THEN round.alert.id ELSE asked + 1) \in Ids
        BY <1>1, <1>3, AlertUp DEF SameQuestion
    <2>2. AutoAt \in Deadlines
        BY <1>1, AutoAtFits
    <2>3. QED BY <1>1, <2>1, <2>2 DEF Alerts
<1>5. /\ c \in ClearRounds /\ c.at = "clears" /\ c.now = round.now
      /\ r \in ActRounds /\ r.at = "shows" /\ r.now = round.now /\ r.next = n
    BY <1>1, <1>4 DEF ClearRounds, ActRounds
<1>6. \/ round' = Resting /\ time' = time + 1 /\ asked' = asked
      \/ round' = c /\ time' = time /\ asked' = asked
      \/ round' = r /\ time' = time /\ asked' \in {asked, asked + 1} /\ time >= quiet
    <2>1. c # Resting /\ r # Resting
        BY <1>5 DEF Resting
    <2>2. CASE Snoozed
        BY <2>1, <2>2 DEF TickAsks
    <2>3. CASE ~Snoozed /\ time < quiet
        BY <2>3, <1>2 DEF TickAsks
    <2>4. CASE ~Snoozed /\ time >= quiet
        <3>1. asked' = (IF SameQuestion THEN asked ELSE asked + 1)
            BY <2>4, <1>2 DEF TickAsks
        <3>2. round' = [at |-> "shows", now |-> round.now,
                       next |-> [id |-> IF SameQuestion THEN round.alert.id ELSE asked',
                                 level |-> round.level, suspect |-> round.suspect,
                                 autoAt |-> AutoAt]]
            BY <2>4, <1>2 DEF TickAsks
        <3>3. round' = r
            BY <3>1, <3>2
        <3>4. QED BY <2>1, <2>4, <3>1, <3>3 DEF TickAsks
    <2>5. QED BY <1>2, <2>2, <2>3, <2>4
<1>8. n.autoAt \in {0, round.now + Grace} \/ TellsOf(n)
    <2>1. CASE AutoAt \in {0, round.now + Grace}
        BY <2>1
    <2>2. CASE SameQuestion /\ AutoAt = round.alert.autoAt
        <3>1. round.alert # NoAlert /\ round.alert.suspect = round.suspect /\ TellsOf(round.alert)
            BY <2>2, <1>1 DEF SameQuestion, ReadIsTold
        <3>2. n.id = round.alert.id /\ n.suspect = round.alert.suspect /\ n.autoAt = round.alert.autoAt
            BY <2>2, <3>1
        <3>3. QED BY <3>1, <3>2 DEF TellsOf
    <2>3. QED BY <1>1, <2>1, <2>2, AutoAtFits
<1> HIDE DEF n, c, r
<1>9. asked' \in {0} \cup Ids /\ asked' \in Nat /\ time' \in Clock
    BY <1>2, <1>3, <1>6 DEF GovernorTypeOK
<1>10. warnSince' \in Clock
    <2>1. 0 \in Clock
        BY GovernorNumbers DEF Clock
    <2>2. Warned \in Clock
        BY <2>1 DEF Warned, GovernorTypeOK
    <2>3. Since \in Clock
        BY <1>1, <2>1, <2>2 DEF Since
    <2>4. QED BY <2>3 DEF TickAsks, GovernorTypeOK
<1>11. round' \in Rounds
    BY <1>5, <1>6 DEF Rounds
<1>12. GovernorTypeOK'
    BY <1>9, <1>10, <1>11 DEF TickAsks, GovernorTypeOK, Rounds, ReadRounds, ClearRounds, ActRounds
<1>13. RoundsOK'
    BY <1>2, <1>5, <1>6 DEF TickAsks, RoundsOK, Resting
<1>14. UpIsTold'
    BY DEF TickAsks, UpIsTold, TellsOf
<1>15. ReadIsTold' /\ ShownOK' /\ KillAnnounced'
    BY <1>5, <1>6 DEF ReadIsTold, ShownOK, KillAnnounced, Resting
<1>16. ShowsOK'
    <2>1. CASE round' = r
        <3>1. round'.next = n /\ round'.now = round.now /\ told' = told
            BY <1>5, <2>1 DEF TickAsks
        <3>2. TellsOf(n) => TellsOf(round.next)'
            BY <3>1 DEF TellsOf
        <3>3. n.autoAt \in {0, round.now + Grace} => FreshDeadline'
            BY <3>1 DEF FreshDeadline
        <3>4. QED BY <1>8, <3>2, <3>3 DEF ShowsOK
    <2>2. CASE round' # r
        BY <1>5, <1>6, <2>2 DEF ShowsOK, Resting
    <2>3. QED BY <2>1, <2>2
<1>17. OwedOK'
    BY <1>2, <1>5, <1>6 DEF TickAsks, OwedOK, Resting
<1>18. QED BY <1>12, <1>13, <1>14, <1>15, <1>16, <1>17

LEMMA TickShowsStep ==
    ASSUME GovInv, TickShows
    PROVE  GovInv'
<1> USE DEF GovInv
<1>1. /\ round.at = "shows" /\ round # Resting
      /\ round \in ActRounds /\ round.next \in Alerts /\ round.now \in Clock
    BY RoundAt DEF TickShows, ActRounds, Resting
<1>2. /\ round' = [round EXCEPT !.at = "shown"]
      /\ UNCHANGED <<time, asked, quiet, owed, passed>>
    BY DEF TickShows
<1>3. /\ round' \in ActRounds /\ round'.at = "shown" /\ round'.now = round.now
      /\ round'.next = round.next
    BY <1>1, <1>2 DEF ActRounds
<1>4. /\ alert' = round.next /\ told' \in Tellings /\ told' # NoAlert
      /\ TellsOf(round.next)'
      /\ told'.by = round.now \/ (TellsOf(round.next) /\ told' = told /\ told # NoAlert)
    <2> DEFINE a == round.next
    <2>1. a \in Alerts /\ SetAlert(a, round.now)
        BY <1>1 DEF TickShows
    <2> HIDE DEF a
    <2>2. /\ alert' = a /\ told' \in Tellings /\ told' # NoAlert
          /\ told'.id = a.id /\ told'.suspect = a.suspect /\ told'.autoAt = a.autoAt
          /\ told'.by = round.now \/ (TellsOf(a) /\ told' = told /\ told # NoAlert)
        BY <1>1, <2>1, SetAlertTells DEF TellsOf
    <2>3. round'.next = a
        BY <1>3 DEF a
    <2>4. QED BY <2>2, <2>3 DEF a, TellsOf
<1>5. GovernorTypeOK'
    BY <1>1, <1>3, <1>4 DEF TickShows, GovernorTypeOK, ActRounds, Tellings
<1>6. told'.by \in Nat /\ round.now \in Nat
    BY <1>1, <1>4 DEF Tellings, Clock
<1>7. RoundsOK'
    <2>1. round' # Resting
        BY <1>3 DEF Resting
    <2>2. told'.by <= round.now
        BY <1>1, <1>4, <1>6 DEF RoundsOK
    <2>3. QED BY <1>1, <1>2, <1>3, <2>1, <2>2 DEF RoundsOK
<1>8. UpIsTold'
    BY <1>3, <1>4 DEF UpIsTold, TellsOf
<1>9. ReadIsTold' /\ ShowsOK' /\ KillAnnounced'
    BY <1>3 DEF ReadIsTold, ShowsOK, KillAnnounced
<1>10. ShownOK'
    <2>1. CASE FreshDeadline
        <3>1. FreshDeadline'
            BY <1>3, <2>1 DEF FreshDeadline
        <3>2. QED BY <1>4, <3>1 DEF ShownOK
    <2>2. CASE ~FreshDeadline
        <3>1. TellsOf(round.next)
            BY <1>1, <2>2 DEF ShowsOK
        <3>2. told' = told /\ told # NoAlert
            <4>1. told.id # 0
                BY <1>1, <3>1, AlertUp DEF TellsOf
            <4>2. told' = told
                BY <1>1, <3>1, <4>1, AlertUp DEF TickShows, SetAlert, TellsOf
            <4>3. QED BY <4>1, <4>2 DEF NoAlert
        <3>3. told'.by < round'.now
            BY <1>1, <1>3, <3>2 DEF RoundsOK
        <3>4. QED BY <1>4, <3>3 DEF ShownOK
    <2>3. QED BY <2>1, <2>2
<1>11. OwedOK'
    BY <1>2, <1>3 DEF OwedOK
<1>12. QED BY <1>5, <1>7, <1>8, <1>9, <1>10, <1>11


LEMMA TickDecidesStep ==
    ASSUME GovInv, TickDecides
    PROVE  GovInv'
<1> USE DEF GovInv
<1>1. /\ round.at = "shown" /\ round # Resting
      /\ round \in ActRounds /\ round.next \in Alerts /\ round.now \in Clock
    BY RoundAt DEF TickDecides, ActRounds, Resting
<1>2. /\ time \in Nat /\ round.now \in Nat /\ round.now <= time /\ time < MaxClock
      /\ round.next.autoAt \in Nat /\ asked \in Nat /\ asked <= time
      /\ owed \in Nat /\ quiet \in Nat
      /\ told # NoAlert => told.by \in Nat /\ told.by <= round.now
    BY <1>1, AlertUp, GovernorNumbers DEF RoundsOK, GovernorTypeOK, Clock, Deadlines, Ids, Tellings
<1> DEFINE k == [round EXCEPT !.at = "kills"]
<1>3. k \in ActRounds /\ k.at = "kills" /\ k.now = round.now /\ k.next = round.next
    BY <1>1 DEF ActRounds
<1>4. UNCHANGED <<alert, asked, quiet, snoozed, okTicks, warnSince, unkillable, answering, told,
                   owed, passed>>
    BY DEF TickDecides
<1>5. \/ round' = Resting /\ time' = time + 1
      \/ round' = k /\ time' = time /\ Due /\ time >= quiet
    <2>1. k # Resting
        BY <1>3 DEF Resting
    <2>2. QED BY <2>1 DEF TickDecides
<1> HIDE DEF k
<1>6. CASE round' = Resting /\ time' = time + 1
    <2>1. RoundEnds
        BY <1>6 DEF RoundEnds
    <2>2. time' \in Clock /\ asked < time' /\ (told # NoAlert => told.by < time')
        BY <1>1, <2>1, RoundOver
    <2>3. GovernorTypeOK'
        BY <1>4, <1>6, <2>2 DEF GovernorTypeOK
    <2>4. RoundsOK'
        BY <1>4, <1>6, <2>2 DEF RoundsOK
    <2>5. UpIsTold'
        BY <1>4 DEF UpIsTold, TellsOf
    <2>6. ReadIsTold' /\ ShowsOK' /\ ShownOK' /\ KillAnnounced'
        BY <1>6, NoRound
    <2>7. OwedOK'
        BY <1>2, <1>4, <1>6 DEF OwedOK, Resting
    <2>8. QED BY <2>3, <2>4, <2>5, <2>6, <2>7
<1>7. CASE round' = k /\ time' = time /\ Due /\ time >= quiet
    <2>1. GovernorTypeOK'
        BY <1>3, <1>4, <1>7 DEF GovernorTypeOK, ActRounds
    <2>2. /\ TellsOf(round.next) /\ told # NoAlert
          /\ told.by < round.now
        <3>1. TellsOf(round.next) /\ (FreshDeadline \/ told.by < round.now)
            BY <1>1 DEF ShownOK
        <3>2. ~FreshDeadline
            BY <1>2, <1>7, GovernorNumbers DEF Due, FreshDeadline
        <3>3. told # NoAlert
            BY <1>1, <3>1, AlertUp DEF TellsOf, NoAlert
        <3>4. QED BY <3>1, <3>2, <3>3
    <2>3. RoundsOK'
        BY <1>1, <1>2, <1>3, <1>4, <1>7, <2>2 DEF RoundsOK, Resting
    <2>4. UpIsTold'
        BY <1>4 DEF UpIsTold, TellsOf
    <2>5. ReadIsTold' /\ ShowsOK' /\ ShownOK'
        BY <1>3, <1>7 DEF ReadIsTold, ShowsOK, ShownOK
    <2>6. KillAnnounced'
        <3>1. round.next.autoAt <= time
            BY <1>2, <1>7 DEF Due
        <3>2. QED BY <1>3, <1>4, <1>7, <2>2, <3>1 DEF KillAnnounced, TellsOf
    <2>7. OwedOK'
        BY <1>2, <1>3, <1>4, <1>7 DEF OwedOK
    <2>8. QED BY <2>1, <2>3, <2>4, <2>5, <2>6, <2>7
<1>8. QED BY <1>5, <1>6, <1>7

LEMMA TickEndsStep ==
    ASSUME GovInv, TickKills \/ TickCannot
    PROVE  GovInv'
<1> USE DEF GovInv
<1>1. /\ round.at = "kills" /\ round # Resting
      /\ round \in ActRounds /\ round.next \in Alerts /\ round.now \in Clock
    BY RoundAt DEF TickKills, TickCannot, ActRounds, Resting
<1>2. /\ round' = Resting /\ time' = time + 1 /\ time' \in Clock
      /\ asked < time'
      /\ told # NoAlert => told.by < time'
    BY <1>1, RoundOver DEF TickKills, TickCannot
<1>3. alert' = NoAlert /\ UNCHANGED <<asked, snoozed, okTicks, warnSince, answering, told, passed>>
    BY DEF TickKills, TickCannot
<1>4. /\ quiet' \in Deadlines
      /\ owed' = IF passed THEN 0 ELSE owed
      /\ unkillable' \subseteq Suspects
    <2>1. /\ round.now + QuietAfterAnswer \in Deadlines
          /\ round.now + QuietAfterFailure \in Deadlines
        BY <1>1, Moments
    <2>2. round.next.suspect \in Suspects
        BY <1>1, AlertUp
    <2>3. QED BY <2>1, <2>2 DEF TickKills, TickCannot, GovernorTypeOK
<1>5. owed' \in Deadlines
    BY <1>1, <1>4, Moments DEF GovernorTypeOK
<1>6. GovernorTypeOK'
    BY <1>2, <1>3, <1>4, <1>5 DEF GovernorTypeOK
<1>7. RoundsOK'
    BY <1>2, <1>3 DEF RoundsOK
<1>8. UpIsTold'
    BY <1>3 DEF UpIsTold
<1>9. ReadIsTold' /\ ShowsOK' /\ ShownOK' /\ KillAnnounced'
    BY <1>2, NoRound
<1>10. OwedOK'
    <2>1. time \in Nat /\ owed \in Nat
        BY GovernorNumbers DEF GovernorTypeOK, Clock, Deadlines
    <2>2. passed \in BOOLEAN
        BY DEF GovernorTypeOK
    <2>3. owed' <= time
        BY <1>1, <1>4, <2>1, <2>2 DEF OwedOK
    <2>4. owed' \in Nat
        BY <1>4, <2>1
    <2>5. QED BY <1>2, <2>1, <2>3, <2>4 DEF OwedOK, Resting
<1>11. QED BY <1>6, <1>7, <1>8, <1>9, <1>10

-----------------------------------------------------------------------------
\* The person's steps leave the round where it is.
LEMMA PersonSteps ==
    ASSUME GovInv, (\E s \in Suspects : Acts(s)) \/ Snooze \/ TakesDown
    PROVE  GovInv'
<1> USE DEF GovInv
<1>1. UNCHANGED <<time, asked, quiet, roundVars, owed, passed>>
    BY DEF Acts, Snooze, TakesDown
<1>2. /\ alert' \in {alert, NoAlert} /\ told' = told
    BY DEF Acts, Snooze, TakesDown, SetAlert
<1>3. answering' \in {Resting} \cup Answers
    <2>1. alert # NoAlert => alert.suspect \in Suspects
        BY AlertUp
    <2>2. QED BY <2>1 DEF Acts, Snooze, TakesDown, Answers
<1>4. snoozed' \in [Suspects -> Deadlines]
    <2>1. time + SnoozeFor \in Deadlines
        BY Moments DEF GovernorTypeOK
    <2>2. QED BY <2>1 DEF Acts, Snooze, TakesDown, GovernorTypeOK
<1>5. GovernorTypeOK'
    BY <1>1, <1>2, <1>3, <1>4 DEF GovernorTypeOK, roundVars, Answers
<1>6. RoundsOK'
    BY <1>1, <1>2 DEF RoundsOK, roundVars
<1>7. UpIsTold' /\ ReadIsTold'
    BY <1>1, <1>2 DEF UpIsTold, ReadIsTold, TellsOf, roundVars
<1>8. ShowsOK' /\ ShownOK'
    BY <1>1, <1>2 DEF ShowsOK, ShownOK, FreshDeadline, TellsOf, roundVars
<1>9. KillAnnounced' /\ OwedOK'
    BY <1>1, <1>2 DEF KillAnnounced, OwedOK, roundVars
<1>10. QED BY <1>5, <1>6, <1>7, <1>8, <1>9

LEMMA AnsweredStep ==
    ASSUME GovInv, Answered
    PROVE  GovInv'
<1> USE DEF GovInv
<1>1. UNCHANGED <<time, alert, asked, snoozed, roundVars, told>>
    BY DEF Answered
<1>2. quiet' \in Deadlines /\ owed' = quiet'
    <2>1. time + QuietAfterAnswer \in Deadlines
        BY Moments DEF GovernorTypeOK
    <2>2. QED BY <2>1 DEF Answered
<1>3. passed' \in BOOLEAN /\ (round.at \in {"shows", "kills"} => passed')
    <2>1. passed' = (round.at \in {"shows", "kills"})
        BY DEF Answered
    <2>2. passed' \in BOOLEAN
        BY <2>1
    <2>3. round.at \in {"shows", "kills"} => passed'
        BY <2>1
    <2>4. QED BY <2>2, <2>3
<1>4. answering' \in {Resting} \cup Answers
    <2>1. answering \in Answers
        BY DEF Answered, GovernorTypeOK, Answers, Resting
    <2>2. QED BY <2>1 DEF Answered, Answers
<1>5. GovernorTypeOK'
    BY <1>1, <1>2, <1>3, <1>4 DEF GovernorTypeOK, roundVars, Answers
<1>6. RoundsOK'
    BY <1>1 DEF RoundsOK, roundVars
<1>7. UpIsTold' /\ ReadIsTold'
    BY <1>1 DEF UpIsTold, ReadIsTold, TellsOf, roundVars
<1>8. ShowsOK' /\ ShownOK'
    BY <1>1 DEF ShowsOK, ShownOK, FreshDeadline, TellsOf, roundVars
<1>9. KillAnnounced'
    BY <1>1 DEF KillAnnounced, roundVars
<1>10. OwedOK'
    <2>1. quiet' \in Nat
        BY <1>2, GovernorNumbers DEF Deadlines
    <2>2. QED BY <1>1, <1>2, <1>3, <2>1 DEF OwedOK, roundVars
<1>11. QED BY <1>5, <1>6, <1>7, <1>8, <1>9, <1>10

LEMMA GovernorKeeps == GovInv /\ [GovernorNext]_governorVars => GovInv'
<1> SUFFICES ASSUME GovInv, [GovernorNext]_governorVars PROVE GovInv'
    OBVIOUS
<1>1. CASE Round
    BY <1>1, TickWellStep, TickShortStep, SlowStep, TickClearsStep, TickAsksStep, TickShowsStep,
       TickDecidesStep, TickEndsStep DEF Round
<1>2. CASE (\E s \in Suspects : Acts(s)) \/ Snooze \/ TakesDown
    BY <1>2, PersonSteps
<1>3. CASE Answered
    BY <1>3, AnsweredStep
<1>4. CASE UNCHANGED governorVars
    <2>1. GovernorTypeOK'
        BY <1>4 DEF GovInv, governorVars, GovernorTypeOK
    <2>2. RoundsOK' /\ UpIsTold' /\ ReadIsTold'
        BY <1>4 DEF GovInv, governorVars, RoundsOK, UpIsTold, ReadIsTold, TellsOf
    <2>3. ShowsOK' /\ ShownOK'
        BY <1>4 DEF GovInv, governorVars, ShowsOK, ShownOK, FreshDeadline, TellsOf
    <2>4. KillAnnounced' /\ OwedOK'
        BY <1>4 DEF GovInv, governorVars, KillAnnounced, OwedOK
    <2>5. QED BY <2>1, <2>2, <2>3, <2>4 DEF GovInv
<1>5. QED BY <1>1, <1>2, <1>3, <1>4 DEF GovernorNext

\* A round about to ask or to end something goes no further while an answer it
\* had time to see is owed.
LEMMA AnswerHeld ==
    ASSUME GovInv
    PROVE  time < owed /\ ~passed => round.at \notin {"kills", "shows"}
<1>1. time \in Nat /\ owed \in Nat
    BY GovernorNumbers DEF GovInv, GovernorTypeOK, Clock, Deadlines
<1>2. QED BY <1>1 DEF GovInv, OwedOK

\* The variables of the governor have their types.
THEOREM GovernorTypeCorrect == GovernorSpec => []GovernorTypeOK
<1>1. GovInv => GovernorTypeOK
    BY DEF GovInv
<1>2. QED BY GovernorInitHolds, GovernorKeeps, <1>1, PTL DEF GovernorSpec

\* A process is ended only for a deadline the pages were told in an earlier
\* round, and never against an answer that is owed.
THEOREM NothingEndedUnaskedCorrect == GovernorSpec => NothingEndedUnasked
<1>1. GovInv => KillAnnounced
    BY DEF GovInv
<1>2. GovInv /\ [GovernorNext]_governorVars =>
         [time < owed /\ ~passed => round.at \notin {"kills", "shows"} \/ round' = round]_governorVars
    BY AnswerHeld
<1>3. QED BY GovernorInitHolds, GovernorKeeps, <1>1, <1>2, PTL
          DEF GovernorSpec, NothingEndedUnasked, AnswerHolds

-----------------------------------------------------------------------------
(***************************************************************************)
(* What is written to a chat channel, for any messages, saves, adapters,   *)
(* stops and reloads.  A message that was passed on is known to the run    *)
(* there is or, when there is none, to the row the next run begins with;   *)
(* so nothing is passed on again, but for what may repeat.                 *)
(***************************************************************************)

\* The adapters that run.
Running == {r \in Adapters : run[r] # NoRun}

\* reloadMu is held by the reload that waits for the channels it stopped, only
\* a channel's own save writes its row, and while the panel is stopped nobody
\* is at anything.
ReloadsOK ==
    /\ \A s \in Saves \cup {OtherSave} :
          /\ save[s].at = "starts" => reloading = s
          /\ save[s].at \in {"edits", "puts"} => s \in Saves
    /\ ~up => Running = {} /\ \A s \in Saves \cup {OtherSave} : save[s].at \in {"idle", "done"}

\* Who waits for an adapter that was stopped.
WaitedFor(r) == \E s \in Saves \cup {OtherSave} : save[s].at \in {"puts", "starts"} /\ r \in save[s].old

\* One adapter at a time.  It is the channel's, or it was stopped and is waited
\* for; and nothing runs for the channel while somebody waits.
OneRun ==
    /\ \A r, q \in Running : r = q
    /\ \A r \in Running : IF run[r].cancelled THEN WaitedFor(r) ELSE r \in current
    /\ \A s \in Saves \cup {OtherSave} : save[s].at \in {"puts", "starts"} => current = {}

Passed(m) == handled[m] + waiting[m] > 0

\* What an adapter knows and has nothing left to record of is in the row.
RecordedOK ==
    \A r \in Running :
        run[r].at \in {"polls", "asked"} \/ (recordsFirst /\ run[r].at = "passes")
            => run[r].known \subseteq channelRow.known \cup mayRepeat

\* weixin's adapter knows what it is about to pass on, and the row read is the
\* row that is written.
BatchKnown ==
    \A r \in Running :
        /\ recordsFirst => run[r].batch \subseteq run[r].known
        /\ run[r].at = "puts" /\ ~run[r].cancelled => run[r].from = channelRow.from

\* What was passed on is known to the adapter that runs, or, when none does, to
\* the row the next begins with.
PassedKnown ==
    \A m \in Messages \ mayRepeat : Passed(m) =>
        /\ \A r \in Running : m \in run[r].known /\ m \notin run[r].batch
        /\ Running = {} => m \in channelRow.known

DeliveryInv ==
    /\ DeliveryTypeOK /\ ReloadsOK /\ HandledOnce
    /\ ~raced => OneRun /\ RecordedOK /\ BatchKnown /\ PassedKnown

AllSaves == Saves \cup {OtherSave}

LEMMA RunSplit == RunType = {NoRun} \cup PlainRuns \cup PutRuns
BY DEF RunType

LEMMA RunAt ==
    ASSUME NEW w \in RunType, w # NoRun
    PROVE  /\ w \in PlainRuns \/ w \in PutRuns
           /\ w.known \subseteq Messages /\ w.batch \subseteq Messages
           /\ w.cancelled \in BOOLEAN
           /\ w.at \in RunPlaces \cup {"puts"}
           /\ w.at # "puts" => w \in PlainRuns
           /\ w.at = "puts" => w \in PutRuns /\ w.from \in {NoSave} \cup Saves
BY RunSplit DEF PlainRuns, PutRuns, RunPlaces

LEMMA RunFits ==
    ASSUME NEW w \in PlainRuns \cup PutRuns
    PROVE  w \in RunType /\ w # NoRun /\ w.at # "gone"
<1>1. w.at # "gone"
    BY DEF PlainRuns, PutRuns, RunPlaces
<1>2. QED BY <1>1, RunSplit DEF NoRun

\* What it means that a run is there.
LEMMA Runs ==
    ASSUME DeliveryTypeOK, NEW r \in Adapters
    PROVE  /\ r \in Running <=> run[r] # NoRun
           /\ run[r].at # "gone" <=> r \in Running
           /\ r \in Running => run[r].cancelled \in BOOLEAN
<1>1. run[r] \in RunType
    BY DEF DeliveryTypeOK
<1>2. NoRun.at = "gone"
    BY DEF NoRun
<1>3. QED BY <1>1, <1>2, RunAt DEF Running, RunPlaces

LEMMA FreshFits ==
    ASSUME NEW k \in SUBSET Messages
    PROVE  /\ FreshRun(k) \in PlainRuns
           /\ FreshRun(k).at = "polls" /\ FreshRun(k).known = k /\ FreshRun(k).batch = {}
           /\ FreshRun(k).cancelled = FALSE
BY DEF FreshRun, PlainRuns, RunPlaces

LEMMA DeliveryInitHolds == DeliveryInit => DeliveryInv
<1> SUFFICES ASSUME DeliveryInit PROVE DeliveryInv
    OBVIOUS
<1> DEFINE first == CHOOSE f \in Adapters : TRUE
<1>1. first \in Adapters
    BY DeliveryAssumption
<1>2. /\ run = [r \in Adapters |-> IF r = first THEN FreshRun({}) ELSE NoRun]
      /\ current = {first}
    BY DEF DeliveryInit
<1>3. /\ FreshRun({}) \in PlainRuns /\ FreshRun({}).at = "polls" /\ FreshRun({}).known = {}
      /\ FreshRun({}).batch = {} /\ FreshRun({}).cancelled = FALSE
    BY FreshFits
<1>4. FreshRun({}) # NoRun /\ FreshRun({}) \in RunType /\ NoRun \in RunType
    BY <1>3, RunFits, RunSplit
<1> HIDE DEF first
<1>5. Running = {first}
    BY <1>1, <1>2, <1>4 DEF Running
<1>6. Cardinality(current) <= 1
    <2>1. Cardinality({first}) = 1
        BY FS_Singleton, Zenon
    <2>2. QED BY <2>1, <1>2
<1>7. DeliveryTypeOK
    <2>1. run \in [Adapters -> RunType]
        BY <1>2, <1>4
    <2>2. save \in [Saves \cup {OtherSave} -> SaveType]
        BY DEF DeliveryInit, SaveType
    <2>3. channelRow \in RowType
        BY DEF DeliveryInit, RowType
    <2>4. recordsFirst \in BOOLEAN /\ up \in BOOLEAN /\ raced \in BOOLEAN
        BY Zenon DEF DeliveryInit
    <2>5. QED BY <1>1, <1>2, <1>6, <2>1, <2>2, <2>3, <2>4, DeliveryAssumption DEF DeliveryInit, DeliveryTypeOK
<1>8. ReloadsOK
    BY <1>5 DEF DeliveryInit, ReloadsOK, NotSaving
<1>9. HandledOnce
    BY DEF DeliveryInit, HandledOnce
<1>10. OneRun
    BY <1>5, <1>2, <1>3 DEF DeliveryInit, OneRun, NotSaving
<1>11. RecordedOK /\ BatchKnown
    BY <1>5, <1>2, <1>3, <1>1 DEF RecordedOK, BatchKnown
<1>12. PassedKnown
    BY DEF PassedKnown, DeliveryInit, Passed
<1>13. QED BY <1>7, <1>8, <1>9, <1>10, <1>11, <1>12 DEF DeliveryInv

\* Whatever a run does short of ending, the channel has the runs it had.
LEMMA RunChanges ==
    ASSUME DeliveryInv, NEW r \in Running, NEW w \in PlainRuns \cup PutRuns,
           run' = [run EXCEPT ![r] = w], w.cancelled = run[r].cancelled,
           UNCHANGED reloadVars
    PROVE  /\ run' \in [Adapters -> RunType]
           /\ Running' = Running
           /\ run'[r] = w
           /\ \A q \in Running : q # r => run'[q] = run[q]
           /\ ReloadsOK'
           /\ ~raced => OneRun' /\ \A q \in Running : q = r
<1>1. run \in [Adapters -> RunType] /\ r \in Adapters
    BY DEF DeliveryInv, DeliveryTypeOK, Running
<1>2. w \in RunType /\ w # NoRun
    BY RunFits
<1>3. /\ run' \in [Adapters -> RunType] /\ run'[r] = w
      /\ \A q \in Adapters : q # r => run'[q] = run[q]
    BY <1>1, <1>2
<1>4. Running' = Running
    BY <1>1, <1>2, <1>3 DEF Running
<1>5. /\ up' = up /\ current' = current /\ reloading' = reloading /\ save' = save /\ raced' = raced
    BY DEF reloadVars
<1>6. ReloadsOK'
    BY <1>4, <1>5 DEF DeliveryInv, ReloadsOK
<1>7. ASSUME ~raced
      PROVE  OneRun' /\ \A q \in Running : q = r
    <2>1. OneRun
        BY <1>7 DEF DeliveryInv
    <2>2. \A q \in Running : q = r
        BY <2>1 DEF OneRun
    <2>3. IF run'[r].cancelled THEN WaitedFor(r)' ELSE r \in current'
        BY <2>1, <1>3, <1>5 DEF OneRun, WaitedFor
    <2>4. QED BY <2>1, <2>2, <2>3, <1>4, <1>5 DEF OneRun
<1>8. QED BY <1>1, <1>3, <1>4, <1>6, <1>7 DEF Running

\* What the steps of a run leave as it was.
LEMMA RunTypes ==
    ASSUME DeliveryTypeOK, UNCHANGED <<recordsFirst, written, reloadVars, mayMiss>>,
           run' \in [Adapters -> RunType], confirmed' \subseteq Messages, faults' \in 0..MaxFaults,
           channelRow' \in RowType, waiting' \in [Messages -> Nat], handled' \in [Messages -> Nat],
           mayRepeat' \subseteq Messages
    PROVE  DeliveryTypeOK'
<1>1. /\ recordsFirst' = recordsFirst /\ written' = written /\ mayMiss' = mayMiss
      /\ up' = up /\ current' = current /\ reloading' = reloading /\ save' = save /\ raced' = raced
    BY DEF reloadVars
<1>2. recordsFirst' \in BOOLEAN /\ up' \in BOOLEAN /\ raced' \in BOOLEAN
    BY <1>1, Zenon DEF DeliveryTypeOK
<1>3. QED BY <1>1, <1>2 DEF DeliveryTypeOK, Messages

LEMMA RunIs ==
    ASSUME DeliveryInv, NEW r \in Adapters, run[r].at # "gone"
    PROVE  /\ r \in Running
           /\ run[r] \in PlainRuns \cup PutRuns
           /\ run[r].known \subseteq Messages /\ run[r].batch \subseteq Messages
           /\ run[r].cancelled \in BOOLEAN
           /\ run[r].at # "puts" => run[r] \in PlainRuns
           /\ run[r].at = "puts" => run[r].from \in {NoSave} \cup Saves
<1>1. DeliveryTypeOK /\ run[r] \in RunType
    BY DEF DeliveryInv, DeliveryTypeOK
<1>2. r \in Running /\ run[r] # NoRun
    BY <1>1, Runs
<1>3. QED BY <1>1, <1>2, RunAt

LEMMA PollsStep ==
    ASSUME DeliveryInv, NEW r \in Adapters, Polls(r)
    PROVE  DeliveryInv'
<1> DEFINE w == [run[r] EXCEPT !.at = "asked"]
<1>1. r \in Running /\ run[r] \in PlainRuns /\ run[r].known \subseteq Messages
    BY RunIs DEF Polls
<1>2. /\ w \in PlainRuns /\ w.at = "asked" /\ w.known = run[r].known /\ w.batch = run[r].batch
      /\ w.cancelled = run[r].cancelled
    BY <1>1 DEF PlainRuns, RunPlaces
<1>3. run' = [run EXCEPT ![r] = w]
    BY DEF Polls
<1> HIDE DEF w
<1>4. UNCHANGED <<recordsFirst, written, faults, reloadVars, channelRow, waiting, handled, historyVars>>
    BY DEF Polls
<1>5. /\ run' \in [Adapters -> RunType] /\ Running' = Running /\ run'[r] = w
      /\ \A q \in Running : q # r => run'[q] = run[q]
      /\ ReloadsOK' /\ (~raced => OneRun')
    BY <1>1, <1>2, <1>3, <1>4, RunChanges
<1>6. DeliveryTypeOK'
    <2>1. confirmed' \subseteq Messages
        BY <1>1 DEF Polls, DeliveryInv, DeliveryTypeOK
    <2>2. QED BY <2>1, <1>4, <1>5, RunTypes DEF DeliveryInv, DeliveryTypeOK, historyVars
<1>7. /\ waiting' = waiting /\ handled' = handled /\ mayRepeat' = mayRepeat /\ raced' = raced
      /\ channelRow' = channelRow /\ recordsFirst' = recordsFirst
    BY <1>4 DEF historyVars, reloadVars
<1>8. HandledOnce'
    BY <1>7 DEF DeliveryInv, HandledOnce
<1>9. ASSUME ~raced PROVE RecordedOK' /\ BatchKnown' /\ PassedKnown'
    <2>1. RecordedOK'
        BY <1>9, <1>1, <1>2, <1>5, <1>7 DEF DeliveryInv, RecordedOK, Polls
    <2>2. BatchKnown'
        BY <1>9, <1>1, <1>2, <1>5, <1>7 DEF DeliveryInv, BatchKnown
    <2>3. PassedKnown'
        BY <1>9, <1>1, <1>2, <1>5, <1>7 DEF DeliveryInv, PassedKnown, Passed
    <2>4. QED BY <2>1, <2>2, <2>3
<1>10. QED BY <1>5, <1>6, <1>7, <1>8, <1>9 DEF DeliveryInv

\* What is handed over and not known has not been passed on before.
LEMMA PollAnsweredStep ==
    ASSUME DeliveryInv, NEW r \in Adapters, PollAnswered(r)
    PROVE  DeliveryInv'
<1>1. /\ r \in Running /\ run[r] \in PlainRuns
      /\ run[r].known \subseteq Messages
    BY RunIs DEF PollAnswered
<1>2. PICK again \in SUBSET run[r].known :
         /\ (again = {} /\ UNCHANGED faults) \/ (recordsFirst /\ Fault)
         /\ run' = [run EXCEPT ![r].batch = FreshOf(r, again),
                       ![r].at = IF FreshOf(r, again) = {} THEN "polls"
                                 ELSE IF recordsFirst THEN "records" ELSE "passes",
                       ![r].known = IF recordsFirst THEN @ \cup FreshOf(r, again) ELSE @]
    BY DEF PollAnswered
<1> DEFINE fresh == FreshOf(r, again)
           k == IF recordsFirst THEN run[r].known \cup fresh ELSE run[r].known
           at == IF fresh = {} THEN "polls" ELSE IF recordsFirst THEN "records" ELSE "passes"
           w == [run[r] EXCEPT !.batch = fresh, !.at = at, !.known = k]
<1>3. fresh \subseteq Messages /\ fresh \cap run[r].known = {}
    <2>1. written \in Nat /\ written <= MaxMessages
        BY DeliveryAssumption DEF DeliveryInv, DeliveryTypeOK
    <2>2. 1..written \subseteq Messages
        BY <2>1, DeliveryAssumption DEF Messages
    <2>3. Handed(r, again) \subseteq Messages
        BY <1>1, <2>2 DEF Handed
    <2>4. QED BY <2>3 DEF FreshOf
<1>4. run' = [run EXCEPT ![r] = w]
    BY <1>2
<1> HIDE DEF fresh
<1>5. k \subseteq Messages /\ at \in RunPlaces /\ run[r].known \subseteq k
    BY <1>1, <1>3 DEF RunPlaces
<1>k. recordsFirst => fresh \subseteq k
    OBVIOUS
<1>a. at \in {"polls", "asked"} \/ (recordsFirst /\ at = "passes") => k \subseteq run[r].known
    OBVIOUS
<1> HIDE DEF k, at
<1>6. /\ w \in PlainRuns /\ w.at = at /\ w.known = k /\ w.batch = fresh
      /\ w.cancelled = run[r].cancelled
    BY <1>1, <1>3, <1>5 DEF PlainRuns
<1> HIDE DEF w
<1>7. UNCHANGED <<worldVars, reloadVars, channelRow, waiting, handled, historyVars>>
    BY DEF PollAnswered
<1>8. /\ run' \in [Adapters -> RunType] /\ Running' = Running /\ run'[r] = w
      /\ \A q \in Running : q # r => run'[q] = run[q]
      /\ ReloadsOK' /\ (~raced => OneRun')
    BY <1>1, <1>4, <1>6, <1>7, RunChanges
<1>9. DeliveryTypeOK'
    <2>1. faults' \in 0..MaxFaults
        <3>1. faults' = faults \/ (faults < MaxFaults /\ faults' = faults + 1)
            BY <1>2 DEF Fault
        <3>2. faults \in 0..MaxFaults /\ MaxFaults \in Nat
            BY DeliveryAssumption DEF DeliveryInv, DeliveryTypeOK
        <3>3. QED BY <3>1, <3>2
    <2>2. QED BY <2>1, <1>7, <1>8, RunTypes DEF DeliveryInv, DeliveryTypeOK, historyVars, worldVars
<1>10. /\ waiting' = waiting /\ handled' = handled /\ mayRepeat' = mayRepeat /\ raced' = raced
       /\ channelRow' = channelRow /\ recordsFirst' = recordsFirst
    BY <1>7 DEF historyVars, reloadVars, worldVars
<1>11. HandledOnce'
    BY <1>10 DEF DeliveryInv, HandledOnce
<1>12. ASSUME ~raced PROVE RecordedOK' /\ BatchKnown' /\ PassedKnown'
    <2>1. RecordedOK'
        <3>1. run[r].known \subseteq channelRow.known \cup mayRepeat
            BY <1>12, <1>1 DEF DeliveryInv, RecordedOK, PollAnswered
        <3>2. QED BY <1>12, <1>1, <1>6, <1>8, <1>10, <1>a, <3>1 DEF DeliveryInv, RecordedOK
    <2>2. BatchKnown'
        <3>1. w.at # "puts"
            BY <1>5, <1>6 DEF RunPlaces
        <3>2. QED BY <1>12, <1>1, <1>6, <1>8, <1>10, <1>k, <3>1 DEF DeliveryInv, BatchKnown
    <2>3. PassedKnown'
        BY <1>12, <1>1, <1>3, <1>5, <1>6, <1>8, <1>10 DEF DeliveryInv, PassedKnown, Passed
    <2>4. QED BY <2>1, <2>2, <2>3
<1>13. QED BY <1>8, <1>9, <1>10, <1>11, <1>12 DEF DeliveryInv

LEMMA PollEndsStep ==
    ASSUME DeliveryInv, NEW r \in Adapters, PollEnds(r)
    PROVE  DeliveryInv'
<1>1. r \in Running
    BY RunIs DEF PollEnds
<1>2. run \in [Adapters -> RunType] /\ NoRun \in RunType
    BY RunSplit DEF DeliveryInv, DeliveryTypeOK
<1>3. run' = [run EXCEPT ![r] = NoRun]
    BY DEF PollEnds
<1>4. /\ run' \in [Adapters -> RunType] /\ Running' = Running \ {r}
      /\ \A q \in Running' : run'[q] = run[q]
    BY <1>2, <1>3 DEF Running
<1>5. UNCHANGED <<worldVars, faults, reloadVars, channelRow, waiting, handled, historyVars>>
    BY DEF PollEnds
<1>6. /\ waiting' = waiting /\ handled' = handled /\ mayRepeat' = mayRepeat /\ raced' = raced
      /\ channelRow' = channelRow /\ recordsFirst' = recordsFirst /\ up' = up
      /\ current' = current /\ reloading' = reloading /\ save' = save
    BY <1>5 DEF historyVars, reloadVars, worldVars
<1>7. DeliveryTypeOK'
    BY <1>4, <1>5, RunTypes DEF DeliveryInv, DeliveryTypeOK, historyVars, worldVars
<1>8. HandledOnce'
    BY <1>6 DEF DeliveryInv, HandledOnce
<1>9. ReloadsOK'
    BY <1>4, <1>6 DEF DeliveryInv, ReloadsOK
<1>10. ASSUME ~raced PROVE OneRun' /\ RecordedOK' /\ BatchKnown' /\ PassedKnown'
    <2>1. OneRun /\ RecordedOK /\ BatchKnown /\ PassedKnown
        BY <1>10 DEF DeliveryInv
    <2>2. OneRun'
        BY <2>1, <1>4, <1>6 DEF OneRun, WaitedFor
    <2>3. RecordedOK'
        BY <2>1, <1>4, <1>6 DEF RecordedOK
    <2>4. BatchKnown'
        BY <2>1, <1>4, <1>6 DEF BatchKnown
    <2>5. run[r].known \subseteq channelRow.known \cup mayRepeat
        BY <2>1, <1>1 DEF RecordedOK, PollEnds
    <2>6. PassedKnown'
        BY <2>1, <2>5, <1>1, <1>4, <1>6 DEF PassedKnown, Passed
    <2>7. QED BY <2>2, <2>3, <2>4, <2>6
<1>11. QED BY <1>6, <1>7, <1>8, <1>9, <1>10 DEF DeliveryInv

\* A message that is passed on had not been, unless it may repeat.
LEMMA PassesStep ==
    ASSUME DeliveryInv, NEW r \in Adapters, Passes(r)
    PROVE  DeliveryInv'
<1>1. /\ r \in Running /\ run[r] \in PlainRuns
      /\ run[r].known \subseteq Messages /\ run[r].batch \subseteq Messages
    BY RunIs DEF Passes
<1>2. PICK m \in run[r].batch :
         /\ waiting' = [waiting EXCEPT ![m] = @ + 1]
         /\ run' = [run EXCEPT ![r].batch = @ \ {m},
                        ![r].known = IF recordsFirst THEN @ ELSE @ \cup Through(m),
                        ![r].at = IF run[r].batch # {m} THEN @ ELSE IF recordsFirst THEN "polls" ELSE "records"]
    BY DEF Passes
<1> DEFINE b == run[r].batch \ {m}
           k == IF recordsFirst THEN run[r].known ELSE run[r].known \cup Through(m)
           at == IF run[r].batch # {m} THEN run[r].at ELSE IF recordsFirst THEN "polls" ELSE "records"
           w == [run[r] EXCEPT !.batch = b, !.known = k, !.at = at]
<1>3. run' = [run EXCEPT ![r] = w]
    BY <1>2
<1>4. /\ m \in Messages /\ Through(m) \subseteq Messages /\ m \in Through(m)
    BY <1>1, DeliveryAssumption DEF Messages, Through
<1>5. /\ k \subseteq Messages /\ run[r].known \subseteq k /\ b \subseteq Messages
      /\ at \in RunPlaces /\ at # "asked"
      /\ recordsFirst => k = run[r].known
      /\ ~recordsFirst => m \in k /\ at \in {"passes", "records"}
    BY <1>1, <1>4 DEF RunPlaces, Passes
<1>b. b = run[r].batch \ {m}
    OBVIOUS
<1> HIDE DEF b, k, at
<1>6. /\ w \in PlainRuns /\ w.at = at /\ w.known = k /\ w.batch = b /\ w.cancelled = run[r].cancelled
    BY <1>1, <1>5 DEF PlainRuns
<1> HIDE DEF w
<1>7. UNCHANGED <<worldVars, faults, reloadVars, channelRow, handled, historyVars>>
    BY DEF Passes
<1>8. /\ run' \in [Adapters -> RunType] /\ Running' = Running /\ run'[r] = w
      /\ \A q \in Running : q # r => run'[q] = run[q]
      /\ ReloadsOK' /\ (~raced => OneRun' /\ \A q \in Running : q = r)
    BY <1>1, <1>3, <1>6, <1>7, RunChanges
<1>w. waiting \in [Messages -> Nat] /\ handled \in [Messages -> Nat]
    BY DEF DeliveryInv, DeliveryTypeOK
<1>9. DeliveryTypeOK'
    <2>1. waiting' \in [Messages -> Nat]
        <3>1. waiting' = [waiting EXCEPT ![m] = waiting[m] + 1] /\ waiting[m] + 1 \in Nat
            BY <1>2, <1>4, <1>w
        <3>2. QED BY <3>1, <1>4, <1>w
    <2>2. QED BY <2>1, <1>7, <1>8, RunTypes DEF DeliveryInv, DeliveryTypeOK, historyVars, worldVars
<1>10. /\ handled' = handled /\ mayRepeat' = mayRepeat /\ raced' = raced
       /\ channelRow' = channelRow /\ recordsFirst' = recordsFirst
    BY <1>7 DEF historyVars, reloadVars, worldVars
<1>11. /\ waiting'[m] = waiting[m] + 1
       /\ \A n \in Messages : n # m => waiting'[n] = waiting[n]
    BY <1>2, <1>4, <1>w
<1>12. ~raced => m \in mayRepeat \/ handled[m] + waiting[m] = 0
    BY <1>1, <1>4, <1>w DEF DeliveryInv, PassedKnown, Passed
<1>13. HandledOnce'
    <2> SUFFICES ASSUME NEW n \in Messages, handled'[n] + waiting'[n] > 1
                 PROVE  n \in mayRepeat' \/ raced'
        BY DEF HandledOnce
    <2>1. CASE n = m
        BY <2>1, <1>10, <1>11, <1>12, <1>w
    <2>2. CASE n # m
        BY <2>2, <1>10, <1>11 DEF DeliveryInv, HandledOnce
    <2>3. QED BY <2>1, <2>2
<1>14. ASSUME ~raced PROVE RecordedOK' /\ BatchKnown' /\ PassedKnown'
    <2>0. RecordedOK /\ BatchKnown /\ PassedKnown
        BY <1>14 DEF DeliveryInv
    <2>1. RecordedOK'
        <3>1. recordsFirst => run[r].known \subseteq channelRow.known \cup mayRepeat
            BY <2>0, <1>1 DEF RecordedOK, Passes
        <3>2. QED BY <1>14, <1>1, <1>5, <1>6, <1>8, <1>10, <3>1 DEF RecordedOK
    <2>2. recordsFirst => run[r].batch \subseteq run[r].known
        BY <2>0, <1>1 DEF BatchKnown
    <2>3. BatchKnown'
        <3>1. w.at # "puts"
            BY <1>5, <1>6 DEF RunPlaces
        <3>2. QED BY <1>14, <1>1, <1>5, <1>6, <1>8, <1>10, <1>b, <2>2, <3>1 DEF BatchKnown
    <2>4. m \in k
        BY <2>2, <1>5
    <2>5. PassedKnown'
        <3> SUFFICES ASSUME NEW n \in Messages \ mayRepeat, handled'[n] + waiting'[n] > 0
                     PROVE  n \in w.known /\ n \notin w.batch
            BY <1>1, <1>8, <1>10, <1>14 DEF PassedKnown, Passed
        <3>1. CASE n = m
            BY <3>1, <2>4, <1>6, <1>b
        <3>2. CASE n # m
            BY <3>2, <2>0, <1>1, <1>5, <1>6, <1>b, <1>10, <1>11 DEF PassedKnown, Passed
        <3>3. QED BY <3>1, <3>2
    <2>6. QED BY <2>1, <2>3, <2>5
<1>15. QED BY <1>8, <1>9, <1>10, <1>13, <1>14 DEF DeliveryInv

LEMMA RecordsStep ==
    ASSUME DeliveryInv, NEW r \in Adapters, Records(r)
    PROVE  DeliveryInv'
<1>1. /\ r \in Running /\ run[r] \in PlainRuns
      /\ run[r].known \subseteq Messages /\ run[r].batch \subseteq Messages
    BY RunIs DEF Records
<1> DEFINE kept == [run[r] EXCEPT !.at = AfterRecord]
           puts == [at |-> "puts", known |-> run[r].known, batch |-> run[r].batch,
                    cancelled |-> FALSE, from |-> channelRow.from]
           w == IF run[r].cancelled THEN kept ELSE puts
<1>2. run' = [run EXCEPT ![r] = w]
    BY DEF Records
<1>3. /\ channelRow \in RowType /\ mayRepeat \subseteq Messages
      /\ channelRow.from \in {NoSave} \cup Saves /\ run[r].cancelled \in BOOLEAN
    BY <1>1 DEF DeliveryInv, DeliveryTypeOK, RowType, PlainRuns
<1>4. /\ w \in PlainRuns \cup PutRuns /\ w.known = run[r].known /\ w.batch = run[r].batch
      /\ w.at # "puts" => run[r].cancelled
      /\ w.at = "puts" => w.from = channelRow.from
      /\ w.cancelled = run[r].cancelled
    <2>1. CASE run[r].cancelled
        <3>1. AfterRecord \in RunPlaces
            BY DEF AfterRecord, RunPlaces
        <3>2. kept \in PlainRuns /\ kept.known = run[r].known /\ kept.batch = run[r].batch
              /\ kept.at # "puts" /\ kept.cancelled = run[r].cancelled
            BY <1>1, <3>1 DEF PlainRuns, RunPlaces
        <3>3. QED BY <2>1, <3>2
    <2>2. CASE ~run[r].cancelled
        <3>1. puts \in PutRuns
            BY <1>1, <1>3 DEF PutRuns
        <3>2. w = puts /\ run[r].cancelled = FALSE
            BY <2>2, <1>3
        <3>3. QED BY <2>2, <3>1, <3>2
    <2>3. QED BY <2>1, <2>2
<1> HIDE DEF w
<1>5. UNCHANGED <<worldVars, faults, reloadVars, channelRow, waiting, handled, mayMiss>>
    BY DEF Records
<1>6. /\ run' \in [Adapters -> RunType] /\ Running' = Running /\ run'[r] = w
      /\ \A q \in Running : q # r => run'[q] = run[q]
      /\ ReloadsOK' /\ (~raced => OneRun')
    BY <1>1, <1>2, <1>4, <1>5, RunChanges
<1>7. /\ mayRepeat' \subseteq Messages /\ mayRepeat \subseteq mayRepeat'
      /\ run[r].cancelled => run[r].known \subseteq channelRow.known \cup mayRepeat'
    BY <1>1, <1>3 DEF Records
<1>8. DeliveryTypeOK'
    BY <1>5, <1>6, <1>7, RunTypes DEF DeliveryInv, DeliveryTypeOK, worldVars
<1>9. /\ waiting' = waiting /\ handled' = handled /\ raced' = raced
      /\ channelRow' = channelRow /\ recordsFirst' = recordsFirst
    BY <1>5 DEF reloadVars, worldVars
<1>10. HandledOnce'
    BY <1>7, <1>9 DEF DeliveryInv, HandledOnce
<1>11. ASSUME ~raced PROVE RecordedOK' /\ BatchKnown' /\ PassedKnown'
    <2>0. RecordedOK /\ BatchKnown /\ PassedKnown
        BY <1>11 DEF DeliveryInv
    <2>1. RecordedOK'
        BY <2>0, <1>4, <1>6, <1>7, <1>9 DEF RecordedOK
    <2>2. BatchKnown'
        BY <2>0, <1>1, <1>4, <1>6, <1>9 DEF BatchKnown
    <2>3. PassedKnown'
        BY <2>0, <1>1, <1>4, <1>6, <1>7, <1>9 DEF PassedKnown, Passed
    <2>4. QED BY <2>1, <2>2, <2>3
<1>12. QED BY <1>6, <1>8, <1>9, <1>10, <1>11 DEF DeliveryInv

\* The row gets all that was passed on: the run that writes it knows it.
LEMMA PutsStep ==
    ASSUME DeliveryInv, NEW r \in Adapters, Puts(r)
    PROVE  DeliveryInv'
<1>1. /\ r \in Running
      /\ run[r].known \subseteq Messages /\ run[r].batch \subseteq Messages
      /\ run[r].cancelled \in BOOLEAN /\ run[r].from \in {NoSave} \cup Saves
    BY RunIs DEF Puts
<1> DEFINE w == [at |-> AfterRecord, known |-> run[r].known, batch |-> run[r].batch,
                 cancelled |-> run[r].cancelled]
<1>2. run' = [run EXCEPT ![r] = w]
    BY DEF Puts
<1>3. w \in PlainRuns
    <2>1. AfterRecord \in RunPlaces
        BY DEF AfterRecord, RunPlaces
    <2>2. QED BY <2>1, <1>1 DEF PlainRuns
<1>4. /\ w.known = run[r].known /\ w.batch = run[r].batch /\ w.cancelled = run[r].cancelled
      /\ w.at # "puts"
    BY DEF AfterRecord
<1> HIDE DEF w
<1>5. UNCHANGED <<worldVars, faults, reloadVars, waiting, handled, mayMiss>>
    BY DEF Puts
<1>6. /\ run' \in [Adapters -> RunType] /\ Running' = Running /\ run'[r] = w
      /\ \A q \in Running : q # r => run'[q] = run[q]
      /\ ReloadsOK' /\ (~raced => OneRun' /\ \A q \in Running : q = r)
    BY <1>1, <1>2, <1>3, <1>4, <1>5, RunChanges
<1>7. channelRow \in RowType /\ mayRepeat \subseteq Messages
    BY DEF DeliveryInv, DeliveryTypeOK
<1>8. /\ channelRow' \in RowType
      /\ mayRepeat' \subseteq Messages /\ mayRepeat \subseteq mayRepeat'
      /\ run[r].known \subseteq channelRow'.known \cup mayRepeat'
    <2>1. CASE run[r].cancelled
        BY <2>1, <1>1, <1>7 DEF Puts
    <2>2. CASE ~run[r].cancelled
        <3>1. channelRow' = [from |-> run[r].from, known |-> run[r].known] /\ mayRepeat' = mayRepeat
            BY <2>2 DEF Puts
        <3>2. QED BY <3>1, <1>1, <1>7 DEF RowType
    <2>3. QED BY <2>1, <2>2
<1>9. DeliveryTypeOK'
    BY <1>5, <1>6, <1>8, RunTypes DEF DeliveryInv, DeliveryTypeOK, worldVars
<1>10. /\ waiting' = waiting /\ handled' = handled /\ raced' = raced /\ recordsFirst' = recordsFirst
    BY <1>5 DEF reloadVars, worldVars
<1>11. HandledOnce'
    BY <1>8, <1>10 DEF DeliveryInv, HandledOnce
<1>12. ASSUME ~raced PROVE RecordedOK' /\ BatchKnown' /\ PassedKnown'
    <2>0. /\ BatchKnown /\ PassedKnown
          /\ \A q \in Running : q = r
        BY <1>6, <1>12 DEF DeliveryInv
    <2>1. RecordedOK'
        BY <2>0, <1>4, <1>6, <1>8 DEF RecordedOK
    <2>2. BatchKnown'
        BY <2>0, <1>1, <1>4, <1>6, <1>10 DEF BatchKnown
    <2>3. PassedKnown'
        BY <2>0, <1>1, <1>4, <1>6, <1>8, <1>10 DEF PassedKnown, Passed
    <2>4. QED BY <2>1, <2>2, <2>3
<1>13. QED BY <1>6, <1>9, <1>10, <1>11, <1>12 DEF DeliveryInv

\* The person writes, and a goroutine handles what waited for it.
LEMMA MessageSteps ==
    ASSUME DeliveryInv, PersonWrites \/ \E m \in Messages : HandlesMessage(m)
    PROVE  DeliveryInv'
<1>1. UNCHANGED <<recordsFirst, confirmed, faults, reloadVars, channelRow, run, historyVars>>
    BY DEF PersonWrites, HandlesMessage, worldVars
<1>2. /\ recordsFirst' = recordsFirst /\ confirmed' = confirmed /\ faults' = faults
      /\ up' = up /\ current' = current /\ reloading' = reloading /\ save' = save /\ raced' = raced
      /\ channelRow' = channelRow /\ run' = run /\ mayRepeat' = mayRepeat /\ mayMiss' = mayMiss
    BY <1>1 DEF reloadVars, historyVars
<1>w. waiting \in [Messages -> Nat] /\ handled \in [Messages -> Nat]
    BY DEF DeliveryInv, DeliveryTypeOK
<1>3. /\ waiting' \in [Messages -> Nat] /\ handled' \in [Messages -> Nat]
      /\ \A n \in Messages : handled'[n] + waiting'[n] = handled[n] + waiting[n]
    <2>1. CASE PersonWrites
        BY <2>1, <1>w DEF PersonWrites
    <2>2. ASSUME NEW m \in Messages, HandlesMessage(m)
          PROVE  /\ waiting' \in [Messages -> Nat] /\ handled' \in [Messages -> Nat]
                 /\ \A n \in Messages : handled'[n] + waiting'[n] = handled[n] + waiting[n]
        BY <2>2, <1>w DEF HandlesMessage
    <2>3. QED BY <2>1, <2>2
<1>4. written' \in 0..MaxMessages
    <2>1. written' = written \/ (written < MaxMessages /\ written' = written + 1)
        BY DEF PersonWrites, HandlesMessage, worldVars
    <2>2. written \in 0..MaxMessages /\ MaxMessages \in Nat
        BY DeliveryAssumption DEF DeliveryInv, DeliveryTypeOK
    <2>3. QED BY <2>1, <2>2
<1>5. DeliveryTypeOK'
    <2>1. recordsFirst' \in BOOLEAN /\ up' \in BOOLEAN /\ raced' \in BOOLEAN
        BY <1>2, Zenon DEF DeliveryInv, DeliveryTypeOK
    <2>2. QED BY <2>1, <1>2, <1>3, <1>4 DEF DeliveryInv, DeliveryTypeOK, Messages
<1>6. Running' = Running
    BY <1>2 DEF Running
<1>7. ReloadsOK' /\ HandledOnce'
    BY <1>2, <1>3, <1>6 DEF DeliveryInv, ReloadsOK, HandledOnce
<1>8. ASSUME ~raced PROVE OneRun' /\ RecordedOK' /\ BatchKnown' /\ PassedKnown'
    <2>0. OneRun /\ RecordedOK /\ BatchKnown /\ PassedKnown
        BY <1>8 DEF DeliveryInv
    <2>1. OneRun'
        BY <2>0, <1>2, <1>6 DEF OneRun, WaitedFor
    <2>2. RecordedOK' /\ BatchKnown'
        BY <2>0, <1>2, <1>6 DEF RecordedOK, BatchKnown
    <2>3. PassedKnown'
        BY <2>0, <1>2, <1>3, <1>6 DEF PassedKnown, Passed, Messages
    <2>4. QED BY <2>1, <2>2, <2>3
<1>9. QED BY <1>2, <1>5, <1>7, <1>8 DEF DeliveryInv

Ending == {NotSaving, [at |-> "done"], [at |-> "reload"]}

LEMMA SaveAt ==
    /\ \A x \in SaveType :
          /\ x.at = "edits" => x.known \subseteq Messages
          /\ x.at = "puts" => x.known \subseteq Messages /\ x.old \subseteq Adapters
          /\ x.at = "starts" => x.old \subseteq Adapters
    /\ \A x \in Ending : x \in SaveType /\ x.at \in {"idle", "done", "reload"}
    /\ \A k \in SUBSET Messages : [at |-> "edits", known |-> k] \in SaveType
    /\ \A k \in SUBSET Messages, o \in SUBSET Adapters : [at |-> "puts", known |-> k, old |-> o] \in SaveType
    /\ \A o \in SUBSET Adapters : [at |-> "starts", old |-> o] \in SaveType
BY DEF SaveType, Ending, NotSaving

\* What the steps of a save leave as it was.
LEMMA SaveTypes ==
    ASSUME DeliveryTypeOK, UNCHANGED <<recordsFirst, written, confirmed, waiting, handled, mayMiss>>,
           run' \in [Adapters -> RunType], current' \in SUBSET Adapters, Cardinality(current') <= 1,
           faults' \in 0..MaxFaults, up' \in BOOLEAN, raced' \in BOOLEAN,
           reloading' \in {NoSave, OtherSave} \cup Saves, save' \in [AllSaves -> SaveType],
           channelRow' \in RowType, mayRepeat' \subseteq Messages
    PROVE  DeliveryTypeOK'
<1>1. /\ recordsFirst' = recordsFirst /\ written' = written /\ mayMiss' = mayMiss
      /\ confirmed' = confirmed /\ waiting' = waiting /\ handled' = handled
    OBVIOUS
<1>2. recordsFirst' \in BOOLEAN
    BY <1>1, Zenon DEF DeliveryTypeOK
<1>3. QED BY <1>1, <1>2 DEF DeliveryTypeOK, Messages, AllSaves

LEMMA SaveIs ==
    ASSUME DeliveryInv
    PROVE  /\ run \in [Adapters -> RunType] /\ current \in SUBSET Adapters /\ Cardinality(current) <= 1
           /\ faults \in 0..MaxFaults /\ up \in BOOLEAN
           /\ reloading \in {NoSave, OtherSave} \cup Saves /\ save \in [AllSaves -> SaveType]
           /\ channelRow \in RowType /\ mayRepeat \subseteq Messages
           /\ MaxFaults \in Nat
BY DeliveryAssumption DEF DeliveryInv, DeliveryTypeOK, AllSaves

LEMMA RacedIs == DeliveryInv => raced \in BOOLEAN
BY Zenon DEF DeliveryInv, DeliveryTypeOK

LEMMA FaultFits == faults \in 0..MaxFaults /\ MaxFaults \in Nat /\ Fault => faults' \in 0..MaxFaults
BY DEF Fault

\* A save that moves on, with the channel as it is: nobody begins to wait.
LEMMA SaveMoves ==
    ASSUME DeliveryInv, NEW s \in AllSaves, NEW x \in SaveType,
           save' = [save EXCEPT ![s] = x],
           x.at \notin {"puts", "starts"}, x.at = "edits" => s \in Saves,
           save[s].at # "starts", save[s].at = "puts" => Stopped(save[s].old),
           up \/ x.at \in {"idle", "done"},
           UNCHANGED <<up, run, current, reloading, raced>>
    PROVE  /\ save' \in [AllSaves -> SaveType]
           /\ Running' = Running
           /\ ReloadsOK'
           /\ ~raced => OneRun'
<1>1. save \in [AllSaves -> SaveType] /\ run \in [Adapters -> RunType]
    BY SaveIs
<1>2. /\ save' \in [AllSaves -> SaveType] /\ save'[s] = x
      /\ \A t \in AllSaves : t # s => save'[t] = save[t]
    BY <1>1
<1>3. /\ up' = up /\ run' = run /\ current' = current /\ reloading' = reloading
    OBVIOUS
<1>4. Running' = Running
    BY <1>3 DEF Running
<1>5. ReloadsOK'
    BY <1>2, <1>3, <1>4 DEF DeliveryInv, ReloadsOK, AllSaves
<1>6. ASSUME ~raced PROVE OneRun'
    <2>1. OneRun
        BY <1>6 DEF DeliveryInv
    <2>2. ASSUME NEW r \in Running, WaitedFor(r)
          PROVE  WaitedFor(r)'
        <3>1. PICK t \in AllSaves : save[t].at \in {"puts", "starts"} /\ r \in save[t].old
            BY <2>2 DEF WaitedFor, AllSaves
        <3>2. t # s
            BY <3>1 DEF Stopped, Running
        <3>3. QED BY <3>1, <3>2, <1>2 DEF WaitedFor, AllSaves
    <2>3. QED BY <2>1, <2>2, <1>2, <1>3, <1>4 DEF OneRun, AllSaves
<1>7. QED BY <1>2, <1>4, <1>5, <1>6

LEMMA EditsStep ==
    ASSUME DeliveryInv, NEW s \in Saves, Edits(s)
    PROVE  DeliveryInv'
<1>1. /\ recordsFirst' = recordsFirst /\ written' = written /\ confirmed' = confirmed
      /\ faults' = faults /\ up' = up /\ channelRow' = channelRow /\ run' = run
      /\ current' = current /\ reloading' = reloading /\ waiting' = waiting /\ handled' = handled
      /\ mayRepeat' = mayRepeat /\ mayMiss' = mayMiss /\ raced' = raced
    BY DEF Edits, worldVars, historyVars
<1> DEFINE x == [at |-> "edits", known |-> channelRow.known]
<1>2. /\ s \in AllSaves /\ save' = [save EXCEPT ![s] = x] /\ up
      /\ save[s].at = "idle"
    BY DEF Edits, AllSaves, NotSaving
<1>3. x \in SaveType /\ x.at = "edits"
    BY SaveIs, SaveAt DEF RowType
<1> HIDE DEF x
<1>4. save' \in [AllSaves -> SaveType] /\ Running' = Running /\ ReloadsOK' /\ (~raced => OneRun')
    BY <1>1, <1>2, <1>3, SaveMoves
<1>5. DeliveryTypeOK'
    BY <1>1, <1>4, SaveTypes, SaveIs, RacedIs DEF DeliveryInv
<1>6. HandledOnce'
    BY <1>1 DEF DeliveryInv, HandledOnce
<1>7. ~raced => RecordedOK' /\ BatchKnown' /\ PassedKnown'
    BY <1>1, <1>4 DEF DeliveryInv, RecordedOK, BatchKnown, PassedKnown, Passed
<1>8. QED BY <1>1, <1>4, <1>5, <1>6, <1>7 DEF DeliveryInv

\* What a save forgets of what was known may repeat.
LEMMA PutsRowStep ==
    ASSUME DeliveryInv, NEW s \in AllSaves, PutsRow(s)
    PROVE  DeliveryInv'
<1>1. /\ recordsFirst' = recordsFirst /\ written' = written /\ confirmed' = confirmed
      /\ faults' = faults /\ up' = up /\ run' = run
      /\ current' = current /\ reloading' = reloading /\ waiting' = waiting /\ handled' = handled
      /\ mayMiss' = mayMiss /\ raced' = raced
    BY DEF PutsRow, worldVars
<1> DEFINE x == [at |-> "reload"]
<1>2. /\ save' = [save EXCEPT ![s] = x]
      /\ save[s].at = "puts" /\ Stopped(save[s].old)
    BY DEF PutsRow
<1>3. x \in SaveType /\ x.at = "reload"
    BY SaveAt DEF Ending
<1> HIDE DEF x
<1>u. up /\ s \in Saves
    BY <1>2 DEF DeliveryInv, ReloadsOK, AllSaves
<1>4. save' \in [AllSaves -> SaveType] /\ Running' = Running /\ ReloadsOK' /\ (~raced => OneRun')
    BY <1>1, <1>2, <1>3, <1>u, SaveMoves
<1>5. save[s].known \subseteq Messages /\ channelRow \in RowType /\ mayRepeat \subseteq Messages
    BY <1>2, SaveIs, SaveAt
<1>6. channelRow' = [from |-> s, known |-> save[s].known]
      /\ mayRepeat' = mayRepeat \cup (channelRow.known \ save[s].known)
    BY DEF PutsRow
<1>7. /\ channelRow' \in RowType /\ mayRepeat' \subseteq Messages /\ mayRepeat \subseteq mayRepeat'
      /\ channelRow.known \subseteq channelRow'.known \cup mayRepeat'
    BY <1>5, <1>6, <1>u DEF RowType
<1>8. DeliveryTypeOK'
    BY <1>1, <1>4, <1>7, SaveTypes, SaveIs, RacedIs DEF DeliveryInv
<1>9. HandledOnce'
    BY <1>1, <1>7 DEF DeliveryInv, HandledOnce
<1>10. ASSUME ~raced PROVE RecordedOK' /\ BatchKnown' /\ PassedKnown'
    <2>0. OneRun /\ RecordedOK /\ BatchKnown /\ PassedKnown
        BY <1>10 DEF DeliveryInv
    <2>1. RecordedOK'
        BY <2>0, <1>1, <1>4, <1>7 DEF RecordedOK
    <2>2. \A r \in Running : run[r].cancelled
        <3>1. current = {}
            BY <2>0, <1>2 DEF OneRun, AllSaves
        <3>2. QED BY <3>1, <2>0 DEF OneRun
    <2>3. BatchKnown'
        BY <2>0, <2>2, <1>1, <1>4 DEF BatchKnown
    <2>4. PassedKnown'
        BY <2>0, <1>1, <1>4, <1>7 DEF PassedKnown, Passed
    <2>5. QED BY <2>1, <2>3, <2>4
<1>11. QED BY <1>1, <1>4, <1>8, <1>9, <1>10 DEF DeliveryInv

\* A save that fails, and one of another channel that begins.
LEMMA QuietSteps ==
    ASSUME DeliveryInv, SavesOther \/ \E s \in AllSaves : PutFails(s)
    PROVE  DeliveryInv'
<1>1. /\ recordsFirst' = recordsFirst /\ written' = written /\ confirmed' = confirmed
      /\ up' = up /\ channelRow' = channelRow /\ run' = run
      /\ current' = current /\ reloading' = reloading /\ waiting' = waiting /\ handled' = handled
      /\ mayRepeat' = mayRepeat /\ mayMiss' = mayMiss /\ raced' = raced
    BY DEF SavesOther, PutFails, worldVars, historyVars
<1>2. save' \in [AllSaves -> SaveType] /\ Running' = Running /\ ReloadsOK' /\ (~raced => OneRun')
    <2>1. CASE SavesOther
        <3> DEFINE x == [at |-> "reload"]
        <3>1. x \in SaveType /\ x.at = "reload"
            BY SaveAt DEF Ending
        <3>2. /\ OtherSave \in AllSaves /\ save' = [save EXCEPT ![OtherSave] = x] /\ up
              /\ save[OtherSave].at \in {"idle", "done"}
            BY <2>1 DEF SavesOther, AllSaves
        <3> HIDE DEF x
        <3>3. QED BY <1>1, <3>1, <3>2, SaveMoves
    <2>2. ASSUME NEW s \in AllSaves, PutFails(s)
          PROVE  save' \in [AllSaves -> SaveType] /\ Running' = Running /\ ReloadsOK' /\ (~raced => OneRun')
        <3> DEFINE x == [at |-> "done"]
        <3>1. x \in SaveType /\ x.at = "done"
            BY SaveAt DEF Ending
        <3>2. /\ save' = [save EXCEPT ![s] = x]
              /\ save[s].at = "puts" /\ Stopped(save[s].old)
            BY <2>2 DEF PutFails
        <3> HIDE DEF x
        <3>3. QED BY <1>1, <3>1, <3>2, SaveMoves
    <2>3. QED BY <2>1, <2>2
<1>3. faults' \in 0..MaxFaults
    BY FaultFits, SaveIs DEF SavesOther, PutFails
<1>4. DeliveryTypeOK'
    BY <1>1, <1>2, <1>3, SaveTypes, SaveIs, RacedIs DEF DeliveryInv
<1>5. HandledOnce'
    BY <1>1 DEF DeliveryInv, HandledOnce
<1>6. ~raced => RecordedOK' /\ BatchKnown' /\ PassedKnown'
    BY <1>1, <1>2 DEF DeliveryInv, RecordedOK, BatchKnown, PassedKnown, Passed
<1>7. QED BY <1>1, <1>2, <1>4, <1>5, <1>6 DEF DeliveryInv

\* A channel that is stopped: its run is told, and waited for.
LEMMA ChannelStops ==
    ASSUME DeliveryInv, NEW s \in AllSaves, NEW x \in SaveType,
           run' = Cancelled(current), current' = {}, save' = [save EXCEPT ![s] = x],
           x.at \in {"puts", "starts"}, x.old = current, save[s].at \notin {"puts", "starts"},
           UNCHANGED <<recordsFirst, channelRow, waiting, handled, mayRepeat, raced>>
    PROVE  /\ run' \in [Adapters -> RunType] /\ current' \in SUBSET Adapters /\ Cardinality(current') <= 1
           /\ save' \in [AllSaves -> SaveType] /\ save'[s] = x
           /\ \A t \in AllSaves : t # s => save'[t] = save[t]
           /\ Running' = Running
           /\ ~raced => OneRun' /\ RecordedOK' /\ BatchKnown' /\ PassedKnown'
<1>1. save \in [AllSaves -> SaveType] /\ run \in [Adapters -> RunType] /\ current \in SUBSET Adapters
    BY SaveIs
<1>2. save' \in [AllSaves -> SaveType] /\ save'[s] = x /\ \A t \in AllSaves : t # s => save'[t] = save[t]
    BY <1>1
<1>3. /\ recordsFirst' = recordsFirst /\ channelRow' = channelRow
      /\ waiting' = waiting /\ handled' = handled /\ mayRepeat' = mayRepeat /\ raced' = raced
    OBVIOUS
<1>4. ASSUME NEW r \in Adapters
      PROVE  /\ run'[r] \in RunType /\ (run'[r] = NoRun <=> run[r] = NoRun)
             /\ r \in Running =>
                   /\ run'[r].at = run[r].at /\ run'[r].known = run[r].known /\ run'[r].batch = run[r].batch
                   /\ run'[r].at = "puts" => run'[r].from = run[r].from
                   /\ run'[r].cancelled = (r \in current \/ run[r].cancelled)
    <2>1. CASE r \in current /\ r \in Running
        <3>1. run'[r] = [run[r] EXCEPT !.cancelled = TRUE]
            BY <2>1 DEF Cancelled, Running
        <3>2. run[r] \in PlainRuns \/ run[r] \in PutRuns
            BY <2>1, <1>1, RunAt DEF Running
        <3>3. CASE run[r] \in PlainRuns
            <4>1. /\ run'[r] \in PlainRuns
                  /\ run'[r].at = run[r].at /\ run'[r].known = run[r].known /\ run'[r].batch = run[r].batch
                  /\ run'[r].at # "puts" /\ run'[r].cancelled = TRUE
                BY <3>1, <3>3 DEF PlainRuns, RunPlaces
            <4>2. QED BY <2>1, <4>1, RunFits DEF Running
        <3>4. CASE run[r] \in PutRuns
            <4>1. /\ run'[r] \in PutRuns
                  /\ run'[r].at = run[r].at /\ run'[r].known = run[r].known /\ run'[r].batch = run[r].batch
                  /\ run'[r].from = run[r].from /\ run'[r].cancelled = TRUE
                BY <3>1, <3>4 DEF PutRuns
            <4>2. QED BY <2>1, <4>1, RunFits DEF Running
        <3>5. QED BY <3>2, <3>3, <3>4
    <2>2. CASE ~(r \in current /\ r \in Running)
        <3>1. run'[r] = run[r]
            BY <2>2 DEF Cancelled, Running
        <3>2. r \in Running => run[r].cancelled \in BOOLEAN
            BY <1>1, RunAt DEF Running
        <3>3. QED BY <2>2, <3>1, <3>2, <1>1
    <2>3. QED BY <2>1, <2>2
<1>5. run' \in [Adapters -> RunType]
    BY <1>4 DEF Cancelled
<1>6. Running' = Running
    BY <1>4 DEF Running
<1>7. Cardinality(current') <= 1
    BY FS_EmptySet
<1>8. ASSUME ~raced PROVE OneRun' /\ RecordedOK' /\ BatchKnown' /\ PassedKnown'
    <2>0. OneRun /\ RecordedOK /\ BatchKnown /\ PassedKnown
        BY <1>8 DEF DeliveryInv
    <2>a. \A r \in Running : r \in Adapters
        BY DEF Running
    <2>1. ASSUME NEW r \in Running
          PROVE  run'[r].cancelled /\ WaitedFor(r)'
        <3>1. CASE r \in current
            BY <3>1, <1>2, <1>4, <2>a DEF WaitedFor, AllSaves
        <3>2. CASE r \notin current
            <4>1. run[r].cancelled /\ WaitedFor(r)
                BY <3>2, <2>0 DEF OneRun
            <4>2. PICK t \in AllSaves : save[t].at \in {"puts", "starts"} /\ r \in save[t].old
                BY <4>1 DEF WaitedFor, AllSaves
            <4>3. t # s
                BY <4>2
            <4>4. QED BY <4>1, <4>2, <4>3, <1>2, <1>4, <2>a DEF WaitedFor, AllSaves
        <3>3. QED BY <3>1, <3>2
    <2>2. OneRun'
        BY <2>0, <2>1, <1>6 DEF OneRun
    <2>3. RecordedOK'
        BY <2>0, <2>a, <1>3, <1>4, <1>6 DEF RecordedOK
    <2>4. BatchKnown'
        BY <2>0, <2>1, <2>a, <1>3, <1>4, <1>6 DEF BatchKnown
    <2>5. PassedKnown'
        BY <2>0, <2>a, <1>3, <1>4, <1>6 DEF PassedKnown, Passed
    <2>6. QED BY <2>2, <2>3, <2>4, <2>5
<1>9. QED BY <1>1, <1>2, <1>5, <1>6, <1>7, <1>8

LEMMA StopsChannelStep ==
    ASSUME DeliveryInv, NEW s \in AllSaves, StopsChannel(s)
    PROVE  DeliveryInv'
<1> DEFINE x == [at |-> "puts", known |-> save[s].known, old |-> current]
<1>1. /\ recordsFirst' = recordsFirst /\ written' = written /\ confirmed' = confirmed
      /\ faults' = faults /\ up' = up /\ channelRow' = channelRow
      /\ reloading' = reloading /\ waiting' = waiting /\ handled' = handled
      /\ mayRepeat' = mayRepeat /\ mayMiss' = mayMiss /\ raced' = raced
    BY DEF StopsChannel, worldVars, historyVars
<1>2. /\ run' = Cancelled(current) /\ current' = {} /\ save' = [save EXCEPT ![s] = x]
      /\ save[s].at = "edits"
    BY DEF StopsChannel
<1>3. /\ x \in SaveType /\ x.at = "puts" /\ x.old = current
    BY <1>2, SaveIs, SaveAt
<1> HIDE DEF x
<1>4. /\ run' \in [Adapters -> RunType] /\ current' \in SUBSET Adapters /\ Cardinality(current') <= 1
      /\ save' \in [AllSaves -> SaveType] /\ save'[s] = x
      /\ \A t \in AllSaves : t # s => save'[t] = save[t]
      /\ Running' = Running
      /\ ~raced => OneRun' /\ RecordedOK' /\ BatchKnown' /\ PassedKnown'
    BY <1>1, <1>2, <1>3, ChannelStops
<1>5. DeliveryTypeOK'
    BY <1>1, <1>4, SaveTypes, SaveIs, RacedIs DEF DeliveryInv
<1>6. HandledOnce'
    BY <1>1 DEF DeliveryInv, HandledOnce
<1>7. ReloadsOK'
    BY <1>1, <1>2, <1>3, <1>4 DEF DeliveryInv, ReloadsOK, AllSaves
<1>8. QED BY <1>1, <1>4, <1>5, <1>6, <1>7 DEF DeliveryInv

LEMMA ReloadsStep ==
    ASSUME DeliveryInv, NEW s \in AllSaves, Reloads(s)
    PROVE  DeliveryInv'
<1> DEFINE x == [at |-> "starts", old |-> current]
<1>1. /\ recordsFirst' = recordsFirst /\ written' = written /\ confirmed' = confirmed
      /\ faults' = faults /\ up' = up /\ channelRow' = channelRow
      /\ reloading' = s /\ waiting' = waiting /\ handled' = handled
      /\ mayRepeat' = mayRepeat /\ mayMiss' = mayMiss /\ raced' = raced
    BY DEF Reloads, worldVars, historyVars
<1>2. /\ run' = Cancelled(current) /\ current' = {} /\ save' = [save EXCEPT ![s] = x]
      /\ save[s].at = "reload" /\ reloading = NoSave
    BY DEF Reloads
<1>3. /\ x \in SaveType /\ x.at = "starts" /\ x.old = current
    BY <1>2, SaveIs, SaveAt
<1> HIDE DEF x
<1>4. /\ run' \in [Adapters -> RunType] /\ current' \in SUBSET Adapters /\ Cardinality(current') <= 1
      /\ save' \in [AllSaves -> SaveType] /\ save'[s] = x
      /\ \A t \in AllSaves : t # s => save'[t] = save[t]
      /\ Running' = Running
      /\ ~raced => OneRun' /\ RecordedOK' /\ BatchKnown' /\ PassedKnown'
    BY <1>1, <1>2, <1>3, ChannelStops
<1>5. DeliveryTypeOK'
    BY <1>1, <1>4, SaveTypes, SaveIs, RacedIs DEF DeliveryInv, AllSaves
<1>6. HandledOnce'
    BY <1>1 DEF DeliveryInv, HandledOnce
<1>7. ReloadsOK'
    <2>1. NoSave \notin AllSaves
        BY DeliveryAssumption DEF AllSaves, NoSave, OtherSave
    <2>2. \A t \in AllSaves : save[t].at # "starts"
        BY <2>1, <1>2 DEF DeliveryInv, ReloadsOK, AllSaves
    <2>3. QED BY <2>2, <1>1, <1>2, <1>3, <1>4 DEF DeliveryInv, ReloadsOK, AllSaves
<1>8. QED BY <1>1, <1>4, <1>5, <1>6, <1>7 DEF DeliveryInv

\* A run that starts knows what the row says.
LEMMA RunStarts ==
    ASSUME DeliveryTypeOK, NEW r \in Adapters, StartsRun(r)
    PROVE  /\ run' \in [Adapters -> RunType] /\ current' \in SUBSET Adapters /\ Cardinality(current') <= 1
           /\ current' = {r} /\ Running' = Running \cup {r} /\ r \notin Running
           /\ run'[r] = FreshRun(channelRow.known)
           /\ FreshRun(channelRow.known).at = "polls" /\ FreshRun(channelRow.known).known = channelRow.known
           /\ FreshRun(channelRow.known).batch = {} /\ FreshRun(channelRow.known).cancelled = FALSE
<1>1. run \in [Adapters -> RunType] /\ channelRow.known \subseteq Messages
    BY DEF DeliveryTypeOK, RowType
<1> DEFINE w == FreshRun(channelRow.known)
<1>2. /\ w \in PlainRuns /\ w.at = "polls" /\ w.known = channelRow.known /\ w.batch = {}
      /\ w.cancelled = FALSE
    BY <1>1, FreshFits
<1>3. run[r] = NoRun /\ run' = [run EXCEPT ![r] = w] /\ current' = {r}
    BY DEF StartsRun
<1> HIDE DEF w
<1>4. w \in RunType /\ w # NoRun
    BY <1>2, RunFits
<1>5. run' \in [Adapters -> RunType] /\ Running' = Running \cup {r} /\ r \notin Running /\ run'[r] = w
    BY <1>1, <1>3, <1>4 DEF Running
<1>6. Cardinality({r}) <= 1
    <2>1. Cardinality({r}) = 1
        BY FS_Singleton, Zenon
    <2>2. QED BY <2>1
<1>7. QED BY <1>2, <1>3, <1>5, <1>6 DEF w

\* And nothing else runs, unless a save has been raced.
LEMMA ChannelStarts ==
    ASSUME DeliveryInv, NEW r \in Adapters, StartsRun(r), ~raced,
           Running = {}, \A t \in AllSaves : save'[t].at \notin {"puts", "starts"},
           UNCHANGED <<recordsFirst, channelRow, waiting, handled, mayRepeat>>
    PROVE  OneRun' /\ RecordedOK' /\ BatchKnown' /\ PassedKnown'
<1>1. /\ current' = {r} /\ Running' = {r} /\ run'[r].at = "polls" /\ run'[r].known = channelRow.known
      /\ run'[r].batch = {} /\ run'[r].cancelled = FALSE
    BY RunStarts DEF DeliveryInv
<1>2. OneRun'
    BY <1>1 DEF OneRun, AllSaves
<1>3. RecordedOK' /\ BatchKnown'
    BY <1>1 DEF RecordedOK, BatchKnown
<1>4. PassedKnown'
    BY <1>1 DEF DeliveryInv, PassedKnown, Passed
<1>5. QED BY <1>2, <1>3, <1>4

LEMMA ReloadStartsStep ==
    ASSUME DeliveryInv, NEW s \in AllSaves, ReloadStarts(s)
    PROVE  DeliveryInv'
<1>1. /\ recordsFirst' = recordsFirst /\ written' = written /\ confirmed' = confirmed
      /\ faults' = faults /\ up' = up /\ channelRow' = channelRow
      /\ reloading' = NoSave /\ waiting' = waiting /\ handled' = handled
      /\ mayRepeat' = mayRepeat /\ mayMiss' = mayMiss
    BY DEF ReloadStarts, worldVars, historyVars
<1> DEFINE x == [at |-> "done"]
<1>2. /\ save' = [save EXCEPT ![s] = x] /\ save[s].at = "starts" /\ Stopped(save[s].old)
      /\ raced' = (raced \/ \E t \in Saves : save[t].at = "puts")
    BY DEF ReloadStarts
<1>3. x \in SaveType /\ x.at = "done"
    BY SaveAt DEF Ending
<1> HIDE DEF x
<1>4. PICK r \in Adapters : StartsRun(r)
    BY DEF ReloadStarts
<1>5. /\ run' \in [Adapters -> RunType] /\ current' \in SUBSET Adapters /\ Cardinality(current') <= 1
      /\ Running' = Running \cup {r}
    BY <1>4, RunStarts DEF DeliveryInv
<1>6. /\ save' \in [AllSaves -> SaveType] /\ save'[s] = x
      /\ \A t \in AllSaves : t # s => save'[t] = save[t]
    BY <1>2, <1>3, SaveIs
<1>7. /\ up
      /\ \A t \in AllSaves : t # s => save[t].at # "starts"
      /\ \A t \in AllSaves : save[t].at = "puts" => t \in Saves
    BY <1>2 DEF DeliveryInv, ReloadsOK, AllSaves
<1>8. DeliveryTypeOK'
    <2>1. raced' \in BOOLEAN
        BY <1>2, RacedIs, Zenon
    <2>2. QED BY <2>1, <1>1, <1>5, <1>6, SaveTypes, SaveIs DEF DeliveryInv, AllSaves
<1>9. HandledOnce'
    BY <1>1, <1>2 DEF DeliveryInv, HandledOnce
<1>10. ReloadsOK'
    BY <1>1, <1>3, <1>6, <1>7 DEF DeliveryInv, ReloadsOK, AllSaves
<1>11. ASSUME ~raced' PROVE OneRun' /\ RecordedOK' /\ BatchKnown' /\ PassedKnown'
    <2>1. ~raced /\ \A t \in AllSaves : save[t].at # "puts"
        BY <1>11, <1>2, <1>7
    <2>2. Running = {}
        <3> SUFFICES ASSUME NEW q \in Running PROVE FALSE
            OBVIOUS
        <3>1. OneRun /\ current = {}
            BY <2>1, <1>2 DEF DeliveryInv, OneRun, AllSaves
        <3>2. WaitedFor(q)
            BY <3>1 DEF OneRun
        <3>3. PICK t \in AllSaves : save[t].at \in {"puts", "starts"} /\ q \in save[t].old
            BY <3>2 DEF WaitedFor, AllSaves
        <3>4. t = s
            BY <3>3, <2>1, <1>7
        <3>5. QED BY <3>3, <3>4, <1>2 DEF Stopped, Running
    <2>3. \A t \in AllSaves : save'[t].at \notin {"puts", "starts"}
        BY <2>1, <1>3, <1>6, <1>7
    <2>4. QED BY <2>1, <2>2, <2>3, <1>1, <1>4, ChannelStarts
<1>12. QED BY <1>8, <1>9, <1>10, <1>11 DEF DeliveryInv

LEMMA PanelStartsStep ==
    ASSUME DeliveryInv, PanelStarts
    PROVE  DeliveryInv'
<1>1. /\ recordsFirst' = recordsFirst /\ written' = written /\ confirmed' = confirmed
      /\ faults' = faults /\ up' = TRUE /\ channelRow' = channelRow /\ save' = save
      /\ reloading' = reloading /\ waiting' = waiting /\ handled' = handled
      /\ mayRepeat' = mayRepeat /\ mayMiss' = mayMiss /\ raced' = raced
    BY DEF PanelStarts, worldVars, historyVars
<1>2. PICK r \in Adapters : StartsRun(r)
    BY DEF PanelStarts
<1>3. /\ run' \in [Adapters -> RunType] /\ current' \in SUBSET Adapters /\ Cardinality(current') <= 1
    BY <1>2, RunStarts DEF DeliveryInv
<1>4. /\ Running = {} /\ \A t \in AllSaves : save[t].at \in {"idle", "done"}
    BY DEF PanelStarts, DeliveryInv, ReloadsOK, AllSaves
<1>5. DeliveryTypeOK'
    BY <1>1, <1>3, SaveTypes, SaveIs, RacedIs DEF DeliveryInv
<1>6. HandledOnce'
    BY <1>1 DEF DeliveryInv, HandledOnce
<1>7. ReloadsOK'
    BY <1>1, <1>4 DEF DeliveryInv, ReloadsOK, AllSaves
<1>8. ~raced => OneRun' /\ RecordedOK' /\ BatchKnown' /\ PassedKnown'
    BY <1>1, <1>2, <1>4, ChannelStarts
<1>9. QED BY <1>1, <1>5, <1>6, <1>7, <1>8 DEF DeliveryInv

\* What was passed on and not recorded may repeat.
LEMMA PanelStopsStep ==
    ASSUME DeliveryInv, PanelStops
    PROVE  DeliveryInv'
<1>1. /\ recordsFirst' = recordsFirst /\ written' = written /\ confirmed' = confirmed
      /\ up' = FALSE /\ channelRow' = channelRow /\ handled' = handled /\ raced' = raced
      /\ run' = [r \in Adapters |-> NoRun] /\ current' = {} /\ reloading' = NoSave
      /\ save' = [s \in DOMAIN save |-> IF save[s] = NotSaving THEN NotSaving ELSE [at |-> "done"]]
      /\ waiting' = [m \in Messages |-> 0]
      /\ mayRepeat' = mayRepeat \cup Unrecorded /\ mayMiss' = mayMiss \cup Unhandled
    BY DEF PanelStops, worldVars
<1>w. waiting \in [Messages -> Nat] /\ handled \in [Messages -> Nat]
    BY DEF DeliveryInv, DeliveryTypeOK
<1>2. save' \in [AllSaves -> SaveType] /\ \A t \in AllSaves : save'[t].at \in {"idle", "done"}
    <2>1. DOMAIN save = AllSaves
        BY SaveIs
    <2>2. NotSaving \in SaveType /\ [at |-> "done"] \in SaveType
        BY SaveAt DEF Ending
    <2>3. NotSaving.at = "idle"
        BY DEF NotSaving
    <2>4. QED BY <2>1, <2>2, <2>3, <1>1
<1>3. Running' = {} /\ run' \in [Adapters -> RunType]
    BY <1>1, RunSplit DEF Running
<1>4. Unrecorded \subseteq Messages /\ Unhandled \subseteq Messages
    <2>1. \A r \in Running : r \in Adapters /\ run[r].known \subseteq Messages
        BY SaveIs, RunAt DEF Running
    <2>2. QED BY <2>1 DEF Unrecorded, Unhandled, Running
<1>5. DeliveryTypeOK'
    <2>1. Cardinality({}) <= 1
        BY FS_EmptySet
    <2>2. recordsFirst' \in BOOLEAN /\ up' \in BOOLEAN /\ raced' \in BOOLEAN
        BY <1>1, Zenon DEF DeliveryInv, DeliveryTypeOK
    <2>3. faults' \in 0..MaxFaults
        BY FaultFits, SaveIs DEF PanelStops
    <2>4. waiting' \in [Messages -> Nat]
        BY <1>1
    <2>5. QED BY <2>1, <2>2, <2>3, <2>4, <1>1, <1>2, <1>3, <1>4 DEF DeliveryInv, DeliveryTypeOK, AllSaves, Messages
<1>6. HandledOnce'
    <2> SUFFICES ASSUME NEW n \in Messages, handled'[n] + waiting'[n] > 1
                 PROVE  n \in mayRepeat' \/ raced'
        BY DEF HandledOnce, Messages
    <2>1. handled[n] + waiting[n] > 1
        BY <1>1, <1>w
    <2>2. QED BY <2>1, <1>1 DEF DeliveryInv, HandledOnce
<1>7. ReloadsOK'
    BY <1>1, <1>2, <1>3 DEF ReloadsOK, AllSaves
<1>8. ASSUME ~raced PROVE OneRun' /\ RecordedOK' /\ BatchKnown' /\ PassedKnown'
    <2>1. OneRun'
        BY <1>2, <1>3 DEF OneRun, AllSaves
    <2>2. RecordedOK' /\ BatchKnown'
        BY <1>3 DEF RecordedOK, BatchKnown
    <2>3. PassedKnown'
        <3> SUFFICES ASSUME NEW n \in Messages, n \notin mayRepeat', Passed(n)'
                     PROVE  n \in channelRow.known
            BY <1>1, <1>3 DEF PassedKnown, Messages
        <3>1. Passed(n) /\ n \notin mayRepeat /\ n \notin Unrecorded
            BY <1>1, <1>w DEF Passed
        <3>2. CASE Running = {}
            BY <3>1, <3>2, <1>8 DEF DeliveryInv, PassedKnown
        <3>3. ASSUME NEW r \in Running PROVE n \in channelRow.known
            <4>1. n \in run[r].known
                BY <3>1, <3>3, <1>8 DEF DeliveryInv, PassedKnown
            <4>2. QED BY <3>1, <3>3, <4>1 DEF Unrecorded, Running
        <3>4. QED BY <3>2, <3>3
    <2>4. QED BY <2>1, <2>2, <2>3
<1>9. QED BY <1>1, <1>5, <1>6, <1>7, <1>8 DEF DeliveryInv

LEMMA DeliveryKeeps == DeliveryInv /\ [DeliveryNext]_deliveryVars => DeliveryInv'
<1> SUFFICES ASSUME DeliveryInv, [DeliveryNext]_deliveryVars PROVE DeliveryInv'
    OBVIOUS
<1>1. CASE PersonWrites \/ \E m \in Messages : HandlesMessage(m)
    BY <1>1, MessageSteps
<1>2. ASSUME NEW r \in Adapters, RunStep(r)
      PROVE  DeliveryInv'
    BY <1>2, PollsStep, PollAnsweredStep, PollEndsStep, PassesStep, RecordsStep, PutsStep, Zenon DEF RunStep
<1>3. ASSUME NEW s \in Saves, Edits(s)
      PROVE  DeliveryInv'
    BY <1>3, EditsStep
<1>4. ASSUME NEW s \in AllSaves, SaveStep(s)
      PROVE  DeliveryInv'
    <2>1. CASE PutFails(s)
        BY <2>1, QuietSteps
    <2>2. CASE ~PutFails(s)
        BY <2>2, <1>4, StopsChannelStep, PutsRowStep, ReloadsStep, ReloadStartsStep, Zenon DEF SaveStep
    <2>3. QED BY <2>1, <2>2
<1>5. CASE SavesOther
    BY <1>5, QuietSteps
<1>6. CASE PanelStops
    BY <1>6, PanelStopsStep
<1>7. CASE PanelStarts
    BY <1>7, PanelStartsStep
<1>8. CASE UNCHANGED deliveryVars
    <2>1. UNCHANGED <<recordsFirst, confirmed, faults, reloadVars, channelRow, run, historyVars>>
        BY <1>8 DEF deliveryVars, reloadVars, historyVars
    <2>2. /\ recordsFirst' = recordsFirst /\ written' = written /\ confirmed' = confirmed
          /\ faults' = faults /\ up' = up /\ channelRow' = channelRow /\ run' = run
          /\ current' = current /\ reloading' = reloading /\ save' = save
          /\ waiting' = waiting /\ handled' = handled
          /\ mayRepeat' = mayRepeat /\ mayMiss' = mayMiss /\ raced' = raced
        BY <1>8 DEF deliveryVars
    <2>3. Running' = Running
        BY <2>2 DEF Running
    <2>4. DeliveryTypeOK'
        BY <2>2, SaveTypes, SaveIs, RacedIs DEF DeliveryInv
    <2>5. ReloadsOK' /\ HandledOnce'
        BY <2>2, <2>3 DEF DeliveryInv, ReloadsOK, HandledOnce
    <2>6. ~raced => OneRun' /\ RecordedOK' /\ BatchKnown' /\ PassedKnown'
        BY <2>2, <2>3 DEF DeliveryInv, OneRun, WaitedFor, RecordedOK, BatchKnown, PassedKnown, Passed
    <2>7. QED BY <2>2, <2>4, <2>5, <2>6 DEF DeliveryInv
<1>9. QED BY <1>1, <1>2, <1>3, <1>4, <1>5, <1>6, <1>7, <1>8, Zenon DEF DeliveryNext, AllSaves

\* A row that changes hands is a save's.
LEMMA RowHeld ==
    DeliveryInv /\ [DeliveryNext]_deliveryVars =>
        [channelRow'.from # channelRow.from =>
            raced \/ \E s \in Saves : channelRow'.from = s /\ save[s].at = "puts"]_channelRow
<1> SUFFICES ASSUME DeliveryInv, DeliveryNext, channelRow'.from # channelRow.from, ~raced
             PROVE  \E s \in Saves : channelRow'.from = s /\ save[s].at = "puts"
    BY DEF deliveryVars
<1>1. channelRow' # channelRow
    OBVIOUS
<1>2. ASSUME NEW r \in Adapters, Puts(r)
      PROVE  FALSE
    <2>1. ~run[r].cancelled /\ channelRow'.from = run[r].from
        BY <1>2, <1>1 DEF Puts
    <2>2. r \in Running /\ run[r].at = "puts"
        BY <1>2, RunIs DEF Puts
    <2>3. QED BY <2>1, <2>2 DEF DeliveryInv, BatchKnown
<1>3. ASSUME NEW s \in AllSaves, PutsRow(s)
      PROVE  \E t \in Saves : channelRow'.from = t /\ save[t].at = "puts"
    BY <1>3 DEF PutsRow, DeliveryInv, ReloadsOK, AllSaves
<1>4. (\E r \in Adapters : Puts(r)) \/ (\E s \in AllSaves : PutsRow(s))
    BY <1>1 DEF DeliveryNext, RunStep, SaveStep, PersonWrites, SavesOther, PanelStops, PanelStarts, Polls,
                PollAnswered, PollEnds, Passes, Records, HandlesMessage, Edits, StopsChannel, PutFails,
                Reloads, ReloadStarts, AllSaves
<1>5. QED BY <1>2, <1>3, <1>4

\* The types of the delivery, for any messages, saves, adapters and faults.
THEOREM DeliveryTypeCorrect == DeliverySpec => []DeliveryTypeOK
<1>1. DeliveryInv => DeliveryTypeOK
    BY DEF DeliveryInv
<1>2. QED BY DeliveryInitHolds, DeliveryKeeps, <1>1, PTL DEF DeliverySpec

\* Nothing is handled twice and what was saved stays saved: the safety half of
\* Delivered, for any messages, saves, adapters, stops and reloads (Adapter.Run
\* of telegram and weixin, sink.State, WriteChannel, Reload).
THEOREM DeliveredOnceCorrect == DeliverySpec => []HandledOnce /\ SavedStays
<1>1. DeliveryInv => HandledOnce
    BY DEF DeliveryInv
<1>2. QED BY DeliveryInitHolds, DeliveryKeeps, RowHeld, <1>1, PTL DEF DeliverySpec, SavedStays

-----------------------------------------------------------------------------
(***************************************************************************)
(* The log an agent writes, for any sizes of the tail and of a read.  What *)
(* has been read ends where a line begins, or in a line longer than a      *)
(* tail; a run of that many bytes without a newline is in such a line.     *)
(***************************************************************************)

\* A set of numbers that is not empty has a least one, and a greatest if it is bounded.
LEMMA LeastOf ==
    ASSUME NEW T \in SUBSET Nat, T # {}
    PROVE  \E x \in T : \A y \in T : x <= y
<1> DEFINE R == {ss \in Nat \X Nat : ss[1] < ss[2]}
<1>1. IsWellFoundedOn(R, Nat)
    BY NatLessThanWellFounded DEF OpToRel
<1>2. \A x, y \in Nat : <<y, x>> \in R <=> y < x
    OBVIOUS
<1>3. PICK x \in T : \A y \in T : ~(<<y, x>> \in R)
    <2> HIDE DEF R
    <2>1. QED BY <1>1, WFMin
<1> HIDE DEF R
<1>4. ASSUME NEW y \in T PROVE x <= y
    <2>1. x \in Nat /\ y \in Nat /\ ~(<<y, x>> \in R)
        BY <1>3
    <2>2. ~(y < x)
        BY <2>1, <1>2
    <2>3. QED BY <2>1, <2>2
<1>5. QED BY <1>4

LEMMA GreatestOf ==
    ASSUME NEW bound \in Nat, NEW T \in SUBSET (0..bound), T # {}
    PROVE  \E x \in T : \A y \in T : y <= x
<1> DEFINE U == {n \in 0..bound : bound - n \in T}
<1>1. U \in SUBSET Nat /\ \A y \in T : bound - y \in U
    OBVIOUS
<1>2. PICK u \in U : \A v \in U : u <= v
    <2> HIDE DEF U
    <2>1. U # {}
        BY <1>1
    <2>2. QED BY <1>1, <2>1, LeastOf
<1>3. bound - u \in T /\ u \in 0..bound
    BY <1>2
<1>4. ASSUME NEW y \in T PROVE y <= bound - u
    <2>1. bound - y \in U /\ y \in Nat
        BY <1>1
    <2>2. u <= bound - y
        BY <2>1, <1>2
    <2>3. QED BY <2>1, <2>2, <1>3
<1>5. QED BY <1>3, <1>4

\* Where a line begins: at the start, or after the newline before it.
LEMMA LineStart ==
    ASSUME log \in Seq(BOOLEAN), NEW e \in 1..(Size + 1)
    PROVE  /\ StartOf(e) \in 0..(e - 1) /\ StartsLine(StartOf(e))
           /\ \A i \in (StartOf(e) + 1)..(e - 1) : ~log[i]
<1>1. Size \in Nat /\ e - 1 \in Nat
    BY DEF Size
<1> DEFINE T == {s \in 0..(e - 1) : StartsLine(s)}
<1>2. 0 \in T /\ T \in SUBSET (0..(e - 1))
    BY <1>1 DEF StartsLine
<1>3. PICK s \in T : \A t \in T : t <= s
    <2> HIDE DEF T
    <2>1. T # {}
        BY <1>2
    <2>2. QED BY <1>1, <1>2, <2>1, GreatestOf
<1>4. \A i \in (s + 1)..(e - 1) : ~log[i]
    <2> SUFFICES ASSUME NEW i \in (s + 1)..(e - 1), log[i] PROVE FALSE
        OBVIOUS
    <2>1. i \in T
        BY <1>1, <1>3 DEF StartsLine, EndsLine
    <2>2. QED BY <2>1, <1>1, <1>3
<1>5. \E t \in 0..(e - 1) : StartsLine(t) /\ \A i \in (t + 1)..(e - 1) : ~log[i]
    BY <1>3, <1>4
<1>6. QED BY <1>5 DEF StartOf

\* So no line begins later.
LEMMA NoLaterStart ==
    ASSUME log \in Seq(BOOLEAN), NEW e \in 1..(Size + 1), NEW s \in 0..(e - 1), StartsLine(s)
    PROVE  s <= StartOf(e)
<1>1. Size \in Nat
    BY DEF Size
<1>2. /\ StartOf(e) \in 0..(e - 1)
      /\ \A i \in (StartOf(e) + 1)..(e - 1) : ~log[i]
    BY LineStart
<1>3. SUFFICES ASSUME s > StartOf(e) PROVE FALSE
    BY <1>1, <1>2
<1>4. log[s] /\ s \in (StartOf(e) + 1)..(e - 1)
    BY <1>1, <1>2, <1>3 DEF StartsLine, EndsLine
<1>5. QED BY <1>2, <1>4

LEMMA LogNumbers ==
    /\ InitialTail \in Nat \ {0} /\ OneRead \in Nat \ {0} /\ MaxFile \in Nat \ {0} /\ MaxLooks \in Nat \ {0}
    /\ MaxFiles \in Nat \ {0} /\ InitialTail < OneRead
BY LogAssumption

\* As many bytes as a tail without a newline belong to a line that does not fit.
LEMMA LongRun ==
    ASSUME log \in Seq(BOOLEAN), NEW a \in Nat, NEW b \in Nat, a + InitialTail <= b, b <= Size,
           \A i \in (a + 1)..b : ~log[i]
    PROVE  ~LinesFit
<1>1. Size \in Nat /\ InitialTail \in Nat \ {0}
    BY LogNumbers DEF Size
<1> DEFINE T == {n \in (b + 1)..Size : log[n]}
<1>2. PICK e \in 1..(Size + 1) :
         /\ e = Size + 1 \/ log[e]
         /\ e > b /\ \A i \in (b + 1)..(e - 1) : ~log[i]
    <2>1. CASE T = {}
        <3>1. \A i \in (b + 1)..Size : ~log[i]
            BY <2>1
        <3>2. Size + 1 \in 1..(Size + 1) /\ Size + 1 > b /\ (Size + 1) - 1 = Size
            BY <1>1
        <3> HIDE DEF T
        <3>3. QED BY <3>1, <3>2
    <2>2. CASE T # {}
        <3>1. PICK e \in T : \A n \in T : e <= n
            <4>1. T \in SUBSET Nat
                BY <1>1
            <4> HIDE DEF T
            <4>2. QED BY <2>2, <4>1, LeastOf
        <3>2. \A i \in (b + 1)..(e - 1) : ~log[i]
            <4> SUFFICES ASSUME NEW i \in (b + 1)..(e - 1), log[i] PROVE FALSE
                OBVIOUS
            <4>1. i \in T
                BY <1>1, <3>1
            <4>2. QED BY <4>1, <3>1, <1>1
        <3>3. QED BY <3>1, <3>2, <1>1
    <2>3. QED BY <2>1, <2>2
<1>3. StartOf(e) \in 0..(e - 1) /\ StartsLine(StartOf(e))
    BY LineStart
<1>4. StartOf(e) <= a
    <2> SUFFICES ASSUME StartOf(e) > a PROVE FALSE
        BY <1>1, <1>3
    <2>1. log[StartOf(e)]
        BY <1>1, <1>3 DEF StartsLine, EndsLine
    <2>2. StartOf(e) \in (a + 1)..b \/ StartOf(e) \in (b + 1)..(e - 1)
        BY <1>1, <1>3
    <2>3. QED BY <2>1, <2>2, <1>2
<1>5. ~(e - StartOf(e) < InitialTail)
    BY <1>1, <1>2, <1>3, <1>4
<1>6. QED BY <1>2, <1>5 DEF LinesFit

\* The same of the next state.
LinesStart ==
    \A e \in 1..(Size + 1) :
        /\ StartOf(e) \in 0..(e - 1) /\ StartsLine(StartOf(e))

LEMMA NextLines == (log \in Seq(BOOLEAN))' => LinesStart'
<1>1. log \in Seq(BOOLEAN) => LinesStart
    BY LineStart DEF LinesStart
<1>2. QED BY <1>1, PTL

\* A file that grows by a byte.
Grows ==
    /\ Size \in Nat /\ Size' = Size + 1 /\ (log \in Seq(BOOLEAN))'
    /\ \A i \in 1..Size : log'[i] <=> log[i]

LEMMA AppendGrows ==
    ASSUME log \in Seq(BOOLEAN), NEW newline \in BOOLEAN, log' = Append(log, newline)
    PROVE  Grows
<1>1. /\ Size \in Nat /\ Size' = Size + 1 /\ log' \in Seq(BOOLEAN)
      /\ \A i \in 1..Size : log'[i] = log[i]
    BY DEF Size
<1>2. QED BY <1>1, Zenon DEF Grows

\* What does not fit goes on not to, while the file grows.
LEMMA StaysLong ==
    ASSUME log \in Seq(BOOLEAN), ~LinesFit, Grows
    PROVE  ~LinesFit'
<1>1. /\ Size \in Nat /\ Size' = Size + 1 /\ (log \in Seq(BOOLEAN))'
      /\ \A i \in 1..Size : log'[i] <=> log[i]
    BY DEF Grows
<1>2. PICK e \in 1..(Size + 1) : (e = Size + 1 \/ log[e]) /\ ~(e - StartOf(e) < InitialTail)
    BY DEF LinesFit
<1>3. StartOf(e) \in 0..(e - 1) /\ InitialTail \in Nat
    BY LineStart, LogNumbers
<1>4. LinesStart'
    BY <1>1, NextLines
<1>5. \E f \in 1..(Size' + 1) :
         /\ f >= e /\ (f = Size' + 1 \/ log'[f])
         /\ \A s \in 0..(f - 1) : StartsLine(s)' => s <= StartOf(e)
    <2>1. ASSUME NEW s \in 0..(e - 1), StartsLine(s)'
          PROVE  s <= StartOf(e)
        <3>1. StartsLine(s)
            BY <1>1, <2>1 DEF StartsLine, EndsLine
        <3>2. QED BY <3>1, NoLaterStart
    <2>2. CASE e = Size + 1 /\ ~log'[Size + 1]
        <3>1. ASSUME NEW s \in 0..(e + 1 - 1), StartsLine(s)'
              PROVE  s <= StartOf(e)
            <4>1. s # Size + 1
                BY <1>1, <2>2, <3>1 DEF StartsLine, EndsLine
            <4>2. s \in 0..(e - 1)
                BY <1>1, <2>2, <4>1
            <4>3. QED BY <3>1, <4>2, <2>1
        <3>2. e + 1 \in 1..(Size' + 1) /\ e + 1 = Size' + 1 /\ e + 1 >= e
            BY <1>1, <2>2
        <3>3. QED BY <3>1, <3>2
    <2>3. CASE e = Size + 1 /\ log'[Size + 1]
        <3>1. log'[e] /\ e \in 1..(Size' + 1) /\ e >= e
            BY <1>1, <2>3
        <3>2. QED BY <3>1, <2>1
    <2>4. CASE e # Size + 1
        <3>1. log'[e] /\ e \in 1..(Size' + 1) /\ e >= e
            BY <1>1, <1>2, <2>4
        <3>2. QED BY <3>1, <2>1
    <2>5. QED BY <2>2, <2>3, <2>4
<1>6. PICK f \in 1..(Size' + 1) :
         /\ f >= e /\ (f = Size' + 1 \/ log'[f])
         /\ \A s \in 0..(f - 1) : StartsLine(s)' => s <= StartOf(e)
    BY <1>5
<1>7. StartOf(f)' \in 0..(f - 1) /\ StartsLine(StartOf(f))'
    BY <1>4 DEF LinesStart
<1>8. ~(f - StartOf(f)' < InitialTail)
    BY <1>1, <1>2, <1>3, <1>6, <1>7
<1>9. QED BY <1>6, <1>8 DEF LinesFit

\* What the watcher has read up to is where a line begins, or in a line longer
\* than a tail; unless the file has been cut to less than was read of it.
OffsetOK ==
    path = fileNo /\ 0 <= offset /\ offset <= Size => StartsLine(offset) \/ ~LinesFit

LogInv == LogTypeOK /\ path <= fileNo /\ WholeLines /\ OffsetOK

LEMMA LogInitHolds == LogInit => LogInv
<1> SUFFICES ASSUME LogInit PROVE LogInv
    OBVIOUS
<1>1. LogTypeOK
    <2>1. unopened \in BOOLEAN /\ torn \in BOOLEAN
        BY Zenon DEF LogInit
    <2>2. log \in Seq(BOOLEAN) /\ Len(log) = 0
        BY DEF LogInit
    <2>3. QED BY <2>1, <2>2, LogNumbers DEF LogInit, LogTypeOK
<1>2. path <= fileNo /\ ~torn /\ offset = -1
    BY DEF LogInit
<1>3. QED BY <1>1, <1>2 DEF LogInv, WholeLines, OffsetOK

\* The tail is read from the start of a line, or in a line longer than a tail.
LEMMA TailBegins ==
    ASSUME log \in Seq(BOOLEAN)
    PROVE  TailStart \in 0..Size /\ (StartsLine(TailStart) \/ ~LinesFit)
<1>1. Size \in Nat /\ InitialTail \in Nat \ {0}
    BY LogNumbers DEF Size
<1> DEFINE at == IF Size > InitialTail THEN Size - InitialTail ELSE 0
           ends == {e \in (at + 1)..Size : log[e]}
<1>2. at \in 0..Size /\ (at # 0 => at + InitialTail = Size)
    BY <1>1
<1>3. TailStart = IF at = 0 \/ (follows = "claude" /\ StartsLine(at)) THEN at
                  ELSE IF ends = {} THEN Size ELSE CHOOSE e \in ends : \A o \in ends : e <= o
    BY DEF TailStart
<1> HIDE DEF at
<1>4. CASE at = 0 \/ (follows = "claude" /\ StartsLine(at))
    BY <1>2, <1>3, <1>4 DEF StartsLine
<1>5. CASE at # 0 /\ ends = {} /\ TailStart = Size
    <2>1. \A i \in (at + 1)..Size : ~log[i]
        BY <1>5
    <2>2. at \in Nat /\ at + InitialTail <= Size
        BY <1>1, <1>2, <1>5
    <2>3. ~LinesFit
        BY <1>1, <2>1, <2>2, LongRun
    <2>4. QED BY <1>1, <1>5, <2>3
<1>6. CASE ends # {} /\ TailStart = CHOOSE e \in ends : \A o \in ends : e <= o
    <2>1. ends \in SUBSET Nat
        BY <1>1, <1>2
    <2>2. \E e \in ends : \A o \in ends : e <= o
        <3> HIDE DEF ends
        <3>1. QED BY <1>6, <2>1, LeastOf
    <2>3. TailStart \in ends
        <3> HIDE DEF ends
        <3>1. QED BY <1>6, <2>2
    <2>4. QED BY <1>1, <1>2, <2>3 DEF StartsLine, EndsLine
<1>7. QED BY <1>3, <1>4, <1>5, <1>6

\* A read ends after a newline, where it began, or in a line longer than a tail.
LEMMA ReadEnds ==
    ASSUME log \in Seq(BOOLEAN), NEW at \in 0..Size
    PROVE  /\ ReadUpTo(at) \in at..Size
           /\ ReadUpTo(at) = at \/ StartsLine(ReadUpTo(at)) \/ ~LinesFit
<1>1. Size \in Nat /\ InitialTail \in Nat \ {0} /\ OneRead \in Nat /\ InitialTail < OneRead
    BY LogNumbers DEF Size
<1> DEFINE n == IF Size - at < OneRead THEN Size - at ELSE OneRead
           ends == {e \in (at + 1)..(at + n) : log[e]}
<1>2. n \in Nat /\ at + n <= Size
    BY <1>1
<1>3. ReadUpTo(at) = IF ends # {} THEN CHOOSE e \in ends : \A o \in ends : o <= e
                     ELSE IF follows = "claude" /\ n = OneRead THEN at + n ELSE at
    BY DEF ReadUpTo
<1> HIDE DEF n
<1>4. CASE ends # {}
    <2>1. ends \in SUBSET (0..Size)
        BY <1>1, <1>2
    <2>2. \E e \in ends : \A o \in ends : o <= e
        <3> HIDE DEF ends
        <3>1. QED BY <1>1, <1>4, <2>1, GreatestOf
    <2>3. ReadUpTo(at) \in ends
        <3> HIDE DEF ends
        <3>1. QED BY <1>3, <1>4, <2>2
    <2>4. QED BY <1>1, <1>2, <2>3 DEF StartsLine, EndsLine
<1>5. CASE ends = {} /\ n = OneRead /\ ReadUpTo(at) = at + n
    <2>1. \A i \in (at + 1)..(at + n) : ~log[i]
        BY <1>5
    <2>2. at \in Nat /\ at + n \in Nat /\ at + InitialTail <= at + n /\ at + n <= Size
        BY <1>1, <1>2, <1>5
    <2>3. ~LinesFit
        BY <2>1, <2>2, LongRun
    <2>4. QED BY <1>1, <1>2, <1>5, <2>3
<1>6. CASE ReadUpTo(at) = at
    BY <1>1, <1>6
<1>7. QED BY <1>3, <1>4, <1>5, <1>6

LEMMA HeardFits ==
    ASSUME LogTypeOK, NEW at \in Nat, NEW upTo \in 0..Size
    PROVE  Scanned(at, upTo) \in 0..MaxFile /\ Kept \in 0..MaxFile
<1>1. Size \in Nat /\ Size <= MaxFile /\ MaxFile \in Nat
    BY LogNumbers DEF Size, LogTypeOK
<1>2. Kept \in 0..MaxFile
    BY <1>1 DEF Kept, LogTypeOK
<1> DEFINE telling == TellingLines(at, upTo)
<1>3. telling \in SUBSET (0..MaxFile)
    BY <1>1 DEF TellingLines
<1>4. Scanned(at, upTo) = IF telling = {} THEN Kept ELSE CHOOSE e \in telling : \A o \in telling : o <= e
    BY DEF Scanned
<1> HIDE DEF telling
<1>5. CASE telling # {}
    <2>1. \E e \in telling : \A o \in telling : o <= e
        BY <1>1, <1>3, <1>5, GreatestOf
    <2>2. QED BY <1>2, <1>3, <1>4, <1>5, <2>1
<1>6. QED BY <1>2, <1>4, <1>5

LEMMA LogIs ==
    ASSUME LogTypeOK
    PROVE  /\ log \in Seq(BOOLEAN) /\ Size \in Nat /\ Size <= MaxFile
           /\ fileNo \in 1..MaxFiles /\ path \in 0..MaxFiles /\ sinceFound \in 0..MaxLooks
           /\ offset \in -1..MaxFile /\ heard \in 0..MaxFile /\ Found \in 0..MaxFiles
BY DEF LogTypeOK, Size, Found

LEMMA LogFits ==
    ASSUME LogTypeOK, follows' = follows, (log \in Seq(BOOLEAN))', Size' <= MaxFile, fileNo' \in 1..MaxFiles,
           path' \in 0..MaxFiles, sinceFound' \in 0..MaxLooks, offset' \in -1..MaxFile,
           heard' \in 0..MaxFile, unopened' \in BOOLEAN, torn' \in BOOLEAN
    PROVE  LogTypeOK'
BY DEF LogTypeOK, Size

LEMMA LookedUp == LogTypeOK /\ LooksUp => sinceFound' \in 0..MaxLooks
BY LogNumbers DEF LooksUp, LogTypeOK

LEMMA LogBooleans == LogTypeOK => unopened \in BOOLEAN /\ torn \in BOOLEAN
BY Zenon DEF LogTypeOK

LEMMA AppendsStep ==
    ASSUME LogInv, NEW newline \in BOOLEAN, Appends(newline)
    PROVE  LogInv'
<1>1. /\ follows' = follows /\ fileNo' = fileNo /\ path' = path /\ sinceFound' = sinceFound
      /\ offset' = offset /\ heard' = heard /\ unopened' = unopened /\ torn' = torn
      /\ log' = Append(log, newline) /\ Size < MaxFile
      /\ Size # offset - 1 \/ path # fileNo
    BY DEF Appends
<1>2. LogTypeOK /\ log \in Seq(BOOLEAN) /\ offset \in -1..MaxFile
    BY LogIs DEF LogInv
<1>3. Grows
    BY <1>1, <1>2, AppendGrows
<1>4. /\ Size \in Nat /\ Size' = Size + 1 /\ (log \in Seq(BOOLEAN))'
      /\ \A i \in 1..Size : log'[i] <=> log[i]
    BY <1>3 DEF Grows
<1>5. ~LinesFit => ~LinesFit'
    BY <1>2, <1>3, StaysLong
<1>6. LogTypeOK'
    <2>1. Size' <= MaxFile
        BY <1>1, <1>4, LogNumbers
    <2>2. QED BY <2>1, <1>1, <1>2, <1>4, LogIs, LogFits, LogBooleans
<1>7. WholeLines'
    BY <1>1, <1>5 DEF LogInv, WholeLines
<1>8. OffsetOK'
    <2> SUFFICES ASSUME path = fileNo, 0 <= offset, offset <= Size + 1
                 PROVE  StartsLine(offset)' \/ ~LinesFit'
        BY <1>1, <1>4 DEF OffsetOK
    <2>1. offset <= Size
        BY <1>1, <1>2, <1>4
    <2>2. StartsLine(offset) => StartsLine(offset)'
        <3>1. offset' = offset /\ offset \in Int
            BY <1>1, <1>2
        <3> HIDE <1>1
        <3>2. QED BY <2>1, <3>1, <1>4 DEF StartsLine, EndsLine
    <2>3. QED BY <2>1, <2>2, <1>5 DEF LogInv, OffsetOK
<1>9. QED BY <1>1, <1>6, <1>7, <1>8 DEF LogInv

LEMMA NewFileSteps ==
    ASSUME LogInv, OpensAnother \/ Truncates
    PROVE  LogInv'
<1>1. /\ follows' = follows /\ fileNo < MaxFiles /\ fileNo' = fileNo + 1 /\ log' = <<>> /\ heard' = 0
      /\ torn' = FALSE /\ sinceFound' = sinceFound /\ offset' = offset /\ unopened' = unopened
      /\ path' = path \/ (offset > 0 /\ path' = fileNo')
    BY DEF OpensAnother, Truncates
<1>2. /\ LogTypeOK /\ fileNo \in 1..MaxFiles /\ path \in 0..MaxFiles /\ sinceFound \in 0..MaxLooks
      /\ offset \in -1..MaxFile /\ path <= fileNo /\ MaxFiles \in Nat /\ MaxFile \in Nat
    BY LogIs, LogNumbers DEF LogInv
<1>3. (log \in Seq(BOOLEAN))' /\ Size' = 0
    BY <1>1 DEF Size
<1>4. fileNo' \in 1..MaxFiles /\ path' \in 0..MaxFiles /\ path' <= fileNo'
    BY <1>1, <1>2
<1>t. torn' \in BOOLEAN /\ ~torn'
    BY <1>1, Zenon
<1>5. LogTypeOK'
    BY <1>1, <1>2, <1>3, <1>4, <1>t, LogFits, LogBooleans
<1>6. WholeLines'
    BY <1>t DEF WholeLines
<1>7. OffsetOK'
    BY <1>1, <1>2, <1>3 DEF OffsetOK, StartsLine
<1>8. QED BY <1>4, <1>5, <1>6, <1>7 DEF LogInv

\* A look begins where the last ended, or at the tail.
LEMMA LooksAtLogStep ==
    ASSUME LogInv, LooksAtLog
    PROVE  LogInv'
<1>1. /\ follows' = follows /\ log' = log /\ fileNo' = fileNo /\ unopened' = unopened
      /\ path' = Found /\ LooksUp
    BY DEF LooksAtLog
<1>2. /\ LogTypeOK /\ log \in Seq(BOOLEAN) /\ Size \in Nat /\ Size <= MaxFile /\ fileNo \in 1..MaxFiles
      /\ path \in 0..MaxFiles /\ offset \in -1..MaxFile /\ Found \in 0..MaxFiles /\ path <= fileNo
      /\ heard \in 0..MaxFile /\ MaxFile \in Nat
    BY LogIs, LogNumbers DEF LogInv
<1>3. Found <= fileNo /\ (Found = fileNo \/ Found = path)
    BY <1>2 DEF Found
<1>4. (log \in Seq(BOOLEAN))' /\ Size' = Size /\ (LinesFit' <=> LinesFit)
    BY <1>1, <1>2 DEF Size, LinesFit, StartOf, StartsLine, EndsLine
<1>5. sinceFound' \in 0..MaxLooks
    BY <1>1, <1>2, LookedUp
<1>6. CASE Found # fileNo
    <2>1. offset' = offset /\ heard' = heard /\ torn' = torn
        BY <1>6 DEF LooksAtLog
    <2>2. LogTypeOK'
        BY <1>1, <1>2, <1>4, <1>5, <2>1, LogFits, LogBooleans
    <2>3. WholeLines' /\ OffsetOK'
        BY <1>1, <1>4, <1>6, <2>1 DEF LogInv, WholeLines, OffsetOK
    <2>4. QED BY <1>1, <1>3, <2>2, <2>3 DEF LogInv
<1>7. CASE Found = fileNo
    <2> DEFINE from == IF Found # path THEN -1 ELSE offset
               at == IF FromTail(from) THEN TailStart ELSE from
    <2>1. /\ offset' = ReadUpTo(at)
          /\ heard' = Scanned(at, ReadUpTo(at))
          /\ torn' = (torn \/ (~StartsLine(at) /\ \E e \in (at + 1)..ReadUpTo(at) : log[e]))
        BY <1>7 DEF LooksAtLog
    <2>2. at \in 0..Size /\ (StartsLine(at) \/ ~LinesFit)
        <3>1. CASE FromTail(from)
            BY <3>1, <1>2, TailBegins
        <3>2. CASE ~FromTail(from)
            <4>1. from = offset /\ path = fileNo /\ 0 <= offset /\ offset <= Size
                BY <3>2, <1>2, <1>7 DEF FromTail
            <4>2. QED BY <4>1, <3>2, <1>2 DEF LogInv, OffsetOK
        <3>3. QED BY <3>1, <3>2
    <2> HIDE DEF at
    <2>3. /\ offset' \in at..Size
          /\ offset' = at \/ StartsLine(offset') \/ ~LinesFit
        BY <2>1, <2>2, <1>2, ReadEnds
    <2>4. offset' \in -1..MaxFile /\ offset' \in 0..Size /\ (StartsLine(offset') \/ ~LinesFit)
        BY <2>2, <2>3, <1>2
    <2>5. heard' \in 0..MaxFile
        BY <2>1, <2>2, <2>4, <1>2, HeardFits
    <2>6. torn' \in BOOLEAN /\ (torn' => torn \/ ~StartsLine(at))
        BY <2>1, <1>2, LogBooleans, Zenon
    <2>7. LogTypeOK'
        BY <1>1, <1>2, <1>4, <1>5, <2>4, <2>5, <2>6, LogFits, LogBooleans
    <2>8. WholeLines'
        BY <1>4, <2>2, <2>6 DEF LogInv, WholeLines
    <2>9. OffsetOK'
        BY <1>1, <1>4, <2>4 DEF OffsetOK, StartsLine, EndsLine
    <2>10. QED BY <1>1, <1>3, <2>7, <2>8, <2>9 DEF LogInv
<1>8. QED BY <1>6, <1>7

LEMMA CannotOpenStep ==
    ASSUME LogInv, CannotOpen
    PROVE  LogInv'
<1>1. /\ follows' = follows /\ log' = log /\ fileNo' = fileNo /\ torn' = torn /\ LooksUp
      /\ unopened' = TRUE /\ Found = fileNo /\ heard' = Kept
      /\ path' = 0 \/ path' = Found
      /\ offset' = IF Found # path THEN -1 ELSE offset
    BY DEF CannotOpen
<1>2. /\ LogTypeOK /\ log \in Seq(BOOLEAN) /\ Size \in Nat /\ Size <= MaxFile /\ fileNo \in 1..MaxFiles
      /\ path \in 0..MaxFiles /\ offset \in -1..MaxFile /\ MaxFile \in Nat /\ Found \in 0..MaxFiles
    BY LogIs, LogNumbers DEF LogInv
<1>3. (log \in Seq(BOOLEAN))' /\ Size' = Size /\ (LinesFit' <=> LinesFit)
    BY <1>1, <1>2 DEF Size, LinesFit, StartOf, StartsLine, EndsLine
<1>4. sinceFound' \in 0..MaxLooks /\ Kept \in 0..MaxFile
    BY <1>1, <1>2, LookedUp DEF Kept, LogTypeOK
<1>5. unopened' \in BOOLEAN
    BY <1>1, Zenon
<1>6. offset' \in -1..MaxFile /\ path' \in 0..MaxFiles /\ path' <= fileNo'
    <2>1. /\ fileNo' = fileNo /\ (path' = 0 \/ path' = fileNo)
          /\ offset' = -1 \/ offset' = offset
        BY <1>1
    <2>2. fileNo <= MaxFiles /\ fileNo \in Nat /\ MaxFiles \in Nat
        BY <1>2, LogNumbers
    <2>3. QED BY <2>1, <2>2, <1>2
<1>7. LogTypeOK'
    BY <1>1, <1>2, <1>3, <1>4, <1>5, <1>6, LogFits, LogBooleans
<1>8. WholeLines'
    BY <1>1, <1>3 DEF LogInv, WholeLines
<1>9. OffsetOK'
    BY <1>1, <1>2, <1>3 DEF LogInv, OffsetOK, StartsLine, EndsLine
<1>10. QED BY <1>6, <1>7, <1>8, <1>9 DEF LogInv

LEMMA LogKeeps == LogInv /\ [LogNext]_logVars => LogInv'
<1> SUFFICES ASSUME LogInv, [LogNext]_logVars PROVE LogInv'
    OBVIOUS
<1>1. CASE UNCHANGED logVars
    <2>1. /\ follows' = follows /\ log' = log /\ fileNo' = fileNo /\ path' = path /\ sinceFound' = sinceFound
          /\ offset' = offset /\ heard' = heard /\ unopened' = unopened /\ torn' = torn
        BY <1>1 DEF logVars
    <2>2. (log \in Seq(BOOLEAN))' /\ Size' = Size /\ (LinesFit' <=> LinesFit)
        BY <2>1, LogIs DEF LogInv, Size, LinesFit, StartOf, StartsLine, EndsLine
    <2>3. LogTypeOK'
        BY <2>1, <2>2, LogIs, LogFits, LogBooleans DEF LogInv
    <2>4. QED BY <2>1, <2>2, <2>3 DEF LogInv, WholeLines, OffsetOK, StartsLine, EndsLine
<1>2. CASE LogNext
    BY <1>2, AppendsStep, NewFileSteps, LooksAtLogStep, CannotOpenStep, Zenon DEF LogNext
<1>3. QED BY <1>1, <1>2

\* The types of the log's watcher, for any sizes and files.
THEOREM LogTypeCorrect == LogSpec => []LogTypeOK
<1>1. LogInv => LogTypeOK
    BY DEF LogInv
<1>2. QED BY LogInitHolds, LogKeeps, <1>1, PTL DEF LogSpec

\* Whatever the sizes of the tail and of a read, and however a file is written,
\* left and cut: no rest of a line is read as one, unless it is longer than a
\* tail (State and Interrupted of codexlog and claudelog).
THEOREM WholeLinesCorrect == LogSpec => []WholeLines
<1>1. LogInv => WholeLines
    BY DEF LogInv
<1>2. QED BY LogInitHolds, LogKeeps, <1>1, PTL DEF LogSpec

-----------------------------------------------------------------------------
(***************************************************************************)
(* What a stream says to a terminal, read a chunk at a time.               *)
(*                                                                         *)
(* The two scanners are held against a terminal that reads every byte.     *)
(* Between two chunks, what is pending is what the terminal is in the      *)
(* middle of (OscHolds, ModesHold).  Within a chunk the same is said after *)
(* each round of the scanner's loop (Scanning, Reading): the rounds skip   *)
(* over many bytes at once, and W, what the terminal goes through byte by  *)
(* byte, tells what it has seen meanwhile.  The functions defined by       *)
(* recursion, Watched and Loop, are known by their equations alone.        *)
(***************************************************************************)

\* What is read, where a terminal can be in it, and what a command begins with.
Bytes == OscBytes \cup ModeBytes
Stations == {Text, "esc", "osc", "oscEsc", "csi", "mode"}
Heads == {"none"} \cup Bytes

\* W is what a terminal goes through over the bytes of b.
Follows(W, b) == \A k \in 1..Len(b) : W[k] = Shows(W[k - 1], b[k])

\* A command that has begun and is short enough to keep, and a terminal in it.
Quiet(p, i, j) == \A k \in i..j : p[k] \notin {BEL, ESC}
Unfinished(p) ==
    /\ Len(p) \in 2..MaxPending /\ p[1] = ESC /\ p[2] = "]" /\ Quiet(p, 3, Len(p) - 1) /\ p[Len(p)] # BEL
Inside(p) == IF p[Len(p)] = ESC THEN Len(p) - 1 ELSE Len(p)
InCommand(p, t) ==
    /\ t.at = IF p[Len(p)] = ESC THEN "oscEsc" ELSE "osc"
    /\ t.length = Inside(p)
    /\ t.head = IF Inside(p) = 2 THEN "none" ELSE p[3]

\* An ESC near the end that has begun nothing, or not yet.
Dangling(p) == Len(p) \in 1..TailLength /\ p[1] = ESC /\ Quiet(p, 2, Len(p)) /\ (Len(p) >= 2 => p[2] # "]")

\* What is pending is what a terminal is in the middle of.
OscHolds(p, skipping, t) ==
    \/ ~skipping /\ p = <<>> /\ t.at = Text
    \/ ~skipping /\ Unfinished(p) /\ InCommand(p, t)
    \/ ~skipping /\ Dangling(p) /\ t.at = IF Len(p) = 1 THEN "esc" ELSE Text
    \/ skipping /\ p = <<>> /\ t.at = "osc" /\ t.length >= MaxPending
    \/ skipping /\ p = <<ESC>> /\ t.at = "oscEsc" /\ t.length >= MaxPending

\* What the scanner has rung and told of what a terminal has, which may have left a
\* command that did not end.
Counted == {"none", "9", "x", "]", "\\"}
Heard(s, t) ==
    /\ t.rang \/ Count(t.told, "9") > 0 => s.bell
    /\ s.bell => t.rang \/ Count(t.all, "9") > 0
    /\ \A h \in Counted : Count(s.told, h) \in Count(t.told, h)..Count(t.all, h)

\* What has been passed over and not done with begins no command and rings no bell.
Tidy(b, s) ==
    \A j \in (s.consumed + 1)..(s.i - 1) : b[j] # BEL /\ (b[j] = ESC /\ j < Len(b) => b[j + 1] # "]")

\* Between two rounds, outside a command that is thrown away: a command begins at
\* no byte that is still to come only by what came before it.
Outside(b, s, W) ==
    /\ Heard(s, W[s.i - 1]) /\ Tidy(b, s)
    /\ \/ W[s.i - 1].at = Text
       \/ /\ s.consumed < s.i - 1 /\ b[s.i - 1] = ESC
          /\ W[s.i - 1].at = "esc" /\ (s.i <= Len(b) => b[s.i] # "]")
       \/ /\ s.consumed < s.i - 1 /\ b[s.i - 1] = ESC /\ s.i <= Len(b)
          /\ W[s.i - 1].at = "oscEsc" /\ W[s.i - 1].length > MaxPending /\ b[s.i] \notin {"]", "\\"}

\* The same within one: the terminal is, or will be, in a command that is too long.
Within(b, s, W, n) ==
    /\ s.consumed = s.i - 1
    /\ \E q \in (s.i - 1)..Len(b) :
          /\ q >= n - 1 /\ W[q].at = "osc" /\ W[q].length >= MaxPending /\ Quiet(b, s.i, q) /\ Heard(s, W[q])

\* How much is not done with; the first n bytes of b were pending.
Bounded(b, s, n) ==
    Len(b) - s.consumed <= TailLength + MaxRead \/ (s.i = 1 /\ Unfinished(SubSeq(b, 1, n)))

\* What holds after each round, W being what a terminal goes through over b.
Scanning(b, s, W, n) ==
    /\ s.i \in 1..(Len(b) + 1) /\ s.consumed \in 0..(s.i - 1)
    /\ ~s.stop =>
          /\ s.pending = <<>>
          /\ s.skipping => Within(b, s, W, n)
          /\ ~s.skipping => Outside(b, s, W) /\ Bounded(b, s, n)
    /\ s.stop => OscHolds(s.pending, s.skipping, W[Len(b)]) /\ Heard(s, W[Len(b)])

\* What holds of lo and passes from one number to the next holds up to hi.
LEMMA Climb ==
    ASSUME NEW lo \in Nat, NEW hi \in Nat, NEW A,
           lo \in A, \A k \in lo..hi : k # lo /\ k - 1 \in A => k \in A
    PROVE  \A k \in lo..hi : k \in A
<1> DEFINE B == {k \in lo..hi : k \notin A}
<1> SUFFICES ASSUME B # {} PROVE FALSE
    OBVIOUS
<1>1. B \in SUBSET Nat
    OBVIOUS
<1>2. PICK k \in B : \A j \in B : k <= j
    <2> HIDE DEF B
    <2>1. QED BY <1>1, LeastOf
<1>3. k \in lo..hi /\ k \notin A /\ k # lo
    BY <1>2
<1>4. k - 1 \in lo..hi /\ k - 1 < k
    BY <1>3
<1>5. k - 1 \notin A
    BY <1>3
<1>6. k - 1 \in B
    BY <1>4, <1>5
<1>7. QED BY <1>2, <1>4, <1>6

\* There is a function that begins with s and goes on by F.
RoundsOf(n, S) == [1..n -> [S -> S]]
GoesOn(g, n, S, s, F) == g \in [0..n -> S] /\ g[0] = s /\ \A k \in 1..n : g[k] = F[k][g[k - 1]]

LEMMA Recursion ==
    ASSUME NEW n \in Nat, NEW S, NEW s \in S, NEW F \in RoundsOf(n, S)
    PROVE  \E g : GoesOn(g, n, S, s, F)
<1> DEFINE Leads(m, g) == g[0] = s /\ \A k \in 1..m : g[k] = F[k][g[k - 1]]
           A == {m \in 0..n : \E g \in [0..m -> S] : Leads(m, g)}
<1>1. 0 \in A
    <2>1. [k \in 0..0 |-> s] \in [0..0 -> S] /\ Leads(0, [k \in 0..0 |-> s])
        OBVIOUS
    <2>2. 0 \in 0..n /\ \E g \in [0..0 -> S] : Leads(0, g)
        <3> HIDE DEF Leads
        <3>1. QED BY <2>1
    <2>3. QED BY <2>2, Zenon
<1>2. ASSUME NEW m \in 1..n, m - 1 \in A PROVE m \in A
    <2>1. PICK g \in [0..(m - 1) -> S] : Leads(m - 1, g)
        BY <1>2
    <2> DEFINE h == [k \in 0..m |-> IF k = m THEN F[m][g[m - 1]] ELSE g[k]]
    <2>2. m - 1 \in 0..(m - 1) /\ F[m][g[m - 1]] \in S
        BY DEF RoundsOf
    <2>3. h \in [0..m -> S]
        BY <2>2
    <2>4. h[0] = s
        BY <2>1
    <2>5. ASSUME NEW k \in 1..m PROVE h[k] = F[k][h[k - 1]]
        <3>1. h[k - 1] = g[k - 1]
            OBVIOUS
        <3>2. CASE k = m
            <4>1. h[m] = F[m][g[m - 1]]
                OBVIOUS
            <4>2. QED BY <4>1, <3>1, <3>2
        <3>3. CASE k # m
            <4>1. k \in 1..(m - 1) /\ h[k] = g[k]
                BY <3>3
            <4>2. QED BY <4>1, <3>1, <2>1
        <3>4. QED BY <3>2, <3>3
    <2> HIDE DEF h
    <2>6. Leads(m, h)
        BY <2>4, <2>5
    <2>7. m \in 0..n /\ \E f \in [0..m -> S] : Leads(m, f)
        <3> HIDE DEF Leads
        <3>1. QED BY <2>3, <2>6
    <2>8. QED BY <2>7, Zenon
<1> HIDE DEF A
<1>3. \A m \in 0..n : m # 0 /\ m - 1 \in A => m \in A
    BY <1>2
<1>4. n \in A
    <2>1. \A m \in 0..n : m \in A
        BY <1>1, <1>3, Climb
    <2>2. QED BY <2>1
<1>5. PICK g \in [0..n -> S] : Leads(n, g)
    BY <1>4 DEF A
<1>6. GoesOn(g, n, S, s, F)
    BY <1>5 DEF GoesOn
<1>7. QED BY <1>6, Zenon

Terminals == [at : Stations, head : Heads, length : Nat, ones : 0..2, on : [1..2 -> BOOLEAN],
              rang : BOOLEAN, told : Seq(Heads), all : Seq(Heads), left : BOOLEAN]

LEMMA AppendsIs ==
    ASSUME NEW S, NEW s \in Seq(S), NEW h \in S
    PROVE  s \o <<h>> \in Seq(S)
OBVIOUS

LEMMA EndedType ==
    ASSUME NEW t \in Terminals, NEW n \in Nat
    PROVE  Ended([t EXCEPT !.length = n]) \in Terminals
<1>1. t.told \o <<t.head>> \in Seq(Heads) /\ t.all \o <<t.head>> \in Seq(Heads)
    BY AppendsIs DEF Terminals
<1>2. QED BY <1>1 DEF Ended, Terminals, Stations, Text

LEMMA BegunType ==
    ASSUME NEW t \in Terminals, NEW l \in BOOLEAN, NEW c \in Bytes
    PROVE  Begun([t EXCEPT !.left = l], c) \in Terminals /\ Begun(t, c) \in Terminals
BY DEF Begun, Terminals, Stations, Text, Heads

LEMMA ShowsType ==
    ASSUME NEW t \in Terminals, NEW c \in Bytes
    PROVE  Shows(t, c) \in Terminals
<1>1. CASE t.at = Text
    <2>1. Shows(t, c) = InText(t, c)
        BY <1>1 DEF Shows, Text
    <2>2. InText(t, c) \in Terminals
        BY DEF InText, Terminals, Stations, Text
    <2>3. QED BY <2>1, <2>2
<1>2. CASE t.at = "esc"
    BY <1>2, BegunType DEF Shows, Text
<1>3. CASE t.at = "osc"
    <2>1. Shows(t, c) = InOsc(t, c)
        BY <1>3 DEF Shows, Text
    <2>2. CASE c = BEL
        <3>1. t.length + 1 \in Nat /\ InOsc(t, c) = Ended([t EXCEPT !.length = t.length + 1])
            BY <2>2 DEF InOsc, Terminals
        <3>2. QED BY <2>1, <3>1, EndedType
    <2>3. CASE c # BEL
        <3>1. MaxPending \in Nat
            BY ScannersAssumption
        <3>2. CASE c = ESC
            BY <2>1, <2>3, <3>2 DEF InOsc, Terminals, Stations
        <3>3. CASE c # ESC
            <4> DEFINE hd == IF t.length = 2 THEN c ELSE t.head
                       ln == IF t.length > MaxPending THEN t.length ELSE t.length + 1
            <4>1. Shows(t, c) = [t EXCEPT !.head = hd, !.length = ln]
                BY <2>1, <2>3, <3>3 DEF InOsc
            <4>2. hd \in Heads /\ ln \in Nat
                BY <3>1 DEF Terminals, Heads
            <4> HIDE DEF hd, ln
            <4>3. QED BY <4>1, <4>2 DEF Terminals
        <3>4. QED BY <3>2, <3>3
    <2>4. QED BY <2>2, <2>3
<1>4. CASE t.at = "oscEsc"
    <2>1. CASE c = "\\"
        <3>1. t.length + 2 \in Nat /\ Shows(t, c) = Ended([t EXCEPT !.length = t.length + 2])
            BY <1>4, <2>1 DEF Shows, Terminals, Text
        <3>2. QED BY <3>1, EndedType
    <2>2. CASE c # "\\"
        <3>1. Shows(t, c) = Begun([t EXCEPT !.left = t.left \/ t.length <= MaxPending], c)
            BY <1>4, <2>2 DEF Shows, Text
        <3>2. (t.left \/ t.length <= MaxPending) \in BOOLEAN
            BY DEF Terminals
        <3>3. QED BY <3>1, <3>2, BegunType
    <2>3. QED BY <2>1, <2>2
<1>5. CASE t.at = "csi"
    <2>1. \/ Shows(t, c) = [t EXCEPT !.at = "mode", !.ones = 0]
          \/ Shows(t, c) = [t EXCEPT !.at = "esc"]
          \/ Shows(t, c) = [t EXCEPT !.at = Text]
        BY <1>5 DEF Shows, Text
    <2>2. [t EXCEPT !.at = "mode", !.ones = 0] \in Terminals
        <3>1. 0 \in 0..2
            OBVIOUS
        <3>2. QED BY <3>1 DEF Terminals, Stations
    <2>3. [t EXCEPT !.at = "esc"] \in Terminals /\ [t EXCEPT !.at = Text] \in Terminals
        BY DEF Terminals, Stations, Text
    <2>4. QED BY <2>1, <2>2, <2>3, Zenon
<1>6. CASE t.at = "mode"
    <2>1. Shows(t, c) = InMode(t, c)
        BY <1>6 DEF Shows, Text
    <2>2. CASE c \in {"h", "l"}
        <3> DEFINE now == IF t.ones = 0 THEN t.on ELSE [t.on EXCEPT ![t.ones] = (c = "h")]
        <3>1. Shows(t, c) = [t EXCEPT !.at = Text, !.on = now]
            BY <2>1, <2>2 DEF InMode
        <3>2. now \in [1..2 -> BOOLEAN]
            BY DEF Terminals
        <3> HIDE DEF now
        <3>3. QED BY <3>1, <3>2 DEF Terminals, Stations, Text
    <2>3. CASE c \notin {"h", "l"}
        <3>1. \/ Shows(t, c) = [t EXCEPT !.at = Text]
              \/ t.ones # 2 /\ Shows(t, c) = [t EXCEPT !.ones = t.ones + 1]
              \/ Shows(t, c) = [t EXCEPT !.at = "esc"]
            BY <2>1, <2>3 DEF InMode, Terminals
        <3>2. QED BY <3>1 DEF Terminals, Stations, Text
    <2>4. QED BY <2>2, <2>3
<1>7. QED BY <1>1, <1>2, <1>3, <1>4, <1>5, <1>6 DEF Terminals, Stations

\* A terminal over a run of bytes is in a state after each.
LEMMA WatchedRuns ==
    ASSUME NEW t \in Terminals, NEW b \in Seq(Bytes)
    PROVE  /\ Watched(t, b) \in [0..Len(b) -> Terminals]
           /\ Watched(t, b)[0] = t
           /\ Follows(Watched(t, b), b)
<1>1. Len(b) \in Nat /\ \A k \in 1..Len(b) : b[k] \in Bytes
    OBVIOUS
<1>2. PICK F \in [1..Len(b) -> [Terminals -> Terminals]] :
            \A k \in 1..Len(b), u \in Terminals : F[k][u] = Shows(u, b[k])
    <2> DEFINE G == [k \in 1..Len(b) |-> [u \in Terminals |-> Shows(u, b[k])]]
    <2>1. G \in [1..Len(b) -> [Terminals -> Terminals]]
        BY <1>1, ShowsType
    <2>2. \A k \in 1..Len(b), u \in Terminals : G[k][u] = Shows(u, b[k])
        OBVIOUS
    <2> HIDE DEF G
    <2>3. QED BY <2>1, <2>2
<1>3. PICK g \in [0..Len(b) -> Terminals] : g[0] = t /\ \A k \in 1..Len(b) : g[k] = F[k][g[k - 1]]
    <2>1. F \in RoundsOf(Len(b), Terminals)
        BY DEF RoundsOf
    <2>2. PICK g : GoesOn(g, Len(b), Terminals, t, F)
        BY <1>1, <2>1, Recursion
    <2>3. QED BY <2>2 DEF GoesOn
<1>4. \A k \in 1..Len(b) : g[k] = Shows(g[k - 1], b[k])
    BY <1>1, <1>2, <1>3
<1>5. g = [k \in 0..Len(b) |-> IF k = 0 THEN t ELSE Shows(g[k - 1], b[k])]
    <2>1. g = [k \in 0..Len(b) |-> g[k]]
        OBVIOUS
    <2>2. \A k \in 0..Len(b) : g[k] = IF k = 0 THEN t ELSE Shows(g[k - 1], b[k])
        BY <1>1, <1>3, <1>4
    <2>3. QED BY <2>1, <2>2, Zenon
<1>6. Watched(t, b) = [k \in 0..Len(b) |-> IF k = 0 THEN t ELSE Shows(Watched(t, b)[k - 1], b[k])]
    BY <1>5, Zenon DEF Watched
<1> DEFINE W == Watched(t, b)
<1> HIDE DEF W
<1>7. W = [k \in 0..Len(b) |-> IF k = 0 THEN t ELSE Shows(W[k - 1], b[k])]
    BY <1>6 DEF W
<1>8. W[0] = t /\ \A k \in 1..Len(b) : W[k] = Shows(W[k - 1], b[k])
    BY <1>1, <1>7
<1> DEFINE A == {k \in 0..Len(b) : W[k] \in Terminals}
<1>9. 0 \in A /\ \A k \in 0..Len(b) : k # 0 /\ k - 1 \in A => k \in A
    BY <1>1, <1>8, ShowsType
<1>10. \A k \in 0..Len(b) : k \in A
    <2> HIDE DEF A
    <2>1. QED BY <1>1, <1>9, Climb
<1>11. W \in [0..Len(b) -> Terminals]
    <2>1. \A k \in 0..Len(b) : W[k] \in Terminals
        BY <1>10
    <2>2. W = [k \in 0..Len(b) |-> W[k]]
        BY <1>7
    <2>3. QED BY <2>1, <2>2, Zenon
<1>12. QED BY <1>8, <1>11 DEF W, Follows

-----------------------------------------------------------------------------
\* What a byte of a command does to a terminal, by where it is.
LEMMA SameTerminal ==
    ASSUME NEW t \in Terminals, NEW u \in Terminals,
           t.at = u.at, t.head = u.head, t.length = u.length, t.ones = u.ones, t.on = u.on,
           t.rang = u.rang, t.told = u.told, t.all = u.all, t.left = u.left
    PROVE  t = u
BY DEF Terminals

LEMMA ShowsText ==
    ASSUME NEW t \in Terminals, t.at = Text, NEW c \in Bytes
    PROVE  /\ c = ESC => Shows(t, c) = [t EXCEPT !.at = "esc"]
           /\ c = BEL => Shows(t, c) = [t EXCEPT !.rang = TRUE]
           /\ c \notin {ESC, BEL} => Shows(t, c) = t
<1>0. Shows(t, c) = InText(t, c)
    BY DEF Shows, Text
<1>1. CASE c = ESC
    BY <1>0, <1>1 DEF InText, ESC, BEL
<1>2. CASE c = BEL
    <2>1. InText(t, c) = [t EXCEPT !.rang = t.rang \/ TRUE]
        BY <1>2 DEF InText, ESC, BEL
    <2>2. InText(t, c) = [t EXCEPT !.rang = TRUE]
        BY <2>1, Zenon
    <2>3. QED BY <1>0, <2>2, <1>2 DEF ESC, BEL
<1>3. CASE c \notin {ESC, BEL}
    <2>1. InText(t, c) = [t EXCEPT !.rang = t.rang \/ c = BEL]
        BY <1>3 DEF InText
    <2>2. (t.rang \/ c = BEL) = t.rang
        BY <1>3 DEF Terminals
    <2>3. InText(t, c) = [t EXCEPT !.rang = t.rang]
        BY <2>1, <2>2
    <2>4. InText(t, c) = t
        BY <2>3 DEF Terminals
    <2>5. QED BY <1>0, <1>3, <2>4
<1>4. QED BY <1>1, <1>2, <1>3

LEMMA BegunIs ==
    ASSUME NEW t \in Terminals, NEW c \in OscBytes
    PROVE  /\ c = "]" => Begun(t, c) = [t EXCEPT !.at = "osc", !.head = "none", !.length = 2]
           /\ c = ESC => Begun(t, c) = [t EXCEPT !.at = "esc"]
           /\ c = BEL => Begun(t, c) = [t EXCEPT !.at = Text, !.rang = TRUE]
           /\ c \in {"\\", "9", "x"} => Begun(t, c) = [t EXCEPT !.at = Text]
<1>1. CASE c = "]"
    BY <1>1 DEF Begun, ESC, BEL
<1>2. CASE c = ESC
    BY <1>2 DEF Begun, ESC, BEL
<1>3. CASE c = BEL
    <2>1. Begun(t, c) = [t EXCEPT !.at = Text, !.rang = t.rang \/ TRUE]
        BY <1>3 DEF Begun, ESC, BEL
    <2>2. Begun(t, c) = [t EXCEPT !.at = Text, !.rang = TRUE]
        BY <2>1, Zenon
    <2>3. QED BY <2>2, <1>3 DEF ESC, BEL
<1>4. CASE c \in {"\\", "9", "x"}
    <2>1. Begun(t, c) = [t EXCEPT !.at = Text, !.rang = t.rang \/ c = BEL]
        BY <1>4 DEF Begun, ESC, BEL
    <2>2. (t.rang \/ c = BEL) = t.rang
        BY <1>4 DEF Terminals, BEL
    <2>3. Begun(t, c) = [t EXCEPT !.at = Text, !.rang = t.rang]
        BY <2>1, <2>2
    <2>4. [t EXCEPT !.at = Text, !.rang = t.rang] = [t EXCEPT !.at = Text]
        BY DEF Terminals
    <2>5. QED BY <1>4, <2>3, <2>4 DEF ESC, BEL
<1>5. QED BY <1>1, <1>2, <1>3, <1>4 DEF OscBytes

LEMMA ShowsEsc ==
    ASSUME NEW t \in Terminals, t.at = "esc", NEW c \in OscBytes
    PROVE  Shows(t, c) = Begun(t, c)
BY DEF Shows, Text

\* The end of a command, n bytes long.
EndsAs(t, n, u) ==
    /\ u \in Terminals /\ u.at = Text /\ u.rang = t.rang /\ u.left = t.left /\ u.on = t.on
    /\ u.all = t.all \o <<t.head>>
    /\ u.told = IF n <= MaxPending THEN t.told \o <<t.head>> ELSE t.told

LEMMA EndedIs ==
    ASSUME NEW t \in Terminals, NEW n \in Nat
    PROVE  EndsAs(t, n, Ended([t EXCEPT !.length = n]))
<1> DEFINE v == [t EXCEPT !.length = n]
<1>1. /\ v \in Terminals /\ v.at = t.at /\ v.rang = t.rang /\ v.left = t.left /\ v.on = t.on /\ v.length = n
      /\ v.all = t.all /\ v.told = t.told /\ v.head = t.head
    BY DEF Terminals
<1>2. Ended(v) \in Terminals
    BY EndedType
<1> HIDE DEF v
<1> DEFINE al == v.all \o <<v.head>>
           tl == IF v.length <= MaxPending THEN v.told \o <<v.head>> ELSE v.told
<1>3. Ended(v) = [v EXCEPT !.at = Text, !.all = al, !.told = tl]
    BY DEF Ended
<1> HIDE DEF al, tl
<1>4. /\ Ended(v).at = Text /\ Ended(v).rang = v.rang /\ Ended(v).left = v.left /\ Ended(v).on = v.on
      /\ Ended(v).all = al /\ Ended(v).told = tl
    BY <1>1, <1>3 DEF Terminals
<1>5. QED BY <1>1, <1>2, <1>4 DEF v, al, tl, EndsAs

GoesOnIn(t, c, u) ==
    /\ u.at = "osc" /\ u.rang = t.rang /\ u.told = t.told /\ u.all = t.all /\ u.left = t.left
    /\ u.on = t.on /\ u.ones = t.ones
    /\ u.head = IF t.length = 2 THEN c ELSE t.head
    /\ u.length = IF t.length > MaxPending THEN t.length ELSE t.length + 1

LEMMA ShowsOsc ==
    ASSUME NEW t \in Terminals, t.at = "osc", NEW c \in OscBytes
    PROVE  /\ c = BEL => EndsAs(t, t.length + 1, Shows(t, c))
           /\ c = ESC => Shows(t, c) = [t EXCEPT !.at = "oscEsc"]
           /\ c \notin {BEL, ESC} => GoesOnIn(t, c, Shows(t, c))
<1>1. Shows(t, c) = InOsc(t, c)
    BY DEF Shows, Text
<1>2. CASE c = BEL
    <2>1. PICK n \in Nat : n = t.length + 1
        BY DEF Terminals
    <2>2. Shows(t, c) = Ended([t EXCEPT !.length = n])
        BY <1>1, <1>2, <2>1 DEF InOsc, ESC, BEL
    <2>3. EndsAs(t, n, Ended([t EXCEPT !.length = n]))
        BY EndedIs
    <2>4. QED BY <1>2, <2>1, <2>2, <2>3 DEF ESC, BEL
<1>3. CASE c = ESC
    BY <1>1, <1>3 DEF InOsc, ESC, BEL
<1>4. CASE c \notin {BEL, ESC}
    <2> DEFINE hd == IF t.length = 2 THEN c ELSE t.head
               ln == IF t.length > MaxPending THEN t.length ELSE t.length + 1
    <2>1. Shows(t, c) = [t EXCEPT !.head = hd, !.length = ln]
        BY <1>1, <1>4 DEF InOsc
    <2> HIDE DEF hd, ln
    <2>2. Shows(t, c).head = hd /\ Shows(t, c).length = ln
        BY <2>1 DEF Terminals
    <2>3. GoesOnIn(t, c, Shows(t, c))
        BY <2>1, <2>2 DEF Terminals, GoesOnIn, hd, ln
    <2>4. QED BY <1>4, <2>3
<1>5. QED BY <1>2, <1>3, <1>4

LEMMA ShowsOscEsc ==
    ASSUME NEW t \in Terminals, t.at = "oscEsc", NEW c \in OscBytes
    PROVE  /\ c = "\\" => EndsAs(t, t.length + 2, Shows(t, c))
           /\ c # "\\" => Shows(t, c) = Begun([t EXCEPT !.left = t.left \/ t.length <= MaxPending], c)
<1>1. CASE c = "\\"
    <2>1. PICK n \in Nat : n = t.length + 2
        BY DEF Terminals
    <2>2. Shows(t, c) = Ended([t EXCEPT !.length = n])
        BY <1>1, <2>1 DEF Shows, Text
    <2>3. EndsAs(t, n, Ended([t EXCEPT !.length = n]))
        BY EndedIs
    <2>4. QED BY <1>1, <2>1, <2>2, <2>3
<1>2. CASE c # "\\"
    BY <1>2 DEF Shows, Text
<1>3. QED BY <1>1, <1>2

Spots == {Text, "esc", "osc", "oscEsc"}

\* No byte of a command changes a mode; what has been left stays left.
LEMMA ShowsStays ==
    ASSUME NEW t \in Terminals, t.at \in Spots, NEW c \in OscBytes
    PROVE  Shows(t, c).at \in Spots /\ Shows(t, c).on = t.on /\ (t.left => Shows(t, c).left)
<1>1. c \in Bytes
    BY DEF Bytes
<1>2. CASE t.at = Text
    BY <1>1, <1>2, ShowsText DEF Terminals, Spots
<1> DEFINE Fine(u) == Begun(u, c).at \in Spots /\ Begun(u, c).on = u.on /\ Begun(u, c).left = u.left
<1>3. ASSUME NEW u \in Terminals PROVE Fine(u)
    <2>1. Begun(u, c) = [u EXCEPT !.at = "osc", !.head = "none", !.length = 2] \/ Begun(u, c) = [u EXCEPT !.at = "esc"]
          \/ Begun(u, c) = [u EXCEPT !.at = Text, !.rang = TRUE] \/ Begun(u, c) = [u EXCEPT !.at = Text]
        BY BegunIs DEF OscBytes
    <2>2. QED BY <2>1 DEF Terminals, Spots
<1>4. CASE t.at = "esc"
    BY <1>3, <1>4, ShowsEsc
<1>5. CASE t.at = "osc"
    <2>1. CASE c = BEL
        <3>1. EndsAs(t, t.length + 1, Shows(t, c))
            BY <1>5, <2>1, ShowsOsc
        <3>2. QED BY <3>1 DEF EndsAs, Spots
    <2>2. CASE c = ESC
        <3>1. Shows(t, c) = [t EXCEPT !.at = "oscEsc"]
            BY <1>5, <2>2, ShowsOsc
        <3>2. QED BY <3>1 DEF Terminals, Spots
    <2>3. CASE c \notin {BEL, ESC}
        <3>1. GoesOnIn(t, c, Shows(t, c))
            BY <1>5, <2>3, ShowsOsc
        <3>2. QED BY <3>1 DEF GoesOnIn, Spots
    <2>4. QED BY <2>1, <2>2, <2>3
<1>6. CASE t.at = "oscEsc"
    <2>1. CASE c = "\\"
        <3>1. EndsAs(t, t.length + 2, Shows(t, c))
            BY <1>6, <2>1, ShowsOscEsc
        <3>2. QED BY <3>1 DEF EndsAs, Spots
    <2>2. CASE c # "\\"
        <3> DEFINE lf == t.left \/ t.length <= MaxPending
                   u == [t EXCEPT !.left = lf]
        <3>1. lf \in BOOLEAN /\ (t.left => lf)
            BY DEF Terminals
        <3>2. Shows(t, c) = Begun(u, c)
            BY <1>6, <2>2, ShowsOscEsc
        <3> HIDE DEF lf
        <3>3. u \in Terminals /\ u.left = lf /\ u.on = t.on
            BY <3>1 DEF Terminals
        <3> HIDE DEF u
        <3>4. Fine(u)
            BY <3>3, <1>3
        <3>5. QED BY <3>1, <3>2, <3>3, <3>4
    <2>3. QED BY <2>1, <2>2
<1>7. QED BY <1>2, <1>4, <1>5, <1>6 DEF Spots

LEMMA RunStays ==
    ASSUME NEW b \in Seq(OscBytes), NEW W \in [0..Len(b) -> Terminals], Follows(W, b), W[0].at \in Spots
    PROVE  \A k \in 0..Len(b) : W[k].at \in Spots /\ W[k].on = W[0].on /\ (~W[Len(b)].left => ~W[k].left)
<1>1. Len(b) \in Nat /\ \A k \in 1..Len(b) : b[k] \in OscBytes
    OBVIOUS
<1> DEFINE A == {k \in 0..Len(b) : W[k].at \in Spots /\ W[k].on = W[0].on}
<1>2. 0 \in A /\ \A k \in 0..Len(b) : k # 0 /\ k - 1 \in A => k \in A
    BY <1>1, ShowsStays DEF Follows
<1>3. \A k \in 0..Len(b) : k \in A
    <2> HIDE DEF A
    <2>1. QED BY <1>1, <1>2, Climb
<1>4. ASSUME NEW k \in 0..Len(b), W[k].left PROVE W[Len(b)].left
    <2> DEFINE C == {j \in k..Len(b) : W[j].left}
    <2>1. k \in C
        BY <1>4
    <2>2. ASSUME NEW j \in k..Len(b), j # k, j - 1 \in C PROVE j \in C
        <3>1. j \in 1..Len(b) /\ j - 1 \in 0..Len(b) /\ W[j - 1].left
            BY <2>2
        <3>2. W[j - 1].at \in Spots /\ W[j] = Shows(W[j - 1], b[j]) /\ b[j] \in OscBytes /\ W[j - 1] \in Terminals
            BY <3>1, <1>1, <1>3 DEF Follows
        <3>3. QED BY <3>1, <3>2, ShowsStays
    <2>3. \A j \in k..Len(b) : j # k /\ j - 1 \in C => j \in C
        BY <2>2
    <2>4. \A j \in k..Len(b) : j \in C
        <3> HIDE DEF C
        <3>1. k \in Nat
            OBVIOUS
        <3>2. QED BY <1>1, <2>1, <2>3, <3>1, Climb
    <2>5. Len(b) \in C
        BY <1>1, <2>4
    <2>6. QED BY <2>5
<1>5. \A k \in 0..Len(b) : W[k].at \in Spots /\ W[k].on = W[0].on
    BY <1>3
<1>6. \A k \in 0..Len(b) : W[k].left => W[Len(b)].left
    BY <1>4
<1>7. QED BY <1>5, <1>6

-----------------------------------------------------------------------------
\* How often x is in s.
LEMMA CountIs ==
    ASSUME NEW S, NEW s \in Seq(S), NEW x
    PROVE  Count(s, x) \in Nat
<1>1. IsFiniteSet(1..Len(s))
    BY FS_Interval
<1>2. {i \in DOMAIN s : s[i] = x} \subseteq 1..Len(s)
    OBVIOUS
<1>3. QED BY <1>1, <1>2, FS_Subset, FS_CardinalityType DEF Count

LEMMA CountMore ==
    ASSUME NEW S, NEW s \in Seq(S), NEW h \in S, NEW x
    PROVE  Count(s \o <<h>>, x) = Count(s, x) + IF h = x THEN 1 ELSE 0
<1> DEFINE T == {i \in DOMAIN s : s[i] = x}
           r == s \o <<h>>
           n == Len(s) + 1
<1>1. IsFiniteSet(T)
    <2>1. IsFiniteSet(1..Len(s)) /\ T \subseteq 1..Len(s)
        BY FS_Interval
    <2>2. QED BY <2>1, FS_Subset
<1>2. n \in Nat \ {0} /\ DOMAIN r = 1..n /\ r[n] = h /\ n \notin DOMAIN s /\ \A i \in DOMAIN s : r[i] = s[i] /\ i \in 1..n
    OBVIOUS
<1>3. \A i \in 1..n : i = n \/ i \in DOMAIN s
    OBVIOUS
<1> HIDE DEF r, n
<1>4. CASE h = x
    <2>1. {i \in DOMAIN r : r[i] = x} = T \cup {n}
        <3>1. \A i \in DOMAIN s : i # n /\ i \in DOMAIN r /\ (r[i] = x <=> i \in T)
            BY <1>2
        <3>2. n \in DOMAIN r /\ r[n] = x
            BY <1>2, <1>4
        <3>3. \A i \in DOMAIN r : i = n \/ i \in DOMAIN s
            BY <1>2, <1>3
        <3>4. T \subseteq DOMAIN s
            OBVIOUS
        <3> HIDE DEF T
        <3>5. QED BY <3>1, <3>2, <3>3, <3>4
    <2>2. n \notin T
        BY <1>2
    <2>3. Cardinality(T \cup {n}) = Cardinality(T) + 1
        BY <1>1, <2>2, FS_AddElement
    <2>4. QED BY <2>1, <2>3, <1>4 DEF Count, r
<1>5. CASE h # x
    <2>1. {i \in DOMAIN r : r[i] = x} = T
        BY <1>2, <1>3, <1>5
    <2>2. Count(s, x) \in Nat
        BY CountIs
    <2>3. Count(r, x) = Count(s, x)
        BY <2>1 DEF Count
    <2>4. QED BY <2>2, <2>3, <1>5 DEF r
<1>6. QED BY <1>4, <1>5

\* Two terminals are alike in all that is not about the command they are in.
Alike(t, u) ==
    t.rang = u.rang /\ t.told = u.told /\ t.all = u.all /\ t.left = u.left /\ t.on = u.on /\ t.ones = u.ones

LEMMA HeardAlike ==
    ASSUME NEW s, NEW r, NEW t, NEW u, Heard(s, t), r.bell = s.bell, r.told = s.told, Alike(t, u)
    PROVE  Heard(r, u)
BY DEF Heard, Alike

\* A bell outside a command.
LEMMA HeardBell ==
    ASSUME NEW s, NEW r, NEW t, NEW u, Heard(s, t), r.bell = TRUE, r.told = s.told,
           u.rang = TRUE, u.told = t.told, u.all = t.all
    PROVE  Heard(r, u)
BY DEF Heard

\* A command that is told, and one that is too long to be told.
LEMMA HeardTold ==
    ASSUME NEW s, NEW r, NEW t \in Terminals, NEW n \in Nat, NEW u, Heard(s, t), EndsAs(t, n, u),
           s.told \in Seq(Heads), s.bell \in BOOLEAN,
           r.told = s.told \o <<t.head>>, r.bell = (s.bell \/ t.head = "9")
    PROVE  Heard(r, u)
<1>1. t.head \in Heads /\ t.told \in Seq(Heads) /\ t.all \in Seq(Heads)
    BY DEF Terminals
<1>2. \A h : /\ Count(s.told, h) \in Nat /\ Count(t.told, h) \in Nat /\ Count(t.all, h) \in Nat
             /\ Count(r.told, h) = Count(s.told, h) + IF t.head = h THEN 1 ELSE 0
             /\ Count(u.all, h) = Count(t.all, h) + IF t.head = h THEN 1 ELSE 0
    BY <1>1, CountIs, CountMore DEF EndsAs
<1>3. \A h : Count(u.told, h) = Count(t.told, h) + (IF t.head = h THEN 1 ELSE 0) \/ Count(u.told, h) = Count(t.told, h)
    BY <1>1, CountMore DEF EndsAs
<1>4. ASSUME NEW h \in Counted PROVE Count(r.told, h) \in Count(u.told, h)..Count(u.all, h)
    <2>1. Count(s.told, h) \in Count(t.told, h)..Count(t.all, h)
        BY DEF Heard
    <2>2. /\ Count(s.told, h) \in Nat /\ Count(t.told, h) \in Nat /\ Count(t.all, h) \in Nat
          /\ Count(r.told, h) = Count(s.told, h) + IF t.head = h THEN 1 ELSE 0
          /\ Count(u.all, h) = Count(t.all, h) + IF t.head = h THEN 1 ELSE 0
        BY <1>2
    <2>3. Count(u.told, h) = Count(t.told, h) + (IF t.head = h THEN 1 ELSE 0) \/ Count(u.told, h) = Count(t.told, h)
        BY <1>3
    <2>4. QED BY <2>1, <2>2, <2>3
<1>5. u.rang = t.rang
    BY DEF EndsAs
<1>6. u.rang \/ Count(u.told, "9") > 0 => r.bell
    <2>1. Count(u.told, "9") = Count(t.told, "9") \/ t.head = "9"
        <3>1. Count(t.told, "9") \in Nat
            BY <1>2
        <3>2. t.head # "9" => (IF t.head = "9" THEN 1 ELSE 0) = 0
            OBVIOUS
        <3>3. QED BY <1>3, <3>1, <3>2
    <2>2. t.rang \/ Count(t.told, "9") > 0 => s.bell
        BY DEF Heard
    <2>3. QED BY <1>5, <2>1, <2>2
<1>7. r.bell => u.rang \/ Count(u.all, "9") > 0
    BY <1>2, <1>5 DEF Heard
<1>8. QED BY <1>4, <1>6, <1>7 DEF Heard

LEMMA HeardSkipped ==
    ASSUME NEW s, NEW r, NEW t \in Terminals, NEW n \in Nat, NEW u, Heard(s, t), EndsAs(t, n, u), n > MaxPending,
           s.told \in Seq(Heads), r.told = s.told, r.bell = s.bell
    PROVE  Heard(r, u)
<1>1. t.head \in Heads /\ t.told \in Seq(Heads) /\ t.all \in Seq(Heads) /\ MaxPending \in Nat
    BY ScannersAssumption DEF Terminals
<1>2. u.told = t.told /\ u.rang = t.rang
    BY <1>1 DEF EndsAs
<1>3. \A h : /\ Count(s.told, h) \in Nat /\ Count(t.told, h) \in Nat /\ Count(t.all, h) \in Nat
             /\ Count(u.all, h) = Count(t.all, h) + IF t.head = h THEN 1 ELSE 0
    BY <1>1, CountIs, CountMore DEF EndsAs
<1>4. \A h \in Counted : Count(r.told, h) \in Count(u.told, h)..Count(u.all, h)
    BY <1>2, <1>3 DEF Heard
<1>5. u.rang \/ Count(u.told, "9") > 0 => r.bell
    BY <1>2, <1>3 DEF Heard
<1>6. r.bell => u.rang \/ Count(u.all, "9") > 0
    BY <1>2, <1>3 DEF Heard
<1>7. QED BY <1>4, <1>5, <1>6 DEF Heard

-----------------------------------------------------------------------------
\* Where a command ends.
LEMMA LeastIs ==
    ASSUME NEW T \in SUBSET Nat, T # {}
    PROVE  Least(T) \in T /\ \A j \in T : Least(T) <= j
BY LeastOf, Zenon DEF Least

LEMMA NotEmpty ==
    ASSUME NEW S, NEW p \in Seq(S), Len(p) > 0
    PROVE  p # <<>>
OBVIOUS

EndsAt(b, i, j, e) ==
    /\ Quiet(b, i + 2, j - 1) /\ Head1(PayloadOf(b, i)) = IF j = i + 2 THEN "none" ELSE b[i + 2]
    /\ \/ b[j] = BEL /\ e = j
       \/ b[j] = ESC /\ j < Len(b) /\ b[j + 1] = "\\" /\ e = j + 1
BreaksOff(b, i, j) == Quiet(b, i + 2, j - 1) /\ b[j] = ESC /\ (j < Len(b) => b[j + 1] # "\\")

LEMMA EndOfIs ==
    ASSUME NEW b \in Seq(OscBytes), NEW i \in 1..Len(b)
    PROVE  /\ EndOf(b, i) = 0 => \/ Quiet(b, i + 2, Len(b))
                                 \/ \E j \in (i + 2)..Len(b) : BreaksOff(b, i, j)
           /\ EndOf(b, i) # 0 => \E j \in (i + 2)..Len(b) : EndsAt(b, i, j, EndOf(b, i))
<1> DEFINE E == OscEnds(b, i)
           j == Least(E)
<1>1. CASE E = {}
    <2>1. EndOf(b, i) = 0
        BY <1>1 DEF EndOf
    <2>2. Quiet(b, i + 2, Len(b))
        BY <1>1 DEF OscEnds, Quiet
    <2>3. QED BY <2>1, <2>2
<1>2. CASE E # {}
    <2>1. j \in E /\ \A k \in E : j <= k
        <3>1. E \in SUBSET Nat
            BY DEF OscEnds
        <3> HIDE DEF E
        <3>2. QED BY <1>2, <3>1, LeastIs
    <2>2. j \in (i + 2)..Len(b) /\ b[j] \in {BEL, ESC}
        BY <2>1 DEF OscEnds
    <2>3. Quiet(b, i + 2, j - 1)
        <3> SUFFICES ASSUME NEW k \in (i + 2)..(j - 1) PROVE b[k] \notin {BEL, ESC}
            BY DEF Quiet
        <3>1. k \in (i + 2)..Len(b) /\ k < j
            BY <2>2
        <3>2. k \notin E
            BY <3>1, <2>1, <2>2
        <3>3. QED BY <3>1, <3>2 DEF OscEnds
    <2>4. EndOf(b, i) = IF b[j] = BEL THEN j ELSE IF ByteAt(b, j + 1) = "\\" THEN j + 1 ELSE 0
        BY <1>2, Zenon DEF EndOf
    <2>5. Head1(PayloadOf(b, i)) = IF j = i + 2 THEN "none" ELSE b[i + 2]
        <3>1. PayloadOf(b, i) = SubSeq(b, i + 2, j - 1)
            BY DEF PayloadOf
        <3> HIDE DEF j
        <3>2. CASE j = i + 2
            <4>1. SubSeq(b, i + 2, j - 1) = <<>>
                BY <2>2, <3>2
            <4>2. QED BY <3>1, <3>2, <4>1 DEF Head1
        <3>3. CASE j # i + 2
            <4>1. Len(SubSeq(b, i + 2, j - 1)) = j - i - 2 /\ j - i - 2 > 0
                BY <2>2, <3>3
            <4>2. SubSeq(b, i + 2, j - 1)[1] = b[i + 2]
                BY <2>2, <3>3
            <4>3. SubSeq(b, i + 2, j - 1) # <<>>
                <5>1. SubSeq(b, i + 2, j - 1) \in Seq(OscBytes)
                    BY <2>2
                <5>2. QED BY <4>1, <5>1, NotEmpty
            <4>4. QED BY <3>1, <3>3, <4>2, <4>3 DEF Head1
        <3>4. QED BY <3>2, <3>3
    <2> HIDE DEF j
    <2>6. ByteAt(b, j + 1) = "\\" <=> j < Len(b) /\ b[j + 1] = "\\"
        BY <2>2 DEF ByteAt
    <2>7. EndOf(b, i) = 0 => BreaksOff(b, i, j)
        BY <2>2, <2>3, <2>4, <2>6 DEF BreaksOff
    <2>8. EndOf(b, i) # 0 => EndsAt(b, i, j, EndOf(b, i))
        BY <2>2, <2>3, <2>4, <2>5, <2>6 DEF EndsAt, ESC, BEL
    <2>9. QED BY <2>2, <2>7, <2>8
<1>3. QED BY <1>1, <1>2
-----------------------------------------------------------------------------
\* Outside a command that is being kept, and what a byte does there.
Ready(t) == t.at \in {Text, "esc"} \/ (t.at = "oscEsc" /\ t.length > MaxPending)
AlikeAll(t, u) == Alike(t, u) /\ t.head = u.head /\ t.length = u.length

LEMMA NothingLeft ==
    ASSUME NEW t \in Terminals, Ready(t), t.at # Text, NEW c \in OscBytes, t.at = "oscEsc" => c # "\\"
    PROVE  Shows(t, c) = Begun(t, c)
<1>1. CASE t.at = "esc"
    BY <1>1, ShowsEsc
<1>2. CASE t.at = "oscEsc"
    <2>1. Shows(t, c) = Begun([t EXCEPT !.left = t.left \/ t.length <= MaxPending], c)
        BY <1>2, ShowsOscEsc
    <2>2. MaxPending \in Nat /\ t.length \in Nat /\ t.length > MaxPending
        BY <1>2, ScannersAssumption DEF Terminals, Ready, Text
    <2>3. (t.left \/ t.length <= MaxPending) = t.left
        BY <2>2 DEF Terminals
    <2>4. [t EXCEPT !.left = t.left] = t
        BY DEF Terminals
    <2>5. QED BY <2>1, <2>3, <2>4
<1>3. QED BY <1>1, <1>2 DEF Ready

LEMMA Escapes ==
    ASSUME NEW t \in Terminals, Ready(t)
    PROVE  Shows(t, ESC).at = "esc" /\ AlikeAll(t, Shows(t, ESC))
<1>1. ESC \in Bytes /\ ESC \in OscBytes /\ ESC # "\\"
    BY DEF Bytes, OscBytes, ESC
<1>2. Shows(t, ESC) = [t EXCEPT !.at = "esc"]
    <2>1. CASE t.at = Text
        BY <2>1, <1>1, ShowsText
    <2>2. CASE t.at # Text
        <3>1. Begun(t, ESC) = [t EXCEPT !.at = "esc"]
            BY <1>1, BegunIs
        <3>2. Shows(t, ESC) = Begun(t, ESC)
            BY <2>2, <1>1, NothingLeft
        <3>3. QED BY <3>1, <3>2
    <2>3. QED BY <2>1, <2>2
<1>3. QED BY <1>2 DEF Terminals, Alike, AlikeAll

LEMMA Opens ==
    ASSUME NEW t \in Terminals, Ready(t), t.at # Text
    PROVE  /\ Shows(t, "]").at = "osc" /\ Shows(t, "]").head = "none" /\ Shows(t, "]").length = 2
           /\ Alike(t, Shows(t, "]"))
<1>1. Shows(t, "]") = Begun(t, "]")
    BY NothingLeft DEF OscBytes
<1>2. Begun(t, "]") = [t EXCEPT !.at = "osc", !.head = "none", !.length = 2]
    BY BegunIs DEF OscBytes
<1>3. PICK u : u = [t EXCEPT !.at = "osc", !.head = "none", !.length = 2]
    OBVIOUS
<1>4. u.at = "osc" /\ u.head = "none" /\ u.length = 2
    BY <1>3 DEF Terminals
<1>5. Alike(t, u)
    BY <1>3 DEF Terminals, Alike
<1>6. QED BY <1>1, <1>2, <1>3, <1>4, <1>5

LEMMA Rings ==
    ASSUME NEW t \in Terminals, Ready(t)
    PROVE  /\ Shows(t, BEL).at = Text /\ Shows(t, BEL).rang = TRUE
           /\ Shows(t, BEL).told = t.told /\ Shows(t, BEL).all = t.all
<1>1. BEL \in Bytes /\ BEL \in OscBytes /\ BEL # "\\"
    BY DEF Bytes, OscBytes, BEL
<1>2. CASE t.at = Text
    <2>1. Shows(t, BEL) = [t EXCEPT !.rang = TRUE]
        BY <1>2, <1>1, ShowsText
    <2>2. QED BY <1>2, <2>1 DEF Terminals
<1>3. CASE t.at # Text
    <2>1. Shows(t, BEL) = Begun(t, BEL)
        BY <1>1, <1>3, NothingLeft
    <2>2. Begun(t, BEL) = [t EXCEPT !.at = Text, !.rang = TRUE]
        BY <1>1, BegunIs
    <2>3. QED BY <2>1, <2>2 DEF Terminals
<1>4. QED BY <1>2, <1>3

LEMMA PassesBy ==
    ASSUME NEW t \in Terminals, Ready(t), NEW c \in OscBytes, c \notin {ESC, BEL},
           t.at # Text => c # "]", t.at = "oscEsc" => c # "\\"
    PROVE  Shows(t, c).at = Text /\ AlikeAll(t, Shows(t, c))
<1>1. CASE t.at = Text
    <2>1. Shows(t, c) = t
        BY <1>1, ShowsText DEF Bytes
    <2>2. QED BY <1>1, <2>1 DEF Alike, AlikeAll
<1>2. CASE t.at # Text
    <2>1. Shows(t, c) = Begun(t, c)
        BY <1>2, NothingLeft
    <2>2. c \in {"\\", "9", "x"}
        BY <1>2 DEF OscBytes
    <2>3. Begun(t, c) = [t EXCEPT !.at = Text]
        BY <2>2, BegunIs
    <2>4. QED BY <2>1, <2>3 DEF Terminals, Alike, AlikeAll
<1>3. QED BY <1>1, <1>2

\* A terminal goes through the bytes of commands and gives up none that could be kept.
Watching(b, W) ==
    /\ b \in Seq(OscBytes) /\ W \in [0..Len(b) -> Terminals] /\ Follows(W, b)
    /\ W[0].at \in Spots /\ ~W[Len(b)].left

LEMMA WatchingIs ==
    ASSUME NEW b, NEW W, Watching(b, W)
    PROVE  /\ Len(b) \in Nat
           /\ \A k \in 1..Len(b) : W[k] = Shows(W[k - 1], b[k]) /\ b[k] \in OscBytes
           /\ \A k \in 0..Len(b) : W[k] \in Terminals /\ W[k].at \in Spots /\ ~W[k].left /\ W[k].on = W[0].on
<1>1. b \in Seq(OscBytes) /\ W \in [0..Len(b) -> Terminals] /\ Follows(W, b) /\ W[0].at \in Spots
    BY DEF Watching
<1>2. \A k \in 0..Len(b) : W[k].at \in Spots /\ W[k].on = W[0].on /\ (~W[Len(b)].left => ~W[k].left)
    BY <1>1, RunStays
<1>3. QED BY <1>1, <1>2 DEF Watching, Follows

\* The same, whatever it gives up.
Stepping(b, W) == b \in Seq(OscBytes) /\ W \in [0..Len(b) -> Terminals] /\ Follows(W, b)

LEMMA SteppingIs ==
    ASSUME NEW b, NEW W, Stepping(b, W)
    PROVE  /\ Len(b) \in Nat
           /\ \A k \in 1..Len(b) : W[k] = Shows(W[k - 1], b[k]) /\ b[k] \in OscBytes
           /\ \A k \in 0..Len(b) : W[k] \in Terminals
BY DEF Stepping, Follows

\* In a command since i, with no end in sight.
Inwards(b, W, i, m) ==
    /\ W[m].at = "osc" /\ Alike(W[i + 1], W[m])
    /\ W[m].head = IF m = i + 1 THEN "none" ELSE b[i + 2]
    /\ W[m].length = IF m - i + 1 > MaxPending THEN MaxPending + 1 ELSE m - i + 1

LEMMA CommandRun ==
    ASSUME NEW b, NEW W, Stepping(b, W), NEW i \in 1..(Len(b) - 1), NEW m \in (i + 1)..Len(b),
           W[i + 1].at = "osc", W[i + 1].head = "none", W[i + 1].length = 2, Quiet(b, i + 2, m)
    PROVE  Inwards(b, W, i, m)
<1>1. Len(b) \in Nat /\ MaxPending \in Nat /\ MaxPending >= 2
    BY SteppingIs, ScannersAssumption
<1> DEFINE A == {k \in (i + 1)..m : Inwards(b, W, i, k)}
<1>2. i + 1 \in A
    BY <1>1 DEF Inwards, Alike
<1>3. ASSUME NEW k \in (i + 1)..m, k # i + 1, k - 1 \in A PROVE k \in A
    <2>1. k \in 1..Len(b) /\ k \in (i + 2)..m /\ k - 1 \in 0..Len(b) /\ Inwards(b, W, i, k - 1)
        BY <1>1, <1>3
    <2>2. b[k] \notin {BEL, ESC}
        BY <2>1 DEF Quiet
    <2>3. W[k] = Shows(W[k - 1], b[k]) /\ b[k] \in OscBytes /\ W[k - 1] \in Terminals /\ W[k - 1].at = "osc"
        BY <2>1, SteppingIs DEF Inwards
    <2>4. GoesOnIn(W[k - 1], b[k], W[k])
        BY <2>2, <2>3, ShowsOsc
    <2>5. W[k].at = "osc" /\ Alike(W[i + 1], W[k])
        BY <2>1, <2>4 DEF GoesOnIn, Inwards, Alike
    <2>6. W[k].length = IF k - i + 1 > MaxPending THEN MaxPending + 1 ELSE k - i + 1
        BY <1>1, <2>1, <2>4 DEF GoesOnIn, Inwards
    <2>7. W[k].head = b[i + 2]
        <3>1. CASE k = i + 2
            <4>1. k - 1 = i + 1
                BY <3>1
            <4>2. W[k - 1].length = 2
                BY <4>1
            <4>3. QED BY <4>2, <3>1, <2>4 DEF GoesOnIn
        <3>2. CASE k # i + 2
            <4>1. W[k - 1].head = b[i + 2] /\ k - 1 >= i + 2
                BY <2>1, <3>2 DEF Inwards
            <4>2. W[k - 1].length # 2
                BY <4>1, <2>1, <1>1 DEF Inwards
            <4>3. QED BY <4>1, <4>2, <2>4 DEF GoesOnIn
        <3>3. QED BY <3>1, <3>2
    <2>8. QED BY <2>1, <2>5, <2>6, <2>7 DEF Inwards
<1>4. \A k \in (i + 1)..m : k # i + 1 /\ k - 1 \in A => k \in A
    BY <1>3
<1>5. \A k \in (i + 1)..m : k \in A
    <2> HIDE DEF A
    <2>1. i + 1 \in Nat /\ m \in Nat
        BY <1>1
    <2>2. QED BY <1>2, <1>4, <2>1, Climb
<1>6. m \in A
    BY <1>5
<1>7. QED BY <1>6

\* An ESC that begins no command, and what comes after it.
LEMMA DanglingRun ==
    ASSUME NEW b, NEW W, Stepping(b, W), NEW i \in 1..Len(b), NEW m \in i..Len(b), W[i - 1].at = Text,
           b[i] = ESC, Quiet(b, i + 1, m), i < m => b[i + 1] # "]"
    PROVE  W[m].at = (IF m = i THEN "esc" ELSE Text) /\ AlikeAll(W[i - 1], W[m])
<1>1. Len(b) \in Nat
    BY SteppingIs
<1> DEFINE Idles(k) == W[k].at = (IF k = i THEN "esc" ELSE Text) /\ AlikeAll(W[i - 1], W[k])
           A == {k \in i..m : Idles(k)}
<1>2. i \in A
    <2>1. W[i] = Shows(W[i - 1], ESC) /\ W[i - 1] \in Terminals /\ Ready(W[i - 1])
        BY SteppingIs DEF Ready
    <2>2. QED BY <2>1, Escapes
<1>3. ASSUME NEW k \in i..m, k # i, k - 1 \in A PROVE k \in A
    <2>1. k \in 1..Len(b) /\ k - 1 \in 0..Len(b) /\ k \in (i + 1)..m /\ Idles(k - 1)
        BY <1>1, <1>3
    <2>2. W[k] = Shows(W[k - 1], b[k]) /\ b[k] \in OscBytes /\ W[k - 1] \in Terminals /\ b[k] \notin {ESC, BEL}
        BY <2>1, SteppingIs DEF Quiet
    <2>3. Ready(W[k - 1]) /\ W[k - 1].at # "oscEsc" /\ (W[k - 1].at # Text => b[k] # "]")
        <3>1. CASE k - 1 = i
            BY <2>1, <3>1 DEF Ready, Text
        <3>2. CASE k - 1 # i
            BY <2>1, <3>2 DEF Ready, Text
        <3>3. QED BY <3>1, <3>2
    <2>4. W[k].at = Text /\ AlikeAll(W[k - 1], W[k])
        BY <2>2, <2>3, PassesBy
    <2>5. AlikeAll(W[i - 1], W[k])
        BY <2>1, <2>4 DEF AlikeAll, Alike
    <2>6. QED BY <1>3, <2>4, <2>5
<1>4. \A k \in i..m : k # i /\ k - 1 \in A => k \in A
    BY <1>3
<1>5. \A k \in i..m : k \in A
    <2> HIDE DEF A
    <2>1. i \in Nat /\ m \in Nat
        BY <1>1
    <2>2. QED BY <1>2, <1>4, <2>1, Climb
<1>6. m \in A
    BY <1>5
<1>7. QED BY <1>6

-----------------------------------------------------------------------------
(* The scanner of commands, a round at a time. *)

Scans == [i : Nat \ {0}, consumed : Nat, stop : BOOLEAN, pending : Seq(OscBytes), skipping : BOOLEAN,
          bell : BOOLEAN, told : Seq(Heads)]

\* r is s with n - 1 bytes done with.
ConsumedTo(s, n, r) ==
    /\ r \in Scans /\ r.i = n /\ r.consumed = n - 1 /\ r.stop = s.stop /\ r.pending = s.pending

LEMMA ConsumeIs ==
    ASSUME NEW s \in Scans, NEW n \in Nat \ {0}
    PROVE  /\ ConsumedTo(s, n, Consume(s, n))
           /\ Consume(s, n).skipping = s.skipping /\ Consume(s, n).bell = s.bell /\ Consume(s, n).told = s.told
<1>1. n - 1 \in Nat /\ Consume(s, n) = [s EXCEPT !.i = n, !.consumed = n - 1]
    BY DEF Consume
<1>2. QED BY <1>1 DEF Scans, ConsumedTo

LEMMA KeepIs ==
    ASSUME NEW b \in Seq(OscBytes), NEW s \in Scans
    PROVE  /\ Keep(b, s) \in Scans /\ Keep(b, s).i = s.i /\ Keep(b, s).consumed = s.consumed
           /\ Keep(b, s).stop = TRUE /\ Keep(b, s).pending = From(b, s.i) /\ Keep(b, s).skipping = s.skipping
           /\ Keep(b, s).bell = s.bell /\ Keep(b, s).told = s.told
<1>1. s.i \in Nat \ {0}
    BY DEF Scans
<1>2. From(b, s.i) \in Seq(OscBytes)
    BY <1>1 DEF From
<1>3. QED BY <1>2 DEF Keep, Scans

\* The rounds of ScanByte.
ByteRings(b, s, r) ==
    /\ b[s.i] = BEL /\ ConsumedTo(s, s.i + 1, r)
    /\ r.skipping = s.skipping /\ r.bell = TRUE /\ r.told = s.told
BytePasses(b, s, r) ==
    /\ b[s.i] # BEL /\ (b[s.i] = ESC /\ s.i < Len(b) => b[s.i + 1] # "]")
    /\ r \in Scans /\ r.i = s.i + 1 /\ r.consumed = s.consumed /\ r.stop = s.stop /\ r.pending = s.pending
    /\ r.skipping = s.skipping /\ r.bell = s.bell /\ r.told = s.told
Command(b, s) == s.i < Len(b) /\ b[s.i] = ESC /\ b[s.i + 1] = "]"
CommandTold(b, s, r) ==
    LET e == EndOf(b, s.i) IN
    /\ Command(b, s) /\ e # 0 /\ ConsumedTo(s, e + 1, r) /\ r.skipping = s.skipping
    /\ r.told = s.told \o <<Head1(PayloadOf(b, s.i))>>
    /\ r.bell = (s.bell \/ Head1(PayloadOf(b, s.i)) = "9")
CommandKept(b, s, r) ==
    /\ Command(b, s) /\ EndOf(b, s.i) = 0 /\ Len(b) - s.i + 1 <= MaxPending /\ r = Keep(b, s)
CommandThrown(b, s, r) ==
    /\ Command(b, s) /\ EndOf(b, s.i) = 0 /\ Len(b) - s.i + 1 > MaxPending /\ ConsumedTo(s, s.i + 1, r)
    /\ r.skipping = TRUE /\ r.bell = s.bell /\ r.told = s.told

LEMMA ScanByteIs ==
    ASSUME NEW b \in Seq(OscBytes), NEW s \in Scans, s.i <= Len(b)
    PROVE  LET r == ScanByte(b, s) IN
           ByteRings(b, s, r) \/ BytePasses(b, s, r) \/ CommandTold(b, s, r) \/ CommandKept(b, s, r) \/ CommandThrown(b, s, r)
<1> DEFINE r == ScanByte(b, s)
           e == EndOf(b, s.i)
           c == Consume(s, s.i + 1)
<1>1. s.i \in 1..Len(b) /\ s.i + 1 \in Nat \ {0} /\ Len(b) \in Nat /\ BEL # ESC
    BY DEF Scans, BEL, ESC
<1>2. ByteAt(b, s.i + 1) = "]" <=> s.i < Len(b) /\ b[s.i + 1] = "]"
    BY <1>1 DEF ByteAt
<1>3. /\ ConsumedTo(s, s.i + 1, c) /\ c.skipping = s.skipping /\ c.bell = s.bell /\ c.told = s.told
    BY <1>1, ConsumeIs
<1>4. CASE b[s.i] = BEL
    <2>1. r = [c EXCEPT !.bell = TRUE]
        BY <1>4 DEF ScanByte
    <2> HIDE DEF c
    <2>2. ByteRings(b, s, r)
        BY <1>3, <1>4, <2>1 DEF ConsumedTo, Scans, ByteRings
    <2>3. QED BY <2>2
<1>5. CASE b[s.i] # BEL /\ (b[s.i] # ESC \/ ByteAt(b, s.i + 1) # "]")
    <2>1. r = [s EXCEPT !.i = s.i + 1]
        BY <1>5 DEF ScanByte
    <2>2. BytePasses(b, s, r)
        BY <1>1, <1>2, <1>5, <2>1 DEF Scans, BytePasses
    <2>3. QED BY <2>2
<1>6. CASE b[s.i] # BEL /\ b[s.i] = ESC /\ ByteAt(b, s.i + 1) = "]"
    <2>1. Command(b, s)
        BY <1>2, <1>6 DEF Command
    <2>2. CASE e # 0
        <3>1. e \in Nat \ {0} /\ e + 1 \in Nat \ {0} /\ Head1(PayloadOf(b, s.i)) \in Heads
            <4>1. PICK j \in (s.i + 2)..Len(b) : EndsAt(b, s.i, j, e)
                BY <1>1, <2>2, EndOfIs
            <4>2. e \in Nat \ {0}
                BY <4>1, <1>1 DEF EndsAt
            <4>3. s.i + 2 \in 1..Len(b)
                BY <1>1, <4>1
            <4>4. b[s.i + 2] \in Heads
                BY <4>3 DEF Heads, Bytes
            <4>5. Head1(PayloadOf(b, s.i)) \in Heads
                BY <4>1, <4>4 DEF EndsAt, Heads
            <4>6. QED BY <4>2, <4>5
        <3> DEFINE h == Head1(PayloadOf(b, s.i))
                   d == Consume(s, e + 1)
                   tl == s.told \o <<h>>
                   bl == s.bell \/ h = "9"
        <3>2. ConsumedTo(s, e + 1, d) /\ d.skipping = s.skipping /\ d.bell = s.bell /\ d.told = s.told
            BY <3>1, ConsumeIs
        <3>3. tl \in Seq(Heads) /\ bl \in BOOLEAN
            BY <3>1, AppendsIs DEF Scans
        <3>4. r = [d EXCEPT !.told = d.told \o <<h>>, !.bell = d.bell \/ h = "9"]
            BY <1>6, <2>2 DEF ScanByte
        <3>5. r = [d EXCEPT !.told = tl, !.bell = bl]
            BY <3>2, <3>4
        <3> HIDE DEF d, tl, bl
        <3>6. ConsumedTo(s, e + 1, r) /\ r.skipping = s.skipping /\ r.told = tl /\ r.bell = bl
            BY <3>2, <3>3, <3>5 DEF ConsumedTo, Scans
        <3>7. CommandTold(b, s, r)
            BY <2>1, <2>2, <3>6 DEF CommandTold, tl, bl
        <3>8. QED BY <3>7
    <2>3. CASE e = 0 /\ Len(b) - s.i + 1 <= MaxPending
        <3>1. r = Keep(b, s)
            BY <1>6, <2>3 DEF ScanByte
        <3>2. CommandKept(b, s, r)
            BY <2>1, <2>3, <3>1 DEF CommandKept
        <3>3. QED BY <3>2
    <2>4. CASE e = 0 /\ Len(b) - s.i + 1 > MaxPending
        <3>1. r = [c EXCEPT !.skipping = TRUE]
            BY <1>6, <2>4, <1>1, ScannersAssumption DEF ScanByte
        <3> HIDE DEF c
        <3>2. ConsumedTo(s, s.i + 1, r) /\ r.skipping = TRUE /\ r.bell = s.bell /\ r.told = s.told
            BY <1>3, <3>1 DEF ConsumedTo, Scans
        <3>3. CommandThrown(b, s, r)
            BY <2>1, <2>4, <3>2 DEF CommandThrown
        <3>4. QED BY <3>3
    <2>5. QED BY <2>2, <2>3, <2>4, <1>1, ScannersAssumption
<1>7. QED BY <1>4, <1>5, <1>6

\* An ESC that comes after what is done with, and after no command that could be kept.
AtEscape(b, W, n, s) ==
    /\ Watching(b, W) /\ n \in 0..Len(b) /\ Len(b) - n <= MaxRead
    /\ s \in Scans /\ s.i \in 1..Len(b) /\ s.consumed \in 0..(s.i - 1) /\ ~s.stop /\ ~s.skipping /\ s.pending = <<>>
    /\ Tidy(b, s) /\ Bounded(b, s, n)
    /\ b[s.i] = ESC /\ Heard(s, W[s.i]) /\ W[s.i].at # Text /\ Ready(W[s.i])
    /\ W[s.i].at = "oscEsc" => s.i < Len(b) /\ b[s.i + 1] # "\\"

\* A command that was pending ends in the bytes that are new.
LEMMA EndsLate ==
    ASSUME NEW b \in Seq(OscBytes), NEW n \in 0..Len(b), Unfinished(SubSeq(b, 1, n)),
           NEW j \in 3..Len(b), b[j] \in {BEL, ESC}
    PROVE  j >= n /\ (b[j] = BEL => j > n)
<1> DEFINE p == SubSeq(b, 1, n)
<1>1. Len(p) = n /\ \A k \in 1..n : p[k] = b[k]
    OBVIOUS
<1> HIDE DEF p
<1>2. n \in Nat /\ n >= 2 /\ (\A k \in 3..(n - 1) : p[k] \notin {BEL, ESC}) /\ p[n] # BEL
    BY <1>1 DEF Unfinished, Quiet, p
<1>3. j >= n
    BY <1>1, <1>2
<1>4. b[j] = BEL => j # n
    BY <1>1, <1>2
<1>5. QED BY <1>2, <1>3, <1>4

\* The terminal at the beginning of a command, and further in it.
LEMMA CommandBegins ==
    ASSUME NEW b, NEW W, NEW n, NEW s, AtEscape(b, W, n, s), Command(b, s), NEW m \in (s.i + 1)..Len(b),
           Quiet(b, s.i + 2, m)
    PROVE  Inwards(b, W, s.i, m) /\ Alike(W[s.i], W[m]) /\ Heard(s, W[m]) /\ W[m] \in Terminals
<1>0. /\ Watching(b, W) /\ s.i \in 1..Len(b) /\ Ready(W[s.i]) /\ W[s.i].at # Text /\ Heard(s, W[s.i])
      /\ s.i < Len(b) /\ b[s.i + 1] = "]"
    BY DEF AtEscape, Command
<1>1. s.i \in 1..(Len(b) - 1) /\ Len(b) \in Nat /\ s.i + 1 \in 1..Len(b) /\ s.i \in 0..Len(b) /\ s.i + 1 - 1 = s.i
    BY <1>0, WatchingIs
<1>2. W[s.i + 1] = Shows(W[s.i], "]") /\ W[s.i] \in Terminals
    BY <1>0, <1>1, WatchingIs
<1>3. /\ W[s.i + 1].at = "osc" /\ W[s.i + 1].head = "none" /\ W[s.i + 1].length = 2
      /\ Alike(W[s.i], W[s.i + 1])
    BY <1>0, <1>2, Opens
<1>4. Inwards(b, W, s.i, m)
    BY <1>0, <1>1, <1>3, CommandRun DEF Watching, Stepping
<1>5. Alike(W[s.i], W[m])
    BY <1>3, <1>4 DEF Inwards, Alike
<1>6. Heard(s, W[m])
    BY <1>0, <1>5, HeardAlike
<1>7. W[m] \in Terminals
    BY <1>0, <1>1, WatchingIs
<1>8. QED BY <1>4, <1>5, <1>6, <1>7

LEMMA ToldStep ==
    ASSUME NEW b, NEW W, NEW n, NEW s, NEW r, AtEscape(b, W, n, s), CommandTold(b, s, r)
    PROVE  Scanning(b, r, W, n)
<1> DEFINE i == s.i
           e == EndOf(b, i)
<1>1. /\ Watching(b, W) /\ b \in Seq(OscBytes) /\ i \in 1..Len(b) /\ Len(b) \in Nat /\ n \in 0..Len(b)
      /\ Len(b) - n <= MaxRead /\ s \in Scans /\ s.consumed \in 0..(i - 1) /\ Bounded(b, s, n)
      /\ ~s.skipping /\ ~s.stop /\ s.pending = <<>>
    BY WatchingIs DEF AtEscape, Watching
<1>2. /\ Command(b, s) /\ e # 0 /\ ConsumedTo(s, e + 1, r) /\ r.skipping = s.skipping
      /\ r.told = s.told \o <<Head1(PayloadOf(b, i))>>
      /\ r.bell = (s.bell \/ Head1(PayloadOf(b, i)) = "9")
    BY DEF CommandTold
<1>3. PICK j \in (i + 2)..Len(b) : EndsAt(b, i, j, e)
    BY <1>1, <1>2, EndOfIs
<1> HIDE DEF e
<1>4. j - 1 \in (i + 1)..Len(b) /\ j \in 1..Len(b) /\ Quiet(b, i + 2, j - 1) /\ j - 1 \in 0..Len(b)
    BY <1>1, <1>3 DEF EndsAt
<1>5. Inwards(b, W, i, j - 1) /\ Heard(s, W[j - 1]) /\ W[j - 1] \in Terminals
    BY <1>2, <1>4, CommandBegins
<1>6. W[j - 1].head = Head1(PayloadOf(b, i))
    BY <1>1, <1>3, <1>5 DEF Inwards, EndsAt
<1>7. /\ s.told \in Seq(Heads) /\ s.bell \in BOOLEAN
      /\ W[j - 1].length + 1 \in Nat /\ W[j - 1].length + 2 \in Nat
      /\ r.told = s.told \o <<W[j - 1].head>> /\ r.bell = (s.bell \/ W[j - 1].head = "9")
    <2>1. s.told \in Seq(Heads) /\ s.bell \in BOOLEAN /\ W[j - 1].length \in Nat
        BY <1>1, <1>5 DEF Scans, Terminals
    <2>2. r.told = s.told \o <<W[j - 1].head>> /\ r.bell = (s.bell \/ W[j - 1].head = "9")
        BY <1>2, <1>6, Zenon
    <2>3. QED BY <2>1, <2>2
<1>8. /\ e \in 1..Len(b) /\ e >= j /\ W[e].at = Text /\ Heard(r, W[e])
      /\ b[j] \in {BEL, ESC}
    <2>1. CASE b[j] = BEL /\ e = j
        <3>1. EndsAs(W[j - 1], W[j - 1].length + 1, W[j])
            <4>1. W[j] = Shows(W[j - 1], b[j]) /\ b[j] \in OscBytes /\ W[j - 1].at = "osc"
                BY <1>1, <1>4, <1>5, WatchingIs DEF Inwards
            <4>2. QED BY <2>1, <4>1, <1>5, ShowsOsc
        <3>2. Heard(r, W[j])
            BY <1>5, <1>7, <3>1, HeardTold
        <3>3. QED BY <2>1, <3>1, <3>2, <1>4 DEF EndsAs
    <2>2. CASE b[j] = ESC /\ j < Len(b) /\ b[j + 1] = "\\" /\ e = j + 1
        <3>1. W[j] = [W[j - 1] EXCEPT !.at = "oscEsc"]
            <4>1. W[j] = Shows(W[j - 1], b[j]) /\ b[j] \in OscBytes /\ W[j - 1].at = "osc"
                BY <1>1, <1>4, <1>5, WatchingIs DEF Inwards
            <4>2. QED BY <2>2, <4>1, <1>5, ShowsOsc
        <3>2. /\ W[j].at = "oscEsc" /\ Alike(W[j - 1], W[j]) /\ W[j].head = W[j - 1].head
              /\ W[j].length = W[j - 1].length /\ W[j] \in Terminals
            <4>1. W[j] \in Terminals
                BY <1>1, <1>4, WatchingIs
            <4>2. QED BY <1>5, <3>1, <4>1 DEF Terminals, Alike
        <3>3. EndsAs(W[j], W[j].length + 2, W[j + 1])
            <4>1. W[j + 1] = Shows(W[j], b[j + 1]) /\ b[j + 1] \in OscBytes
                BY <1>1, <1>4, <2>2, WatchingIs
            <4>2. QED BY <2>2, <3>2, <4>1, ShowsOscEsc
        <3>4. Heard(s, W[j])
            BY <1>5, <3>2, HeardAlike
        <3>5. Heard(r, W[j + 1])
            <4>1. /\ W[j].length + 2 \in Nat
                  /\ r.told = s.told \o <<W[j].head>> /\ r.bell = (s.bell \/ W[j].head = "9")
                BY <1>7, <3>2, Zenon
            <4>2. QED BY <1>7, <3>2, <3>3, <3>4, <4>1, HeardTold
        <3>6. QED BY <2>2, <3>3, <3>5, <1>4 DEF EndsAs
    <2>3. QED BY <2>1, <2>2, <1>3 DEF EndsAt
<1>9. r.i = e + 1 /\ r.consumed = e /\ ~r.stop /\ r.pending = <<>> /\ ~r.skipping
    BY <1>1, <1>2, <1>8 DEF ConsumedTo
<1>10. Len(b) - e <= TailLength + MaxRead
    <2>1. TailLength \in Nat /\ MaxRead \in Nat
        BY ScannersAssumption
    <2>2. CASE Len(b) - s.consumed <= TailLength + MaxRead
        BY <2>1, <2>2, <1>1, <1>3, <1>8
    <2>3. CASE i = 1 /\ Unfinished(SubSeq(b, 1, n))
        <3>1. j \in 3..Len(b)
            BY <1>3, <2>3
        <3>2. j >= n
            BY <1>1, <1>8, <2>3, <3>1, EndsLate
        <3>3. QED BY <3>2, <2>1, <1>1, <1>4, <1>8
    <2>4. QED BY <1>1, <2>2, <2>3 DEF Bounded
<1>11. Outside(b, r, W)
    <2>1. r.i - 1 = e /\ r.consumed + 1 > r.i - 1
        BY <1>8, <1>9
    <2>2. Tidy(b, r)
        BY <2>1, <1>8, <1>9 DEF Tidy
    <2>3. QED BY <2>1, <2>2, <1>8 DEF Outside
<1>12. QED BY <1>1, <1>8, <1>9, <1>10, <1>11 DEF Scanning, Bounded

\* What has been left was longer than what is kept.
LEMMA LeavesLong ==
    ASSUME NEW b, NEW W, Watching(b, W), NEW j \in 0..(Len(b) - 1), W[j].at = "oscEsc", b[j + 1] # "\\"
    PROVE  W[j].length > MaxPending
<1>1. /\ W[j + 1] = Shows(W[j], b[j + 1]) /\ b[j + 1] \in OscBytes
      /\ W[j] \in Terminals /\ ~W[j + 1].left
    <2>1. j + 1 \in 1..Len(b) /\ j + 1 - 1 = j /\ j \in 0..Len(b) /\ j + 1 \in 0..Len(b)
        BY WatchingIs
    <2>2. QED BY <2>1, WatchingIs
<1>2. W[j].length \in Nat /\ MaxPending \in Nat
    BY <1>1, ScannersAssumption DEF Terminals
<1> DEFINE lf == W[j].left \/ W[j].length <= MaxPending
           v == [W[j] EXCEPT !.left = lf]
<1>3. W[j + 1] = Begun(v, b[j + 1])
    BY <1>1, ShowsOscEsc
<1>4. lf \in BOOLEAN
    BY <1>1 DEF Terminals
<1> HIDE DEF lf
<1>5. v \in Terminals /\ v.left = lf
    BY <1>1, <1>4 DEF Terminals
<1> HIDE DEF v
<1>6. Begun(v, b[j + 1]).left = v.left
    <2>1. \/ Begun(v, b[j + 1]) = [v EXCEPT !.at = "osc", !.head = "none", !.length = 2]
          \/ Begun(v, b[j + 1]) = [v EXCEPT !.at = "esc"]
          \/ Begun(v, b[j + 1]) = [v EXCEPT !.at = Text, !.rang = TRUE]
          \/ Begun(v, b[j + 1]) = [v EXCEPT !.at = Text]
        BY <1>1, <1>5, BegunIs DEF OscBytes
    <2>2. QED BY <2>1, <1>5 DEF Terminals
<1>7. ~lf
    BY <1>1, <1>3, <1>5, <1>6
<1>8. QED BY <1>2, <1>7 DEF lf

\* A command broken off before the end of b was longer than what is kept.
LEMMA BreaksLong ==
    ASSUME NEW b, NEW W, NEW n, NEW s, AtEscape(b, W, n, s), Command(b, s), NEW j \in (s.i + 2)..Len(b),
           BreaksOff(b, s.i, j)
    PROVE  /\ j - 1 \in (s.i + 1)..Len(b) /\ Inwards(b, W, s.i, j - 1) /\ Heard(s, W[j - 1])
           /\ W[j] = [W[j - 1] EXCEPT !.at = "oscEsc"] /\ W[j - 1] \in Terminals
           /\ j < Len(b) => W[j - 1].length > MaxPending
<1>1. /\ Watching(b, W) /\ s.i \in 1..Len(b) /\ Len(b) \in Nat /\ j - 1 \in (s.i + 1)..Len(b) /\ j \in 1..Len(b)
      /\ Quiet(b, s.i + 2, j - 1) /\ b[j] = ESC /\ (j < Len(b) => b[j + 1] # "\\")
    BY WatchingIs DEF AtEscape, BreaksOff
<1>2. Inwards(b, W, s.i, j - 1) /\ Heard(s, W[j - 1]) /\ W[j - 1] \in Terminals /\ W[j - 1].at = "osc"
    BY <1>1, CommandBegins DEF Inwards
<1>3. W[j] = [W[j - 1] EXCEPT !.at = "oscEsc"]
    <2>1. W[j] = Shows(W[j - 1], b[j]) /\ b[j] \in OscBytes
        BY <1>1, WatchingIs
    <2>2. QED BY <1>1, <1>2, <2>1, ShowsOsc
<1>4. ASSUME j < Len(b) PROVE W[j - 1].length > MaxPending
    <2>1. W[j].at = "oscEsc" /\ W[j].length = W[j - 1].length
        BY <1>2, <1>3 DEF Terminals
    <2>2. j \in 0..(Len(b) - 1) /\ b[j + 1] # "\\"
        BY <1>1, <1>4
    <2>3. QED BY <1>1, <2>1, <2>2, LeavesLong
<1>5. QED BY <1>1, <1>2, <1>3, <1>4

LEMMA KeptStep ==
    ASSUME NEW b, NEW W, NEW n, NEW s, AtEscape(b, W, n, s), CommandKept(b, s, Keep(b, s))
    PROVE  Scanning(b, Keep(b, s), W, n)
<1> DEFINE i == s.i
           p == From(b, i)
           N == Len(b)
<1>1. /\ Watching(b, W) /\ b \in Seq(OscBytes) /\ i \in 1..N /\ N \in Nat /\ MaxPending \in Nat
      /\ s \in Scans /\ s.consumed \in 0..(i - 1) /\ ~s.skipping
    BY WatchingIs, ScannersAssumption DEF AtEscape, Watching
<1>2. Command(b, s) /\ EndOf(b, i) = 0 /\ N - i + 1 <= MaxPending
    BY DEF CommandKept
<1>3. /\ i \in 1..(N - 1) /\ N \in (i + 1)..Len(b) /\ N - 1 >= i
      /\ b[i] = ESC /\ b[i + 1] = "]" /\ ESC # "]" /\ BEL # "]"
    BY <1>1, <1>2 DEF Command, ESC, BEL
<1>4. Len(p) = N - i + 1 /\ \A k \in 1..(N - i + 1) : p[k] = b[i + k - 1]
    BY <1>1 DEF From
<1> HIDE DEF p
<1>5. /\ Len(p) \in 2..MaxPending /\ p[1] = ESC /\ p[2] = "]" /\ p[Len(p)] = b[N]
      /\ (N > i + 1 => p[3] = b[i + 2])
    <2>1. Len(p) \in 2..MaxPending
        BY <1>1, <1>2, <1>3, <1>4
    <2>2. 1 \in 1..(N - i + 1) /\ i + 1 - 1 = i /\ 2 \in 1..(N - i + 1) /\ i + 2 - 1 = i + 1
        BY <1>1, <1>3
    <2>3. N - i + 1 \in 1..(N - i + 1) /\ i + (N - i + 1) - 1 = N
        BY <1>1, <1>3
    <2>4. N > i + 1 => 3 \in 1..(N - i + 1) /\ i + 3 - 1 = i + 2
        BY <1>1, <1>3
    <2>5. p[1] = b[i] /\ p[2] = b[i + 1]
        BY <1>4, <2>2
    <2>6. p[N - i + 1] = b[N]
        BY <1>4, <2>3
    <2>7. N > i + 1 => p[3] = b[i + 2]
        BY <1>4, <2>4
    <2>8. QED BY <1>3, <1>4, <2>1, <2>5, <2>6, <2>7
<1>6. /\ Keep(b, s).i = i /\ Keep(b, s).consumed = s.consumed /\ Keep(b, s).stop = TRUE /\ Keep(b, s).pending = p
      /\ Keep(b, s).skipping = s.skipping /\ Keep(b, s).bell = s.bell /\ Keep(b, s).told = s.told
    BY <1>1, KeepIs DEF p
<1>7. Unfinished(p) /\ InCommand(p, W[N]) /\ Heard(s, W[N])
    <2>1. CASE Quiet(b, i + 2, N)
        <3>1. Inwards(b, W, i, N) /\ Heard(s, W[N])
            BY <1>2, <1>3, <2>1, CommandBegins
        <3>2. b[N] \notin {BEL, ESC}
            BY <2>1, <1>3 DEF Quiet
        <3>3. \A k \in 3..(Len(p) - 1) : p[k] \notin {BEL, ESC}
            <4> SUFFICES ASSUME NEW k \in 3..(Len(p) - 1) PROVE p[k] \notin {BEL, ESC}
                OBVIOUS
            <4>1. k \in 1..(N - i + 1) /\ i + k - 1 \in (i + 2)..N
                BY <1>1, <1>4
            <4>2. QED BY <4>1, <1>4, <2>1 DEF Quiet
        <3>4. Unfinished(p)
            BY <1>5, <3>2, <3>3 DEF Unfinished, Quiet
        <3>5. Inside(p) = Len(p)
            BY <1>5, <3>2 DEF Inside
        <3>6. InCommand(p, W[N])
            <4>1. W[N].at = "osc" /\ W[N].length = N - i + 1 /\ W[N].head = IF N = i + 1 THEN "none" ELSE b[i + 2]
                BY <1>1, <1>2, <1>3, <3>1 DEF Inwards
            <4>2. Inside(p) = 2 <=> N = i + 1
                BY <1>1, <1>4, <3>5
            <4>3. N # i + 1 => p[3] = b[i + 2]
                BY <1>1, <1>3, <1>5
            <4>4. QED BY <1>4, <1>5, <3>2, <3>5, <4>1, <4>2, <4>3 DEF InCommand
        <3>7. QED BY <3>1, <3>4, <3>6
    <2>2. ASSUME NEW j \in (i + 2)..N, BreaksOff(b, i, j)
          PROVE  Unfinished(p) /\ InCommand(p, W[N]) /\ Heard(s, W[N])
        <3>1. /\ Inwards(b, W, i, j - 1) /\ Heard(s, W[j - 1])
              /\ W[j] = [W[j - 1] EXCEPT !.at = "oscEsc"] /\ W[j - 1] \in Terminals
              /\ (j < N => W[j - 1].length > MaxPending)
            BY <1>2, <2>2, BreaksLong
        <3>2. j = N
            <4>1. j - i <= MaxPending /\ j - 1 - i + 1 = j - i
                BY <1>1, <1>2
            <4>2. W[j - 1].length = j - i
                BY <1>1, <3>1, <4>1 DEF Inwards
            <4>3. ~(j < N)
                BY <3>1, <4>1, <4>2, <1>1
            <4>4. QED BY <4>3, <1>1
        <3>3. b[N] = ESC /\ Quiet(b, i + 2, N - 1)
            BY <2>2, <3>2 DEF BreaksOff
        <3>4. \A k \in 3..(Len(p) - 1) : p[k] \notin {BEL, ESC}
            <4> SUFFICES ASSUME NEW k \in 3..(Len(p) - 1) PROVE p[k] \notin {BEL, ESC}
                OBVIOUS
            <4>1. k \in Int /\ k >= 3 /\ k <= N - i /\ i \in Int /\ i >= 1 /\ N \in Int
                BY <1>1, <1>4
            <4>2. k \in 1..(N - i + 1) /\ i + k - 1 \in (i + 2)..(N - 1)
                BY <4>1
            <4>3. QED BY <4>2, <1>4, <3>3 DEF Quiet
        <3>5. Unfinished(p)
            BY <1>5, <3>3, <3>4 DEF Unfinished, Quiet, ESC, BEL
        <3>6. Inside(p) = N - i
            <4>1. Inside(p) = Len(p) - 1
                BY <1>5, <3>3 DEF Inside
            <4>2. QED BY <4>1, <1>1, <1>4
        <3>7. /\ W[N].at = "oscEsc" /\ W[N].length = W[N - 1].length /\ W[N].head = W[N - 1].head
              /\ Alike(W[N - 1], W[N])
            BY <3>1, <3>2 DEF Terminals, Alike
        <3>8. W[N - 1].length = N - i /\ W[N - 1].head = IF N - 1 = i + 1 THEN "none" ELSE b[i + 2]
            BY <1>1, <1>2, <1>3, <3>1, <3>2 DEF Inwards
        <3>9. InCommand(p, W[N])
            BY <1>1, <1>3, <1>5, <3>2, <3>3, <3>6, <3>7, <3>8 DEF InCommand
        <3>10. Heard(s, W[N])
            BY <3>1, <3>2, <3>7, HeardAlike
        <3>11. QED BY <3>5, <3>9, <3>10
    <2>3. QED BY <1>1, <1>2, <2>1, <2>2, EndOfIs
<1>8. OscHolds(p, s.skipping, W[N])
    BY <1>1, <1>7 DEF OscHolds
<1>9. Heard(Keep(b, s), W[N])
    BY <1>6, <1>7, HeardAlike DEF Alike
<1>10. QED BY <1>1, <1>6, <1>8, <1>9 DEF Scanning

LEMMA ThrownStep ==
    ASSUME NEW b, NEW W, NEW n, NEW s, NEW r, AtEscape(b, W, n, s), CommandThrown(b, s, r)
    PROVE  Scanning(b, r, W, n)
<1> DEFINE N == Len(b)
<1>1. /\ Watching(b, W) /\ b \in Seq(OscBytes) /\ s.i \in 1..N /\ N \in Nat /\ n \in 0..N /\ MaxPending \in Nat
      /\ s.consumed \in 0..(s.i - 1) /\ Bounded(b, s, n) /\ ~s.stop /\ s.pending = <<>>
      /\ TailLength + MaxRead <= MaxPending /\ TailLength \in Nat /\ MaxRead \in Nat
    BY WatchingIs, ScannersAssumption DEF AtEscape, Watching
<1>2. /\ Command(b, s) /\ EndOf(b, s.i) = 0 /\ N - s.i + 1 > MaxPending /\ ConsumedTo(s, s.i + 1, r)
      /\ r.skipping = TRUE /\ r.bell = s.bell /\ r.told = s.told
    BY DEF CommandThrown
<1>3. s.i = 1 /\ Unfinished(SubSeq(b, 1, n))
    BY <1>1, <1>2 DEF Bounded
<1>4. N > MaxPending /\ N >= 2 /\ b[2] = "]" /\ EndOf(b, 1) = 0
    BY <1>1, <1>2, <1>3 DEF Command
<1>5. r.i = 2 /\ r.consumed = 1 /\ ~r.stop /\ r.pending = <<>>
    BY <1>1, <1>2, <1>3 DEF ConsumedTo
<1>6. \E q \in 1..N : q >= n - 1 /\ W[q].at = "osc" /\ W[q].length >= MaxPending /\ Quiet(b, 3, q) /\ Heard(s, W[q])
    <2>1. CASE Quiet(b, 3, N)
        <3>1. Inwards(b, W, 1, N) /\ Heard(s, W[N])
            BY <1>1, <1>2, <1>3, <1>4, <2>1, CommandBegins
        <3>2. W[N].length >= MaxPending /\ W[N].at = "osc"
            BY <1>1, <1>4, <3>1 DEF Inwards
        <3>3. QED BY <1>1, <1>4, <2>1, <3>1, <3>2
    <2>2. ASSUME NEW j \in 3..N, BreaksOff(b, 1, j)
          PROVE \E q \in 1..N : q >= n - 1 /\ W[q].at = "osc" /\ W[q].length >= MaxPending /\ Quiet(b, 3, q) /\ Heard(s, W[q])
        <3>1. /\ Inwards(b, W, 1, j - 1) /\ Heard(s, W[j - 1]) /\ W[j - 1] \in Terminals
              /\ (j < N => W[j - 1].length > MaxPending)
            <4>1. j \in (s.i + 2)..Len(b) /\ BreaksOff(b, s.i, j)
                BY <1>3, <2>2
            <4>2. /\ Inwards(b, W, s.i, j - 1) /\ Heard(s, W[j - 1]) /\ W[j - 1] \in Terminals
                  /\ (j < Len(b) => W[j - 1].length > MaxPending)
                BY <1>2, <4>1, BreaksLong
            <4>3. QED BY <4>2, <1>3
        <3>2. b[j] = ESC /\ Quiet(b, 3, j - 1)
            BY <2>2 DEF BreaksOff
        <3>3. j >= n
            BY <1>1, <1>3, <3>2, EndsLate
        <3>4. W[j - 1].length >= MaxPending /\ W[j - 1].at = "osc"
            BY <1>1, <1>4, <3>1 DEF Inwards, Terminals
        <3>5. j - 1 \in 1..N /\ j - 1 >= n - 1
            BY <1>1, <3>3
        <3>6. QED BY <3>1, <3>2, <3>4, <3>5
    <2>3. QED BY <1>1, <1>4, <2>1, <2>2, EndOfIs
<1>7. PICK q \in 1..N : q >= n - 1 /\ W[q].at = "osc" /\ W[q].length >= MaxPending /\ Quiet(b, 3, q) /\ Heard(s, W[q])
    BY <1>6
<1>8. Quiet(b, 2, q)
    BY <1>4, <1>7 DEF Quiet, ESC, BEL
<1>9. Heard(r, W[q])
    BY <1>2, <1>7, HeardAlike DEF Alike
<1>10. Within(b, r, W, n)
    BY <1>5, <1>7, <1>8, <1>9 DEF Within
<1>11. QED BY <1>1, <1>2, <1>4, <1>5, <1>10 DEF Scanning
Proceeds(b, W, n, s, r) == r \in Scans /\ Scanning(b, r, W, n) /\ (r.stop \/ r.i >= s.i + 1)

LEMMA UnfinishedBegins ==
    ASSUME NEW p, Unfinished(p)
    PROVE  Len(p) >= 2 /\ p[1] = ESC /\ p[2] = "]"
BY ScannersAssumption DEF Unfinished

LEMMA EscapedStep ==
    ASSUME NEW b, NEW W, NEW n, NEW s, AtEscape(b, W, n, s)
    PROVE  Proceeds(b, W, n, s, ScanByte(b, s))
<1> DEFINE r == ScanByte(b, s)
           i == s.i
<1>1. /\ b \in Seq(OscBytes) /\ s \in Scans /\ i \in 1..Len(b) /\ Len(b) \in Nat /\ s.consumed \in 0..(i - 1)
      /\ b[i] = ESC /\ ESC # BEL /\ ~s.stop /\ ~s.skipping /\ s.pending = <<>> /\ i <= Len(b)
    BY WatchingIs DEF AtEscape, Watching, ESC, BEL
<1>2. \/ ByteRings(b, s, r) \/ BytePasses(b, s, r) \/ CommandTold(b, s, r)
      \/ CommandKept(b, s, r) \/ CommandThrown(b, s, r)
    BY <1>1, ScanByteIs
<1> SUFFICES Proceeds(b, W, n, s, r)
    OBVIOUS
<1> HIDE DEF r
<1>3. CASE ByteRings(b, s, r)
    BY <1>1, <1>3 DEF ByteRings
<1>4. CASE BytePasses(b, s, r)
    <2>1. /\ r \in Scans /\ r.i = i + 1 /\ r.consumed = s.consumed /\ ~r.stop /\ r.pending = <<>> /\ ~r.skipping
          /\ r.bell = s.bell /\ r.told = s.told /\ (i < Len(b) => b[i + 1] # "]")
        BY <1>1, <1>4 DEF BytePasses
    <2>2. Heard(r, W[i])
        BY <2>1, HeardAlike DEF Alike, AtEscape
    <2>3. Tidy(b, r)
        <3> SUFFICES ASSUME NEW j \in (s.consumed + 1)..i
                     PROVE  b[j] # BEL /\ (b[j] = ESC /\ j < Len(b) => b[j + 1] # "]")
            BY <1>1, <2>1 DEF Tidy
        <3>1. CASE j = i
            BY <1>1, <2>1, <3>1
        <3>2. CASE j # i
            <4>1. j \in (s.consumed + 1)..(i - 1) /\ Tidy(b, s)
                BY <1>1, <3>2 DEF AtEscape
            <4>2. QED BY <4>1 DEF Tidy
        <3>3. QED BY <3>1, <3>2
    <2>4. \/ W[i].at = "esc"
          \/ W[i].at = "oscEsc" /\ W[i].length > MaxPending /\ i < Len(b) /\ b[i + 1] # "\\"
        BY DEF AtEscape, Ready
    <2>5. Outside(b, r, W)
        <3>1. r.i - 1 = i /\ r.consumed < i /\ (r.i <= Len(b) <=> i < Len(b))
            BY <1>1, <2>1
        <3>2. QED BY <1>1, <2>1, <2>2, <2>3, <2>4, <3>1 DEF Outside
    <2>6. Bounded(b, r, n)
        <3>1. CASE Len(b) - s.consumed <= TailLength + MaxRead
            BY <2>1, <3>1 DEF Bounded
        <3>2. CASE i = 1 /\ Unfinished(SubSeq(b, 1, n))
            <4>1. n \in 0..Len(b)
                BY DEF AtEscape
            <4>2. SubSeq(b, 1, n)[2] = "]" /\ Len(SubSeq(b, 1, n)) >= 2
                BY <3>2, UnfinishedBegins
            <4>3. Len(b) >= 2 /\ b[2] = "]"
                BY <1>1, <4>1, <4>2
            <4>4. QED BY <2>1, <3>2, <4>3
        <3>3. QED BY <3>1, <3>2 DEF AtEscape, Bounded
    <2>7. QED BY <1>1, <2>1, <2>5, <2>6 DEF Scanning, Proceeds
<1>5. CASE CommandTold(b, s, r)
    <2>1. Scanning(b, r, W, n)
        BY <1>5, ToldStep
    <2>2. PICK j \in (i + 2)..Len(b) : EndsAt(b, i, j, EndOf(b, i))
        BY <1>1, <1>5, EndOfIs DEF CommandTold
    <2>3. r \in Scans /\ r.i >= i + 1
        BY <1>1, <1>5, <2>2 DEF CommandTold, ConsumedTo, EndsAt
    <2>4. QED BY <2>1, <2>3 DEF Proceeds
<1>6. CASE CommandKept(b, s, r)
    <2>1. r = Keep(b, s)
        BY <1>6 DEF CommandKept
    <2>2. Scanning(b, r, W, n)
        BY <1>6, <2>1, KeptStep
    <2>3. r \in Scans /\ r.stop
        BY <1>1, <2>1, KeepIs
    <2>4. QED BY <2>2, <2>3 DEF Proceeds
<1>7. CASE CommandThrown(b, s, r)
    <2>1. Scanning(b, r, W, n)
        BY <1>7, ThrownStep
    <2>2. r \in Scans /\ r.i >= i + 1
        BY <1>1, <1>7 DEF CommandThrown, ConsumedTo
    <2>3. QED BY <2>1, <2>2 DEF Proceeds
<1>8. QED BY <1>2, <1>3, <1>4, <1>5, <1>6, <1>7

InRound(b, W, n, s) ==
    /\ Watching(b, W) /\ n \in 0..Len(b) /\ Len(b) - n <= MaxRead
    /\ s \in Scans /\ Scanning(b, s, W, n) /\ ~s.stop /\ s.i <= Len(b)

LEMMA OutsideStep ==
    ASSUME NEW b, NEW W, NEW n, NEW s, InRound(b, W, n, s), ~s.skipping
    PROVE  Proceeds(b, W, n, s, ScanByte(b, s))
<1> DEFINE r == ScanByte(b, s)
           i == s.i
<1>1. /\ Watching(b, W) /\ b \in Seq(OscBytes) /\ s \in Scans /\ Len(b) \in Nat
      /\ s.i <= Len(b) /\ n \in 0..Len(b) /\ ~s.stop /\ s.pending = <<>>
      /\ Outside(b, s, W) /\ Bounded(b, s, n) /\ s.i \in 1..(Len(b) + 1) /\ s.consumed \in 0..(s.i - 1)
    BY WatchingIs DEF InRound, Watching, Scanning
<1>2. i \in 1..Len(b) /\ i \in 0..Len(b) /\ i - 1 \in 0..Len(b)
    BY <1>1
<1>3. /\ W[i] = Shows(W[i - 1], b[i]) /\ b[i] \in OscBytes /\ W[i - 1] \in Terminals /\ W[i] \in Terminals
      /\ Heard(s, W[i - 1]) /\ Tidy(b, s)
    BY <1>1, <1>2, WatchingIs DEF Outside
<1>4. /\ Ready(W[i - 1]) /\ (W[i - 1].at # Text => b[i] # "]") /\ (W[i - 1].at = "oscEsc" => b[i] # "\\")
    BY <1>1 DEF Outside, Ready, Text
<1>5. CASE b[i] = ESC
    <2>1. W[i].at = "esc" /\ AlikeAll(W[i - 1], W[i])
        BY <1>3, <1>4, <1>5, Escapes
    <2>2. Heard(s, W[i])
        BY <1>3, <2>1, HeardAlike DEF AlikeAll
    <2>3. AtEscape(b, W, n, s)
        BY <1>1, <1>2, <1>3, <1>5, <2>1, <2>2 DEF AtEscape, InRound, Ready, Text
    <2>4. QED BY <2>3, EscapedStep
<1>6. CASE b[i] # ESC
    <2>1. ByteRings(b, s, r) \/ BytePasses(b, s, r)
        BY <1>1, <1>6, ScanByteIs DEF CommandTold, CommandKept, CommandThrown, Command
    <2> SUFFICES Proceeds(b, W, n, s, r)
        OBVIOUS
    <2> HIDE DEF r
    <2>2. Len(b) - s.consumed <= TailLength + MaxRead
        <3>1. ASSUME i = 1, Unfinished(SubSeq(b, 1, n)) PROVE FALSE
            <4>1. SubSeq(b, 1, n)[1] = ESC /\ Len(SubSeq(b, 1, n)) >= 2
                BY <3>1, UnfinishedBegins
            <4>2. b[1] = ESC
                BY <1>1, <4>1
            <4>3. QED BY <1>6, <3>1, <4>2
        <3>2. QED BY <1>1, <3>1 DEF Bounded
    <2>3. CASE ByteRings(b, s, r)
        <3>1. /\ b[i] = BEL /\ r \in Scans /\ r.i = i + 1 /\ r.consumed = i /\ ~r.stop /\ r.pending = <<>>
              /\ ~r.skipping /\ r.bell = TRUE /\ r.told = s.told
            BY <1>1, <2>3 DEF ByteRings, ConsumedTo
        <3>2. W[i].at = Text /\ W[i].rang = TRUE /\ W[i].told = W[i - 1].told /\ W[i].all = W[i - 1].all
            BY <1>3, <1>4, <3>1, Rings
        <3>3. Heard(r, W[i])
            BY <1>3, <3>1, <3>2, HeardBell
        <3>4. Outside(b, r, W)
            <4>1. r.i - 1 = i /\ r.consumed + 1 > r.i - 1
                BY <1>2, <3>1
            <4>2. Tidy(b, r)
                BY <4>1, <3>1, <1>2 DEF Tidy
            <4>3. QED BY <4>1, <4>2, <3>2, <3>3 DEF Outside
        <3>5. Bounded(b, r, n)
            <4>1. TailLength \in Nat /\ MaxRead \in Nat
                BY ScannersAssumption
            <4>2. QED BY <1>1, <2>2, <3>1, <4>1 DEF Bounded
        <3>6. QED BY <1>1, <1>2, <3>1, <3>4, <3>5 DEF Proceeds, Scanning
    <2>4. CASE BytePasses(b, s, r)
        <3>1. /\ b[i] # BEL /\ r \in Scans /\ r.i = i + 1 /\ r.consumed = s.consumed /\ ~r.stop /\ r.pending = <<>>
              /\ ~r.skipping /\ r.bell = s.bell /\ r.told = s.told
            BY <1>1, <2>4 DEF BytePasses
        <3>2. W[i].at = Text /\ AlikeAll(W[i - 1], W[i])
            BY <1>3, <1>4, <1>6, <3>1, PassesBy
        <3>3. Heard(r, W[i])
            BY <1>3, <3>1, <3>2, HeardAlike DEF AlikeAll
        <3>4. Tidy(b, r)
            <4> SUFFICES ASSUME NEW j \in (s.consumed + 1)..i
                         PROVE  b[j] # BEL /\ (b[j] = ESC /\ j < Len(b) => b[j + 1] # "]")
                BY <1>1, <3>1 DEF Tidy
            <4>1. CASE j = i
                BY <1>6, <3>1, <4>1
            <4>2. CASE j # i
                <5>1. j \in (s.consumed + 1)..(i - 1)
                    BY <1>1, <4>2
                <5>2. QED BY <5>1, <1>3 DEF Tidy
            <4>3. QED BY <4>1, <4>2
        <3>5. Outside(b, r, W)
            <4>1. r.i - 1 = i
                BY <1>2, <3>1
            <4>2. QED BY <4>1, <3>2, <3>3, <3>4 DEF Outside
        <3>6. Bounded(b, r, n)
            BY <2>2, <3>1 DEF Bounded
        <3>7. QED BY <1>1, <1>2, <3>1, <3>5, <3>6 DEF Proceeds, Scanning
    <2>5. QED BY <2>1, <2>3, <2>4
<1>7. QED BY <1>5, <1>6

LEMMA GoesFurther ==
    ASSUME NEW b, NEW W, NEW n, NEW s, NEW r \in Scans, Len(b) \in Nat, s.i \in 1..Len(b),
           r.i \in (s.i + 1)..(Len(b) + 1), r.consumed \in 0..(r.i - 1), ~r.stop, r.pending = <<>>,
           r.skipping => Within(b, r, W, n), ~r.skipping => Outside(b, r, W) /\ Bounded(b, r, n)
    PROVE  Proceeds(b, W, n, s, r)
BY DEF Proceeds, Scanning

LEMMA LastOne ==
    ASSUME NEW b \in Seq(OscBytes), Len(b) >= 1
    PROVE  From(b, Len(b)) = <<b[Len(b)]>>
<1> DEFINE p == From(b, Len(b))
<1>1. p \in Seq(OscBytes) /\ Len(p) = 1 /\ p[1] = b[Len(b)]
    BY DEF From
<1> HIDE DEF p
<1>2. p = <<p[1]>>
    BY <1>1
<1>3. QED BY <1>1, <1>2 DEF p

LEMMA TwoMore ==
    ASSUME NEW a \in Nat, NEW m \in Nat, a >= m
    PROVE  a + 2 > m /\ a + 2 \in Nat
OBVIOUS

\* A round within a command that is thrown away.
LEMMA SkippingStep ==
    ASSUME NEW b, NEW W, NEW n, NEW s, InRound(b, W, n, s), s.skipping
    PROVE  Proceeds(b, W, n, s, ScanStep(b, s))
<1> DEFINE r == ScanStep(b, s)
           i == s.i
           c == Consume(s, i + 1)
<1>1. /\ Watching(b, W) /\ b \in Seq(OscBytes) /\ s \in Scans /\ Len(b) \in Nat /\ MaxPending \in Nat
      /\ TailLength \in Nat \ {0} /\ MaxRead \in Nat
      /\ i <= Len(b) /\ n \in 0..Len(b) /\ Len(b) - n <= MaxRead /\ ~s.stop /\ s.pending = <<>>
      /\ Within(b, s, W, n) /\ i \in 1..(Len(b) + 1)
    BY WatchingIs, ScannersAssumption DEF InRound, Watching, Scanning
<1>2. /\ i \in 1..Len(b) /\ i \in 0..Len(b) /\ i - 1 \in 0..Len(b) /\ i + 1 \in Nat \ {0} /\ s.consumed = i - 1
      /\ i + 1 - 1 = i /\ i \in 0..i /\ BEL # ESC
    BY <1>1 DEF Within, BEL, ESC
<1>3. PICK q \in (i - 1)..Len(b) :
          q >= n - 1 /\ W[q].at = "osc" /\ W[q].length >= MaxPending /\ Quiet(b, i, q) /\ Heard(s, W[q])
    BY <1>1 DEF Within
<1>4. /\ W[i] = Shows(W[i - 1], b[i]) /\ b[i] \in OscBytes /\ W[i - 1] \in Terminals /\ W[i] \in Terminals
      /\ s.told \in Seq(Heads)
    BY <1>1, <1>2, WatchingIs DEF Scans
<1>5. ConsumedTo(s, i + 1, c) /\ c.skipping = s.skipping /\ c.bell = s.bell /\ c.told = s.told
    BY <1>1, <1>2, ConsumeIs
<1>6. CASE b[i] \notin {BEL, ESC}
    <2>1. r = c
        BY <1>6 DEF ScanStep
    <2>2. \E p \in i..Len(b) :
             p >= n - 1 /\ W[p].at = "osc" /\ W[p].length >= MaxPending /\ Quiet(b, i + 1, p) /\ Heard(s, W[p])
        <3>1. CASE q >= i
            <4>1. Quiet(b, i + 1, q)
                BY <1>2, <1>3 DEF Quiet
            <4>2. q \in i..Len(b)
                BY <1>2, <1>3, <3>1
            <4>3. QED BY <1>3, <4>1, <4>2
        <3>2. CASE q = i - 1
            <4>1. GoesOnIn(W[i - 1], b[i], W[i])
                BY <1>3, <1>4, <1>6, <3>2, ShowsOsc
            <4>2. Alike(W[i - 1], W[i]) /\ W[i].at = "osc" /\ W[i].length >= MaxPending
                BY <1>1, <1>3, <1>4, <3>2, <4>1 DEF GoesOnIn, Alike, Terminals
            <4>3. Heard(s, W[i])
                BY <1>3, <3>2, <4>2, HeardAlike
            <4>4. Quiet(b, i + 1, i) /\ i >= n - 1 /\ i \in i..Len(b)
                BY <1>1, <1>2, <1>3, <3>2 DEF Quiet
            <4>5. QED BY <4>2, <4>3, <4>4
        <3>3. QED BY <1>2, <1>3, <3>1, <3>2
    <2>3. PICK p \in i..Len(b) :
             p >= n - 1 /\ W[p].at = "osc" /\ W[p].length >= MaxPending /\ Quiet(b, i + 1, p) /\ Heard(s, W[p])
        BY <2>2
    <2> HIDE DEF c
    <2>4. Heard(c, W[p])
        BY <1>5, <2>3, HeardAlike DEF Alike
    <2>5. c.i = i + 1 /\ c.i - 1 = i /\ c.consumed = i /\ ~c.stop /\ c.pending = <<>> /\ c \in Scans /\ c.skipping
        BY <1>1, <1>2, <1>5 DEF ConsumedTo
    <2>6. Within(b, c, W, n)
        BY <2>3, <2>4, <2>5 DEF Within
    <2>7. Proceeds(b, W, n, s, c)
        <3>1. c.i \in (i + 1)..(Len(b) + 1) /\ c.consumed \in 0..(c.i - 1)
            BY <1>2, <2>5
        <3>2. QED BY <1>1, <1>2, <2>5, <2>6, <3>1, GoesFurther
    <2>8. QED BY <2>1, <2>7
<1>7. CASE b[i] \in {BEL, ESC}
    <2>1. q = i - 1
        BY <1>2, <1>3, <1>7 DEF Quiet
    <2>2. /\ W[i - 1].at = "osc" /\ W[i - 1].length >= MaxPending /\ Heard(s, W[i - 1]) /\ i >= n
          /\ W[i - 1].length \in Nat
        <3>1. W[i - 1].length \in Nat
            BY <1>4 DEF Terminals
        <3>2. i - 1 >= n - 1
            BY <1>3, <2>1
        <3>3. i >= n
            BY <1>1, <1>2, <3>2
        <3>4. QED BY <1>3, <2>1, <3>1, <3>3
    <2>3. CASE b[i] = BEL
        <3>1. r = [c EXCEPT !.skipping = FALSE]
            BY <1>1, <2>3 DEF ScanStep
        <3> SUFFICES Proceeds(b, W, n, s, r)
            OBVIOUS
        <3> HIDE DEF c, r
        <3>2. /\ r \in Scans /\ r.i = i + 1 /\ r.consumed = i /\ ~r.stop /\ r.pending = <<>> /\ ~r.skipping
              /\ r.bell = s.bell /\ r.told = s.told
            <4>1. /\ r \in Scans /\ r.i = c.i /\ r.consumed = c.consumed /\ r.stop = c.stop /\ r.pending = c.pending
                  /\ ~r.skipping /\ r.bell = c.bell /\ r.told = c.told
                BY <1>5, <3>1 DEF ConsumedTo, Scans
            <4>2. QED BY <1>1, <1>2, <1>5, <4>1 DEF ConsumedTo
        <3>3. EndsAs(W[i - 1], W[i - 1].length + 1, W[i])
            BY <1>4, <2>2, <2>3, ShowsOsc
        <3>4. W[i - 1].length + 1 > MaxPending /\ W[i - 1].length + 1 \in Nat
            BY <1>1, <2>2
        <3>5. Heard(r, W[i])
            BY <1>4, <2>2, <3>2, <3>3, <3>4, HeardSkipped
        <3>6. Outside(b, r, W)
            <4>1. r.i - 1 = i /\ r.consumed + 1 > r.i - 1
                BY <1>2, <3>2
            <4>2. Tidy(b, r)
                BY <4>1, <1>2, <3>2 DEF Tidy
            <4>3. QED BY <3>3, <3>5, <4>1, <4>2 DEF Outside, EndsAs
        <3>7. Bounded(b, r, n)
            BY <1>1, <1>2, <2>2, <3>2 DEF Bounded
        <3>8. r.i \in (i + 1)..(Len(b) + 1) /\ r.consumed \in 0..(r.i - 1)
            BY <1>2, <3>2
        <3>9. QED BY <1>1, <1>2, <3>2, <3>6, <3>7, <3>8, GoesFurther
    <2>4. CASE b[i] = ESC
        <3>1. W[i] = [W[i - 1] EXCEPT !.at = "oscEsc"]
            BY <1>4, <2>2, <2>4, ShowsOsc
        <3>2. W[i].at = "oscEsc" /\ W[i].length = W[i - 1].length /\ Alike(W[i - 1], W[i])
            BY <1>4, <3>1 DEF Terminals, Alike
        <3>3. Heard(s, W[i])
            BY <2>2, <3>2, HeardAlike
        <3>4. CASE i = Len(b)
            <4>1. r = Keep(b, s)
                BY <1>2, <2>4, <3>4, <1>1 DEF ScanStep
            <4>2. From(b, i) = <<ESC>>
                BY <1>1, <1>2, <2>4, <3>4, LastOne
            <4> SUFFICES Proceeds(b, W, n, s, r)
                OBVIOUS
            <4> HIDE DEF r
            <4>3. /\ r \in Scans /\ r.i = i /\ r.consumed = i - 1 /\ r.stop /\ r.pending = <<ESC>> /\ r.skipping
                  /\ r.bell = s.bell /\ r.told = s.told
                BY <1>1, <1>2, <4>1, <4>2, KeepIs
            <4>4. OscHolds(r.pending, r.skipping, W[Len(b)])
                BY <2>2, <3>2, <3>4, <4>3 DEF OscHolds
            <4>5. Heard(r, W[Len(b)])
                BY <3>3, <3>4, <4>3, HeardAlike DEF Alike
            <4>6. r.i \in 1..(Len(b) + 1) /\ r.consumed \in 0..(r.i - 1)
                BY <1>2, <4>3
            <4>7. QED BY <4>3, <4>4, <4>5, <4>6 DEF Proceeds, Scanning
        <3>5. CASE i < Len(b) /\ b[i + 1] = "\\"
            <4> DEFINE d == Consume(s, i + 2)
            <4>1. r = [d EXCEPT !.skipping = FALSE]
                BY <1>1, <1>2, <2>4, <3>5 DEF ScanStep
            <4>2. ConsumedTo(s, i + 2, d) /\ d.bell = s.bell /\ d.told = s.told
                BY <1>1, <1>2, ConsumeIs
            <4> SUFFICES Proceeds(b, W, n, s, r)
                OBVIOUS
            <4> HIDE DEF d, r
            <4>3. /\ r \in Scans /\ r.i = i + 2 /\ r.consumed = i + 1 /\ ~r.stop /\ r.pending = <<>> /\ ~r.skipping
                  /\ r.bell = s.bell /\ r.told = s.told
                <5>1. /\ r \in Scans /\ r.i = d.i /\ r.consumed = d.consumed /\ r.stop = d.stop
                      /\ r.pending = d.pending /\ ~r.skipping /\ r.bell = d.bell /\ r.told = d.told
                    BY <4>1, <4>2 DEF ConsumedTo, Scans
                <5>2. d.i = i + 2 /\ d.consumed = i + 2 - 1 /\ d.stop = s.stop /\ d.pending = s.pending
                    BY <1>2, <4>2 DEF ConsumedTo
                <5>3. QED BY <1>1, <1>2, <4>2, <5>1, <5>2
            <4>4. EndsAs(W[i], W[i].length + 2, W[i + 1])
                <5>1. i + 1 \in 1..Len(b)
                    BY <1>2, <3>5
                <5>2. W[i + 1] = Shows(W[i], b[i + 1]) /\ b[i + 1] \in OscBytes
                    BY <1>1, <1>2, <5>1, WatchingIs
                <5>3. QED BY <1>4, <3>2, <3>5, <5>2, ShowsOscEsc
            <4>5. W[i].length + 2 > MaxPending /\ W[i].length + 2 \in Nat
                <5>1. W[i].length \in Nat /\ MaxPending \in Nat
                    BY <1>1, <1>4 DEF Terminals
                <5>2. W[i].length >= MaxPending
                    BY <2>2, <3>2
                <5>3. QED BY <5>1, <5>2, TwoMore
            <4>6. Heard(r, W[i + 1])
                BY <1>4, <3>3, <4>3, <4>4, <4>5, HeardSkipped
            <4>7. Outside(b, r, W)
                <5>1. r.i - 1 = i + 1 /\ r.consumed + 1 > r.i - 1
                    BY <1>2, <4>3
                <5>2. Tidy(b, r)
                    BY <5>1, <1>2, <4>3 DEF Tidy
                <5>3. QED BY <4>4, <4>6, <5>1, <5>2 DEF Outside, EndsAs
            <4>8. Bounded(b, r, n)
                BY <1>1, <1>2, <2>2, <4>3 DEF Bounded
            <4>9. r.i \in (i + 1)..(Len(b) + 1) /\ r.consumed \in 0..(r.i - 1)
                BY <1>2, <3>5, <4>3
            <4>10. QED BY <1>1, <1>2, <4>3, <4>7, <4>8, <4>9, GoesFurther
        <3>6. CASE i < Len(b) /\ b[i + 1] # "\\"
            <4> DEFINE s1 == [s EXCEPT !.skipping = FALSE]
            <4>1. r = ScanByte(b, s1)
                BY <1>1, <1>2, <2>4, <3>6 DEF ScanStep
            <4>2. /\ s1 \in Scans /\ s1.i = i /\ s1.consumed = i - 1 /\ ~s1.stop /\ s1.pending = <<>> /\ ~s1.skipping
                  /\ s1.bell = s.bell /\ s1.told = s.told
                BY <1>1, <1>2 DEF Scans
            <4> SUFFICES Proceeds(b, W, n, s, r)
                OBVIOUS
            <4> HIDE DEF s1, r
            <4>3. W[i].length > MaxPending
                BY <1>1, <1>2, <3>2, <3>6, LeavesLong
            <4>4. Heard(s1, W[i])
                BY <3>3, <4>2, HeardAlike DEF Alike
            <4>5. Tidy(b, s1)
                BY <1>2, <4>2 DEF Tidy
            <4>6. Bounded(b, s1, n)
                BY <1>1, <1>2, <2>2, <4>2 DEF Bounded
            <4>7. AtEscape(b, W, n, s1)
                <5>1. s1.consumed \in 0..(i - 1)
                    BY <1>2, <4>2
                <5>2. W[i].at # Text /\ Ready(W[i])
                    BY <3>2, <4>3 DEF Ready, Text
                <5>3. QED BY <1>1, <1>2, <2>4, <3>2, <3>6, <4>2, <4>4, <4>5, <4>6, <5>1, <5>2 DEF AtEscape
            <4>8. Proceeds(b, W, n, s1, r)
                BY <4>1, <4>7, EscapedStep
            <4>9. QED BY <4>2, <4>8 DEF Proceeds
        <3>7. QED BY <1>1, <1>2, <3>4, <3>5, <3>6
    <2>5. QED BY <1>7, <2>3, <2>4
<1>8. QED BY <1>6, <1>7

LEMMA ScanStepKeeps ==
    ASSUME NEW b, NEW W, NEW n, NEW s, InRound(b, W, n, s)
    PROVE  Proceeds(b, W, n, s, ScanStep(b, s))
<1>1. CASE s.skipping
    BY <1>1, SkippingStep
<1>2. CASE ~s.skipping
    <2>1. ScanStep(b, s) = ScanByte(b, s)
        BY <1>2 DEF ScanStep
    <2>2. QED BY <1>2, <2>1, OutsideStep
<1>3. QED BY <1>1, <1>2

\* The scanner's state after each round.
LEMMA ScanStepType ==
    ASSUME NEW b \in Seq(OscBytes), NEW s \in Scans, s.i <= Len(b)
    PROVE  ScanStep(b, s) \in Scans
<1>1. ASSUME NEW t \in Scans, t.i = s.i PROVE ScanByte(b, t) \in Scans
    BY <1>1, ScanByteIs, KeepIs
       DEF ByteRings, BytePasses, CommandTold, CommandKept, CommandThrown, ConsumedTo
<1>2. /\ s.i + 1 \in Nat \ {0} /\ s.i + 2 \in Nat \ {0}
      /\ [s EXCEPT !.skipping = FALSE] \in Scans /\ [s EXCEPT !.skipping = FALSE].i = s.i
    <2>1. s.i \in Nat
        BY DEF Scans
    <2>2. [s EXCEPT !.skipping = FALSE] \in Scans
        BY DEF Scans
    <2>3. [s EXCEPT !.skipping = FALSE].i = s.i
        BY DEF Scans
    <2>4. QED BY <2>1, <2>2, <2>3
<1>3. \A n \in {s.i + 1, s.i + 2} : Consume(s, n) \in Scans /\ [Consume(s, n) EXCEPT !.skipping = FALSE] \in Scans
    <2>1. ASSUME NEW c \in Scans PROVE [c EXCEPT !.skipping = FALSE] \in Scans
        BY DEF Scans
    <2>2. \A n \in {s.i + 1, s.i + 2} : Consume(s, n) \in Scans
        BY <1>2, ConsumeIs DEF ConsumedTo
    <2>3. QED BY <2>1, <2>2
<1>4. Keep(b, s) \in Scans
    BY KeepIs
<1>5. \/ ScanStep(b, s) = ScanByte(b, s)
      \/ ScanStep(b, s) = [Consume(s, s.i + 1) EXCEPT !.skipping = FALSE]
      \/ ScanStep(b, s) = Consume(s, s.i + 1)
      \/ ScanStep(b, s) = Keep(b, s)
      \/ ScanStep(b, s) = [Consume(s, s.i + 2) EXCEPT !.skipping = FALSE]
      \/ ScanStep(b, s) = ScanByte(b, [s EXCEPT !.skipping = FALSE])
    BY Zenon DEF ScanStep
<1>6. QED BY <1>1, <1>2, <1>3, <1>4, <1>5

LEMMA ScanLoopIs ==
    ASSUME NEW b \in Seq(OscBytes), NEW s \in Scans
    PROVE  LET L == Loop(ScanStep, b, s) IN
           /\ L[0] = s
           /\ \A k \in 1..Len(b) :
                 L[k] = IF L[k - 1].stop \/ L[k - 1].i > Len(b) THEN L[k - 1] ELSE ScanStep(b, L[k - 1])
<1> DEFINE Onward(u) == IF u.stop \/ u.i > Len(b) THEN u ELSE ScanStep(b, u)
<1>1. Len(b) \in Nat
    OBVIOUS
<1>2. \A u \in Scans : Onward(u) \in Scans
    <2> SUFFICES ASSUME NEW u \in Scans PROVE Onward(u) \in Scans
        OBVIOUS
    <2>1. CASE u.stop \/ u.i > Len(b)
        BY <2>1
    <2>2. CASE ~(u.stop \/ u.i > Len(b))
        <3>1. u.i <= Len(b)
            BY <1>1, <2>2 DEF Scans
        <3>2. QED BY <2>2, <3>1, ScanStepType
    <2>3. QED BY <2>1, <2>2
<1> HIDE DEF Onward
<1>3. PICK F : F \in RoundsOf(Len(b), Scans) /\ \A k \in 1..Len(b), u \in Scans : F[k][u] = Onward(u)
    <2> DEFINE G == [k \in 1..Len(b) |-> [u \in Scans |-> Onward(u)]]
    <2>1. G \in RoundsOf(Len(b), Scans)
        BY <1>2 DEF RoundsOf
    <2>2. \A k \in 1..Len(b), u \in Scans : G[k][u] = Onward(u)
        OBVIOUS
    <2> HIDE DEF G
    <2>3. QED BY <2>1, <2>2
<1>4. PICK g : GoesOn(g, Len(b), Scans, s, F)
    BY <1>1, <1>3, Recursion
<1>5. g = [k \in 0..Len(b) |-> IF k = 0 THEN s ELSE Onward(g[k - 1])]
    <2>1. g = [k \in 0..Len(b) |-> g[k]]
        BY <1>4 DEF GoesOn
    <2>2. \A k \in 0..Len(b) : g[k] = IF k = 0 THEN s ELSE Onward(g[k - 1])
        BY <1>1, <1>3, <1>4 DEF GoesOn
    <2>3. QED BY <2>1, <2>2, Zenon
<1> DEFINE L == Loop(ScanStep, b, s)
<1>6. L = [k \in 0..Len(b) |-> IF k = 0 THEN s ELSE Onward(L[k - 1])]
    BY <1>5, Zenon DEF Loop, Onward
<1> HIDE DEF L
<1>7. L[0] = s /\ \A k \in 1..Len(b) : L[k] = Onward(L[k - 1])
    BY <1>1, <1>6
<1>8. QED BY <1>7 DEF L, Onward

LEMMA ScanLoopKeeps ==
    ASSUME NEW b, NEW W, NEW n, NEW s, Watching(b, W), n \in 0..Len(b), Len(b) - n <= MaxRead,
           s \in Scans, s.i = 1, Scanning(b, s, W, n)
    PROVE  LET r == Loop(ScanStep, b, s)[Len(b)] IN
           r \in Scans /\ Scanning(b, r, W, n) /\ (r.stop \/ r.i = Len(b) + 1)
<1> DEFINE L == Loop(ScanStep, b, s)
           Holds(k) == L[k] \in Scans /\ Scanning(b, L[k], W, n) /\ (L[k].stop \/ L[k].i >= k + 1)
           A == {k \in 0..Len(b) : Holds(k)}
<1>1. Len(b) \in Nat /\ b \in Seq(OscBytes)
    BY WatchingIs DEF Watching
<1>2. /\ L[0] = s
      /\ \A k \in 1..Len(b) :
            L[k] = IF L[k - 1].stop \/ L[k - 1].i > Len(b) THEN L[k - 1] ELSE ScanStep(b, L[k - 1])
    BY <1>1, ScanLoopIs
<1> HIDE DEF L
<1>3. 0 \in A
    BY <1>1, <1>2
<1>4. ASSUME NEW k \in 0..Len(b), k # 0, k - 1 \in A PROVE k \in A
    <2>1. k \in 1..Len(b) /\ Holds(k - 1) /\ L[k - 1].i \in Nat
        BY <1>1, <1>4 DEF Scans
    <2>2. CASE L[k - 1].stop \/ L[k - 1].i > Len(b)
        <3>1. L[k] = L[k - 1]
            BY <1>2, <2>1, <2>2
        <3>2. L[k].stop \/ L[k].i >= k + 1
            BY <1>1, <2>1, <2>2, <3>1
        <3>3. QED BY <2>1, <3>1, <3>2
    <2>3. CASE ~(L[k - 1].stop \/ L[k - 1].i > Len(b))
        <3>1. L[k] = ScanStep(b, L[k - 1])
            BY <1>2, <2>1, <2>3
        <3>2. InRound(b, W, n, L[k - 1])
            BY <1>1, <2>1, <2>3 DEF InRound
        <3>3. Proceeds(b, W, n, L[k - 1], L[k])
            BY <3>1, <3>2, ScanStepKeeps
        <3>4. L[k].stop \/ L[k].i >= k + 1
            <4>1. L[k] \in Scans /\ (L[k].stop \/ L[k].i >= L[k - 1].i + 1)
                BY <3>3 DEF Proceeds
            <4>2. L[k].i \in Nat /\ k \in Nat /\ L[k - 1].i >= k
                BY <1>1, <2>1, <2>3, <4>1 DEF Scans
            <4>3. QED BY <2>1, <4>1, <4>2
        <3>5. QED BY <2>1, <3>3, <3>4 DEF Proceeds
    <2>4. QED BY <2>2, <2>3
<1>5. \A k \in 0..Len(b) : k # 0 /\ k - 1 \in A => k \in A
    BY <1>4
<1>6. \A k \in 0..Len(b) : k \in A
    <2> HIDE DEF A
    <2>1. QED BY <1>1, <1>3, <1>5, Climb
<1>7. Holds(Len(b))
    BY <1>1, <1>6
<1>8. L[Len(b)].stop \/ L[Len(b)].i = Len(b) + 1
    BY <1>1, <1>7 DEF Scanning
<1>9. QED BY <1>7, <1>8 DEF L

\* What is kept at the end is what a terminal is in the middle of.
LEMMA KeepTailKeeps ==
    ASSUME NEW b, NEW W, NEW n, NEW s, Watching(b, W), n \in 0..Len(b), Len(b) - n <= MaxRead, Len(b) >= 1,
           s \in Scans, Scanning(b, s, W, n), s.stop \/ s.i = Len(b) + 1
    PROVE  LET r == KeepTail(b, s) IN
           /\ r.pending \in Seq(OscBytes) /\ r.skipping \in BOOLEAN /\ r.bell \in BOOLEAN /\ r.told \in Seq(Heads)
           /\ OscHolds(r.pending, r.skipping, W[Len(b)]) /\ Heard(r, W[Len(b)])
<1> DEFINE N == Len(b)
           escapes == {i \in (s.consumed + 1)..N : b[i] = ESC /\ N - i + 1 <= TailLength}
           r == KeepTail(b, s)
<1>1. /\ N \in Nat /\ N >= 1 /\ b \in Seq(OscBytes) /\ TailLength \in Nat \ {0} /\ MaxRead \in Nat /\ MaxPending \in Nat
      /\ TailLength + MaxRead <= MaxPending /\ N \in 1..N /\ N \in 0..N /\ N - 1 \in 0..N
    BY WatchingIs, ScannersAssumption DEF Watching
<1>2. /\ s.pending \in Seq(OscBytes) /\ s.skipping \in BOOLEAN /\ s.bell \in BOOLEAN /\ s.told \in Seq(Heads)
      /\ s.consumed \in Nat /\ s.i \in Nat
    BY DEF Scans
<1>3. r = IF s.stop \/ escapes = {} \/ N - s.consumed > MaxPending THEN s
          ELSE [s EXCEPT !.pending = From(b, CHOOSE i \in escapes : \A j \in escapes : j <= i)]
    BY DEF KeepTail
<1>4. CASE s.stop
    BY <1>2, <1>3, <1>4 DEF Scanning
<1>5. CASE ~s.stop
    <2>1. s.i = N + 1 /\ s.i - 1 = N /\ s.pending = <<>> /\ s.consumed \in 0..N
        BY <1>1, <1>5 DEF Scanning
    <2>2. CASE s.skipping
        <3>1. Within(b, s, W, n)
            BY <1>5, <2>2 DEF Scanning
        <3>2. s.consumed = N /\ W[N].at = "osc" /\ W[N].length >= MaxPending /\ Heard(s, W[N])
            BY <1>1, <2>1, <3>1 DEF Within
        <3>3. escapes = {}
            BY <1>1, <3>2
        <3>4. r = s
            BY <1>3, <3>3
        <3>5. OscHolds(<<>>, TRUE, W[N])
            BY <3>2 DEF OscHolds
        <3>6. QED BY <1>2, <2>1, <2>2, <3>2, <3>4, <3>5
    <2>3. CASE ~s.skipping
        <3>1. Outside(b, s, W) /\ Bounded(b, s, n)
            BY <1>5, <2>3 DEF Scanning
        <3>2. Heard(s, W[N]) /\ Tidy(b, s) /\ N - s.consumed <= MaxPending
            BY <1>1, <2>1, <3>1 DEF Outside, Bounded
        <3>3. W[N].at = Text \/ (W[N].at = "esc" /\ s.consumed < N /\ b[N] = ESC)
            BY <1>1, <2>1, <3>1 DEF Outside
        <3>4. CASE escapes = {}
            <4>1. N \notin escapes
                BY <3>4
            <4>2. W[N].at = Text
                BY <1>1, <2>1, <3>3, <4>1
            <4>3. OscHolds(<<>>, FALSE, W[N])
                BY <4>2 DEF OscHolds
            <4>4. r = s
                BY <1>3, <3>4
            <4>5. QED BY <1>2, <2>1, <2>3, <3>2, <4>3, <4>4
        <3>5. CASE escapes # {}
            <4>1. PICK t \in escapes : \A j \in escapes : j <= t
                <5>1. escapes \in SUBSET (0..N)
                    BY <1>1, <2>1
                <5> HIDE DEF escapes
                <5>2. QED BY <1>1, <3>5, <5>1, GreatestOf
            <4>2. t \in (s.consumed + 1)..N /\ b[t] = ESC /\ N - t + 1 <= TailLength /\ t \in 1..N
                BY <1>2
            <4> DEFINE c == CHOOSE i \in escapes : \A j \in escapes : j <= i
            <4>3. c = t
                <5>1. c \in escapes /\ \A j \in escapes : j <= c
                    BY <4>1, Zenon
                <5>2. c <= t /\ t <= c /\ c \in (s.consumed + 1)..N
                    BY <4>1, <5>1
                <5> HIDE DEF c
                <5>3. QED BY <4>2, <5>2
            <4> HIDE DEF c
            <4> DEFINE p == From(b, t)
            <4>4. r = [s EXCEPT !.pending = p]
                <5>1. ~(N - s.consumed > MaxPending)
                    BY <1>1, <1>2, <3>2
                <5>2. r = [s EXCEPT !.pending = From(b, c)]
                    BY <1>3, <1>5, <3>5, <5>1 DEF c
                <5>3. QED BY <4>3, <5>2
            <4>5. p \in Seq(OscBytes) /\ Len(p) = N - t + 1 /\ \A k \in 1..(N - t + 1) : p[k] = b[t + k - 1]
                BY <1>1, <4>2 DEF From
            <4> HIDE DEF p
            <4>6. /\ r.pending = p /\ r.skipping = s.skipping /\ r.bell = s.bell /\ r.told = s.told
                BY <4>4 DEF Scans
            <4>7. \A j \in (t + 1)..N : b[j] \notin {BEL, ESC}
                <5> SUFFICES ASSUME NEW j \in (t + 1)..N PROVE b[j] \notin {BEL, ESC}
                    OBVIOUS
                <5>1. j \in (s.consumed + 1)..N /\ j > t /\ N - j + 1 <= TailLength
                    BY <1>1, <2>1, <4>2
                <5>2. b[j] # BEL
                    BY <5>1, <2>1, <3>2 DEF Tidy
                <5>3. j \notin escapes
                    BY <4>1, <4>2, <5>1
                <5>4. QED BY <5>1, <5>2, <5>3
            <4>8. t < N => b[t + 1] # "]"
                BY <2>1, <3>2, <4>2 DEF Tidy
            <4>9. Quiet(p, 2, Len(p))
                <5> SUFFICES ASSUME NEW k \in 2..Len(p) PROVE p[k] \notin {BEL, ESC}
                    BY DEF Quiet
                <5>1. k \in 1..(N - t + 1) /\ t + k - 1 \in (t + 1)..N
                    BY <1>1, <4>2, <4>5
                <5>2. QED BY <4>5, <4>7, <5>1
            <4>10. p[1] = ESC /\ Len(p) \in 1..TailLength
                <5>1. 1 \in 1..(N - t + 1) /\ t + 1 - 1 = t
                    BY <1>1, <4>2
                <5>2. QED BY <1>1, <4>2, <4>5, <5>1
            <4>11. Len(p) >= 2 => p[2] # "]"
                <5>1. Len(p) >= 2 => 2 \in 1..(N - t + 1) /\ t + 2 - 1 = t + 1 /\ t < N
                    BY <1>1, <4>2, <4>5
                <5>2. QED BY <4>5, <4>8, <5>1
            <4>12. Dangling(p)
                BY <4>9, <4>10, <4>11 DEF Dangling
            <4>13. W[N].at = IF Len(p) = 1 THEN "esc" ELSE Text
                <5>1. CASE t = N
                    <6>1. W[N] = Shows(W[N - 1], ESC) /\ W[N - 1] \in Terminals /\ W[N - 1].at \in Spots
                        BY <1>1, <4>2, <5>1, WatchingIs
                    <6>2. W[N].at # Text
                        <7>1. ESC \in OscBytes /\ ESC \in Bytes /\ ESC # "\\"
                            BY DEF OscBytes, Bytes, ESC
                        <7>2. CASE W[N - 1].at = "osc"
                            <8>1. Shows(W[N - 1], ESC) = [W[N - 1] EXCEPT !.at = "oscEsc"]
                                BY <6>1, <7>1, <7>2, ShowsOsc
                            <8>2. QED BY <6>1, <8>1 DEF Terminals, Text
                        <7>3. CASE W[N - 1].at = "oscEsc"
                            <8>1. PICK v \in Terminals : Shows(W[N - 1], ESC) = Begun(v, ESC)
                                <9>1. (W[N - 1].left \/ W[N - 1].length <= MaxPending) \in BOOLEAN
                                    BY <6>1 DEF Terminals
                                <9>2. [W[N - 1] EXCEPT !.left = W[N - 1].left \/ W[N - 1].length <= MaxPending] \in Terminals
                                    BY <6>1, <9>1 DEF Terminals
                                <9>3. QED BY <6>1, <7>1, <7>3, <9>2, ShowsOscEsc
                            <8>2. Begun(v, ESC) = [v EXCEPT !.at = "esc"]
                                BY <7>1, BegunIs
                            <8>3. QED BY <6>1, <8>1, <8>2 DEF Terminals, Text
                        <7>4. CASE Ready(W[N - 1])
                            BY <6>1, <7>4, Escapes DEF Text
                        <7>5. QED BY <6>1, <7>2, <7>3, <7>4 DEF Spots, Ready
                    <6>3. QED BY <1>1, <3>3, <4>5, <5>1, <6>2
                <5>2. CASE t # N
                    <6>1. N \in (t + 1)..N
                        BY <1>1, <4>2, <5>2
                    <6>2. b[N] # ESC
                        BY <4>7, <6>1
                    <6>3. Len(p) # 1
                        BY <1>1, <4>2, <4>5, <5>2
                    <6>4. QED BY <3>3, <6>2, <6>3
                <5>3. QED BY <5>1, <5>2
            <4>14. OscHolds(p, FALSE, W[N])
                BY <4>12, <4>13 DEF OscHolds
            <4>15. Heard(r, W[N])
                BY <3>2, <4>6, HeardAlike DEF Alike
            <4>16. QED BY <1>2, <2>3, <4>5, <4>6, <4>14, <4>15
        <3>6. QED BY <3>4, <3>5
    <2>4. QED BY <1>2, <2>2, <2>3
<1>6. QED BY <1>4, <1>5
-----------------------------------------------------------------------------
(* A chunk at a time. *)

\* What a terminal goes through over some bytes and then over more.
LEMMA WatchedOn ==
    ASSUME NEW t \in Terminals, NEW p \in Seq(Bytes), NEW c \in Seq(Bytes)
    PROVE  LET W == Watched(t, p \o c)
               u == Watched(t, p)[Len(p)] IN
           \A k \in 0..Len(c) : W[Len(p) + k] = Watched(u, c)[k]
<1> DEFINE b == p \o c
           n == Len(p)
           W == Watched(t, b)
           V == Watched(t, p)
           u == V[n]
           U == Watched(u, c)
<1>1. /\ n \in Nat /\ Len(c) \in Nat /\ b \in Seq(Bytes) /\ Len(b) = n + Len(c)
      /\ \A k \in 1..n : b[k] = p[k]
      /\ \A k \in 1..Len(c) : b[n + k] = c[k]
    OBVIOUS
<1> HIDE DEF b
<1>2. W[0] = t /\ V[0] = t /\ V \in [0..n -> Terminals] /\ Follows(W, b) /\ Follows(V, p)
    BY <1>1, WatchedRuns
<1>3. u \in Terminals
    <2> HIDE DEF V, n
    <2>1. n \in 0..n
        BY <1>1
    <2>2. QED BY <1>2, <2>1
<1>4. U[0] = u /\ Follows(U, c)
    <2> HIDE DEF u
    <2>1. QED BY <1>3, WatchedRuns
<1> HIDE DEF W, V, U, n
<1>5. \A k \in 0..n : W[k] = V[k]
    <2> DEFINE A == {k \in 0..n : W[k] = V[k]}
    <2>1. 0 \in A
        BY <1>1, <1>2
    <2>2. \A k \in 0..n : k # 0 /\ k - 1 \in A => k \in A
        <3> SUFFICES ASSUME NEW k \in 0..n, k # 0, k - 1 \in A PROVE k \in A
            OBVIOUS
        <3>1. k \in 1..n /\ k \in 1..Len(b)
            BY <1>1
        <3>2. W[k] = Shows(W[k - 1], b[k]) /\ V[k] = Shows(V[k - 1], p[k])
            BY <1>2, <3>1 DEF Follows, n
        <3>3. QED BY <1>1, <3>1, <3>2
    <2>3. \A k \in 0..n : k \in A
        <3> HIDE DEF A
        <3>1. QED BY <1>1, <2>1, <2>2, Climb
    <2>4. QED BY <2>3
<1> DEFINE B == {k \in 0..Len(c) : W[n + k] = U[k]}
<1>6. 0 \in B
    <2>1. n \in 0..n /\ n + 0 = n
        BY <1>1
    <2>2. W[n] = u
        BY <1>5, <2>1
    <2>3. QED BY <1>1, <1>4, <2>1, <2>2
<1>7. \A k \in 0..Len(c) : k # 0 /\ k - 1 \in B => k \in B
    <2> SUFFICES ASSUME NEW k \in 0..Len(c), k # 0, k - 1 \in B PROVE k \in B
        OBVIOUS
    <2>1. k \in 1..Len(c) /\ n + k \in 1..Len(b) /\ n + (k - 1) = n + k - 1
        BY <1>1
    <2>2. W[n + k] = Shows(W[n + k - 1], b[n + k])
        <3>1. W[n + k] = Shows(W[(n + k) - 1], b[n + k])
            BY <1>2, <2>1 DEF Follows
        <3>2. (n + k) - 1 = n + (k - 1)
            BY <1>1
        <3>3. QED BY <3>1, <3>2
    <2>3. U[k] = Shows(U[k - 1], c[k])
        BY <1>4, <2>1 DEF Follows
    <2>4. W[n + k - 1] = U[k - 1] /\ b[n + k] = c[k]
        BY <1>1, <2>1
    <2>5. QED BY <2>2, <2>3, <2>4
<1>8. \A k \in 0..Len(c) : k \in B
    <2> HIDE DEF B
    <2>1. QED BY <1>1, <1>6, <1>7, Climb
<1>9. \A k \in 0..Len(c) : W[n + k] = U[k]
    BY <1>8
<1>10. QED BY <1>9 DEF W, U, V, b, n

\* Where a terminal was before what is pending.
Before(skipping, t) == [t EXCEPT !.at = IF skipping THEN "osc" ELSE Text]

LEMMA BeforeIs ==
    ASSUME NEW t \in Terminals, NEW skipping \in BOOLEAN
    PROVE  LET u == Before(skipping, t) IN
           u \in Terminals /\ u.at \in Spots /\ u.at = (IF skipping THEN "osc" ELSE Text) /\ AlikeAll(u, t)
<1>1. (IF skipping THEN "osc" ELSE Text) \in Stations /\ (IF skipping THEN "osc" ELSE Text) \in Spots
    BY DEF Stations, Spots, Text
<1>2. QED BY <1>1 DEF Before, Terminals, AlikeAll, Alike

LEMMA PendingLeads ==
    ASSUME NEW p \in Seq(OscBytes), NEW skipping \in BOOLEAN, NEW t \in Terminals, OscHolds(p, skipping, t)
    PROVE  Watched(Before(skipping, t), p)[Len(p)] = t
<1> DEFINE u == Before(skipping, t)
           W == Watched(u, p)
           n == Len(p)
<1>1. /\ u \in Terminals /\ u.at = (IF skipping THEN "osc" ELSE Text) /\ AlikeAll(u, t)
    BY BeforeIs
<1> HIDE DEF u
<1>2. p \in Seq(Bytes) /\ n \in Nat
    BY DEF Bytes
<1>3. W \in [0..n -> Terminals] /\ W[0] = u /\ Follows(W, p) /\ W[n] \in Terminals
    BY <1>1, <1>2, WatchedRuns
<1> HIDE DEF W
<1>4. Stepping(p, W)
    BY <1>3 DEF Stepping
<1>5. W[n].at = t.at /\ AlikeAll(W[n], t) => W[n] = t
    BY <1>3, SameTerminal DEF AlikeAll, Alike
<1>6. CASE p = <<>>
    <2>1. n = 0 /\ W[n] = u
        BY <1>3, <1>6
    <2>2. t.at = u.at
        BY <1>1, <1>6 DEF OscHolds, Unfinished, Dangling
    <2>3. QED BY <1>1, <1>5, <2>1, <2>2 DEF W, u
<1>7. CASE skipping /\ p = <<ESC>>
    <2>1. n = 1 /\ p[1] = ESC
        BY <1>7
    <2>2. W[1] = Shows(u, ESC) /\ u.at = "osc" /\ ESC \in OscBytes
        BY <1>1, <1>3, <1>7, <2>1 DEF Follows, OscBytes
    <2>3. W[1] = [u EXCEPT !.at = "oscEsc"]
        BY <1>1, <2>2, ShowsOsc
    <2>4. t.at = "oscEsc"
        BY <1>7 DEF OscHolds
    <2>5. W[n].at = t.at /\ AlikeAll(W[n], t)
        BY <1>1, <2>1, <2>3, <2>4 DEF Terminals, AlikeAll, Alike
    <2>6. QED BY <1>5, <2>5 DEF W, u
<1>8. CASE ~skipping /\ Dangling(p)
    <2>1. n \in 1..n /\ 1 \in 1..n /\ p[1] = ESC /\ Quiet(p, 1 + 1, n) /\ (1 < n => p[1 + 1] # "]") /\ 1 - 1 = 0
        BY <1>2, <1>8, ScannersAssumption DEF Dangling
    <2>2. W[1 - 1].at = Text /\ W[1 - 1] = W[0]
        BY <1>1, <1>3, <1>8
    <2>3. W[n].at = (IF n = 1 THEN "esc" ELSE Text) /\ AlikeAll(W[0], W[n])
        <3>1. W[n].at = (IF n = 1 THEN "esc" ELSE Text) /\ AlikeAll(W[1 - 1], W[n])
            BY <1>4, <2>1, <2>2, DanglingRun
        <3>2. QED BY <2>2, <3>1
    <2>4. t.at = IF n = 1 THEN "esc" ELSE Text
        <3>1. ~Unfinished(p) /\ p # <<>>
            BY <1>8, <2>1 DEF Unfinished, Dangling
        <3>2. QED BY <1>8, <3>1 DEF OscHolds
    <2>5. W[n].at = t.at /\ AlikeAll(W[n], t)
        BY <1>1, <1>3, <2>3, <2>4 DEF AlikeAll, Alike
    <2>6. QED BY <1>5, <2>5 DEF W, u
<1>9. CASE ~skipping /\ Unfinished(p) /\ InCommand(p, t)
    <2>1. n \in 2..MaxPending /\ p[1] = ESC /\ p[2] = "]" /\ Quiet(p, 3, n - 1) /\ p[n] # BEL /\ MaxPending \in Nat
        BY <1>9, ScannersAssumption DEF Unfinished
    <2>2. W[1] = Shows(u, ESC) /\ W[1] \in Terminals /\ W[1].at = "esc" /\ AlikeAll(u, W[1])
        <3>1. W[1] = Shows(W[1 - 1], p[1]) /\ W[1] \in Terminals
            BY <1>2, <1>3, <2>1 DEF Follows
        <3>2. Ready(u)
            BY <1>1, <1>9 DEF Ready
        <3>3. QED BY <1>1, <1>3, <2>1, <3>1, <3>2, Escapes
    <2>3. W[2].at = "osc" /\ W[2].head = "none" /\ W[2].length = 2 /\ Alike(W[1], W[2])
        <3>1. W[2] = Shows(W[2 - 1], p[2])
            BY <1>2, <1>3, <2>1 DEF Follows
        <3>2. Ready(W[1]) /\ W[1].at # Text
            BY <2>2 DEF Ready, Text
        <3>3. QED BY <2>1, <2>2, <3>1, <3>2, Opens
    <2> DEFINE m == Inside(p)
    <2>4. /\ m \in 2..n /\ (p[n] = ESC => m = n - 1) /\ (p[n] # ESC => m = n) /\ Quiet(p, 3, m)
        <3>1. p[2] # ESC
            BY <2>1 DEF ESC
        <3>2. CASE p[n] = ESC
            <4>1. n # 2 /\ m = n - 1
                BY <2>1, <3>1, <3>2 DEF Inside
            <4>2. Quiet(p, 3, m)
                BY <2>1, <4>1
            <4>3. m \in 2..n
                <5>1. n \in Nat /\ n >= 2
                    BY <2>1
                <5> HIDE DEF m, n
                <5>2. QED BY <4>1, <5>1
            <4>4. QED BY <3>2, <4>1, <4>2, <4>3
        <3>3. CASE p[n] # ESC
            <4>1. m = n
                BY <3>3 DEF Inside
            <4>2. Quiet(p, 3, n)
                BY <2>1, <3>3 DEF Quiet
            <4>3. QED BY <2>1, <3>3, <4>1, <4>2
        <3>4. QED BY <3>2, <3>3
    <2>5. t.at = (IF p[n] = ESC THEN "oscEsc" ELSE "osc") /\ t.length = m /\ t.head = IF m = 2 THEN "none" ELSE p[3]
        BY <1>9 DEF InCommand
    <2> HIDE DEF m
    <2>6. Inwards(p, W, 1, m)
        <3>1. 1 \in 1..(n - 1) /\ m \in (1 + 1)..n /\ 1 + 1 = 2 /\ 1 + 2 = 3
            BY <2>1, <2>4
        <3>2. QED BY <1>4, <2>3, <2>4, <3>1, CommandRun
    <2>7. W[m].at = "osc" /\ Alike(W[2], W[m]) /\ W[m].head = t.head /\ W[m].length = t.length /\ W[m] \in Terminals
        <3>1. W[m].at = "osc" /\ Alike(W[1 + 1], W[m]) /\ W[m].head = (IF m = 1 + 1 THEN "none" ELSE p[1 + 2])
              /\ W[m].length = IF m - 1 + 1 > MaxPending THEN MaxPending + 1 ELSE m - 1 + 1
            BY <2>6 DEF Inwards
        <3>2. ~(m - 1 + 1 > MaxPending) /\ m - 1 + 1 = m /\ 1 + 1 = 2 /\ 1 + 2 = 3 /\ m \in 0..n
            BY <2>1, <2>4
        <3>3. QED BY <1>3, <2>5, <3>1, <3>2
    <2>8. AlikeAll(W[m], t)
        BY <1>1, <2>2, <2>3, <2>7 DEF AlikeAll, Alike
    <2>9. W[n].at = t.at /\ AlikeAll(W[n], t)
        <3>1. CASE p[n] = ESC
            <4>1. W[n] = Shows(W[m], ESC) /\ ESC \in OscBytes
                BY <1>2, <1>3, <2>1, <2>4, <3>1 DEF Follows, OscBytes
            <4>2. W[n] = [W[m] EXCEPT !.at = "oscEsc"]
                BY <2>7, <4>1, ShowsOsc
            <4>3. QED BY <2>5, <2>7, <2>8, <3>1, <4>2 DEF Terminals, AlikeAll, Alike
        <3>2. CASE p[n] # ESC
            BY <2>4, <2>5, <2>7, <2>8, <3>2
        <3>3. QED BY <3>1, <3>2
    <2>10. QED BY <1>5, <2>9 DEF W, u
<1>10. QED BY <1>6, <1>7, <1>8, <1>9 DEF OscHolds

LEMMA QuietedIs ==
    ASSUME NEW t \in Terminals
    PROVE  LET u == Quieted(t) IN
           /\ u \in Terminals /\ u.at = t.at /\ u.head = t.head /\ u.length = t.length /\ u.on = t.on /\ u.ones = t.ones
           /\ u.rang = FALSE /\ u.told = <<>> /\ u.all = <<>> /\ u.left = FALSE
<1>1. <<>> \in Seq(Heads)
    OBVIOUS
<1>2. QED BY <1>1 DEF Quieted, Terminals

\* Nothing has been heard where there was nothing to hear.
LEMMA HeardNothing ==
    ASSUME NEW s, s.bell = FALSE, s.told = <<>>, NEW t, t.rang = FALSE, t.told = <<>>, t.all = <<>>
    PROVE  Heard(s, t)
<1>1. \A h : Count(<<>>, h) = 0
    <2>1. \A h : {i \in DOMAIN <<>> : <<>>[i] = h} = {}
        OBVIOUS
    <2>2. QED BY <2>1, FS_EmptySet DEF Count
<1>2. QED BY <1>1 DEF Heard

LEMMA ChunkIs ==
    ASSUME NEW S, NEW p \in Seq(S), NEW chunk \in Chunks(S)
    PROVE  chunk \in Seq(S) /\ Len(chunk) \in 1..MaxRead /\ p \o chunk \in Seq(S)
<1>1. PICK m \in 1..MaxRead : chunk \in [1..m -> S]
    BY DEF Chunks
<1>2. m \in Nat /\ MaxRead \in Nat
    BY ScannersAssumption
<1>3. QED BY <1>1, <1>2

LEMMA FromIs ==
    ASSUME NEW S, NEW b \in Seq(S), NEW i \in 1..Len(b)
    PROVE  /\ From(b, i) \in Seq(S) /\ Len(From(b, i)) = Len(b) - i + 1
           /\ \A k \in 1..(Len(b) - i + 1) : From(b, i)[k] = b[i + k - 1]
BY DEF From

\* Where the scanner of commands and a terminal are between two chunks.
CommandsAbreast(p, skipping, t) ==
    /\ t \in Terminals /\ t.at \in Spots
    /\ p \in Seq(OscBytes) /\ skipping \in BOOLEAN /\ OscHolds(p, skipping, t)

LEMMA FeedOscKeeps ==
    ASSUME CommandsAbreast(osc.pending, osc.skipping, screen), NEW chunk \in Chunks(OscBytes), ~Shown(chunk).left
    PROVE  LET r == FeedOsc(chunk)
               t == Shown(chunk) IN
           /\ CommandsAbreast(r.pending, r.skipping, t) /\ Heard(r, t) /\ t.on = screen.on
           /\ r.bell \in BOOLEAN /\ r.told \in Seq(Heads)
<1> DEFINE p == osc.pending
           sk == osc.skipping
           b == p \o chunk
           n == Len(p)
           t == Quieted(screen)
           u == Before(sk, t)
           W == Watched(u, b)
           begin == [i |-> 1, consumed |-> 0, stop |-> FALSE, pending |-> <<>>, skipping |-> sk,
                     bell |-> FALSE, told |-> <<>>]
<1>1. /\ screen \in Terminals /\ screen.at \in Spots /\ p \in Seq(OscBytes) /\ sk \in BOOLEAN
      /\ OscHolds(p, sk, screen)
    BY DEF CommandsAbreast
<1>2. chunk \in Seq(OscBytes) /\ Len(chunk) \in 1..MaxRead
    BY <1>1, ChunkIs
<1>3. /\ t \in Terminals /\ t.at = screen.at /\ t.head = screen.head /\ t.length = screen.length /\ t.on = screen.on
      /\ t.rang = FALSE /\ t.told = <<>> /\ t.all = <<>> /\ t.left = FALSE
    BY <1>1, QuietedIs
<1>4. OscHolds(p, sk, t)
    BY <1>1, <1>3 DEF OscHolds, InCommand
<1>5. u \in Terminals /\ u.at \in Spots /\ u.at = (IF sk THEN "osc" ELSE Text) /\ AlikeAll(u, t)
    BY <1>1, <1>3, BeforeIs
<1>6. Watched(u, p)[n] = t
    BY <1>1, <1>3, <1>4, PendingLeads
<1>7. /\ b \in Seq(OscBytes) /\ b \in Seq(Bytes) /\ Len(b) = n + Len(chunk) /\ n \in Nat /\ Len(chunk) \in Nat
      /\ SubSeq(b, 1, n) = p
    <2>1. OscBytes \subseteq Bytes
        BY DEF Bytes
    <2>2. b \in Seq(OscBytes) /\ Len(b) = n + Len(chunk) /\ n \in Nat /\ Len(chunk) \in Nat
        BY <1>1, <1>2
    <2>3. SubSeq(b, 1, n) = p
        BY <1>1, <1>2
    <2> HIDE DEF b
    <2>4. b \in Seq(Bytes)
        BY <2>1, <2>2
    <2>5. QED BY <2>2, <2>3, <2>4
<1>8. W \in [0..Len(b) -> Terminals] /\ W[0] = u /\ Follows(W, b)
    BY <1>5, <1>7, WatchedRuns
<1>9. W[Len(b)] = Shown(chunk)
    <2>1. p \in Seq(Bytes) /\ chunk \in Seq(Bytes)
        BY <1>1, <1>2 DEF Bytes
    <2>2. \A k \in 0..Len(chunk) : W[n + k] = Watched(Watched(u, p)[n], chunk)[k]
        BY <1>5, <2>1, WatchedOn
    <2>3. Len(chunk) \in 0..Len(chunk)
        BY <1>7
    <2>4. W[n + Len(chunk)] = Watched(t, chunk)[Len(chunk)]
        BY <1>6, <2>2, <2>3
    <2>5. QED BY <1>7, <2>4 DEF Shown
<1> HIDE DEF W, u, t, b, n, p, sk
<1>10. Watching(b, W)
    BY <1>5, <1>7, <1>8, <1>9 DEF Watching
<1>11. n \in 0..Len(b) /\ Len(b) - n <= MaxRead /\ Len(b) >= 1 /\ MaxRead \in Nat
    BY <1>2, <1>7, ScannersAssumption
<1>12. /\ begin \in Scans /\ begin.i = 1 /\ begin.consumed = 0 /\ ~begin.stop /\ begin.pending = <<>>
       /\ begin.skipping = sk /\ begin.bell = FALSE /\ begin.told = <<>>
    <2>1. 1 \in Nat \ {0} /\ 0 \in Nat /\ <<>> \in Seq(OscBytes) /\ <<>> \in Seq(Heads) /\ sk \in BOOLEAN
        BY <1>1
    <2>2. QED BY <2>1 DEF Scans
<1> HIDE DEF begin
<1>13. Heard(begin, W[0])
    BY <1>3, <1>5, <1>8, <1>12, HeardNothing DEF AlikeAll, Alike
<1>14. begin.skipping => Within(b, begin, W, n)
    <2> SUFFICES ASSUME sk PROVE Within(b, begin, W, n)
        BY <1>12
    <2>1. t.length >= MaxPending /\ (p = <<>> \/ p = <<ESC>>)
        BY <1>4 DEF OscHolds
    <2>0. n <= 1
        <3>1. Len(<<ESC>>) = 1 /\ Len(<<>>) = 0
            OBVIOUS
        <3>2. n = 0 \/ n = 1
            BY <2>1, <3>1, Zenon DEF n
        <3>3. QED BY <3>2
    <2>2. W[0].at = "osc" /\ W[0].length >= MaxPending
        BY <1>5, <1>8, <2>1 DEF AlikeAll
    <2>3. 0 \in (1 - 1)..Len(b) /\ 0 >= n - 1
        BY <2>0, <1>7, <1>11
    <2>4. Quiet(b, 1, 0)
        BY DEF Quiet
    <2>5. begin.consumed = begin.i - 1
        BY <1>12
    <2>6. QED BY <1>12, <1>13, <2>2, <2>3, <2>4, <2>5 DEF Within
<1>15. ~begin.skipping => Outside(b, begin, W) /\ Bounded(b, begin, n)
    <2> SUFFICES ASSUME ~sk PROVE Outside(b, begin, W) /\ Bounded(b, begin, n)
        BY <1>12
    <2>1. W[1 - 1].at = Text /\ Heard(begin, W[1 - 1])
        BY <1>5, <1>8, <1>13
    <2>2. Tidy(b, begin)
        BY <1>12 DEF Tidy
    <2>3. Outside(b, begin, W)
        BY <1>12, <2>1, <2>2 DEF Outside
    <2>4. CASE Unfinished(p)
        <3>1. begin.i = 1 /\ Unfinished(SubSeq(b, 1, n))
            BY <1>7, <1>12, <2>4
        <3>2. Bounded(b, begin, n)
            BY <3>1, Zenon DEF Bounded
        <3>3. QED BY <2>3, <3>2
    <2>5. CASE ~Unfinished(p)
        <3>1. n <= TailLength
            BY <1>4, <2>5, ScannersAssumption DEF OscHolds, Dangling, n
        <3>2. Len(b) - 0 <= TailLength + MaxRead
            BY <1>7, <1>11, <3>1, ScannersAssumption
        <3>3. begin.consumed = 0
            BY <1>12
        <3>4. Bounded(b, begin, n)
            BY <3>2, <3>3, Zenon DEF Bounded
        <3>5. QED BY <2>3, <3>4
    <2>6. QED BY <2>3, <2>4, <2>5
<1>16. Scanning(b, begin, W, n)
    BY <1>7, <1>11, <1>12, <1>14, <1>15 DEF Scanning
<1> DEFINE s == Loop(ScanStep, b, begin)[Len(b)]
           r == KeepTail(b, s)
<1>17. s \in Scans /\ Scanning(b, s, W, n) /\ (s.stop \/ s.i = Len(b) + 1)
    BY <1>10, <1>11, <1>12, <1>16, ScanLoopKeeps
<1>18. FeedOsc(chunk) = r
    BY DEF FeedOsc, begin, b, p, sk
<1> HIDE DEF s
<1>19. /\ r.pending \in Seq(OscBytes) /\ r.skipping \in BOOLEAN /\ r.bell \in BOOLEAN /\ r.told \in Seq(Heads)
       /\ OscHolds(r.pending, r.skipping, W[Len(b)]) /\ Heard(r, W[Len(b)])
    BY <1>10, <1>11, <1>17, KeepTailKeeps
<1>20. W[Len(b)] \in Terminals /\ W[Len(b)].at \in Spots /\ W[Len(b)].on = W[0].on
    BY <1>10, <1>11, WatchingIs
<1>21. W[0].on = screen.on
    BY <1>3, <1>5, <1>8 DEF AlikeAll, Alike
<1> HIDE DEF r
<1>22. QED BY <1>9, <1>18, <1>19, <1>20, <1>21 DEF CommandsAbreast

\* Reading commands alone.
CommandsInv ==
    /\ CommandsAbreast(osc.pending, osc.skipping, screen) /\ Heard(last, screen)
    /\ modes = [pending |-> <<>>, on |-> screen.on]

LEMMA CommandsStart ==
    ASSUME ScanInit
    PROVE  CommandsInv
<1>1. /\ screen.at = Text /\ screen.rang = FALSE /\ screen.told = <<>> /\ screen.all = <<>>
      /\ screen.on = [n \in 1..2 |-> FALSE]
    BY DEF ScanInit, Fresh
<1>2. screen \in Terminals
    <2>1. Text \in Stations /\ "none" \in Heads /\ 0 \in Nat /\ 0 \in 0..2 /\ <<>> \in Seq(Heads)
        BY DEF Stations, Heads
    <2>2. [n \in 1..2 |-> FALSE] \in [1..2 -> BOOLEAN]
        OBVIOUS
    <2>3. QED BY <2>1, <2>2 DEF ScanInit, Fresh, Terminals
<1>3. osc.pending = <<>> /\ osc.skipping = FALSE /\ osc.pending \in Seq(OscBytes)
    BY DEF ScanInit
<1>4. CommandsAbreast(osc.pending, osc.skipping, screen)
    BY <1>1, <1>2, <1>3 DEF CommandsAbreast, OscHolds, Spots
<1>5. Heard(last, screen)
    BY <1>1, HeardNothing DEF ScanInit, Nothing
<1>6. QED BY <1>1, <1>4, <1>5 DEF CommandsInv, ScanInit

\* A chunk of commands keeps it, when none is given up that could be kept.
LEMMA CommandsStep ==
    ASSUME CommandsInv, ReadCommands, ~Abandons
    PROVE  CommandsInv'
<1>1. PICK chunk \in Chunks(OscBytes) :
         LET fed == FeedOsc(chunk) IN
         /\ screen' = Shown(chunk) /\ (screen'.left => Abandons)
         /\ osc' = [pending |-> fed.pending, skipping |-> fed.skipping]
         /\ last' = [bell |-> fed.bell, told |-> fed.told]
         /\ UNCHANGED modes
    BY DEF ReadCommands
<1> DEFINE r == FeedOsc(chunk)
           t == Shown(chunk)
<1>2. CommandsAbreast(r.pending, r.skipping, t) /\ Heard(r, t) /\ t.on = screen.on
    BY <1>1, FeedOscKeeps DEF CommandsInv
<1> HIDE DEF r, t
<1>3. screen' = t /\ osc'.pending = r.pending /\ osc'.skipping = r.skipping /\ last'.bell = r.bell /\ last'.told = r.told
    BY <1>1 DEF r, t
<1>4. Heard(last', t)
    BY <1>2, <1>3, HeardAlike DEF Alike
<1>5. modes' = [pending |-> <<>>, on |-> t.on]
    BY <1>1, <1>2 DEF CommandsInv
<1>6. QED BY <1>2, <1>3, <1>4, <1>5 DEF CommandsInv

\* What is kept is never longer than it may be, whatever the program gives up.
Short(s) == Len(s.pending) <= MaxPending

LEMMA FromShort ==
    ASSUME NEW b \in Seq(OscBytes), NEW i \in 1..Len(b), Len(b) - i + 1 <= MaxPending
    PROVE  Len(From(b, i)) <= MaxPending
BY FromIs

LEMMA ScanByteShort ==
    ASSUME NEW b \in Seq(OscBytes), NEW s \in Scans, s.i <= Len(b), Short(s)
    PROVE  Short(ScanByte(b, s))
<1> DEFINE r == ScanByte(b, s)
<1>1. ByteRings(b, s, r) \/ BytePasses(b, s, r) \/ CommandTold(b, s, r) \/ CommandKept(b, s, r) \/ CommandThrown(b, s, r)
    BY ScanByteIs
<1> HIDE DEF r
<1>2. CASE CommandKept(b, s, r)
    <2>1. s.i \in 1..Len(b)
        BY DEF Scans
    <2>2. r.pending = From(b, s.i) /\ Len(b) - s.i + 1 <= MaxPending
        BY <1>2, KeepIs DEF CommandKept
    <2>3. Len(From(b, s.i)) <= MaxPending
        BY <2>1, <2>2, FromShort
    <2>4. QED BY <2>2, <2>3 DEF Short, r
<1>3. CASE ~CommandKept(b, s, r)
    <2>1. r.pending = s.pending
        BY <1>1, <1>3 DEF ByteRings, BytePasses, CommandTold, CommandThrown, ConsumedTo
    <2>2. QED BY <2>1 DEF Short, r
<1>4. QED BY <1>2, <1>3

LEMMA ScanStepShort ==
    ASSUME NEW b \in Seq(OscBytes), NEW s \in Scans, s.i <= Len(b), Short(s)
    PROVE  Short(ScanStep(b, s))
<1> DEFINE s1 == [s EXCEPT !.skipping = FALSE]
<1>1. s1 \in Scans /\ s1.i = s.i /\ s1.pending = s.pending
    BY DEF Scans
<1>2. s.i + 1 \in Nat \ {0} /\ s.i + 2 \in Nat \ {0} /\ s.i \in Nat
    BY DEF Scans
<1>3. \A n \in {s.i + 1, s.i + 2} : Short(Consume(s, n)) /\ Short([Consume(s, n) EXCEPT !.skipping = FALSE])
    <2> SUFFICES ASSUME NEW n \in {s.i + 1, s.i + 2}
                 PROVE  Short(Consume(s, n)) /\ Short([Consume(s, n) EXCEPT !.skipping = FALSE])
        OBVIOUS
    <2>1. Consume(s, n).pending = s.pending /\ Consume(s, n) \in Scans
        BY <1>2, ConsumeIs DEF ConsumedTo
    <2>2. [Consume(s, n) EXCEPT !.skipping = FALSE].pending = s.pending
        BY <2>1 DEF Scans
    <2>3. QED BY <2>1, <2>2 DEF Short
<1>4. Short(ScanByte(b, s)) /\ Short(ScanByte(b, s1))
    <2>1. Short(s1) /\ s1.i <= Len(b)
        BY <1>1 DEF Short
    <2> HIDE DEF s1
    <2>2. QED BY <1>1, <2>1, ScanByteShort
<1>5. s.i = Len(b) => Short(Keep(b, s))
    <2> SUFFICES ASSUME s.i = Len(b) PROVE Short(Keep(b, s))
        OBVIOUS
    <2>1. s.i \in 1..Len(b) /\ Len(b) - s.i + 1 = 1 /\ 1 <= MaxPending
        BY <1>2, ScannersAssumption DEF Scans
    <2>2. Len(From(b, s.i)) <= MaxPending
        BY <2>1, FromShort
    <2>3. QED BY <2>2, KeepIs DEF Short
<1>6. \/ ScanStep(b, s) \in {ScanByte(b, s), ScanByte(b, s1)}
      \/ \E n \in {s.i + 1, s.i + 2} :
            ScanStep(b, s) = Consume(s, n) \/ ScanStep(b, s) = [Consume(s, n) EXCEPT !.skipping = FALSE]
      \/ s.i = Len(b) /\ ScanStep(b, s) = Keep(b, s)
    BY Zenon DEF ScanStep
<1>7. QED BY <1>3, <1>4, <1>5, <1>6

LEMMA FeedOscShort ==
    ASSUME osc.pending \in Seq(OscBytes), osc.skipping \in BOOLEAN, NEW chunk \in Chunks(OscBytes)
    PROVE  LET r == FeedOsc(chunk) IN
           r.pending \in Seq(OscBytes) /\ Len(r.pending) <= MaxPending /\ r.skipping \in BOOLEAN
<1> DEFINE b == osc.pending \o chunk
           begin == [i |-> 1, consumed |-> 0, stop |-> FALSE, pending |-> <<>>, skipping |-> osc.skipping,
                     bell |-> FALSE, told |-> <<>>]
           L == Loop(ScanStep, b, begin)
           A == {k \in 0..Len(b) : L[k] \in Scans /\ Short(L[k])}
<1>1. b \in Seq(OscBytes)
    BY ChunkIs
<1>2. begin \in Scans /\ Short(begin)
    <2>1. 1 \in Nat \ {0} /\ 0 \in Nat /\ <<>> \in Seq(OscBytes) /\ <<>> \in Seq(Heads)
        OBVIOUS
    <2>2. begin \in Scans
        BY <2>1 DEF Scans
    <2>3. begin.pending = <<>> /\ Len(<<>>) = 0 /\ MaxPending \in Nat
        BY ScannersAssumption
    <2> HIDE DEF begin
    <2>4. Short(begin)
        BY <2>3 DEF Short
    <2>5. QED BY <2>2, <2>4
<1> HIDE DEF b, begin
<1>3. /\ Len(b) \in Nat /\ L[0] = begin
      /\ \A k \in 1..Len(b) :
            L[k] = IF L[k - 1].stop \/ L[k - 1].i > Len(b) THEN L[k - 1] ELSE ScanStep(b, L[k - 1])
    <2>1. Len(b) \in Nat
        BY <1>1
    <2>2. /\ L[0] = begin
          /\ \A k \in 1..Len(b) :
                L[k] = IF L[k - 1].stop \/ L[k - 1].i > Len(b) THEN L[k - 1] ELSE ScanStep(b, L[k - 1])
        BY <1>1, <1>2, ScanLoopIs, Zenon
    <2>3. QED BY <2>1, <2>2
<1> HIDE DEF L
<1>4. 0 \in A
    BY <1>2, <1>3
<1>5. ASSUME NEW k \in 0..Len(b), k # 0, k - 1 \in A PROVE k \in A
    <2>1. k \in 1..Len(b) /\ L[k - 1] \in Scans /\ Short(L[k - 1])
        BY <1>3, <1>5
    <2>2. CASE L[k - 1].stop \/ L[k - 1].i > Len(b)
        BY <1>3, <2>1, <2>2
    <2>3. CASE ~(L[k - 1].stop \/ L[k - 1].i > Len(b))
        <3>1. L[k] = ScanStep(b, L[k - 1]) /\ L[k - 1].i <= Len(b)
            BY <1>3, <2>1, <2>3 DEF Scans
        <3>2. QED BY <1>1, <2>1, <3>1, ScanStepType, ScanStepShort
    <2>4. QED BY <2>2, <2>3
<1>6. \A k \in 0..Len(b) : k # 0 /\ k - 1 \in A => k \in A
    BY <1>5
<1>7. \A k \in 0..Len(b) : k \in A
    <2> HIDE DEF A
    <2>1. QED BY <1>3, <1>4, <1>6, Climb
<1> DEFINE s == L[Len(b)]
           r == KeepTail(b, s)
           escapes == {i \in (s.consumed + 1)..Len(b) : b[i] = ESC /\ Len(b) - i + 1 <= TailLength}
           p == From(b, CHOOSE i \in escapes : \A j \in escapes : j <= i)
<1>8. s \in Scans /\ Short(s)
    BY <1>3, <1>7
<1> HIDE DEF s
<1>9. r = s \/ (r = [s EXCEPT !.pending = p] /\ escapes # {})
    BY Zenon DEF KeepTail
<1>10. escapes # {} => p \in Seq(OscBytes) /\ Len(p) <= MaxPending
    <2> SUFFICES ASSUME escapes # {} PROVE p \in Seq(OscBytes) /\ Len(p) <= MaxPending
        OBVIOUS
    <2>1. s.consumed \in Nat /\ TailLength <= MaxPending /\ TailLength \in Nat /\ MaxPending \in Nat
        BY <1>8, ScannersAssumption DEF Scans
    <2>2. \E t \in escapes : \A j \in escapes : j <= t
        <3>1. escapes \in SUBSET (0..Len(b))
            BY <1>3, <2>1
        <3> HIDE DEF escapes
        <3>2. QED BY <1>3, <3>1, GreatestOf
    <2> DEFINE t == CHOOSE i \in escapes : \A j \in escapes : j <= i
    <2>3. t \in escapes
        BY <2>2, Zenon
    <2> HIDE DEF t
    <2>4. t \in 1..Len(b) /\ Len(b) - t + 1 <= MaxPending
        BY <1>3, <2>1, <2>3
    <2>5. From(b, t) \in Seq(OscBytes) /\ Len(From(b, t)) <= MaxPending
        BY <1>1, <2>4, FromIs, FromShort
    <2>6. QED BY <2>5 DEF t
<1> HIDE DEF p, escapes, r
<1>11. r.pending \in Seq(OscBytes) /\ Len(r.pending) <= MaxPending /\ r.skipping \in BOOLEAN
    BY <1>8, <1>9, <1>10 DEF Scans, Short
<1>12. FeedOsc(chunk) = r
    BY Zenon DEF FeedOsc, b, begin, r, s, L
<1>13. QED BY <1>11, <1>12

CommandsTypes ==
    /\ osc.pending \in Seq(OscBytes) /\ Len(osc.pending) <= MaxPending /\ osc.skipping \in BOOLEAN
    /\ modes = [pending |-> <<>>, on |-> [n \in 1..2 |-> FALSE]]

LEMMA CommandsTypesStart ==
    ASSUME ScanInit
    PROVE  CommandsTypes
<1>1. osc.pending = <<>> /\ osc.skipping = FALSE /\ Len(<<>>) = 0 /\ <<>> \in Seq(OscBytes) /\ MaxPending \in Nat
    BY ScannersAssumption DEF ScanInit
<1>2. QED BY <1>1 DEF CommandsTypes, ScanInit

LEMMA CommandsTypesStep ==
    ASSUME CommandsTypes, ReadCommands
    PROVE  CommandsTypes'
<1>1. PICK chunk \in Chunks(OscBytes) :
         LET fed == FeedOsc(chunk) IN
         osc' = [pending |-> fed.pending, skipping |-> fed.skipping] /\ UNCHANGED modes
    BY DEF ReadCommands
<1> DEFINE r == FeedOsc(chunk)
<1>2. r.pending \in Seq(OscBytes) /\ Len(r.pending) <= MaxPending /\ r.skipping \in BOOLEAN
    BY FeedOscShort DEF CommandsTypes
<1> HIDE DEF r
<1>3. osc'.pending = r.pending /\ osc'.skipping = r.skipping /\ UNCHANGED modes
    BY <1>1 DEF r
<1>4. QED BY <1>2, <1>3 DEF CommandsTypes

LEMMA CommandsTyped ==
    ASSUME CommandsTypes
    PROVE  ScanTypeOK
<1>1. modes.pending = <<>> /\ Len(<<>>) = 0 /\ modes.on = [n \in 1..2 |-> FALSE] /\ MaxMode \in Nat
    BY ScannersAssumption DEF CommandsTypes
<1>2. Len(modes.pending) <= MaxMode /\ modes.on \in [1..2 -> BOOLEAN]
    BY <1>1
<1>3. QED BY <1>2 DEF CommandsTypes, ScanTypeOK

LEMMA CommandsTell ==
    ASSUME CommandsInv
    PROVE  CutAnywhere
<1>1. screen \in Terminals /\ Heard(last, screen) /\ modes = [pending |-> <<>>, on |-> screen.on]
    BY DEF CommandsInv, CommandsAbreast
<1>2. BellsExact /\ CommandsExact
    BY <1>1 DEF BellsExact, CommandsExact, Heard, Counted
<1>3. ModesExact
    BY <1>1 DEF ModesExact
<1>4. QED BY <1>2, <1>3 DEF CutAnywhere

\* The types of the scanner of commands, whatever the program gives up: nothing
\* that is kept is longer than it may be (feed and lastEscapeStart in osc.go).
THEOREM CommandsTypeCorrect == CommandsSpec => []ScanTypeOK
<1>1. ScanInit => CommandsTypes
    BY CommandsTypesStart
<1>2. CommandsTypes /\ [ReadCommands]_scanVars => CommandsTypes'
    <2>1. CASE ReadCommands
        BY <2>1, CommandsTypesStep
    <2>2. CASE UNCHANGED scanVars
        BY <2>2 DEF scanVars, CommandsTypes
    <2>3. QED BY <2>1, <2>2
<1>3. CommandsTypes => ScanTypeOK
    BY CommandsTyped
<1>4. QED BY <1>1, <1>2, <1>3, PTL DEF CommandsSpec

\* Wherever a stream of commands is cut, every bell is heard and every command
\* told in the chunk that ends it, and no mode is changed (feed in osc.go), as
\* long as no command that could be kept is given up by the program.
THEOREM CommandsCutAnywhere ==
    ASSUME ~Abandons
    PROVE  CommandsSpec => []CutAnywhere
<1>1. ScanInit => CommandsInv
    BY CommandsStart
<1>2. CommandsInv /\ [ReadCommands]_scanVars => CommandsInv'
    <2>1. CASE ReadCommands
        BY <2>1, CommandsStep
    <2>2. CASE UNCHANGED scanVars
        BY <2>2 DEF scanVars, CommandsInv
    <2>3. QED BY <2>1, <2>2
<1>3. CommandsInv => CutAnywhere
    BY CommandsTell
<1>4. QED BY <1>1, <1>2, <1>3, PTL DEF CommandsSpec

-----------------------------------------------------------------------------
(* Modes. *)

\* What a mode begins with, and a terminal that is in the middle of one.
Pattern == <<ESC, "[", "?", "1", "1">>
Prefix(c, m) == m <= 5 /\ m <= Len(c) /\ \A j \in 1..m : c[j] = Pattern[j]
InSequence(m, t) == t.at = <<"esc", "csi", "mode", "mode", "mode">>[m] /\ (m >= 3 => t.ones = m - 3)

\* What is pending is what a terminal is in the middle of.
ModesHold(p, t) ==
   \/ p = <<>> /\ t.at = Text
   \/ Len(p) \in 1..5 /\ Prefix(p, Len(p)) /\ InSequence(Len(p), t)

\* What holds after each round: a terminal is in a sequence only if it is none that
\* the scanner reads.
Reading(b, s, W) ==
    /\ s.i \in 1..(Len(b) + 1)
    /\ ~s.stop => /\ s.pending = <<>> /\ s.on = W[s.i - 1].on
                  /\ \/ W[s.i - 1].at = Text
                     \/ \E j \in 1..(s.i - 1) :
                           /\ ModeLength(From(b, j)) = 0 /\ Prefix(From(b, j), s.i - j)
                           /\ InSequence(s.i - j, W[s.i - 1])
    /\ s.stop => ModesHold(s.pending, W[Len(b)]) /\ s.on = W[Len(b)].on

\* The sequences that are modes, all there.
Whole(c, n) == n \in 4..6 /\ n <= Len(c) /\ Prefix(c, n - 1) /\ c[n] \in {"h", "l"}

LEMMA PrefixOf ==
    ASSUME NEW c, NEW m, Prefix(c, m), NEW k \in 1..m, m \in 1..5
    PROVE  /\ c[k] = Pattern[k]
           /\ k = 1 => c[k] = ESC
           /\ k = 2 => c[k] = "["
           /\ k = 3 => c[k] = "?"
           /\ k \in {4, 5} => c[k] = "1"
<1>1. c[k] = Pattern[k]
    BY DEF Prefix
<1>2. Pattern[1] = ESC /\ Pattern[2] = "[" /\ Pattern[3] = "?" /\ Pattern[4] = "1" /\ Pattern[5] = "1"
    BY DEF Pattern
<1>3. QED BY <1>1, <1>2

LEMMA IsPrefix ==
    ASSUME NEW c, NEW m \in 1..5, m <= Len(c), c[1] = ESC, m >= 2 => c[2] = "[", m >= 3 => c[3] = "?",
           m >= 4 => c[4] = "1", m >= 5 => c[5] = "1"
    PROVE  Prefix(c, m)
<1>1. Pattern[1] = ESC /\ Pattern[2] = "[" /\ Pattern[3] = "?" /\ Pattern[4] = "1" /\ Pattern[5] = "1"
    BY DEF Pattern
<1>2. ASSUME NEW j \in 1..m PROVE c[j] = Pattern[j]
    <2>1. j \in {1, 2, 3, 4, 5} /\ j <= m
        OBVIOUS
    <2>2. QED BY <1>1, <2>1
<1>3. QED BY <1>2 DEF Prefix

\* What parsePrivateMode makes of the bytes from an ESC on.
LEMMA ModeLengthIs ==
    ASSUME NEW c \in Seq(ModeBytes), Len(c) >= 1, c[1] = ESC
    PROVE  /\ ModeLength(c) = -1 => Len(c) <= 5 /\ Prefix(c, Len(c))
           /\ ModeLength(c) = 0 => ~(Len(c) <= 5 /\ Prefix(c, Len(c))) /\ \A n \in 4..6 : ~Whole(c, n)
           /\ ModeLength(c) \notin {-1, 0} => Whole(c, ModeLength(c))
<1>1. Len(c) \in Nat
    OBVIOUS
<1>2. CASE Len(c) < 3
    <2>1. ModeLength(c) = IF \A j \in DOMAIN c : c[j] = <<ESC, "[", "?">>[j] THEN -1 ELSE 0
        BY <1>2 DEF ModeLength
    <2>2. DOMAIN c = 1..Len(c) /\ Len(c) \in {1, 2}
        <3>1. DOMAIN c = 1..Len(c)
            OBVIOUS
        <3>2. \A m \in Nat : m >= 1 /\ m < 3 => m \in {1, 2}
            OBVIOUS
        <3>3. QED BY <1>1, <1>2, <3>1, <3>2
    <2>3. <<ESC, "[", "?">>[1] = ESC /\ <<ESC, "[", "?">>[2] = "["
        OBVIOUS
    <2>4. (\A j \in DOMAIN c : c[j] = <<ESC, "[", "?">>[j]) <=> (Len(c) = 2 => c[2] = "[")
        BY <2>2, <2>3
    <2>5. (Len(c) = 2 => c[2] = "[") => Prefix(c, Len(c))
        BY <2>2, IsPrefix
    <2>6. Prefix(c, Len(c)) => (Len(c) = 2 => c[2] = "[")
        BY <2>2, PrefixOf
    <2>7. \A n \in 4..6 : ~Whole(c, n)
        BY <1>1, <1>2 DEF Whole
    <2>8. -1 # 0
        OBVIOUS
    <2>9. QED BY <2>1, <2>2, <2>4, <2>5, <2>6, <2>7, <2>8
<1>3. CASE Len(c) >= 3 /\ ~(c[2] = "[" /\ c[3] = "?")
    <2>1. ModeLength(c) = 0
        BY <1>1, <1>3 DEF ModeLength
    <2>2. \A m \in 3..5 : ~Prefix(c, m)
        BY <1>3, PrefixOf
    <2>3. \A n \in 4..6 : n - 1 \in 3..5
        OBVIOUS
    <2>4. QED BY <1>1, <1>3, <2>1, <2>2, <2>3 DEF Whole
<1>4. CASE Len(c) >= 3 /\ c[2] = "[" /\ c[3] = "?"
    <2> DEFINE D == Digits(c)
               d == IF D = {} THEN Len(c) + 1 ELSE Least(D)
    <2>1. ModeLength(c) = IF d - 4 > 2 THEN 0 ELSE IF d > Len(c) THEN -1 ELSE IF c[d] \in {"h", "l"} THEN d ELSE 0
        BY <1>1, <1>4 DEF ModeLength
    <2>2. /\ d \in 4..(Len(c) + 1) /\ \A j \in 4..(d - 1) : c[j] = "1"
          /\ d <= Len(c) => c[d] # "1"
        <3>1. CASE D = {}
            <4>1. d = Len(c) + 1
                BY <3>1
            <4>2. \A j \in 4..Len(c) : c[j] = "1"
                BY <3>1 DEF Digits
            <4> HIDE DEF d
            <4>3. QED BY <1>1, <1>4, <4>1, <4>2
        <3>2. CASE D # {}
            <4>1. d = Least(D)
                BY <3>2
            <4>2. D \in SUBSET Nat
                BY <1>1 DEF Digits
            <4>3. d \in D /\ \A j \in D : d <= j
                BY <3>2, <4>1, <4>2, LeastIs
            <4> HIDE DEF d
            <4>4. d \in 4..Len(c) /\ c[d] # "1"
                BY <4>3 DEF Digits
            <4>5. ASSUME NEW j \in 4..(d - 1) PROVE c[j] = "1"
                <5>1. j \in 4..Len(c) /\ j < d
                    BY <1>1, <4>4
                <5>2. j \notin D
                    BY <1>1, <4>3, <4>4, <5>1
                <5>3. QED BY <5>1, <5>2 DEF Digits
            <4>6. QED BY <1>1, <4>4, <4>5
        <3>3. QED BY <3>1, <3>2
    <2> HIDE DEF d, D
    <2>3. \A m \in 3..5 : m <= Len(c) /\ m <= d - 1 => Prefix(c, m)
        <3> SUFFICES ASSUME NEW m \in 3..5, m <= Len(c), m <= d - 1 PROVE Prefix(c, m)
            OBVIOUS
        <3>1. m >= 4 => 4 \in 4..(d - 1)
            BY <2>2
        <3>2. m >= 5 => 5 \in 4..(d - 1)
            BY <2>2
        <3>3. QED BY <1>4, <2>2, <3>1, <3>2, IsPrefix
    <2>4. \A m \in 3..5 : Prefix(c, m) => m <= d - 1
        <3> SUFFICES ASSUME NEW m \in 3..5, Prefix(c, m), ~(m <= d - 1) PROVE FALSE
            BY <2>2
        <3>1. d \in 4..m /\ m <= Len(c)
            BY <1>1, <2>2 DEF Prefix
        <3>2. d \in {4, 5} /\ d \in 1..m
            BY <3>1
        <3>3. c[d] = "1"
            BY <3>2, PrefixOf
        <3>4. QED BY <1>1, <2>2, <3>1, <3>3
    <2>5. ASSUME ModeLength(c) = -1 PROVE Len(c) <= 5 /\ Prefix(c, Len(c))
        <3>1. d > Len(c) /\ d - 4 <= 2
            BY <1>1, <2>1, <2>2, <2>5
        <3> DEFINE N == Len(c)
        <3>2. N \in Nat /\ N >= 3 /\ d > N /\ d - 4 <= 2 /\ d \in 4..(N + 1)
            BY <1>1, <1>4, <2>2, <3>1
        <3> HIDE DEF N
        <3>3. N \in 3..5 /\ N <= d - 1
            BY <3>2
        <3>4. N = Len(c)
            BY DEF N
        <3>5. N <= 5 /\ N <= Len(c)
            BY <3>3, <3>4
        <3>6. Prefix(c, N)
            BY <2>3, <3>3, <3>5, Zenon
        <3>7. QED BY <3>4, <3>5, <3>6, Zenon
    <2>6. ASSUME ModeLength(c) = 0 PROVE ~(Len(c) <= 5 /\ Prefix(c, Len(c))) /\ \A n \in 4..6 : ~Whole(c, n)
        <3>1. d - 4 > 2 \/ (d <= Len(c) /\ c[d] \notin {"h", "l"})
            BY <1>1, <2>1, <2>2, <2>6
        <3>2. ASSUME Len(c) <= 5, Prefix(c, Len(c)) PROVE FALSE
            <4>1. Len(c) \in 3..5
                <5>1. \A m \in Nat : m >= 3 /\ m <= 5 => m \in 3..5
                    OBVIOUS
                <5>2. QED BY <1>1, <1>4, <3>2, <5>1
            <4>2. Len(c) <= d - 1
                BY <2>4, <3>2, <4>1
            <4>3. QED BY <1>1, <2>2, <3>1, <4>1, <4>2
        <3>3. ASSUME NEW n \in 4..6, Whole(c, n) PROVE FALSE
            <4>1. n - 1 \in 3..5 /\ n <= Len(c) /\ Prefix(c, n - 1) /\ c[n] \in {"h", "l"}
                BY <3>3 DEF Whole
            <4>2. n - 1 <= d - 1
                BY <2>4, <4>1
            <4>3. n # d
                BY <2>2, <3>1, <4>1
            <4>4. n \in 4..(d - 1)
                BY <2>2, <4>2, <4>3
            <4>5. c[n] = "1"
                BY <2>2, <4>4
            <4>6. QED BY <4>1, <4>5
        <3>4. QED BY <3>2, <3>3
    <2>7. ASSUME ModeLength(c) \notin {-1, 0} PROVE Whole(c, ModeLength(c))
        <3>1. ModeLength(c) = d /\ d - 4 <= 2 /\ d <= Len(c) /\ c[d] \in {"h", "l"}
            BY <1>1, <2>1, <2>2, <2>7
        <3>2. d \in 4..6 /\ d - 1 \in 3..5 /\ d - 1 <= Len(c)
            BY <1>1, <2>2, <3>1
        <3>3. Prefix(c, d - 1)
            BY <2>3, <3>2
        <3>4. QED BY <3>1, <3>2, <3>3 DEF Whole
    <2>8. QED BY <2>5, <2>6, <2>7
<1>5. QED BY <1>1, <1>2, <1>3, <1>4

\* Where a terminal that is sent nothing but modes can be.
ModePlaces == {Text, "esc", "csi", "mode"}

\* Nothing is rung or told.
Silent(t, u) ==
    /\ u.head = t.head /\ u.length = t.length /\ u.rang = t.rang /\ u.told = t.told /\ u.all = t.all
    /\ u.left = t.left

\* What a byte of a mode does to a terminal, by where it is.
ModeShows(t, c, u) ==
    /\ u.at \in ModePlaces /\ Silent(t, u) /\ (c \notin {"h", "l"} => u.on = t.on)
    /\ c = ESC => u.at = "esc" /\ u.ones = t.ones
    /\ t.at = Text /\ c # ESC => u = t
    /\ t.at = "esc" /\ c # ESC => u.on = t.on /\ u.ones = t.ones /\ u.at = IF c = "[" THEN "csi" ELSE Text
    /\ t.at = "csi" /\ c # ESC => /\ u.on = t.on /\ u.at = IF c = "?" THEN "mode" ELSE Text
                                  /\ c = "?" => u.ones = 0
    /\ t.at = "mode" /\ c \notin {"h", "l", "1", ESC} => u.at = Text
    /\ t.at = "mode" /\ c = "1" => IF t.ones = 2 THEN u.at = Text ELSE u.at = "mode" /\ u.ones = t.ones + 1
    /\ t.at = "mode" /\ c \in {"h", "l"} =>
          u.at = Text /\ u.on = IF t.ones = 0 THEN t.on ELSE [t.on EXCEPT ![t.ones] = c = "h"]

LEMMA ShowsMode ==
    ASSUME NEW t \in Terminals, t.at \in ModePlaces, NEW c \in ModeBytes
    PROVE  ModeShows(t, c, Shows(t, c))
<1> SUFFICES ASSUME NEW u, u = Shows(t, c) PROVE ModeShows(t, c, u)
    OBVIOUS
<1>1. c \in {ESC, "[", "?", "1", "h", "l"} /\ c # BEL /\ c # "]"
    BY DEF ModeBytes, ESC, BEL
<1>2. CASE t.at = Text
    <2>1. u = InText(t, c)
        BY <1>2 DEF Shows, Text
    <2>2. CASE c = ESC
        <3>1. u = [t EXCEPT !.at = "esc"]
            BY <2>1, <2>2 DEF InText
        <3>2. u.at = "esc" /\ u.on = t.on /\ u.ones = t.ones /\ Silent(t, u)
            BY <3>1 DEF Terminals, Silent
        <3>3. QED BY <1>2, <2>2, <3>2 DEF ModePlaces, ESC, Text, ModeShows
    <2>3. CASE c # ESC
        <3>1. u = t
            <4>1. u = [t EXCEPT !.rang = t.rang \/ c = BEL]
                BY <2>1, <2>3 DEF InText
            <4>2. (t.rang \/ c = BEL) = t.rang
                BY <1>1 DEF Terminals
            <4>3. QED BY <4>1, <4>2 DEF Terminals
        <3>2. QED BY <1>2, <2>3, <3>1 DEF Silent, Text, ModeShows
    <2>4. QED BY <2>2, <2>3
<1>3. CASE t.at = "esc"
    <2>1. u = Begun(t, c)
        BY <1>3 DEF Shows, Text
    <2>2. u = [t EXCEPT !.at = IF c = "[" THEN "csi" ELSE IF c = ESC THEN "esc" ELSE Text]
        <3>1. CASE c = "["
            BY <1>1, <2>1, <3>1 DEF Begun, ESC
        <3>2. CASE c = ESC
            BY <1>1, <2>1, <3>2 DEF Begun, ESC
        <3>3. CASE c \notin {"[", ESC}
            <4>1. u = [t EXCEPT !.at = Text, !.rang = t.rang \/ c = BEL]
                BY <1>1, <2>1, <3>3 DEF Begun
            <4>2. (t.rang \/ c = BEL) = t.rang
                BY <1>1 DEF Terminals
            <4>3. u = [t EXCEPT !.at = Text]
                BY <4>1, <4>2 DEF Terminals
            <4>4. QED BY <3>3, <4>3
        <3>4. QED BY <3>1, <3>2, <3>3
    <2>3. /\ u.at = (IF c = "[" THEN "csi" ELSE IF c = ESC THEN "esc" ELSE Text) /\ u.on = t.on /\ u.ones = t.ones
          /\ Silent(t, u)
        BY <2>2 DEF Terminals, Silent
    <2>4. QED BY <1>3, <2>3 DEF ModePlaces, ESC, Text, ModeShows
<1>4. CASE t.at = "csi"
    <2>1. u = IF c = "?" THEN [t EXCEPT !.at = "mode", !.ones = 0]
              ELSE IF c = ESC THEN [t EXCEPT !.at = "esc"] ELSE [t EXCEPT !.at = Text]
        BY <1>4 DEF Shows, Text
    <2>2. /\ u.at = (IF c = "?" THEN "mode" ELSE IF c = ESC THEN "esc" ELSE Text) /\ u.on = t.on
          /\ u.ones = (IF c = "?" THEN 0 ELSE t.ones) /\ Silent(t, u)
        BY <2>1 DEF Terminals, Silent
    <2>3. QED BY <1>4, <2>2 DEF ModePlaces, ESC, Text, ModeShows
<1>5. CASE t.at = "mode"
    <2>1. u = InMode(t, c)
        BY <1>5 DEF Shows, Text
    <2>2. CASE c = "1"
        <3>1. u = IF t.ones = 2 THEN [t EXCEPT !.at = Text] ELSE [t EXCEPT !.ones = t.ones + 1]
            BY <2>1, <2>2 DEF InMode
        <3>2. /\ u.at = (IF t.ones = 2 THEN Text ELSE "mode") /\ u.on = t.on /\ (t.ones # 2 => u.ones = t.ones + 1)
              /\ Silent(t, u)
            BY <1>5, <3>1 DEF Terminals, Silent
        <3>3. QED BY <1>5, <2>2, <3>2 DEF ModePlaces, ESC, Text, ModeShows
    <2>3. CASE c \in {"h", "l"}
        <3>1. u = [t EXCEPT !.at = Text, !.on = IF t.ones = 0 THEN t.on ELSE [t.on EXCEPT ![t.ones] = c = "h"]]
            BY <2>1, <2>3 DEF InMode
        <3>2. u.at = Text /\ u.on = (IF t.ones = 0 THEN t.on ELSE [t.on EXCEPT ![t.ones] = c = "h"]) /\ Silent(t, u)
            BY <3>1 DEF Terminals, Silent
        <3>3. QED BY <1>5, <2>3, <3>2 DEF ModePlaces, ESC, Text, ModeShows
    <2>4. CASE c \notin {"1", "h", "l"}
        <3>1. u = [t EXCEPT !.at = IF c = ESC THEN "esc" ELSE Text]
            BY <2>1, <2>4 DEF InMode
        <3>2. u.at = (IF c = ESC THEN "esc" ELSE Text) /\ u.on = t.on /\ u.ones = t.ones /\ Silent(t, u)
            BY <3>1 DEF Terminals, Silent
        <3>3. QED BY <1>5, <2>4, <3>2 DEF ModePlaces, ESC, Text, ModeShows
    <2>5. QED BY <2>2, <2>3, <2>4
<1>6. QED BY <1>2, <1>3, <1>4, <1>5 DEF ModePlaces

\* A terminal goes through the bytes of modes.
Following(b, W) ==
    b \in Seq(ModeBytes) /\ W \in [0..Len(b) -> Terminals] /\ Follows(W, b) /\ W[0].at \in ModePlaces

LEMMA FollowingIs ==
    ASSUME NEW b, NEW W, Following(b, W)
    PROVE  /\ Len(b) \in Nat
           /\ \A k \in 1..Len(b) : W[k] = Shows(W[k - 1], b[k]) /\ b[k] \in ModeBytes
           /\ \A k \in 0..Len(b) : W[k] \in Terminals /\ W[k].at \in ModePlaces /\ Silent(W[0], W[k])
           /\ \A k \in 1..Len(b) : ModeShows(W[k - 1], b[k], W[k])
<1>1. /\ Len(b) \in Nat /\ W[0].at \in ModePlaces
      /\ \A k \in 1..Len(b) : W[k] = Shows(W[k - 1], b[k]) /\ b[k] \in ModeBytes
      /\ \A k \in 0..Len(b) : W[k] \in Terminals
    BY DEF Following, Follows
<1> DEFINE A == {k \in 0..Len(b) : W[k].at \in ModePlaces /\ Silent(W[0], W[k])}
<1>2. 0 \in A
    BY <1>1 DEF Silent
<1>3. ASSUME NEW k \in 0..Len(b), k # 0, k - 1 \in A PROVE k \in A
    <2>1. k \in 1..Len(b) /\ k - 1 \in 0..Len(b) /\ W[k - 1].at \in ModePlaces /\ Silent(W[0], W[k - 1])
        BY <1>1, <1>3
    <2>2. W[k] = Shows(W[k - 1], b[k]) /\ b[k] \in ModeBytes /\ W[k - 1] \in Terminals
        BY <1>1, <2>1
    <2>3. W[k].at \in ModePlaces /\ Silent(W[k - 1], W[k])
        <3>1. ModeShows(W[k - 1], b[k], W[k])
            BY <2>1, <2>2, ShowsMode
        <3>2. QED BY <3>1 DEF ModeShows
    <2>4. QED BY <2>1, <2>3 DEF Silent
<1>4. \A k \in 0..Len(b) : k # 0 /\ k - 1 \in A => k \in A
    BY <1>3
<1>5. \A k \in 0..Len(b) : k \in A
    <2> HIDE DEF A
    <2>1. QED BY <1>1, <1>2, <1>4, Climb
<1>6. \A k \in 0..Len(b) : W[k].at \in ModePlaces /\ Silent(W[0], W[k])
    BY <1>5
<1>7. ASSUME NEW k \in 1..Len(b) PROVE ModeShows(W[k - 1], b[k], W[k])
    <2>1. k - 1 \in 0..Len(b)
        BY <1>1
    <2>2. QED BY <1>1, <1>6, <2>1, ShowsMode
<1>8. QED BY <1>1, <1>6, <1>7

\* One byte further into a sequence, and out of it.
GoesOnTo(t, m, c, u) ==
    /\ m < 5 /\ c = Pattern[m + 1] => InSequence(m + 1, u) /\ (m + 1 <= 2 => u.ones = t.ones)
    /\ c # ESC /\ ~(m < 5 /\ c = Pattern[m + 1]) => u.at = Text
    /\ m >= 3 /\ c \in {"h", "l"} => u.on = IF m = 3 THEN t.on ELSE [t.on EXCEPT ![m - 3] = c = "h"]

LEMMA InSequenceGoesOn ==
    ASSUME NEW t \in Terminals, NEW m \in 1..5, InSequence(m, t), NEW c \in ModeBytes
    PROVE  GoesOnTo(t, m, c, Shows(t, c))
<1> SUFFICES ASSUME NEW u, u = Shows(t, c) PROVE GoesOnTo(t, m, c, u)
    OBVIOUS
<1> DEFINE AtOf == <<"esc", "csi", "mode", "mode", "mode">>
<1>1. AtOf[1] = "esc" /\ AtOf[2] = "csi" /\ AtOf[3] = "mode" /\ AtOf[4] = "mode" /\ AtOf[5] = "mode"
    OBVIOUS
<1>2. Pattern[1] = ESC /\ Pattern[2] = "[" /\ Pattern[3] = "?" /\ Pattern[4] = "1" /\ Pattern[5] = "1"
    BY DEF Pattern
<1>3. \A k \in 1..5 : \A v : InSequence(k, v) <=> v.at = AtOf[k] /\ (k >= 3 => v.ones = k - 3)
    BY DEF InSequence
<1>4. t.at = AtOf[m] /\ (m >= 3 => t.ones = m - 3)
    BY <1>3
<1> HIDE DEF AtOf
<1>5. CASE m = 1
    <2>1. t.at = "esc" /\ t.at \in ModePlaces
        BY <1>1, <1>4, <1>5 DEF ModePlaces
    <2>2. /\ c # ESC => u.ones = t.ones /\ u.at = IF c = "[" THEN "csi" ELSE Text
        <3>1. ModeShows(t, c, u)
            BY <2>1, ShowsMode
        <3>2. QED BY <2>1, <3>1 DEF ModeShows
    <2>3. InSequence(2, u) <=> u.at = "csi"
        BY <1>1, <1>3
    <2>4. "[" # ESC
        BY DEF ESC
    <2>5. QED BY <1>2, <1>5, <2>2, <2>3, <2>4 DEF GoesOnTo
<1>6. CASE m = 2
    <2>1. t.at = "csi" /\ t.at \in ModePlaces
        BY <1>1, <1>4, <1>6 DEF ModePlaces
    <2>2. /\ c # ESC => u.at = IF c = "?" THEN "mode" ELSE Text
          /\ c # ESC /\ c = "?" => u.ones = 0
        <3>1. ModeShows(t, c, u)
            BY <2>1, ShowsMode
        <3>2. QED BY <2>1, <3>1 DEF ModeShows
    <2>3. InSequence(3, u) <=> u.at = "mode" /\ u.ones = 0
        BY <1>1, <1>3
    <2>4. "?" # ESC
        BY DEF ESC
    <2>5. QED BY <1>2, <1>6, <2>2, <2>3, <2>4 DEF GoesOnTo
<1>7. CASE m \in 3..5
    <2>1. t.at = "mode" /\ t.at \in ModePlaces /\ t.ones = m - 3
        BY <1>1, <1>4, <1>7 DEF ModePlaces
    <2>2. /\ c \notin {"h", "l", "1", ESC} => u.at = Text
          /\ c = "1" => IF t.ones = 2 THEN u.at = Text ELSE u.at = "mode" /\ u.ones = t.ones + 1
          /\ c \in {"h", "l"} => u.at = Text /\ u.on = IF t.ones = 0 THEN t.on ELSE [t.on EXCEPT ![t.ones] = c = "h"]
        <3>1. ModeShows(t, c, u)
            BY <2>1, ShowsMode
        <3>2. QED BY <2>1, <3>1 DEF ModeShows
    <2>3. m < 5 => Pattern[m + 1] = "1" /\ m + 1 \in 1..5 /\ AtOf[m + 1] = "mode"
        BY <1>1, <1>2, <1>7
    <2>4. m < 5 => (InSequence(m + 1, u) <=> u.at = "mode" /\ u.ones = m + 1 - 3)
        BY <1>3, <1>7, <2>3
    <2>5. "1" # ESC /\ "h" # "1" /\ "l" # "1"
        BY DEF ESC
    <2>6. ASSUME m < 5, c = "1" PROVE InSequence(m + 1, u)
        BY <1>7, <2>1, <2>2, <2>4, <2>6
    <2>7. ASSUME c # ESC, ~(m < 5 /\ c = "1") PROVE u.at = Text
        <3>1. CASE c = "1"
            <4>1. t.ones = 2
                BY <1>7, <2>1, <2>7, <3>1
            <4>2. QED BY <2>2, <3>1, <4>1
        <3>2. CASE c # "1"
            BY <2>2, <2>7, <3>2
        <3>3. QED BY <3>1, <3>2
    <2>8. ASSUME c \in {"h", "l"} PROVE u.on = IF m = 3 THEN t.on ELSE [t.on EXCEPT ![m - 3] = c = "h"]
        <3>1. t.ones = 0 <=> m = 3
            BY <1>7, <2>1
        <3>2. u.on = IF t.ones = 0 THEN t.on ELSE [t.on EXCEPT ![t.ones] = c = "h"]
            BY <2>2, <2>8
        <3>3. QED BY <2>1, <3>1, <3>2
    <2>9. ~(m + 1 <= 2)
        BY <1>7
    <2>10. QED BY <2>3, <2>6, <2>7, <2>8, <2>9 DEF GoesOnTo
<1>8. QED BY <1>5, <1>6, <1>7

\* A sequence that has begun at i, and has come to m bytes.
Sequence(b, W, i, m) ==
    /\ InSequence(m, W[i + m - 1]) /\ W[i + m - 1].on = W[i - 1].on
    /\ m <= 2 => W[i + m - 1].ones = W[i - 1].ones

LEMMA SequenceRun ==
    ASSUME NEW b, NEW W, Following(b, W), NEW i \in 1..Len(b), NEW m \in 1..5, i + m - 1 <= Len(b),
           \A k \in 1..m : b[i + k - 1] = Pattern[k]
    PROVE  Sequence(b, W, i, m)
<1>1. /\ Len(b) \in Nat
      /\ \A k \in 1..Len(b) : W[k] = Shows(W[k - 1], b[k]) /\ b[k] \in ModeBytes
      /\ \A k \in 0..Len(b) : W[k] \in Terminals /\ W[k].at \in ModePlaces
    BY FollowingIs
<1> DEFINE A == {k \in 1..m : Sequence(b, W, i, k)}
<1>2. 1 \in A
    <2>1. i + 1 - 1 = i /\ b[i] = ESC /\ i - 1 \in 0..Len(b) /\ ESC \notin {"h", "l"}
        BY <1>1 DEF Pattern, ESC
    <2>2. W[i] = Shows(W[i - 1], ESC) /\ W[i - 1] \in Terminals /\ W[i - 1].at \in ModePlaces /\ ESC \in ModeBytes
        BY <1>1, <2>1
    <2>3. W[i].at = "esc" /\ W[i].on = W[i - 1].on /\ W[i].ones = W[i - 1].ones
        <3>1. ModeShows(W[i - 1], ESC, W[i])
            BY <2>2, ShowsMode
        <3>2. QED BY <2>1, <3>1 DEF ModeShows
    <2>4. InSequence(1, W[i])
        BY <2>3 DEF InSequence
    <2>5. Sequence(b, W, i, 1)
        BY <2>1, <2>3, <2>4 DEF Sequence
    <2>6. QED BY <2>5
<1>3. ASSUME NEW k \in 1..m, k # 1, k - 1 \in A PROVE k \in A
    <2> DEFINE x == i + k - 1
    <2>1. k - 1 \in 1..4 /\ k - 1 < 5 /\ (k - 1) + 1 = k /\ Sequence(b, W, i, k - 1)
        BY <1>1, <1>3
    <2>2. x \in 1..Len(b) /\ x - 1 = i + (k - 1) - 1 /\ x - 1 \in 0..Len(b)
        BY <1>1, <1>3
    <2>3. b[x] = Pattern[k]
        OBVIOUS
    <2>4. InSequence(k - 1, W[i + (k - 1) - 1]) /\ W[i + (k - 1) - 1].on = W[i - 1].on
          /\ (k - 1 <= 2 => W[i + (k - 1) - 1].ones = W[i - 1].ones)
        BY <2>1 DEF Sequence
    <2> HIDE DEF x
    <2>5. InSequence(k - 1, W[x - 1]) /\ W[x - 1].on = W[i - 1].on /\ (k - 1 <= 2 => W[x - 1].ones = W[i - 1].ones)
        BY <2>2, <2>4
    <2>6. W[x] = Shows(W[x - 1], b[x]) /\ b[x] \in ModeBytes /\ W[x - 1] \in Terminals /\ W[x - 1].at \in ModePlaces
        BY <1>1, <2>2
    <2>7. b[x] \notin {"h", "l"}
        <3>1. k \in {1, 2, 3, 4, 5}
            OBVIOUS
        <3>2. Pattern[1] = ESC /\ Pattern[2] = "[" /\ Pattern[3] = "?" /\ Pattern[4] = "1" /\ Pattern[5] = "1"
            BY DEF Pattern
        <3>3. QED BY <2>3, <3>1, <3>2 DEF ESC
    <2>8. InSequence(k, W[x]) /\ (k <= 2 => W[x].ones = W[x - 1].ones)
        <3>1. k - 1 \in 1..5 /\ b[x] = Pattern[(k - 1) + 1]
            BY <2>1, <2>3
        <3>2. GoesOnTo(W[x - 1], k - 1, b[x], W[x])
            BY <2>5, <2>6, <3>1, InSequenceGoesOn
        <3>3. InSequence((k - 1) + 1, W[x]) /\ ((k - 1) + 1 <= 2 => W[x].ones = W[x - 1].ones)
            BY <2>1, <3>1, <3>2 DEF GoesOnTo
        <3>4. QED BY <2>1, <3>3
    <2>9. W[x].on = W[x - 1].on
        <3>1. ModeShows(W[x - 1], b[x], W[x])
            BY <2>6, ShowsMode
        <3>2. QED BY <2>7, <3>1 DEF ModeShows
    <2>10. k <= 2 => k - 1 <= 2
        OBVIOUS
    <2>11. InSequence(k, W[x]) /\ W[x].on = W[i - 1].on /\ (k <= 2 => W[x].ones = W[i - 1].ones)
        BY <2>5, <2>8, <2>9, <2>10
    <2>12. Sequence(b, W, i, k)
        BY <2>11 DEF Sequence, x
    <2>13. QED BY <2>12
<1>4. \A k \in 1..m : k # 1 /\ k - 1 \in A => k \in A
    BY <1>3
<1>5. \A k \in 1..m : k \in A
    <2> HIDE DEF A
    <2>1. 1 \in Nat /\ m \in Nat
        OBVIOUS
    <2>2. QED BY <1>2, <1>4, <2>1, Climb
<1>6. m \in A
    BY <1>5
<1>7. QED BY <1>6

-----------------------------------------------------------------------------
(* The scanner of modes, a round at a time. *)

Tracks == [i : Nat \ {0}, stop : BOOLEAN, pending : Seq(ModeBytes), on : [1..2 -> BOOLEAN]]

InRead(b, W, s) == Following(b, W) /\ s \in Tracks /\ Reading(b, s, W) /\ ~s.stop /\ s.i <= Len(b)
ReadsOn(b, W, s, r) == r \in Tracks /\ Reading(b, r, W) /\ (r.stop \/ r.i >= s.i + 1)

\* A byte that begins no sequence.
LEMMA PassedStep ==
    ASSUME NEW b, NEW W, NEW s, InRead(b, W, s), b[s.i] # ESC
    PROVE  ReadsOn(b, W, s, [s EXCEPT !.i = s.i + 1])
<1> DEFINE i == s.i
           r == [s EXCEPT !.i = s.i + 1]
<1>1. /\ Len(b) \in Nat /\ b \in Seq(ModeBytes) /\ s \in Tracks /\ ~s.stop /\ i \in 1..Len(b) /\ i - 1 \in 0..Len(b)
      /\ s.pending = <<>> /\ s.on = W[i - 1].on
      /\ W[i] = Shows(W[i - 1], b[i]) /\ b[i] \in ModeBytes /\ W[i - 1] \in Terminals /\ W[i - 1].at \in ModePlaces
    <2>1. s \in Tracks /\ Following(b, W) /\ ~s.stop /\ s.i <= Len(b) /\ Reading(b, s, W) /\ b \in Seq(ModeBytes)
        BY DEF InRead, Following
    <2>2. i \in 1..Len(b) /\ i - 1 \in 0..Len(b)
        BY <2>1, FollowingIs DEF Tracks
    <2>3. QED BY <2>1, <2>2, FollowingIs DEF Reading
<1>0. ModeShows(W[i - 1], b[i], W[i])
    BY <1>1, ShowsMode
<1>2. r \in Tracks /\ r.i = i + 1 /\ ~r.stop /\ r.pending = <<>> /\ r.on = s.on
    <2>1. i + 1 \in Nat \ {0}
        BY <1>1
    <2>2. QED BY <1>1, <2>1 DEF Tracks
<1>3. W[i - 1].at = Text \/ \E j \in 1..(i - 1) :
            ModeLength(From(b, j)) = 0 /\ Prefix(From(b, j), i - j) /\ InSequence(i - j, W[i - 1])
    BY <1>1 DEF InRead, Reading
<1> HIDE DEF r
<1>4. (r.i \in 1..(Len(b) + 1)) /\ r.i - 1 = i /\ r.i >= s.i + 1
    BY <1>1, <1>2
<1>5. SUFFICES /\ W[i].on = W[i - 1].on
               /\ W[i].at = Text \/ \E j \in 1..i : /\ ModeLength(From(b, j)) = 0 /\ Prefix(From(b, j), (i + 1) - j)
                                                    /\ InSequence((i + 1) - j, W[i])
    BY <1>1, <1>2, <1>4 DEF ReadsOn, Reading, r
<1>6. CASE W[i - 1].at = Text
    <2>1. W[i] = W[i - 1]
        BY <1>1, <1>6, <1>0 DEF ModeShows, InRead
    <2>2. QED BY <1>6, <2>1
<1>7. CASE W[i - 1].at # Text
    <2>1. PICK j \in 1..(i - 1) :
                ModeLength(From(b, j)) = 0 /\ Prefix(From(b, j), i - j) /\ InSequence(i - j, W[i - 1])
        BY <1>3, <1>7
    <2> DEFINE c == From(b, j)
               m == i - j
    <2>2. j \in 1..Len(b) /\ m \in 1..5 /\ m + 1 = (i + 1) - j /\ j \in 1..i /\ m + 1 \in 1..(Len(b) - j + 1) /\ j + (m + 1) - 1 = i
        <3>1. j \in 1..Len(b) /\ m \in Nat /\ m >= 1 /\ m + 1 = (i + 1) - j /\ j \in 1..i
              /\ m + 1 \in 1..(Len(b) - j + 1) /\ j + (m + 1) - 1 = i
            BY <1>1
        <3>2. m <= 5
            BY <2>1 DEF Prefix
        <3> HIDE DEF m
        <3>3. m \in 1..5
            BY <3>1, <3>2
        <3>4. QED BY <3>1, <3>3
    <2>3. /\ c \in Seq(ModeBytes) /\ Len(c) = Len(b) - j + 1 /\ c[m + 1] = b[i] /\ Len(c) >= 1 /\ m + 1 <= Len(c)
        <3>1. c \in Seq(ModeBytes) /\ Len(c) = Len(b) - j + 1 /\ c[m + 1] = b[j + (m + 1) - 1]
            BY <1>1, <2>2, FromIs
        <3>2. QED BY <2>2, <3>1
    <2> HIDE DEF c
    <2>4. ModeLength(c) = 0 /\ Prefix(c, m) /\ InSequence(m, W[i - 1])
        BY <2>1 DEF c
    <2> HIDE DEF m
    <2>5. c[1] = ESC
        <3>1. 1 \in 1..m
            BY <2>2
        <3>2. QED BY <2>2, <2>4, <3>1, PrefixOf
    <2>6. \A n \in 4..6 : ~Whole(c, n)
        BY <2>3, <2>4, <2>5, ModeLengthIs
    <2>7. b[i] \notin {"h", "l"} \/ m < 3
        <3> SUFFICES ASSUME b[i] \in {"h", "l"}, m >= 3 PROVE FALSE
            BY <2>2
        <3>1. m + 1 \in 4..6 /\ (m + 1) - 1 = m
            BY <2>2
        <3>2. Whole(c, m + 1)
            BY <2>3, <2>4, <3>1 DEF Whole
        <3>3. QED BY <2>6, <3>1, <3>2
    <2>0. GoesOnTo(W[i - 1], m, b[i], W[i])
        BY <1>1, <2>2, <2>4, InSequenceGoesOn
    <2>8. W[i].on = W[i - 1].on
        <3>1. CASE b[i] \notin {"h", "l"}
            BY <1>0, <3>1 DEF ModeShows
        <3>2. CASE m < 3
            <4>1. W[i - 1].at \in {"esc", "csi"}
                <5>1. m \in {1, 2}
                    BY <2>2, <3>2
                <5>2. <<"esc", "csi", "mode", "mode", "mode">>[1] = "esc" /\ <<"esc", "csi", "mode", "mode", "mode">>[2] = "csi"
                    OBVIOUS
                <5>3. QED BY <2>4, <5>1, <5>2 DEF InSequence
            <4>2. b[i] # ESC
                BY DEF InRead
            <4>3. QED BY <1>0, <4>1, <4>2 DEF ModeShows
        <3>3. QED BY <2>7, <3>1, <3>2
    <2>9. CASE m < 5 /\ b[i] = Pattern[m + 1]
        <3>1. InSequence(m + 1, W[i])
            BY <2>0, <2>9 DEF GoesOnTo
        <3>2. Prefix(c, m + 1)
            <4>1. \A k \in 1..(m + 1) : c[k] = Pattern[k]
                <5> SUFFICES ASSUME NEW k \in 1..(m + 1) PROVE c[k] = Pattern[k]
                    OBVIOUS
                <5>1. k \in 1..m \/ k = m + 1
                    BY <2>2
                <5>2. QED BY <2>2, <2>3, <2>4, <2>9, <5>1, PrefixOf
            <4>2. m + 1 <= 5
                BY <2>2, <2>9
            <4>3. QED BY <2>3, <4>1, <4>2 DEF Prefix
        <3>3. QED BY <2>2, <2>4, <2>8, <3>1, <3>2 DEF c
    <2>10. CASE ~(m < 5 /\ b[i] = Pattern[m + 1])
        <3>1. W[i].at = Text
            BY <2>0, <2>10 DEF GoesOnTo
        <3>2. QED BY <2>8, <3>1
    <2>11. QED BY <2>9, <2>10
<1>8. QED BY <1>6, <1>7

LEMMA WholeFits ==
    ASSUME NEW N \in Nat, NEW a \in 1..N, NEW k \in 4..6, k <= N - a + 1
    PROVE  /\ a + k - 1 \in 1..N /\ (a + k - 1) - 1 = a + (k - 1) - 1 /\ k - 1 \in 3..5 /\ k - 1 \in 1..5
           /\ a + k \in Nat \ {0} /\ a + k \in 1..(N + 1) /\ (a + k) - 1 = a + k - 1 /\ a + k >= a + 1
OBVIOUS

LEMMA RestFits ==
    ASSUME NEW N \in Nat, NEW a \in 1..N
    PROVE  /\ 1 \in 1..(N - a + 1) /\ a + 1 - 1 = a /\ N - a + 1 >= 1 /\ a + (N - a + 1) - 1 = N /\ N - a + 1 \in Nat
           /\ a + 1 \in Nat \ {0} /\ a + 1 \in 1..(N + 1) /\ (a + 1) - 1 = a /\ (a + 1) - a = 1 /\ a + 1 >= a + 1
           /\ a \in 1..a
OBVIOUS

\* A sequence that is all there.
LEMMA WholeStep ==
    ASSUME NEW b, NEW W, NEW s, InRead(b, W, s), b[s.i] = ESC, NEW n, n = ModeLength(From(b, s.i)), n \notin {-1, 0}
    PROVE  ReadsOn(b, W, s, [s EXCEPT !.i = s.i + n,
                                      !.on = IF n = 4 THEN s.on ELSE [s.on EXCEPT ![n - 4] = b[s.i + n - 1] = "h"]])
<1> DEFINE i == s.i
           c == From(b, i)
           x == i + n - 1
           on == IF n = 4 THEN s.on ELSE [s.on EXCEPT ![n - 4] = b[s.i + n - 1] = "h"]
           r == [s EXCEPT !.i = s.i + n, !.on = on]
<1>1. s \in Tracks /\ Following(b, W) /\ ~s.stop /\ s.i <= Len(b) /\ Reading(b, s, W) /\ b \in Seq(ModeBytes)
    BY DEF InRead, Following
<1>2. i \in 1..Len(b) /\ i - 1 \in 0..Len(b) /\ Len(b) \in Nat
    BY <1>1, FollowingIs DEF Tracks
<1>3. s.pending = <<>> /\ s.on = W[i - 1].on
    BY <1>1 DEF Reading
<1>4. /\ c \in Seq(ModeBytes) /\ Len(c) = Len(b) - i + 1
      /\ \A k \in 1..(Len(b) - i + 1) : c[k] = b[i + k - 1]
    BY <1>1, <1>2, FromIs
<1>5. 1 \in 1..(Len(b) - i + 1) /\ i + 1 - 1 = i /\ Len(c) >= 1
    BY <1>2, <1>4
<1> HIDE DEF c
<1>6. c[1] = ESC
    BY <1>4, <1>5
<1>7. Whole(c, n)
    <2>1. n = ModeLength(c)
        BY DEF c
    <2>2. QED BY <1>4, <1>5, <1>6, <2>1, ModeLengthIs
<1>8. /\ n \in 4..6 /\ n <= Len(b) - i + 1 /\ Prefix(c, n - 1) /\ c[n] \in {"h", "l"} /\ c[n] = b[x]
      /\ x \in 1..Len(b) /\ x - 1 = i + (n - 1) - 1 /\ n - 1 \in 3..5 /\ n - 1 \in 1..5
    <2>1. n \in 4..6 /\ n <= Len(b) - i + 1 /\ Prefix(c, n - 1) /\ c[n] \in {"h", "l"}
        BY <1>4, <1>7 DEF Whole
    <2>2. n \in 1..(Len(b) - i + 1)
        BY <1>2, <2>1
    <2>3. c[n] = b[x]
        BY <1>4, <2>2
    <2>4. x \in 1..Len(b) /\ x - 1 = i + (n - 1) - 1 /\ n - 1 \in 3..5 /\ n - 1 \in 1..5
        <3>1. i + n - 1 \in 1..Len(b) /\ (i + n - 1) - 1 = i + (n - 1) - 1 /\ n - 1 \in 3..5 /\ n - 1 \in 1..5
            <4>1. i \in 1..Len(b) /\ Len(b) \in Nat
                BY <1>2
            <4> HIDE DEF i
            <4>2. QED BY <2>1, <4>1, WholeFits
        <3>2. QED BY <3>1
    <2>5. QED BY <2>1, <2>3, <2>4
<1>9. Sequence(b, W, i, n - 1)
    <2>1. i + (n - 1) - 1 <= Len(b)
        BY <1>2, <1>8
    <2>2. \A k \in 1..(n - 1) : b[i + k - 1] = Pattern[k]
        <3> SUFFICES ASSUME NEW k \in 1..(n - 1) PROVE b[i + k - 1] = Pattern[k]
            OBVIOUS
        <3>1. k \in 1..(Len(b) - i + 1)
            BY <1>2, <1>8
        <3>2. c[k] = Pattern[k]
            BY <1>8, PrefixOf
        <3>3. QED BY <1>4, <3>1, <3>2
    <2>3. QED BY <1>1, <1>2, <1>8, <2>1, <2>2, SequenceRun
<1>10. InSequence(n - 1, W[x - 1]) /\ W[x - 1].on = W[i - 1].on
    BY <1>8, <1>9 DEF Sequence
<1>11. W[x] = Shows(W[x - 1], b[x]) /\ b[x] \in ModeBytes /\ W[x - 1] \in Terminals
    <2> HIDE DEF x
    <2>1. x - 1 \in 0..Len(b)
        BY <1>2, <1>8
    <2>2. QED BY <1>1, <1>8, <2>1, FollowingIs
<1>12. GoesOnTo(W[x - 1], n - 1, b[x], W[x])
    BY <1>8, <1>10, <1>11, InSequenceGoesOn
<1>13. W[x].at = Text /\ W[x].on = IF n = 4 THEN W[i - 1].on ELSE [W[i - 1].on EXCEPT ![n - 4] = b[x] = "h"]
    <2>1. b[x] \in {"h", "l"} /\ b[x] # ESC /\ ~(n - 1 < 5 /\ b[x] = Pattern[(n - 1) + 1])
        <3>1. Pattern[4] = "1" /\ Pattern[5] = "1"
            BY DEF Pattern
        <3>2. n - 1 < 5 => Pattern[(n - 1) + 1] = "1"
            BY <1>8, <3>1
        <3>3. b[x] \in {"h", "l"}
            BY <1>8
        <3> HIDE DEF x
        <3>4. QED BY <3>2, <3>3 DEF ESC
    <2>2. n - 1 >= 3 /\ (n - 1 = 3 <=> n = 4) /\ (n - 1) - 3 = n - 4
        BY <1>8
    <2> HIDE DEF x
    <2>3. W[x].at = Text
        BY <1>12, <2>1 DEF GoesOnTo
    <2>4. W[x].on = IF n - 1 = 3 THEN W[x - 1].on ELSE [W[x - 1].on EXCEPT ![(n - 1) - 3] = b[x] = "h"]
        BY <1>12, <2>1, <2>2 DEF GoesOnTo
    <2>5. QED BY <1>10, <2>2, <2>3, <2>4
<1>14. on = W[x].on
    BY <1>3, <1>13
<1> HIDE DEF on
<1>15. r \in Tracks /\ r.i = i + n /\ ~r.stop /\ r.pending = <<>> /\ r.on = W[x].on
    <2>1. i + n \in Nat \ {0}
        BY <1>2, <1>8, WholeFits
    <2>2. W[x].on \in [1..2 -> BOOLEAN]
        BY <1>1, <1>8, FollowingIs DEF Terminals
    <2> HIDE DEF x
    <2>3. r = [s EXCEPT !.i = i + n, !.on = W[x].on]
        BY <1>14
    <2> HIDE DEF r
    <2>4. QED BY <1>1, <1>3, <2>1, <2>2, <2>3 DEF Tracks
<1> HIDE DEF r
<1>16. r.i \in 1..(Len(b) + 1) /\ r.i - 1 = x /\ r.i >= i + 1
    <2>1. i + n \in 1..(Len(b) + 1) /\ (i + n) - 1 = x /\ i + n >= i + 1
        <3>1. i \in 1..Len(b) /\ Len(b) \in Nat /\ n \in 4..6 /\ n <= Len(b) - i + 1
            BY <1>2, <1>8
        <3> HIDE DEF i
        <3>2. QED BY <3>1, WholeFits
    <2> HIDE DEF x
    <2>2. QED BY <1>15, <2>1
<1> HIDE DEF x
<1>17. Reading(b, r, W)
    BY <1>13, <1>15, <1>16 DEF Reading
<1>18. ReadsOn(b, W, s, r)
    BY <1>15, <1>16, <1>17 DEF ReadsOn
<1>19. QED BY <1>18 DEF r, on

\* A sequence that is not all there, at the end.
LEMMA CutStep ==
    ASSUME NEW b, NEW W, NEW s, InRead(b, W, s), b[s.i] = ESC, ModeLength(From(b, s.i)) = -1
    PROVE  ReadsOn(b, W, s, [s EXCEPT !.stop = TRUE,
                                      !.pending = IF Len(b) - s.i + 1 <= MaxMode THEN From(b, s.i) ELSE <<>>])
<1> DEFINE i == s.i
           c == From(b, i)
           m == Len(b) - i + 1
           r == [s EXCEPT !.stop = TRUE, !.pending = IF m <= MaxMode THEN c ELSE <<>>]
<1>1. s \in Tracks /\ Following(b, W) /\ ~s.stop /\ s.i <= Len(b) /\ Reading(b, s, W) /\ b \in Seq(ModeBytes)
    BY DEF InRead, Following
<1>2. i \in 1..Len(b) /\ Len(b) \in Nat /\ Len(b) \in 0..Len(b) /\ s.on = W[i - 1].on
    <2>1. i \in 1..Len(b) /\ Len(b) \in Nat /\ Len(b) \in 0..Len(b)
        BY <1>1, FollowingIs DEF Tracks
    <2>2. QED BY <1>1, <2>1 DEF Reading
<1>3. /\ c \in Seq(ModeBytes) /\ Len(c) = m
      /\ \A k \in 1..m : c[k] = b[i + k - 1]
    BY <1>1, <1>2, FromIs
<1>4. 1 \in 1..m /\ i + 1 - 1 = i /\ m >= 1 /\ i + m - 1 = Len(b) /\ m \in Nat
    BY <1>2, RestFits
<1> HIDE DEF c, m
<1>5. m <= 5 /\ Prefix(c, m)
    <2>1. c[1] = ESC
        BY <1>3, <1>4
    <2>2. ModeLength(c) = -1 /\ Len(c) >= 1
        BY <1>3, <1>4 DEF c
    <2>3. QED BY <1>3, <2>1, <2>2, ModeLengthIs
<1>6. m \in 1..5
    BY <1>4, <1>5
<1>7. Sequence(b, W, i, m)
    <2>1. \A k \in 1..m : b[i + k - 1] = Pattern[k]
        BY <1>3, <1>5, <1>6, PrefixOf
    <2>2. i + m - 1 <= Len(b)
        BY <1>2, <1>4
    <2>3. QED BY <1>1, <1>2, <1>6, <2>1, <2>2, SequenceRun
<1>8. InSequence(m, W[Len(b)]) /\ W[Len(b)].on = s.on
    BY <1>2, <1>4, <1>7 DEF Sequence
<1>9. m <= MaxMode
    BY <1>6, ScannersAssumption
<1>10. r = [s EXCEPT !.stop = TRUE, !.pending = c]
    BY <1>9
<1> HIDE DEF r
<1>11. r \in Tracks /\ r.i = i /\ r.stop /\ r.pending = c /\ r.on = s.on
    BY <1>1, <1>3, <1>10 DEF Tracks
<1>12. ModesHold(c, W[Len(b)])
    BY <1>3, <1>5, <1>6, <1>8 DEF ModesHold
<1>13. i \in 1..(Len(b) + 1)
    BY <1>2
<1>14. ReadsOn(b, W, s, r)
    BY <1>8, <1>11, <1>12, <1>13 DEF ReadsOn, Reading
<1>15. QED BY <1>14 DEF r, c, m

\* Another sequence.
LEMMA OtherStep ==
    ASSUME NEW b, NEW W, NEW s, InRead(b, W, s), b[s.i] = ESC, ModeLength(From(b, s.i)) = 0
    PROVE  ReadsOn(b, W, s, [s EXCEPT !.i = s.i + 1])
<1> DEFINE i == s.i
           r == [s EXCEPT !.i = s.i + 1]
<1>1. s \in Tracks /\ Following(b, W) /\ ~s.stop /\ s.i <= Len(b) /\ Reading(b, s, W) /\ b \in Seq(ModeBytes)
    BY DEF InRead, Following
<1>2. i \in 1..Len(b) /\ Len(b) \in Nat /\ i + 1 - 1 = i
    BY <1>1, FollowingIs DEF Tracks
<1>3. s.pending = <<>> /\ s.on = W[i - 1].on
    BY <1>1 DEF Reading
<1>4. Sequence(b, W, i, 1)
    <2>1. \A k \in 1..1 : b[i + k - 1] = Pattern[k]
        BY <1>2 DEF Pattern
    <2>2. i + 1 - 1 <= Len(b) /\ 1 \in 1..5
        BY <1>2
    <2>3. QED BY <1>1, <1>2, <2>1, <2>2, SequenceRun
<1>5. InSequence(1, W[i]) /\ W[i].on = W[i - 1].on
    BY <1>2, <1>4 DEF Sequence
<1>6. Prefix(From(b, i), 1)
    <2>1. 1 \in 1..(Len(b) - i + 1) /\ 1 \in 1..5
        BY <1>2
    <2>2. Len(From(b, i)) = Len(b) - i + 1 /\ From(b, i)[1] = b[i + 1 - 1]
        <3> DEFINE c == From(b, i)
        <3>1. /\ c \in Seq(ModeBytes) /\ Len(c) = Len(b) - i + 1
              /\ \A k \in 1..(Len(b) - i + 1) : c[k] = b[i + k - 1]
            <4>1. b \in Seq(ModeBytes) /\ i \in 1..Len(b)
                BY <1>1, <1>2
            <4> HIDE DEF i
            <4>2. QED BY <4>1, FromIs
        <3> HIDE DEF c
        <3>2. Len(c) = Len(b) - i + 1 /\ c[1] = b[i + 1 - 1]
            BY <2>1, <3>1
        <3>3. QED BY <3>2 DEF c
    <2>3. From(b, i)[1] = ESC /\ 1 <= Len(From(b, i))
        BY <1>2, <2>1, <2>2
    <2>4. QED BY <2>1, <2>3, IsPrefix
<1>7. r \in Tracks /\ r.i = i + 1 /\ ~r.stop /\ r.pending = <<>> /\ r.on = s.on
    <2>1. i + 1 \in Nat \ {0}
        BY <1>2
    <2>2. QED BY <1>1, <1>3, <2>1 DEF Tracks
<1> HIDE DEF r
<1>8. r.i \in 1..(Len(b) + 1) /\ r.i - 1 = i /\ r.i >= i + 1 /\ r.i - i = 1 /\ i \in 1..(r.i - 1)
    <2>1. i + 1 \in 1..(Len(b) + 1) /\ (i + 1) - 1 = i /\ i + 1 >= i + 1 /\ (i + 1) - i = 1 /\ i \in 1..((i + 1) - 1)
        BY <1>2, RestFits
    <2>2. QED BY <1>7, <2>1
<1>9. Reading(b, r, W)
    BY <1>3, <1>5, <1>6, <1>7, <1>8 DEF Reading
<1>10. ReadsOn(b, W, s, r)
    BY <1>7, <1>8, <1>9 DEF ReadsOn
<1>11. QED BY <1>10 DEF r

LEMMA ModeStepKeeps ==
    ASSUME NEW b, NEW W, NEW s, InRead(b, W, s)
    PROVE  ReadsOn(b, W, s, ModeStep(b, s))
<1> DEFINE n == ModeLength(From(b, s.i))
<1>1. CASE b[s.i] # ESC
    <2>1. ModeStep(b, s) = [s EXCEPT !.i = s.i + 1]
        BY <1>1, Zenon DEF ModeStep
    <2>2. QED BY <1>1, <2>1, PassedStep
<1>2. CASE b[s.i] = ESC /\ n = 0
    <2>1. ModeStep(b, s) = [s EXCEPT !.i = s.i + 1]
        BY <1>2, Zenon DEF ModeStep
    <2>2. QED BY <1>2, <2>1, OtherStep
<1>3. CASE b[s.i] = ESC /\ n = -1
    <2>1. n # 0
        BY <1>3
    <2>2. ModeStep(b, s) = [s EXCEPT !.stop = TRUE, !.pending = IF Len(b) - s.i + 1 <= MaxMode THEN From(b, s.i) ELSE <<>>]
        BY <1>3, <2>1, Zenon DEF ModeStep
    <2>3. ReadsOn(b, W, s, [s EXCEPT !.stop = TRUE, !.pending = IF Len(b) - s.i + 1 <= MaxMode THEN From(b, s.i) ELSE <<>>])
        BY <1>3, CutStep
    <2>4. QED BY <2>2, <2>3, Zenon
<1>4. CASE b[s.i] = ESC /\ n \notin {-1, 0}
    <2>1. ModeStep(b, s) = [s EXCEPT !.i = s.i + n,
                                     !.on = IF n = 4 THEN s.on ELSE [s.on EXCEPT ![n - 4] = b[s.i + n - 1] = "h"]]
        BY <1>4, Zenon DEF ModeStep
    <2>2. ReadsOn(b, W, s, [s EXCEPT !.i = s.i + n,
                                     !.on = IF n = 4 THEN s.on ELSE [s.on EXCEPT ![n - 4] = b[s.i + n - 1] = "h"]])
        BY <1>4, WholeStep
    <2>3. QED BY <2>1, <2>2, Zenon
<1>5. QED BY <1>1, <1>2, <1>3, <1>4

LEMMA ModeStepType ==
    ASSUME NEW b \in Seq(ModeBytes), NEW s \in Tracks, s.i <= Len(b)
    PROVE  ModeStep(b, s) \in Tracks
<1> DEFINE i == s.i
           c == From(b, i)
           n == ModeLength(c)
<1>1. i \in 1..Len(b) /\ Len(b) \in Nat /\ i + 1 \in Nat \ {0}
    BY DEF Tracks
<1>2. c \in Seq(ModeBytes) /\ <<>> \in Seq(ModeBytes)
    <2>1. <<>> \in Seq(ModeBytes)
        OBVIOUS
    <2>2. i \in 1..Len(b)
        BY <1>1
    <2> HIDE DEF i
    <2>3. QED BY <2>1, <2>2, FromIs
<1>3. CASE b[i] # ESC \/ n = 0
    <2>1. ModeStep(b, s) = [s EXCEPT !.i = i + 1]
        BY <1>3, Zenon DEF ModeStep
    <2>2. QED BY <1>1, <2>1 DEF Tracks
<1>4. CASE b[i] = ESC /\ n = -1
    <2>1. n # 0
        BY <1>4
    <2> DEFINE p == IF Len(b) - i + 1 <= MaxMode THEN c ELSE <<>>
    <2>2. ModeStep(b, s) = [s EXCEPT !.stop = TRUE, !.pending = p]
        BY <1>4, <2>1, Zenon DEF ModeStep
    <2>3. p \in Seq(ModeBytes)
        BY <1>2
    <2> HIDE DEF p
    <2>4. QED BY <2>2, <2>3 DEF Tracks
<1>5. CASE b[i] = ESC /\ n \notin {-1, 0}
    <2> DEFINE on == IF n = 4 THEN s.on ELSE [s.on EXCEPT ![n - 4] = b[s.i + n - 1] = "h"]
    <2>1. ModeStep(b, s) = [s EXCEPT !.i = i + n, !.on = on]
        BY <1>5, Zenon DEF ModeStep
    <2>2. on \in [1..2 -> BOOLEAN]
        BY DEF Tracks
    <2> HIDE DEF on
    <2>3. n \in 4..6
        <3>1. Len(c) >= 1 /\ c[1] = ESC
            <4>1. Len(c) = Len(b) - i + 1 /\ \A k \in 1..(Len(b) - i + 1) : c[k] = b[i + k - 1]
                <5>1. i \in 1..Len(b)
                    BY <1>1
                <5> HIDE DEF i
                <5>2. QED BY <1>2, <5>1, FromIs
            <4>2. 1 \in 1..(Len(b) - i + 1) /\ i + 1 - 1 = i /\ Len(b) - i + 1 >= 1
                <5>1. i \in 1..Len(b) /\ Len(b) \in Nat
                    BY <1>1
                <5> HIDE DEF i
                <5>2. QED BY <5>1, RestFits
            <4> HIDE DEF c
            <4>3. QED BY <1>5, <4>1, <4>2
        <3> HIDE DEF c
        <3>2. Whole(c, n)
            BY <1>2, <1>5, <3>1, ModeLengthIs
        <3>3. QED BY <3>2 DEF Whole
    <2> HIDE DEF n
    <2>4. i + n \in Nat \ {0}
        BY <1>1, <2>3
    <2>5. QED BY <2>1, <2>2, <2>4 DEF Tracks
<1>6. QED BY <1>3, <1>4, <1>5

LEMMA ModeLoopIs ==
    ASSUME NEW b \in Seq(ModeBytes), NEW s \in Tracks
    PROVE  LET L == Loop(ModeStep, b, s) IN
           /\ L[0] = s
           /\ \A k \in 1..Len(b) :
                 L[k] = IF L[k - 1].stop \/ L[k - 1].i > Len(b) THEN L[k - 1] ELSE ModeStep(b, L[k - 1])
<1> DEFINE Onward(u) == IF u.stop \/ u.i > Len(b) THEN u ELSE ModeStep(b, u)
<1>1. Len(b) \in Nat
    OBVIOUS
<1>2. \A u \in Tracks : Onward(u) \in Tracks
    <2> SUFFICES ASSUME NEW u \in Tracks PROVE Onward(u) \in Tracks
        OBVIOUS
    <2>1. CASE u.stop \/ u.i > Len(b)
        BY <2>1
    <2>2. CASE ~(u.stop \/ u.i > Len(b))
        <3>1. u.i <= Len(b)
            BY <1>1, <2>2 DEF Tracks
        <3>2. QED BY <2>2, <3>1, ModeStepType
    <2>3. QED BY <2>1, <2>2
<1> HIDE DEF Onward
<1>3. PICK F : F \in RoundsOf(Len(b), Tracks) /\ \A k \in 1..Len(b), u \in Tracks : F[k][u] = Onward(u)
    <2> DEFINE G == [k \in 1..Len(b) |-> [u \in Tracks |-> Onward(u)]]
    <2>1. G \in RoundsOf(Len(b), Tracks)
        BY <1>2 DEF RoundsOf
    <2>2. \A k \in 1..Len(b), u \in Tracks : G[k][u] = Onward(u)
        OBVIOUS
    <2> HIDE DEF G
    <2>3. QED BY <2>1, <2>2
<1>4. PICK g : GoesOn(g, Len(b), Tracks, s, F)
    BY <1>1, <1>3, Recursion
<1>5. g = [k \in 0..Len(b) |-> IF k = 0 THEN s ELSE Onward(g[k - 1])]
    <2>1. g = [k \in 0..Len(b) |-> g[k]]
        BY <1>4 DEF GoesOn
    <2>2. \A k \in 0..Len(b) : g[k] = IF k = 0 THEN s ELSE Onward(g[k - 1])
        BY <1>1, <1>3, <1>4 DEF GoesOn
    <2>3. QED BY <2>1, <2>2, Zenon
<1> DEFINE L == Loop(ModeStep, b, s)
<1>6. L = [k \in 0..Len(b) |-> IF k = 0 THEN s ELSE Onward(L[k - 1])]
    BY <1>5, Zenon DEF Loop, Onward
<1> HIDE DEF L
<1>7. L[0] = s /\ \A k \in 1..Len(b) : L[k] = Onward(L[k - 1])
    BY <1>1, <1>6
<1>8. QED BY <1>7 DEF L, Onward

LEMMA ModeLoopKeeps ==
    ASSUME NEW b, NEW W, NEW s, Following(b, W), s \in Tracks, s.i = 1, Reading(b, s, W)
    PROVE  LET r == Loop(ModeStep, b, s)[Len(b)] IN
           r \in Tracks /\ Reading(b, r, W) /\ (r.stop \/ r.i = Len(b) + 1)
<1> DEFINE L == Loop(ModeStep, b, s)
           Holds(k) == L[k] \in Tracks /\ Reading(b, L[k], W) /\ (L[k].stop \/ L[k].i >= k + 1)
           A == {k \in 0..Len(b) : Holds(k)}
<1>1. Len(b) \in Nat /\ b \in Seq(ModeBytes)
    BY FollowingIs DEF Following
<1>2. /\ L[0] = s
      /\ \A k \in 1..Len(b) :
            L[k] = IF L[k - 1].stop \/ L[k - 1].i > Len(b) THEN L[k - 1] ELSE ModeStep(b, L[k - 1])
    BY <1>1, ModeLoopIs
<1> HIDE DEF L
<1>3. 0 \in A
    BY <1>1, <1>2
<1>4. ASSUME NEW k \in 0..Len(b), k # 0, k - 1 \in A PROVE k \in A
    <2>1. k \in 1..Len(b) /\ Holds(k - 1) /\ L[k - 1].i \in Nat
        BY <1>1, <1>4 DEF Tracks
    <2>2. CASE L[k - 1].stop \/ L[k - 1].i > Len(b)
        <3>1. L[k] = L[k - 1]
            BY <1>2, <2>1, <2>2
        <3>2. L[k].stop \/ L[k].i >= k + 1
            BY <1>1, <2>1, <2>2, <3>1
        <3>3. QED BY <2>1, <3>1, <3>2
    <2>3. CASE ~(L[k - 1].stop \/ L[k - 1].i > Len(b))
        <3>1. L[k] = ModeStep(b, L[k - 1])
            BY <1>2, <2>1, <2>3
        <3>2. InRead(b, W, L[k - 1])
            BY <1>1, <2>1, <2>3 DEF InRead
        <3>3. ReadsOn(b, W, L[k - 1], L[k])
            BY <3>1, <3>2, ModeStepKeeps
        <3>4. L[k].stop \/ L[k].i >= k + 1
            <4>1. L[k] \in Tracks /\ (L[k].stop \/ L[k].i >= L[k - 1].i + 1)
                BY <3>3 DEF ReadsOn
            <4>2. L[k].i \in Nat /\ k \in Nat /\ L[k - 1].i >= k
                BY <1>1, <2>1, <2>3, <4>1 DEF Tracks
            <4>3. QED BY <2>1, <4>1, <4>2
        <3>5. QED BY <2>1, <3>3, <3>4 DEF ReadsOn
    <2>4. QED BY <2>2, <2>3
<1>5. \A k \in 0..Len(b) : k # 0 /\ k - 1 \in A => k \in A
    BY <1>4
<1>6. \A k \in 0..Len(b) : k \in A
    <2> HIDE DEF A
    <2>1. QED BY <1>1, <1>3, <1>5, Climb
<1>7. Holds(Len(b))
    BY <1>1, <1>6
<1>8. L[Len(b)].stop \/ L[Len(b)].i = Len(b) + 1
    BY <1>1, <1>7 DEF Reading
<1>9. QED BY <1>7, <1>8 DEF L

\* Where it has stopped, or at the end: what is pending and where a terminal is.
LEMMA ReadingEnds ==
    ASSUME NEW b, NEW W, NEW r, Following(b, W), r \in Tracks, Reading(b, r, W), r.stop \/ r.i = Len(b) + 1
    PROVE  ModesHold(r.pending, W[Len(b)]) /\ r.on = W[Len(b)].on
<1> DEFINE N == Len(b)
<1>1. CASE r.stop
    BY <1>1 DEF Reading
<1>2. CASE ~r.stop
    <2>1. N \in Nat /\ r.i = N + 1 /\ r.i - 1 = N /\ b \in Seq(ModeBytes)
        BY <1>2, FollowingIs DEF Following
    <2>2. r.pending = <<>> /\ r.on = W[N].on
        BY <1>2, <2>1 DEF Reading
    <2>3. W[N].at = Text
        <3> SUFFICES ASSUME W[N].at # Text PROVE FALSE
            OBVIOUS
        <3>1. PICK j \in 1..N : ModeLength(From(b, j)) = 0 /\ Prefix(From(b, j), (N + 1) - j)
            <4>1. W[r.i - 1].at = Text \/ \E j \in 1..(r.i - 1) :
                        /\ ModeLength(From(b, j)) = 0 /\ Prefix(From(b, j), r.i - j)
                        /\ InSequence(r.i - j, W[r.i - 1])
                BY <1>2 DEF Reading
            <4>2. QED BY <2>1, <4>1
        <3> DEFINE c == From(b, j)
        <3>2. c \in Seq(ModeBytes) /\ Len(c) = N - j + 1
            BY <2>1, FromIs
        <3>3. (N + 1) - j = N - j + 1 /\ N - j + 1 >= 1
            BY <2>1
        <3>4. ModeLength(c) = 0 /\ Prefix(c, Len(c)) /\ Len(c) >= 1
            BY <3>1, <3>2, <3>3
        <3> HIDE DEF c
        <3>5. Len(c) <= 5 /\ c[1] = ESC
            <4>1. Len(c) <= 5 /\ \A k \in 1..Len(c) : c[k] = Pattern[k]
                BY <3>4 DEF Prefix
            <4>2. 1 \in 1..Len(c) /\ Pattern[1] = ESC
                BY <3>2, <3>4 DEF Pattern
            <4>3. QED BY <4>1, <4>2
        <3>6. QED BY <3>2, <3>4, <3>5, ModeLengthIs
    <2>4. QED BY <2>2, <2>3 DEF ModesHold
<1>3. QED BY <1>1, <1>2
-----------------------------------------------------------------------------
(* A chunk of modes at a time. *)

LEMMA PendingModeLeads ==
    ASSUME NEW p \in Seq(ModeBytes), NEW t \in Terminals, ModesHold(p, t)
    PROVE  Watched(Before(FALSE, t), p)[Len(p)] = t
<1> DEFINE u == Before(FALSE, t)
           W == Watched(u, p)
           n == Len(p)
<1>1. u \in Terminals /\ u.at = Text /\ AlikeAll(u, t)
    BY BeforeIs
<1> HIDE DEF u
<1>2. p \in Seq(Bytes) /\ n \in Nat
    BY DEF Bytes
<1>3. W \in [0..n -> Terminals] /\ W[0] = u /\ Follows(W, p) /\ W[n] \in Terminals
    BY <1>1, <1>2, WatchedRuns
<1> HIDE DEF W
<1>4. Following(p, W)
    BY <1>1, <1>3 DEF Following, ModePlaces
<1>5. W[n].at = t.at /\ AlikeAll(W[n], t) => W[n] = t
    BY <1>3, SameTerminal DEF AlikeAll, Alike
<1>6. CASE p = <<>>
    <2>1. n = 0 /\ W[n] = u
        BY <1>3, <1>6
    <2>2. t.at = Text
        BY <1>6 DEF ModesHold
    <2>3. QED BY <1>1, <1>5, <2>1, <2>2 DEF W, u
<1>7. CASE p # <<>>
    <2>1. n \in 1..5 /\ Prefix(p, n) /\ InSequence(n, t)
        BY <1>7 DEF ModesHold
    <2>2. Sequence(p, W, 1, n)
        <3>1. \A k \in 1..n : p[1 + k - 1] = Pattern[k]
            <4> SUFFICES ASSUME NEW k \in 1..n PROVE p[1 + k - 1] = Pattern[k]
                OBVIOUS
            <4>1. p[k] = Pattern[k]
                BY <2>1 DEF Prefix
            <4>2. 1 + k - 1 = k
                BY <1>2
            <4>3. QED BY <4>1, <4>2
        <3>2. 1 \in 1..n /\ 1 + n - 1 <= n
            BY <1>2, <2>1
        <3>3. QED BY <1>4, <2>1, <3>1, <3>2, SequenceRun
    <2>3. InSequence(n, W[n]) /\ W[n].on = W[0].on /\ (n <= 2 => W[n].ones = W[0].ones)
        <3>1. 1 + n - 1 = n /\ 1 - 1 = 0
            BY <1>2
        <3>2. QED BY <2>2, <3>1 DEF Sequence
    <2>4. W[n].at = t.at /\ W[n].ones = t.ones
        <3>1. n >= 3 => W[n].ones = n - 3 /\ t.ones = n - 3
            BY <2>1, <2>3 DEF InSequence
        <3>2. n <= 2 => W[n].ones = t.ones
            BY <1>1, <1>3, <2>3 DEF AlikeAll, Alike
        <3>3. W[n].at = t.at
            BY <2>1, <2>3 DEF InSequence
        <3>4. n >= 3 \/ n <= 2
            BY <1>2
        <3>5. QED BY <3>1, <3>2, <3>3, <3>4
    <2>5. Silent(W[0], W[n])
        <3>1. n \in 0..n
            BY <1>2
        <3>2. QED BY <1>4, <3>1, FollowingIs
    <2>6. AlikeAll(W[n], t)
        BY <1>1, <1>3, <2>3, <2>4, <2>5 DEF AlikeAll, Alike, Silent
    <2>7. QED BY <1>5, <2>4, <2>6 DEF W, u
<1>8. QED BY <1>6, <1>7

\* Where the scanner of modes and a terminal are between two chunks.
ModesAbreast(p, t) == t \in Terminals /\ t.at \in ModePlaces /\ p \in Seq(ModeBytes) /\ ModesHold(p, t)

LEMMA FeedModesKeeps ==
    ASSUME ModesAbreast(modes.pending, screen), modes.on = screen.on, NEW chunk \in Chunks(ModeBytes)
    PROVE  LET r == FeedModes(chunk)
               t == Shown(chunk) IN
           /\ ModesAbreast(r.pending, t) /\ r.on = t.on
           /\ t.rang = FALSE /\ t.told = <<>> /\ t.all = <<>>
<1> DEFINE p == modes.pending
           b == p \o chunk
           n == Len(p)
           t == Quieted(screen)
           u == Before(FALSE, t)
           W == Watched(u, b)
           begin == [i |-> 1, stop |-> FALSE, pending |-> <<>>, on |-> modes.on]
<1>1. screen \in Terminals /\ screen.at \in ModePlaces /\ p \in Seq(ModeBytes) /\ ModesHold(p, screen)
    BY DEF ModesAbreast
<1>2. chunk \in Seq(ModeBytes)
    BY <1>1, ChunkIs
<1>3. /\ t \in Terminals /\ t.at = screen.at /\ t.on = screen.on /\ t.ones = screen.ones
      /\ t.rang = FALSE /\ t.told = <<>> /\ t.all = <<>>
    BY <1>1, QuietedIs
<1>4. ModesHold(p, t)
    BY <1>1, <1>3 DEF ModesHold, InSequence
<1>5. u \in Terminals /\ u.at = Text /\ AlikeAll(u, t)
    BY <1>3, BeforeIs
<1>6. Watched(u, p)[n] = t
    BY <1>1, <1>3, <1>4, PendingModeLeads
<1>7. b \in Seq(ModeBytes) /\ b \in Seq(Bytes) /\ Len(b) = n + Len(chunk) /\ n \in Nat /\ Len(chunk) \in Nat
    <2>1. ModeBytes \subseteq Bytes
        BY DEF Bytes
    <2>2. b \in Seq(ModeBytes) /\ Len(b) = n + Len(chunk) /\ n \in Nat /\ Len(chunk) \in Nat
        BY <1>1, <1>2
    <2> HIDE DEF b
    <2>3. b \in Seq(Bytes)
        BY <2>1, <2>2
    <2>4. QED BY <2>2, <2>3
<1>8. W \in [0..Len(b) -> Terminals] /\ W[0] = u /\ Follows(W, b)
    BY <1>5, <1>7, WatchedRuns
<1>9. W[Len(b)] = Shown(chunk)
    <2>1. p \in Seq(Bytes) /\ chunk \in Seq(Bytes)
        BY <1>1, <1>2 DEF Bytes
    <2>2. \A k \in 0..Len(chunk) : W[n + k] = Watched(Watched(u, p)[n], chunk)[k]
        BY <1>5, <2>1, WatchedOn
    <2>3. Len(chunk) \in 0..Len(chunk)
        BY <1>7
    <2>4. W[n + Len(chunk)] = Watched(t, chunk)[Len(chunk)]
        BY <1>6, <2>2, <2>3
    <2>5. QED BY <1>7, <2>4 DEF Shown
<1> HIDE DEF W, u, t, b, n, p
<1>10. Following(b, W)
    BY <1>5, <1>7, <1>8 DEF Following, ModePlaces
<1>11. begin \in Tracks /\ begin.i = 1 /\ ~begin.stop /\ begin.pending = <<>> /\ begin.on = modes.on
    <2>1. 1 \in Nat \ {0} /\ <<>> \in Seq(ModeBytes) /\ modes.on \in [1..2 -> BOOLEAN]
        BY <1>1 DEF Terminals
    <2>2. QED BY <2>1 DEF Tracks
<1> HIDE DEF begin
<1>12. Reading(b, begin, W)
    <2>1. W[0].at = Text /\ W[0].on = modes.on
        BY <1>3, <1>5, <1>8 DEF AlikeAll, Alike
    <2>2. 1 \in 1..(Len(b) + 1) /\ 1 - 1 = 0
        BY <1>7
    <2>3. QED BY <1>11, <2>1, <2>2 DEF Reading
<1> DEFINE r == Loop(ModeStep, b, begin)[Len(b)]
<1>13. r \in Tracks /\ Reading(b, r, W) /\ (r.stop \/ r.i = Len(b) + 1)
    BY <1>10, <1>11, <1>12, ModeLoopKeeps
<1>14. FeedModes(chunk) = r
    BY DEF FeedModes, begin, b, p
<1> HIDE DEF r
<1>15. ModesHold(r.pending, W[Len(b)]) /\ r.on = W[Len(b)].on
    BY <1>10, <1>13, ReadingEnds
<1>16. W[Len(b)] \in Terminals /\ W[Len(b)].at \in ModePlaces /\ Silent(W[0], W[Len(b)])
    <2>1. Len(b) \in 0..Len(b)
        BY <1>7
    <2>2. QED BY <1>10, <2>1, FollowingIs
<1>17. W[Len(b)].rang = FALSE /\ W[Len(b)].told = <<>> /\ W[Len(b)].all = <<>>
    BY <1>3, <1>5, <1>8, <1>16 DEF Silent, AlikeAll, Alike
<1>18. r.pending \in Seq(ModeBytes)
    BY <1>13 DEF Tracks
<1>19. QED BY <1>9, <1>14, <1>15, <1>16, <1>17, <1>18 DEF ModesAbreast

\* Reading modes alone.
ModesInv ==
    /\ ModesAbreast(modes.pending, screen) /\ modes.on = screen.on
    /\ screen.rang = FALSE /\ screen.told = <<>> /\ screen.all = <<>>
    /\ osc = [pending |-> <<>>, skipping |-> FALSE] /\ last = Nothing

LEMMA ModesStart ==
    ASSUME ScanInit
    PROVE  ModesInv
<1>1. CommandsAbreast(osc.pending, osc.skipping, screen)
    BY CommandsStart DEF CommandsInv
<1>2. /\ screen.at = Text /\ screen.rang = FALSE /\ screen.told = <<>> /\ screen.all = <<>>
      /\ screen.on = [n \in 1..2 |-> FALSE] /\ screen \in Terminals
    BY <1>1 DEF ScanInit, Fresh, CommandsAbreast
<1>3. modes.pending = <<>> /\ modes.on = [n \in 1..2 |-> FALSE] /\ modes.pending \in Seq(ModeBytes)
    BY DEF ScanInit
<1>4. ModesAbreast(modes.pending, screen)
    BY <1>2, <1>3 DEF ModesAbreast, ModesHold, ModePlaces
<1>5. QED BY <1>2, <1>3, <1>4 DEF ModesInv, ScanInit

LEMMA ModesStep ==
    ASSUME ModesInv, ReadModes
    PROVE  ModesInv'
<1>1. PICK chunk \in Chunks(ModeBytes) :
         LET fed == FeedModes(chunk) IN
         /\ screen' = Shown(chunk)
         /\ modes' = [pending |-> fed.pending, on |-> fed.on]
         /\ UNCHANGED <<osc, last>>
    BY DEF ReadModes
<1> DEFINE r == FeedModes(chunk)
           t == Shown(chunk)
<1>2. ModesAbreast(r.pending, t) /\ r.on = t.on /\ t.rang = FALSE /\ t.told = <<>> /\ t.all = <<>>
    BY <1>1, FeedModesKeeps DEF ModesInv
<1> HIDE DEF r, t
<1>3. screen' = t /\ modes'.pending = r.pending /\ modes'.on = r.on /\ UNCHANGED <<osc, last>>
    BY <1>1 DEF r, t
<1>4. QED BY <1>2, <1>3 DEF ModesInv

LEMMA ModesTell ==
    ASSUME ModesInv
    PROVE  CutAnywhere /\ ScanTypeOK
<1>1. /\ screen \in Terminals /\ ModesHold(modes.pending, screen) /\ modes.on = screen.on
      /\ osc.pending = <<>> /\ osc.skipping = FALSE /\ last.bell = FALSE /\ last.told = <<>>
    BY DEF ModesInv, ModesAbreast, Nothing
<1>2. Heard(last, screen)
    BY <1>1, HeardNothing DEF ModesInv
<1>3. BellsExact /\ CommandsExact
    BY <1>2 DEF BellsExact, CommandsExact, Heard, Counted
<1>4. ModesExact /\ modes.on \in [1..2 -> BOOLEAN]
    BY <1>1 DEF ModesExact, Terminals
<1>5. Len(modes.pending) <= MaxMode
    <2>1. Len(modes.pending) = 0 \/ Len(modes.pending) \in 1..5
        BY <1>1 DEF ModesHold
    <2>2. MaxMode \in Nat /\ MaxMode >= 5
        BY ScannersAssumption
    <2>3. \A m : m = 0 \/ m \in 1..5 => m <= MaxMode
        BY <2>2
    <2>4. QED BY <2>1, <2>3
<1>6. Len(osc.pending) <= MaxPending
    BY <1>1, ScannersAssumption
<1>7. QED BY <1>1, <1>3, <1>4, <1>5, <1>6 DEF CutAnywhere, ScanTypeOK

\* Wherever a stream of modes is cut, the modes a late viewer is given are those
\* that a terminal that has seen all of it has on (feed in modes.go).
THEOREM ModesCutAnywhere == ModesSpec => [](CutAnywhere /\ ScanTypeOK)
<1>1. ScanInit => ModesInv
    BY ModesStart
<1>2. ModesInv /\ [ReadModes]_scanVars => ModesInv'
    <2>1. CASE ReadModes
        BY <2>1, ModesStep
    <2>2. CASE UNCHANGED scanVars
        BY <2>2 DEF scanVars, ModesInv
    <2>3. QED BY <2>1, <2>2
<1>3. ModesInv => CutAnywhere /\ ScanTypeOK
    BY ModesTell
<1>4. QED BY <1>1, <1>2, <1>3, PTL DEF ModesSpec

-----------------------------------------------------------------------------
(***************************************************************************)
(* The parts side by side.                                                 *)
(***************************************************************************)

\* Each part does what it does alone.
LEMMA PartsApart ==
    PartsSpec =>
        /\ Spec /\ GovernorSpec
        /\ LifeInit /\ [][LifeNext]_lifeVars
        /\ ChatInit /\ [][ChatNext]_chatVars
        /\ DeliveryInit /\ [][DeliveryNext]_deliveryVars
        /\ LogInit /\ [][LogNext]_logVars
<1>1. PartsInit => Init /\ LifeInit /\ GovernorInit /\ ChatInit /\ DeliveryInit /\ LogInit
    BY DEF PartsInit
<1>2. [PartsNext]_partsVars => [Next]_vars /\ [LifeNext]_lifeVars /\ [GovernorNext]_governorVars
    BY DEF PartsNext, partsVars
<1>3. [PartsNext]_partsVars => [ChatNext]_chatVars /\ [DeliveryNext]_deliveryVars /\ [LogNext]_logVars
    BY DEF PartsNext, partsVars
<1>4. QED BY <1>1, <1>2, <1>3, PTL DEF PartsSpec, Spec, GovernorSpec

\* The safety that the parts are checked for side by side, for every value of
\* their constants with which a session's requests come one at a time.
THEOREM PartsSafe ==
    ASSUME OneRequest
    PROVE  PartsSpec =>
               /\ []ReplayExact /\ ImplementsWindow
               /\ []NothingStranded /\ RunningNotReplaced
               /\ NothingEndedUnasked
               /\ []ReadBeforeAllowed
               /\ []HandledOnce /\ SavedStays
               /\ []WholeLines
<1>1. PartsSpec => []ReplayExact /\ ImplementsWindow
    BY PartsApart, ReplayCorrect, ImplementsCorrect, PTL
<1>2. PartsSpec => NothingEndedUnasked
    BY PartsApart, NothingEndedUnaskedCorrect, PTL
<1>3. PartsSpec => []NothingStranded
    <2>1. LifeInv /\ [LifeNext]_lifeVars => LifeInv'
        BY LifeKeeps
    <2>2. LifeInv => NothingStranded
        BY LifeStrands
    <2>3. QED BY PartsApart, LifeInitHolds, <2>1, <2>2, PTL
<1>4. PartsSpec => RunningNotReplaced
    <2>1. LifeInit => BornOK
        BY NoPaneFits DEF LifeInit, BornOK
    <2>2. LifeInv /\ [LifeNext]_lifeVars => LifeInv'
        BY LifeKeeps
    <2>3. LifeInv /\ BornOK /\ [LifeNext]_lifeVars => BornOK'
        BY BornKeeps DEF LifeInv
    <2>4. LifeInv /\ BornOK /\ [LifeNext]_lifeVars =>
             [pane.up /\ ~pane.dead /\ pane'.up =>
                 pane'.life = pane.life \/ \E a \in Requests : work[a].at = "blind"]_lifeVars
        BY ReplacesAsked
    <2>5. QED BY PartsApart, LifeInitHolds, <2>1, <2>2, <2>3, <2>4, PTL DEF RunningNotReplaced
<1>5. PartsSpec => []ReadBeforeAllowed
    <2>1. ChatInv => ReadBeforeAllowed
        BY DEF ChatInv
    <2>2. QED BY PartsApart, ChatInitHolds, ChatKeeps, <2>1, PTL
<1>6. PartsSpec => []HandledOnce /\ SavedStays
    <2>1. DeliveryInv => HandledOnce
        BY DEF DeliveryInv
    <2>2. QED BY PartsApart, DeliveryInitHolds, DeliveryKeeps, RowHeld, <2>1, PTL DEF SavedStays
<1>7. PartsSpec => []WholeLines
    <2>1. LogInv => WholeLines
        BY DEF LogInv
    <2>2. QED BY PartsApart, LogInitHolds, LogKeeps, <2>1, PTL
<1>8. QED BY <1>1, <1>2, <1>3, <1>4, <1>5, <1>6, <1>7

\* One scanner of a stream moves, or neither.
LEMMA OneScannerMoves ==
    ASSUME [PartsNext]_partsVars
    PROVE  /\ UNCHANGED part
           /\ UNCHANGED scanVars \/ (IF part = "modes" THEN ReadModes ELSE ReadCommands)
<1>1. CASE UNCHANGED partsVars
    BY <1>1 DEF partsVars
<1>2. CASE PartsNext
    <2>1. UNCHANGED part
        BY <1>2 DEF PartsNext
    <2>2. \/ UNCHANGED scanVars
          \/ part = "commands" /\ ReadCommands
          \/ part = "modes" /\ ReadModes
        BY <1>2 DEF PartsNext
    <2>3. QED BY <2>1, <2>2
<1>3. QED BY <1>1, <1>2

\* The scanner that moves is where it is alone.
ScannersTyped == IF part = "modes" THEN ModesInv ELSE CommandsTypes
ScannersAbreast == IF part = "modes" THEN ModesInv ELSE CommandsInv

LEMMA ScannersTypedStart ==
    ASSUME PartsInit
    PROVE  ScannersTyped
<1>1. ScanInit
    BY DEF PartsInit
<1>2. ModesInv /\ CommandsTypes
    BY <1>1, ModesStart, CommandsTypesStart
<1>3. QED BY <1>2 DEF ScannersTyped

LEMMA ScannersTypedStep ==
    ASSUME ScannersTyped, [PartsNext]_partsVars
    PROVE  ScannersTyped'
<1>1. CASE part = "modes"
    <2>1. ModesInv /\ part' = "modes" /\ (UNCHANGED scanVars \/ ReadModes)
        BY <1>1, OneScannerMoves DEF ScannersTyped
    <2>2. ModesInv'
        <3>1. CASE ReadModes
            BY <2>1, <3>1, ModesStep
        <3>2. CASE UNCHANGED scanVars
            BY <2>1, <3>2 DEF scanVars, ModesInv
        <3>3. QED BY <2>1, <3>1, <3>2
    <2>3. QED BY <2>1, <2>2 DEF ScannersTyped
<1>2. CASE part # "modes"
    <2>1. CommandsTypes /\ part' # "modes" /\ (UNCHANGED scanVars \/ ReadCommands)
        BY <1>2, OneScannerMoves DEF ScannersTyped
    <2>2. CommandsTypes'
        <3>1. CASE ReadCommands
            BY <2>1, <3>1, CommandsTypesStep
        <3>2. CASE UNCHANGED scanVars
            BY <2>1, <3>2 DEF scanVars, CommandsTypes
        <3>3. QED BY <2>1, <3>1, <3>2
    <2>3. QED BY <2>1, <2>2 DEF ScannersTyped
<1>3. QED BY <1>1, <1>2

LEMMA ScannersAbreastStart ==
    ASSUME PartsInit
    PROVE  ScannersAbreast
<1>1. ScanInit
    BY DEF PartsInit
<1>2. ModesInv /\ CommandsInv
    BY <1>1, ModesStart, CommandsStart
<1>3. QED BY <1>2 DEF ScannersAbreast

LEMMA ScannersAbreastStep ==
    ASSUME ~Abandons, ScannersAbreast, [PartsNext]_partsVars
    PROVE  ScannersAbreast'
<1>1. CASE part = "modes"
    <2>1. ModesInv /\ part' = "modes" /\ (UNCHANGED scanVars \/ ReadModes)
        BY <1>1, OneScannerMoves DEF ScannersAbreast
    <2>2. ModesInv'
        <3>1. CASE ReadModes
            BY <2>1, <3>1, ModesStep
        <3>2. CASE UNCHANGED scanVars
            BY <2>1, <3>2 DEF scanVars, ModesInv
        <3>3. QED BY <2>1, <3>1, <3>2
    <2>3. QED BY <2>1, <2>2 DEF ScannersAbreast
<1>2. CASE part # "modes"
    <2>1. CommandsInv /\ part' # "modes" /\ (UNCHANGED scanVars \/ ReadCommands)
        BY <1>2, OneScannerMoves DEF ScannersAbreast
    <2>2. CommandsInv'
        <3>1. CASE ReadCommands
            BY <2>1, <3>1, CommandsStep
        <3>2. CASE UNCHANGED scanVars
            BY <2>1, <3>2 DEF scanVars, CommandsInv
        <3>3. QED BY <2>1, <3>1, <3>2
    <2>3. QED BY <2>1, <2>2 DEF ScannersAbreast
<1>3. QED BY <1>1, <1>2

\* Wherever a stream is cut, what the chunks ring, tell and set is what the whole of
\* it does (feed in osc.go and in modes.go), as long as no command that could be
\* kept is given up by the program that writes it.
THEOREM PartsCutAnywhere ==
    ASSUME ~Abandons
    PROVE  PartsSpec => []CutAnywhere
<1>1. PartsInit => ScannersAbreast
    BY ScannersAbreastStart
<1>2. ScannersAbreast /\ [PartsNext]_partsVars => ScannersAbreast'
    BY ScannersAbreastStep
<1>3. ScannersAbreast => CutAnywhere
    BY CommandsTell, ModesTell DEF ScannersAbreast
<1>4. QED BY <1>1, <1>2, <1>3, PTL DEF PartsSpec

\* The types of the parts, for every value of their constants with which a session's
\* requests come one at a time.
THEOREM PartsTypeCorrect ==
    ASSUME OneRequest
    PROVE  PartsSpec => []PartsTypeOK
<1>1. PartsSpec => []TypeOK
    BY PartsApart, TypeCorrect, PTL
<1>2. PartsSpec => []LifeTypeOK
    <2>1. LifeInv /\ [LifeNext]_lifeVars => LifeInv'
        BY LifeKeeps
    <2>2. LifeInv => LifeTypeOK
        BY DEF LifeInv
    <2>3. QED BY PartsApart, LifeInitHolds, <2>1, <2>2, PTL
<1>3. PartsSpec => []GovernorTypeOK
    BY PartsApart, GovernorTypeCorrect, PTL
<1>4. PartsSpec => []ChatTypeOK
    <2>1. ChatInv => ChatTypeOK
        BY DEF ChatInv
    <2>2. QED BY PartsApart, ChatInitHolds, ChatKeeps, <2>1, PTL
<1>5. PartsSpec => []ScanTypeOK
    <2>1. PartsInit => ScannersTyped
        BY ScannersTypedStart
    <2>2. ScannersTyped /\ [PartsNext]_partsVars => ScannersTyped'
        BY ScannersTypedStep
    <2>3. ScannersTyped => ScanTypeOK
        BY CommandsTyped, ModesTell DEF ScannersTyped
    <2>4. QED BY <2>1, <2>2, <2>3, PTL DEF PartsSpec
<1>6. PartsSpec => []DeliveryTypeOK
    <2>1. DeliveryInv => DeliveryTypeOK
        BY DEF DeliveryInv
    <2>2. QED BY PartsApart, DeliveryInitHolds, DeliveryKeeps, <2>1, PTL
<1>7. PartsSpec => []LogTypeOK
    <2>1. LogInv => LogTypeOK
        BY DEF LogInv
    <2>2. QED BY PartsApart, LogInitHolds, LogKeeps, <2>1, PTL
<1>8. QED BY <1>1, <1>2, <1>3, <1>4, <1>5, <1>6, <1>7, PTL DEF PartsTypeOK
=============================================================================
