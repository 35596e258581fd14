----------------------------- MODULE RingBuffer -----------------------------
(***************************************************************************)
(* The replay buffer of one attached session (internal/session/ringbuf.go):*)
(* a fixed array used circularly, holding the last bytes the PTY produced. *)
(*                                                                         *)
(* A byte is identified by its offset in the stream, so "the right byte is *)
(* in the right place" is an equation between numbers.  Offsets are what   *)
(* the protocol carries too: a viewer resumes by saying the next offset it *)
(* has not seen.                                                           *)
(***************************************************************************)
EXTENDS Integers

CONSTANTS Capacity,   (* len(r.buf), DefaultRingSize in the program      *)
          MaxChunk,   (* the largest write tried, a bound on the model   *)
          MaxTotal    (* where the stream stops, a bound on the model    *)

ASSUME RingAssumption ==
    /\ Capacity \in Nat \ {0}
    /\ MaxChunk \in Nat
    /\ MaxTotal \in Nat

VARIABLES buf,        (* index -> the offset of the byte stored there    *)
          size,       (* bytes currently held                            *)
          start,      (* index of the oldest byte                        *)
          total,      (* bytes ever written                              *)
          overflow,   (* whether the buffer has dropped data             *)
          base        (* history: total when the buffer was last emptied *)

vars == <<buf, size, start, total, overflow, base>>

Index == 0..(Capacity - 1)
Smaller(a, b) == IF a < b THEN a ELSE b

Init ==
    /\ buf = [i \in Index |-> -1]
    /\ size = 0 /\ start = 0 /\ total = 0
    /\ overflow = FALSE
    /\ base = 0

-----------------------------------------------------------------------------
(* Write(p), len(p) = n: the bytes of p are the offsets total .. total+n-1. *)

\* A write at least as large as the whole buffer keeps only its tail.
WriteAll(n) ==
    /\ n >= Capacity
    /\ buf' = [i \in Index |-> total + n - Capacity + i]
    /\ start' = 0
    /\ size' = Capacity
    /\ overflow' = (overflow \/ n > Capacity \/ size > 0)

\* Where the next byte goes, and how many of n fit before the end of the array.
End == (start + size) % Capacity
First(n) == Smaller(n, Capacity - End)

\* A smaller write lands at the tail and wraps around the end of the array.
WriteTail(n) ==
    /\ n < Capacity
    /\ buf' = [i \in Index |->
                 IF i >= End /\ i - End < First(n) THEN total + (i - End)
                 ELSE IF i < n - First(n) THEN total + First(n) + i
                 ELSE buf[i]]
    /\ IF size + n > Capacity
         THEN /\ start' = (start + (size + n - Capacity)) % Capacity
              /\ size' = Capacity
              /\ overflow' = TRUE
         ELSE /\ size' = size + n
              /\ UNCHANGED <<start, overflow>>

Write(n) ==
    /\ total + n <= MaxTotal
    /\ WriteAll(n) \/ WriteTail(n)
    /\ total' = total + n
    /\ UNCHANGED base

\* Mutant: emptying the buffer also starts the count of the stream again.
ResetRecounts ==
    /\ start' = 0 /\ size' = 0 /\ overflow' = FALSE
    /\ base' = 0 /\ total' = 0
    /\ UNCHANGED buf

\* Reset empties the buffer; the stream's offsets go on from where they were.
Reset ==
    /\ start' = 0 /\ size' = 0 /\ overflow' = FALSE
    /\ base' = total
    /\ UNCHANGED <<buf, total>>

Next == (\E n \in 1..MaxChunk : Write(n)) \/ Reset

Spec == Init /\ [][Next]_vars

-----------------------------------------------------------------------------
(* The reads.  copy() takes what is left of the array from an index on,    *)
(* then the rest from index 0.                                             *)

\* Mutant: the second copy() starts at the end of the array, not at index 0.
CopiedWithoutWrap(from, n, k) ==
    LET first == Smaller(from + n, Capacity) - from
    IN  IF k < first THEN buf[from + k] ELSE buf[Capacity - 1]

\* Byte k of a copy of n bytes that begins at index `from`.
Copied(from, n, k) ==
    LET first == Smaller(from + n, Capacity) - from
    IN  IF k < first THEN buf[from + k] ELSE buf[k - first]

\* snapshotLocked before the escape-sequence trim: everything held, in order.
Snapshot == [k \in 0..(size - 1) |-> Copied(start, size, k)]

\* Whether the buffer still has every byte after `since`.
Continues(since) == total - size <= since /\ since <= total

\* SnapshotFrom(since) when it continues: the bytes the viewer is missing.
SnapshotFrom(since) ==
    LET n == total - since
        from == (start + size - n) % Capacity
    IN  [k \in 0..(n - 1) |-> Copied(from, n, k)]

-----------------------------------------------------------------------------
TypeOK ==
    /\ buf \in [Index -> Int]
    /\ size \in 0..Capacity
    /\ start \in Index
    /\ total \in Nat
    /\ overflow \in BOOLEAN
    /\ base \in Nat

\* Slot k counted from the oldest byte.
Slot(k) == IF start + k < Capacity THEN start + k ELSE start + k - Capacity

(* The strengthening: the array, read circularly from start, is the last   *)
(* size offsets of the stream.                                             *)
Contents ==
    /\ size <= total
    /\ \A k \in 0..(size - 1) : buf[Slot(k)] = total - size + k

(* A snapshot is exactly the last `size` bytes of the stream, in order, and *)
(* never a byte of an older lap of the array (Snapshot, ringbuf.go).       *)
SnapshotExact ==
    \A k \in 0..(size - 1) : Snapshot[k] = total - size + k

(* A viewer that resumes at any offset the buffer still covers is given    *)
(* exactly the bytes from that offset on: none twice, none missing         *)
(* (SnapshotFrom, ringbuf.go).                                             *)
ResumeExact ==
    \A since \in (total - size)..total :
        \A k \in 0..(total - since - 1) : SnapshotFrom(since)[k] = since + k

(* Overflowed() is true exactly when a byte written since the buffer was   *)
(* last emptied is no longer held.  It decides whether a snapshot is       *)
(* trimmed, so a false TRUE eats real output.                              *)
OverflowExact == overflow <=> total - base > size

(* Whatever was written and however the array wrapped, a replay gives the  *)
(* newest bytes, or those after a resume point, and knows whether older    *)
(* ones are gone (Write, Snapshot, SnapshotFrom, Overflowed).              *)
ReplayExact == Contents /\ SnapshotExact /\ ResumeExact /\ OverflowExact
(* The array with its two indices implements the window.                   *)
Window == INSTANCE StreamWindow WITH lo <- total - size, hi <- total
ImplementsWindow == Window!Spec
=============================================================================
