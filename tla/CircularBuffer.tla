--------------------------- MODULE CircularBuffer ---------------------------
(***************************************************************************)
(* Utils::CircularBuffer<T> (src/utils/CircularBuffer.h) as operators on   *)
(* the sequence it holds, oldest entry first.  Reserving memory is left    *)
(* out: for a capacity beyond the memory there is setMaxSize() throws.     *)
(***************************************************************************)
EXTENDS Integers, Sequences

CONSTANT DefaultMax  \* the capacity taken for max <= 0 (256)

ASSUME DefaultMaxAssumption == DefaultMax \in Nat \ {0}

Least(a, b) == IF a <= b THEN a ELSE b

\* Constructor and setMaxSize(): the capacity that takes effect.
Capacity(max) == IF max > 0 THEN max ELSE DefaultMax

\* trim(): erase from the front while there are too many.
Trim(s, capacity) ==
    IF Len(s) > capacity THEN SubSeq(s, Len(s) - capacity + 1, Len(s)) ELSE s

\* Mutant: trim() erases at the wrong end.
PushTrimmed_DropsNewest(s, x, capacity) ==
    LET t == Append(s, x)
    IN IF Len(t) > capacity THEN SubSeq(t, 1, capacity) ELSE t

\* push()
PushTrimmed(s, x, capacity) == Trim(Append(s, x), capacity)

\* getRange(): a negative offset starts at the oldest entry, a count that is
\* not positive asks for the rest.
GetRange(s, offset, count) ==
    LET total == Len(s)
        first == IF offset < 0 THEN 0 ELSE offset
        wanted == IF count <= 0 THEN total - first ELSE Least(count, total - first)
    IN IF first >= total THEN <<>> ELSE SubSeq(s, first + 1, first + wanted)
=============================================================================
