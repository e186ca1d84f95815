------------------------- MODULE GrowableByteSlice -------------------------
(***************************************************************************)
(* The in-memory contents of a file, as a data type                        *)
(* (src/internal/util/growable_byte_slice.go): what each method returns    *)
(* and what it makes of the slice.                                         *)
(*                                                                         *)
(* A Go slice is a window of len bytes on an array of cap bytes; the bytes *)
(* of the array past the window, its spare bytes, are out of sight until   *)
(* the window grows again without a new array.  A slice is modelled as the *)
(* record of its array and its len; positions count from 1, offsets from   *)
(* 0 as in the code.                                                       *)
(***************************************************************************)
EXTENDS Integers, Sequences

CONSTANTS
    Byte,            \* the values of a byte
    InitialCapacity  \* initialGrowableByteSliceCapacity (1024 in the code)

ASSUME ByteAssumption == 0 \in Byte
ASSUME CapacityAssumption == InitialCapacity \in Nat

Slices == {s \in [array : Seq(Byte), len : Nat] : s.len <= Len(s.array)}

Cap(s) == Len(s.array)

(* The bytes in the window: what String, ReadAt and WriteTo see.             *)
Data(s) == [i \in 1..s.len |-> s.array[i]]

(* The zero value: a nil slice.                                              *)
Nothing == [array |-> <<>>, len |-> 0]

Zeros(n) == [i \in 1..n |-> 0]

Larger(m, n) == IF m < n THEN n ELSE m

-----------------------------------------------------------------------------

(* reallocate: a zeroed array of capacity 2*newLen, and the old bytes.       *)
Reallocated(s, newLen) ==
    [array |-> [i \in 1..Larger(2 * newLen, InitialCapacity) |->
                   IF i <= s.len /\ i <= newLen THEN s.array[i] ELSE 0],
     len |-> newLen]

(* Mutant of Shrunk: the bytes given up are not zeroed.                      *)
ShrunkUncleared(s, newLen) ==
    IF s.len < Cap(s) \div 3 THEN Reallocated(s, newLen) ELSE [s EXCEPT !.len = newLen]

(* shrink, for newLen < len.  The loop that clears the bytes given up ranges *)
(* over s.data[newLen:], whose indices start at 0: it zeroes the FIRST       *)
(* len - newLen bytes of the array.                                          *)
Shrunk(s, newLen) ==
    IF s.len < Cap(s) \div 3
    THEN Reallocated(s, newLen)
    ELSE [array |-> [i \in 1..Cap(s) |-> IF i <= s.len - newLen THEN 0 ELSE s.array[i]],
          len |-> newLen]

(* Mutant of Resized: the test against the capacity is off by one.           *)
ResizedPastCap(s, newLen) ==
    IF newLen < s.len THEN Shrunk(s, newLen)
    ELSE IF newLen <= Cap(s) + 1 THEN [s EXCEPT !.len = newLen]
    ELSE Reallocated(s, newLen)

Resized(s, newLen) ==
    IF newLen < s.len THEN Shrunk(s, newLen)
    ELSE IF newLen <= Cap(s) THEN [s EXCEPT !.len = newLen]
    ELSE Reallocated(s, newLen)

(* Mutant of Grown: a slice that reaches past end is cut there.              *)
CutAt(s, end) == Resized(s, end)

(* The length `slice` gives s so that it reaches end.                        *)
Grown(s, end) == IF end > s.len THEN Resized(s, end) ELSE s

(* WriteAt.                                                                  *)
Written(s, data, off) ==
    LET g == Grown(s, off + Len(data)) IN
    [g EXCEPT !.array = [i \in 1..Cap(g) |->
                            IF off < i /\ i <= off + Len(data)
                            THEN data[i - off]
                            ELSE g.array[i]]]

(* ReadFrom: whatever ioutil.ReadAll got, in its own array.                  *)
Loaded(data, spare) == [array |-> data \o Zeros(spare), len |-> Len(data)]

(* Mutant of ReadAt: the last byte counts as past the end.                   *)
ReadAtShort(s, size, off) ==
    IF off >= s.len - 1
    THEN [data |-> <<>>, eof |-> TRUE]
    ELSE LET n == IF size < s.len - off THEN size ELSE s.len - off IN
         [data |-> [i \in 1..n |-> s.array[off + i]], eof |-> n + off = s.len]

(* ReadAt into a buffer of size bytes: what is copied, and whether io.EOF is *)
(* returned with it.                                                         *)
ReadAt(s, size, off) ==
    IF off >= s.len
    THEN [data |-> <<>>, eof |-> TRUE]
    ELSE LET n == IF size < s.len - off THEN size ELSE s.len - off IN
         [data |-> [i \in 1..n |-> s.array[off + i]], eof |-> n + off = s.len]

-----------------------------------------------------------------------------

(* What a file does in the same place (ftruncate, pwrite): bytes that appear *)
(* are 0, and all the others stay.                                           *)
TruncatedFile(file, n) == [i \in 1..n |-> IF i <= Len(file) THEN file[i] ELSE 0]

WrittenFile(file, data, off) ==
    [i \in 1..Larger(Len(file), off + Len(data)) |->
        IF off < i /\ i <= off + Len(data) THEN data[i - off]
        ELSE IF i <= Len(file) THEN file[i] ELSE 0]

(* A shrink that keeps some bytes, and the array.                            *)
PartialShrink(s, n) == 0 < n /\ n < s.len /\ s.len >= Cap(s) \div 3

SpareIsZero(s) == \A i \in (s.len + 1)..Cap(s) : s.array[i] = 0
=============================================================================
