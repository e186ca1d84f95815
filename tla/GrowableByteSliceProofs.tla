---------------------- MODULE GrowableByteSliceProofs ----------------------
(***************************************************************************)
(* What each function of the slice returns, for any bytes and any initial  *)
(* capacity.                                                               *)
(***************************************************************************)
EXTENDS GrowableByteSlice, TLAPS

(* A new array holds the old bytes up to newLen, then zeros.                 *)
LEMMA ReallocatedResult ==
    ASSUME NEW s \in Slices, NEW n \in Nat
    PROVE  LET r == Reallocated(s, n) IN
           /\ r \in Slices
           /\ r.len = n
           /\ \A i \in 1..Cap(r) :
                  r.array[i] = IF i <= s.len /\ i <= n THEN s.array[i] ELSE 0
           /\ Cap(r) \in Nat /\ n <= Cap(r)
<1> DEFINE c == Larger(2 * n, InitialCapacity)
           a == [i \in 1..c |-> IF i <= s.len /\ i <= n THEN s.array[i] ELSE 0]
<1>1. c \in Nat /\ n <= c
  BY CapacityAssumption DEF Larger
<1>2. \A i \in 1..c : a[i] \in Byte
  BY <1>1, ByteAssumption DEF Slices
<1>3. a \in Seq(Byte) /\ Len(a) = c
  BY <1>1, <1>2
<1>4. QED
  BY <1>1, <1>3 DEF Reallocated, Slices, Cap

(* shrink gives the length asked for.  The array is either new, or the old   *)
(* one with len - n bytes at its start set to 0.                             *)
LEMMA ShrunkResult ==
    ASSUME NEW s \in Slices, NEW n \in Nat, n < s.len
    PROVE  LET r == Shrunk(s, n) IN
           /\ r \in Slices
           /\ r.len = n
<1>1. CASE s.len < Cap(s) \div 3
  BY <1>1, ReallocatedResult DEF Shrunk
<1>2. CASE ~(s.len < Cap(s) \div 3)
  <2> DEFINE a == [i \in 1..Cap(s) |-> IF i <= s.len - n THEN 0 ELSE s.array[i]]
  <2>1. Cap(s) \in Nat /\ s.len \in Nat /\ s.len <= Cap(s)
    BY DEF Slices, Cap
  <2>2. \A i \in 1..Cap(s) : a[i] \in Byte
    BY <2>1, ByteAssumption DEF Slices, Cap
  <2>3. a \in Seq(Byte) /\ Len(a) = Cap(s)
    BY <2>1, <2>2
  <2>4. QED
    BY <1>2, <2>1, <2>3 DEF Shrunk, Slices
<1>3. QED
  BY <1>1, <1>2

LEMMA ResizedResult ==
    ASSUME NEW s \in Slices, NEW n \in Nat
    PROVE  LET r == Resized(s, n) IN
           /\ r \in Slices
           /\ r.len = n
<1>1. CASE n < s.len
  BY <1>1, ShrunkResult DEF Resized
<1>2. CASE s.len <= n /\ n <= Cap(s)
  BY <1>2 DEF Resized, Slices, Cap
<1>3. CASE s.len <= n /\ ~(n <= Cap(s))
  BY <1>3, ReallocatedResult DEF Resized, Slices
<1>4. QED
  BY <1>1, <1>2, <1>3 DEF Slices

(* Growing for a write moves no byte of the window.                          *)
LEMMA GrownResult ==
    ASSUME NEW s \in Slices, NEW e \in Nat
    PROVE  LET g == Grown(s, e) IN
           /\ g \in Slices
           /\ g.len = Larger(s.len, e)
           /\ \A i \in 1..s.len : g.array[i] = s.array[i]
<1>1. CASE e <= s.len
  BY <1>1 DEF Grown, Larger, Slices
<1>2. CASE s.len < e /\ e <= Cap(s)
  BY <1>2 DEF Grown, Resized, Larger, Slices, Cap
<1>3. CASE s.len < e /\ ~(e <= Cap(s))
  <2>1. Grown(s, e) = Reallocated(s, e)
    BY <1>3 DEF Grown, Resized, Slices
  <2>2. QED
    BY <1>3, <2>1, ReallocatedResult DEF Larger, Slices
<1>4. QED
  BY <1>1, <1>2, <1>3 DEF Slices

(* A write replaces the bytes it covers in the grown slice.                  *)
LEMMA WrittenResult ==
    ASSUME NEW s \in Slices, NEW data \in Seq(Byte), NEW off \in Nat
    PROVE  LET g == Grown(s, off + Len(data))
               w == Written(s, data, off) IN
           /\ w \in Slices
           /\ w.len = g.len
           /\ Cap(w) = Cap(g)
           /\ \A i \in 1..Cap(g) :
                  w.array[i] = IF off < i /\ i <= off + Len(data)
                               THEN data[i - off] ELSE g.array[i]
<1> DEFINE g == Grown(s, off + Len(data))
           a == [i \in 1..Cap(g) |-> IF off < i /\ i <= off + Len(data)
                                     THEN data[i - off] ELSE g.array[i]]
<1>1. g \in Slices /\ g.array \in Seq(Byte) /\ Cap(g) \in Nat /\ g.len <= Cap(g)
  BY GrownResult DEF Slices, Cap
<1>2. \A i \in 1..Cap(g) : a[i] \in Byte
  BY <1>1 DEF Cap
<1>3. a \in Seq(Byte) /\ Len(a) = Cap(g)
  BY <1>1, <1>2
<1>4. Written(s, data, off) = [g EXCEPT !.array = a]
  BY DEF Written
<1> HIDE DEF g, a
<1>5. /\ Written(s, data, off).array = a
      /\ Written(s, data, off).len = g.len
      /\ Written(s, data, off) \in Slices
  BY <1>1, <1>3, <1>4 DEF Slices
<1>6. QED
  BY <1>1, <1>3, <1>5 DEF Cap, a, g

LEMMA LoadedResult ==
    ASSUME NEW data \in Seq(Byte), NEW spare \in Nat
    PROVE  LET r == Loaded(data, spare) IN
           /\ r \in Slices
           /\ Data(r) = data
           /\ SpareIsZero(r)
<1> DEFINE z == Zeros(spare)
           a == data \o z
<1>1. z \in Seq(Byte) /\ Len(z) = spare /\ \A i \in 1..spare : z[i] = 0
  BY ByteAssumption DEF Zeros
<1> HIDE DEF z
<1>2. /\ a \in Seq(Byte)
      /\ Len(a) = Len(data) + spare
      /\ \A i \in 1..Len(data) : a[i] = data[i]
      /\ \A i \in (Len(data) + 1)..Len(a) : a[i] = 0
  BY <1>1
<1>3. Loaded(data, spare) = [array |-> a, len |-> Len(data)]
  BY DEF Loaded, z
<1> HIDE DEF a
<1>4. QED
  BY <1>2, <1>3 DEF Slices, Data, SpareIsZero, Cap

-----------------------------------------------------------------------------

(* Resize from a slice with zero spare bytes, unless it shrinks partially in *)
(* place, is a truncation.                                                   *)
LEMMA ResizeActsOnFile ==
    ASSUME NEW s \in Slices, NEW n \in Nat, SpareIsZero(s), ~PartialShrink(s, n)
    PROVE  /\ Data(Resized(s, n)) = TruncatedFile(Data(s), n)
           /\ SpareIsZero(Resized(s, n))
<1>0. s.len \in Nat /\ Cap(s) \in Nat /\ s.len <= Cap(s) /\ Len(Data(s)) = s.len
  BY DEF Slices, Cap, Data
<1>1. ASSUME Resized(s, n) = Reallocated(s, n)
      PROVE  /\ Data(Resized(s, n)) = TruncatedFile(Data(s), n)
             /\ SpareIsZero(Resized(s, n))
  <2> DEFINE r == Reallocated(s, n)
  <2>1. /\ r.len = n /\ Cap(r) \in Nat /\ n <= Cap(r)
        /\ \A i \in 1..Cap(r) :
               r.array[i] = IF i <= s.len /\ i <= n THEN s.array[i] ELSE 0
    BY ReallocatedResult
  <2> HIDE DEF r
  <2>2. Data(r) = TruncatedFile(Data(s), n)
    BY <1>0, <2>1 DEF Data, TruncatedFile
  <2>3. SpareIsZero(r)
    BY <2>1 DEF SpareIsZero
  <2>4. QED
    BY <1>1, <2>2, <2>3 DEF r
<1>2. CASE n < s.len /\ ~(s.len < Cap(s) \div 3)
  <2>1. n = 0
    BY <1>0, <1>2 DEF PartialShrink
  <2> DEFINE a == [i \in 1..Cap(s) |-> IF i <= s.len - n THEN 0 ELSE s.array[i]]
  <2>2. Resized(s, n) = [array |-> a, len |-> n]
    BY <1>2 DEF Resized, Shrunk
  <2>3. Len(a) = Cap(s) /\ \A i \in 1..Cap(s) : a[i] = 0
    BY <1>0, <2>1 DEF SpareIsZero
  <2> HIDE DEF a
  <2>4. QED
    BY <1>0, <2>1, <2>2, <2>3 DEF Data, TruncatedFile, SpareIsZero, Cap
<1>3. CASE s.len <= n /\ n <= Cap(s)
  <2>1. Resized(s, n) = [s EXCEPT !.len = n]
    BY <1>0, <1>3 DEF Resized
  <2>2. /\ Resized(s, n).len = n
        /\ Resized(s, n).array = s.array
    BY <2>1 DEF Slices
  <2>3. QED
    BY <1>0, <1>3, <2>2 DEF Data, TruncatedFile, SpareIsZero, Cap
<1>4. QED
  BY <1>0, <1>1, <1>2, <1>3 DEF Resized, Shrunk

(* A write to a slice with zero spare bytes is a write to the file: the gap  *)
(* between the old end and the offset reads as zeros.                        *)
LEMMA WriteActsOnFile ==
    ASSUME NEW s \in Slices, NEW data \in Seq(Byte), NEW off \in Nat, SpareIsZero(s)
    PROVE  /\ Data(Written(s, data, off)) = WrittenFile(Data(s), data, off)
           /\ SpareIsZero(Written(s, data, off))
<1> DEFINE e == off + Len(data)
           g == Grown(s, e)
           w == Written(s, data, off)
<1>0. e \in Nat /\ s.len \in Nat /\ Len(Data(s)) = s.len
  BY DEF Slices, Data
<1>1. /\ g \in Slices
      /\ g.len = Larger(s.len, e)
      /\ \A i \in 1..s.len : g.array[i] = s.array[i]
  BY <1>0, GrownResult
<1>2. SpareIsZero(g) /\ \A i \in (s.len + 1)..g.len : g.array[i] = 0
  <2>1. CASE e <= s.len
    BY <1>0, <2>1 DEF Grown, Slices
  <2>2. CASE e > s.len
    <3>1. g = Resized(s, e) /\ ~PartialShrink(s, e)
      BY <1>0, <2>2 DEF Grown, PartialShrink
    <3>2. Data(g) = TruncatedFile(Data(s), e) /\ SpareIsZero(g)
      BY <1>0, <3>1, ResizeActsOnFile
    <3>3. \A i \in (s.len + 1)..g.len : g.array[i] = 0
      <4>1. g.len = e
        BY <1>0, <1>1, <2>2 DEF Larger
      <4>2. \A i \in 1..e : g.array[i] = TruncatedFile(Data(s), e)[i]
        BY <3>2, <4>1 DEF Data
      <4>3. QED
        BY <1>0, <4>1, <4>2 DEF TruncatedFile
    <3>4. QED
      BY <3>2, <3>3
  <2>3. QED
    BY <1>0, <2>1, <2>2
<1>3. /\ w.len = g.len
      /\ Cap(w) = Cap(g)
      /\ \A i \in 1..Cap(g) :
             w.array[i] = IF off < i /\ i <= e THEN data[i - off] ELSE g.array[i]
  BY WrittenResult
<1>4. g.len \in Nat /\ Cap(g) \in Nat /\ g.len <= Cap(g) /\ e <= g.len /\ s.len <= g.len
  BY <1>0, <1>1 DEF Slices, Cap, Larger
<1> HIDE DEF g, w
<1>5. SpareIsZero(w)
  BY <1>2, <1>3, <1>4 DEF SpareIsZero
<1>6. Data(w) = WrittenFile(Data(s), data, off)
  <2>1. Larger(Len(Data(s)), off + Len(data)) = g.len
    BY <1>0, <1>1
  <2>2. \A i \in 1..g.len :
            w.array[i] = IF off < i /\ i <= off + Len(data) THEN data[i - off]
                         ELSE IF i <= Len(Data(s)) THEN Data(s)[i] ELSE 0
    BY <1>0, <1>1, <1>2, <1>3, <1>4 DEF Data
  <2>3. QED
    BY <1>3, <2>1, <2>2 DEF Data, WrittenFile
<1>7. QED
  BY <1>5, <1>6 DEF w

(* A sequence that begins as one and goes on as another.                     *)
LEMMA ConcatResult ==
    ASSUME NEW a \in Seq(Byte), NEW b \in Seq(Byte), NEW c \in Seq(Byte),
           Len(c) = Len(a) + Len(b),
           \A i \in 1..Len(a) : c[i] = a[i],
           \A i \in 1..Len(b) : c[Len(a) + i] = b[i]
    PROVE  a \o b = c
<1>1. a \o b \in Seq(Byte) /\ Len(a \o b) = Len(c)
  OBVIOUS
<1>2. ASSUME NEW i \in 1..Len(c)
      PROVE  (a \o b)[i] = c[i]
  <2>1. CASE i <= Len(a)
    BY <2>1
  <2>2. CASE i > Len(a)
    <3>1. i - Len(a) \in 1..Len(b) /\ Len(a) + (i - Len(a)) = i
      BY <2>2
    <3>2. (a \o b)[i] = b[i - Len(a)]
      BY <2>2
    <3>3. QED
      BY <3>1, <3>2
  <2>3. QED
    BY <2>1, <2>2
<1>3. QED
  BY <1>1, <1>2

(* The first n bytes of a file, or all of them.                              *)
Upto(s, n) == [i \in 1..(IF n < s.len THEN n ELSE s.len) |-> s.array[i]]

(* A read gives the bytes that follow, and io.EOF with the last of them.     *)
LEMMA ReadResult ==
    ASSUME NEW s \in Slices, NEW size \in Nat \ {0}, NEW off \in Nat
    PROVE  LET read == ReadAt(s, size, off) IN
           /\ read.data \in Seq(Byte)
           /\ read.eof <=> off + size >= s.len
           /\ Upto(s, off) \o read.data = Upto(s, off + size)
<1>1. /\ s.len \in Nat /\ s.len <= Len(s.array) /\ Len(s.array) \in Nat
      /\ \A i \in 1..s.len : s.array[i] \in Byte
  BY DEF Slices
<1>2. \A n \in Nat : Upto(s, n) \in Seq(Byte)
                     /\ Len(Upto(s, n)) = IF n < s.len THEN n ELSE s.len
  BY <1>1 DEF Upto
<1>3. CASE off >= s.len
  <2>1. ReadAt(s, size, off) = [data |-> <<>>, eof |-> TRUE]
    BY <1>3 DEF ReadAt
  <2>2. Upto(s, off) = Upto(s, off + size)
    BY <1>1, <1>3 DEF Upto
  <2>3. Upto(s, off) \o <<>> = Upto(s, off)
    BY <1>2
  <2>4. QED
    BY <1>1, <1>3, <2>1, <2>2, <2>3
<1>4. CASE off < s.len
  <2> DEFINE n == IF size < s.len - off THEN size ELSE s.len - off
             read == ReadAt(s, size, off)
  <2>1. read.data = [i \in 1..n |-> s.array[off + i]]
    BY <1>1, <1>4 DEF ReadAt
  <2>2. read.eof <=> n + off = s.len
    <3>1. ~(off >= s.len)
      BY <1>1, <1>4
    <3>2. QED
      BY <3>1, Zenon DEF ReadAt
  <2>3. n \in Nat /\ off + n <= s.len
        /\ off + n = IF off + size < s.len THEN off + size ELSE s.len
    BY <1>1, <1>4
  <2> HIDE DEF n, read
  <2>4. read.data \in Seq(Byte) /\ Len(read.data) = n
    BY <1>1, <2>1, <2>3
  <2>5. /\ Upto(s, off) \in Seq(Byte) /\ Len(Upto(s, off)) = off
        /\ Upto(s, off + size) \in Seq(Byte) /\ Len(Upto(s, off + size)) = off + n
    BY <1>2, <1>4, <2>3
  <2>6. \A i \in 1..off : Upto(s, off + size)[i] = Upto(s, off)[i]
    BY <1>1, <1>4, <2>3 DEF Upto
  <2>7. \A i \in 1..n : Upto(s, off + size)[off + i] = read.data[i]
    BY <1>1, <2>1, <2>3 DEF Upto
  <2>8. Upto(s, off) \o read.data = Upto(s, off + size)
    <3> DEFINE a == Upto(s, off)
               b == read.data
               c == Upto(s, off + size)
    <3>1. /\ a \in Seq(Byte) /\ b \in Seq(Byte) /\ c \in Seq(Byte)
          /\ Len(c) = Len(a) + Len(b)
          /\ \A i \in 1..Len(a) : c[i] = a[i]
          /\ \A i \in 1..Len(b) : c[Len(a) + i] = b[i]
      BY <2>4, <2>5, <2>6, <2>7
    <3> HIDE DEF a, b, c
    <3>2. a \o b = c
      BY <3>1, ConcatResult
    <3>3. QED
      BY <3>2 DEF a, b, c
  <2>9. read.eof <=> off + size >= s.len
    BY <1>1, <2>2, <2>3
  <2>10. QED
    BY <2>4, <2>8, <2>9 DEF read
<1>5. QED
  BY <1>1, <1>3, <1>4
=============================================================================
