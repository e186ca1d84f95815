----------------------- MODULE SliceOperationsProofs -----------------------
(***************************************************************************)
(* Proofs about any sequence of operations on a slice, from the lemmas     *)
(* about each of them.                                                     *)
(***************************************************************************)
EXTENDS SliceOperations, GrowableByteSliceProofs, WellFoundedInduction

(* Contents are sequences of bytes.                                          *)
LEMMA ContentsAreSequences == Contents \subseteq Seq(Byte)
  BY DEF Contents

LEMMA InitIsTyped == Init => TypeOK
  BY DEF Init, TypeOK, Slices, Nothing

LEMMA NextIsTyped == TypeOK /\ [Next]_slice => TypeOK'
<1> SUFFICES ASSUME TypeOK, [Next]_slice
             PROVE  TypeOK'
  OBVIOUS
<1>1. ASSUME NEW n \in 0..MaxLen, Resize(n)
      PROVE  TypeOK'
  BY <1>1, ResizedResult, BoundsAssumption DEF Resize, TypeOK
<1>2. ASSUME NEW data \in Contents, NEW off \in 0..MaxLen, WriteAt(data, off)
      PROVE  TypeOK'
  BY <1>2, WrittenResult, ContentsAreSequences, BoundsAssumption DEF WriteAt, TypeOK
<1>3. ASSUME NEW data \in Contents, NEW spare \in Spares, ReadFrom(data, spare)
      PROVE  TypeOK'
  BY <1>3, LoadedResult, ContentsAreSequences, BoundsAssumption DEF ReadFrom, TypeOK
<1>4. CASE UNCHANGED slice
  BY <1>4 DEF TypeOK
<1>5. QED
  BY <1>1, <1>2, <1>3, <1>4 DEF Next

(* The window always lies inside its array: no operation panics.             *)
THEOREM TypeCorrect == Spec => []TypeOK
<1>1. QED
  BY InitIsTyped, NextIsTyped, PTL DEF Spec

(* Every operation acts on the file, and keeps the spare bytes zero, until   *)
(* the first shrink that keeps some bytes in place.                          *)
THEOREM ActsAsFileUntilPartialShrink == Spec => FileUntilPartialShrink
<1> DEFINE ActsAsFile ==
      SpareIsZero(slice) =>
         /\ \A n \in 0..MaxLen :
                Resize(n) /\ ~PartialShrink(slice, n) =>
                    /\ Data(slice') = TruncatedFile(Data(slice), n)
                    /\ SpareIsZero(slice')
         /\ \A data \in Contents, off \in 0..MaxLen :
                WriteAt(data, off) =>
                    /\ Data(slice') = WrittenFile(Data(slice), data, off)
                    /\ SpareIsZero(slice')
         /\ \A data \in Contents, spare \in Spares :
                ReadFrom(data, spare) =>
                    /\ Data(slice') = data
                    /\ SpareIsZero(slice')
<1>1. TypeOK => ActsAsFile
  <2> SUFFICES ASSUME slice \in Slices, SpareIsZero(slice)
               PROVE  ActsAsFile
    BY DEF TypeOK
  <2>1. ASSUME NEW n \in 0..MaxLen, Resize(n), ~PartialShrink(slice, n)
        PROVE  /\ Data(slice') = TruncatedFile(Data(slice), n)
               /\ SpareIsZero(slice')
    BY <2>1, ResizeActsOnFile, BoundsAssumption DEF Resize
  <2>2. ASSUME NEW data \in Contents, NEW off \in 0..MaxLen, WriteAt(data, off)
        PROVE  /\ Data(slice') = WrittenFile(Data(slice), data, off)
               /\ SpareIsZero(slice')
    BY <2>2, WriteActsOnFile, ContentsAreSequences, BoundsAssumption DEF WriteAt
  <2>3. ASSUME NEW data \in Contents, NEW spare \in Spares, ReadFrom(data, spare)
        PROVE  Data(slice') = data /\ SpareIsZero(slice')
    BY <2>3, LoadedResult, ContentsAreSequences, BoundsAssumption DEF ReadFrom
  <2>4. QED
    BY <2>1, <2>2, <2>3
<1>2. QED
  BY <1>1, TypeCorrect, PTL DEF FileUntilPartialShrink

(* A write touches the bytes it covers and no others, whatever the spare     *)
(* bytes hold.                                                               *)
THEOREM WritesAreLocal == Spec => WriteIsLocal
<1> DEFINE Local ==
      \A data \in Contents, off \in 0..MaxLen :
         WriteAt(data, off) =>
            /\ Len(Data(slice')) = Larger(Len(Data(slice)), off + Len(data))
            /\ \A i \in 1..Len(data) : Data(slice')[off + i] = data[i]
            /\ \A i \in 1..Len(Data(slice)) :
                   i <= off \/ i > off + Len(data) => Data(slice')[i] = Data(slice)[i]
<1>1. TypeOK => Local
  <2> SUFFICES ASSUME TypeOK, NEW data \in Contents, NEW off \in 0..MaxLen, WriteAt(data, off)
               PROVE  /\ Len(Data(slice')) = Larger(Len(Data(slice)), off + Len(data))
                      /\ \A i \in 1..Len(data) : Data(slice')[off + i] = data[i]
                      /\ \A i \in 1..Len(Data(slice)) :
                             i <= off \/ i > off + Len(data) =>
                                 Data(slice')[i] = Data(slice)[i]
    OBVIOUS
  <2> DEFINE e == off + Len(data)
             g == Grown(slice, e)
  <2>1. data \in Seq(Byte) /\ off \in Nat /\ e \in Nat /\ slice \in Slices
    BY ContentsAreSequences, BoundsAssumption DEF TypeOK
  <2>2. /\ g \in Slices
        /\ g.len = Larger(slice.len, e)
        /\ \A i \in 1..slice.len : g.array[i] = slice.array[i]
    BY <2>1, GrownResult
  <2>3. /\ slice' \in Slices
        /\ slice'.len = g.len
        /\ \A i \in 1..Cap(g) :
               slice'.array[i] = IF off < i /\ i <= e THEN data[i - off] ELSE g.array[i]
    BY <2>1, WrittenResult DEF WriteAt
  <2>4. /\ g.len \in Nat /\ g.len <= Cap(g) /\ Cap(g) \in Nat
        /\ e <= g.len /\ slice.len <= g.len /\ slice.len \in Nat
    BY <2>1, <2>2 DEF Slices, Cap, Larger
  <2> HIDE DEF g
  <2>5. Len(Data(slice)) = slice.len /\ Len(Data(slice')) = g.len
    BY <2>3, <2>4 DEF Data
  <2>6. ASSUME NEW i \in 1..Len(data)
        PROVE  Data(slice')[off + i] = data[i]
    <3>1. off + i \in 1..g.len /\ off + i \in 1..Cap(g) /\ off + i <= e /\ off < off + i
      BY <2>1, <2>4 DEF e
    <3>2. slice'.array[off + i] = data[(off + i) - off]
      BY <2>3, <3>1
    <3>3. (off + i) - off = i
      BY <2>1
    <3>4. QED
      BY <2>3, <3>1, <3>2, <3>3 DEF Data
  <2>7. \A i \in 1..slice.len :
            i <= off \/ i > e => Data(slice')[i] = Data(slice)[i]
    BY <2>1, <2>2, <2>3, <2>4 DEF Data
  <2>8. QED
    BY <2>2, <2>5, <2>6, <2>7
<1>2. QED
  BY <1>1, TypeCorrect, PTL DEF WriteIsLocal

-----------------------------------------------------------------------------
(* Reading a file piece by piece.                                            *)

(* A set of natural numbers has a least one.                                 *)
LEMMA LeastNumber ==
    ASSUME NEW T, T \subseteq Nat, T # {}
    PROVE  \E m \in T : \A k \in T : m <= k
<1> DEFINE R == OpToRel(<, Nat)
<1>1. IsWellFoundedOn(R, Nat)
  BY NatLessThanWellFounded
<1>2. PICK m \in T : \A k \in T : <<k, m>> \notin R
  <2> HIDE DEF R
  <2>1. QED
    BY <1>1, WFMin
<1>3. ASSUME NEW k \in T, k < m
      PROVE  FALSE
  <2>1. <<k, m>> \in R
    BY <1>3 DEF OpToRel
  <2> HIDE DEF R
  <2>2. QED
    BY <1>2, <2>1
<1>4. QED
  BY <1>3

(* Sequences put one after the other: what they come to, when it is known    *)
(* what every first few of them come to.                                     *)
LEMMA FlattenedPrefixes ==
    ASSUME NEW seqs, Len(seqs) \in Nat \ {0},
           NEW P, P[1] = seqs[1],
           \A i \in 2..Len(seqs) : P[i] = P[i - 1] \o seqs[i]
    PROVE  FlattenSeq(seqs) = P[Len(seqs)]
<1> DEFINE n == Len(seqs)
           Row(g, i) == IF i = 1 THEN seqs[i] ELSE g[i - 1] \o seqs[i]
           flatten == CHOOSE g : g = [i \in 1..n |-> Row(g, i)]
           prefixes == [i \in 1..n |-> P[i]]
           Wrong == {i \in 1..n : flatten[i] # P[i]}
<1>1. FlattenSeq(seqs) = flatten[n]
  BY DEF FlattenSeq
<1>2. prefixes = [i \in 1..n |-> Row(prefixes, i)]
  <2>1. ASSUME NEW i \in 1..n
        PROVE  prefixes[i] = Row(prefixes, i)
    <3>1. CASE i = 1
      BY <3>1
    <3>2. CASE i # 1
      <4>1. i \in 2..n /\ i - 1 \in 1..n
        BY <3>2
      <4>2. prefixes[i] = P[i] /\ prefixes[i - 1] = P[i - 1]
        BY <4>1
      <4>3. QED
        BY <3>2, <4>1, <4>2
    <3>3. QED
      BY <3>1, <3>2
  <2>2. QED
    BY <2>1
<1>3. \A i \in 1..n : flatten[i] = Row(flatten, i)
  <2>1. flatten = [i \in 1..n |-> Row(flatten, i)]
    <3> HIDE DEF prefixes, n
    <3>1. \E g : g = [i \in 1..n |-> Row(g, i)]
      BY <1>2
    <3>2. QED
      BY <3>1, Zenon
  <2> HIDE DEF flatten
  <2>2. QED
    BY <2>1
<1> HIDE DEF flatten, prefixes
<1>4. ASSUME Wrong # {}
      PROVE  FALSE
  <2>1. PICK m \in Wrong : \A k \in Wrong : m <= k
    <3>1. Wrong \subseteq Nat
      OBVIOUS
    <3> HIDE DEF Wrong
    <3>2. QED
      BY <1>4, <3>1, LeastNumber
  <2>2. m # 1
    BY <1>3
  <2>3. m \in 2..n /\ m - 1 \in 1..n /\ m - 1 \notin Wrong
    BY <2>1, <2>2
  <2>4. flatten[m] = P[m]
    BY <1>3, <2>2, <2>3
  <2>5. QED
    BY <2>4
<1>5. QED
  BY <1>1, <1>4

(* Pieces of any size, one after the other up to the first io.EOF, are the   *)
(* file.                                                                     *)
LEMMA PiecesAreTheFile ==
    ASSUME NEW s \in Slices, NEW size \in Nat \ {0}
    PROVE  FlattenSeq(Chunks(s, size)) = Data(s)
<1> DEFINE off(k) == (k - 1) * size
           chunk(k) == ReadAt(s, size, off(k))
           atEof == {k \in 1..(s.len + 1) : chunk(k).eof}
           last == CHOOSE k \in atEof : \A j \in atEof : k <= j
           P == [k \in 1..last |-> Upto(s, off(k) + size)]
<1>1. s.len \in Nat
  BY DEF Slices
<1>2. ASSUME NEW k \in Nat \ {0}
      PROVE  off(k) \in Nat /\ off(k) >= k - 1 /\ (k # 1 => off(k) = off(k - 1) + size)
  OBVIOUS
<1>3. off(1) = 0
  OBVIOUS
<1> HIDE DEF off
<1>4. ASSUME NEW k \in Nat \ {0}
      PROVE  /\ chunk(k).data \in Seq(Byte)
             /\ chunk(k).eof <=> off(k) + size >= s.len
             /\ Upto(s, off(k)) \o chunk(k).data = Upto(s, off(k) + size)
  BY <1>2, ReadResult
<1> HIDE DEF chunk
<1>5. s.len + 1 \in atEof
  <2>1. s.len + 1 \in Nat \ {0} /\ s.len + 1 \in 1..(s.len + 1)
    BY <1>1
  <2>2. off(s.len + 1) + size >= s.len
    BY <1>1, <1>2, <2>1
  <2>3. QED
    BY <1>4, <2>1, <2>2
<1>6. last \in atEof
  <2>1. atEof \subseteq Nat /\ atEof # {}
    BY <1>1, <1>5
  <2> HIDE DEF atEof
  <2>2. \E k \in atEof : \A j \in atEof : k <= j
    BY <2>1, LeastNumber
  <2>3. QED
    BY <2>2
<1>7. Chunks(s, size) = [k \in 1..last |-> chunk(k).data]
  BY DEF Chunks, chunk, off
<1> HIDE DEF last
<1>8. last \in Nat \ {0} /\ off(last) + size >= s.len
  BY <1>1, <1>4, <1>6
<1> HIDE DEF atEof
<1>9. /\ Len(Chunks(s, size)) = last
      /\ \A k \in 1..last : Chunks(s, size)[k] = chunk(k).data
  BY <1>7, <1>8
<1>10. P[1] = Chunks(s, size)[1]
  <2>1. Upto(s, 0) = <<>>
    BY <1>1 DEF Upto
  <2>2. /\ chunk(1).data \in Seq(Byte)
        /\ Upto(s, 0) \o chunk(1).data = Upto(s, off(1) + size)
    <3>1. 1 \in Nat \ {0}
      OBVIOUS
    <3>2. /\ chunk(1).data \in Seq(Byte)
          /\ Upto(s, off(1)) \o chunk(1).data = Upto(s, off(1) + size)
      BY <1>4, <3>1
    <3>3. QED
      BY <1>3, <3>2
  <2> HIDE DEF P
  <2>3. Upto(s, off(1) + size) = chunk(1).data
    BY <2>1, <2>2
  <2>4. P[1] = Upto(s, off(1) + size)
    BY <1>8 DEF P
  <2>5. QED
    BY <1>8, <1>9, <2>3, <2>4
<1>11. ASSUME NEW k \in 2..last
       PROVE  P[k] = P[k - 1] \o Chunks(s, size)[k]
  <2>1. k \in Nat \ {0} /\ k # 1 /\ k \in 1..last /\ k - 1 \in 1..last
    BY <1>8
  <2>2. off(k) = off(k - 1) + size
    BY <1>2, <2>1
  <2>3. P[k] = Upto(s, off(k) + size) /\ P[k - 1] = Upto(s, off(k))
    BY <2>1, <2>2
  <2>4. QED
    BY <1>4, <1>9, <2>1, <2>3
<1>12. P[last] = Data(s)
  <2>1. Upto(s, off(last) + size) = Data(s)
    BY <1>1, <1>2, <1>8 DEF Upto, Data
  <2>2. QED
    BY <1>8, <2>1
<1> HIDE DEF P
<1>13. QED
  BY <1>8, <1>9, <1>10, <1>11, <1>12, FlattenedPrefixes

(* A client that reads on to io.EOF has read the file as it is, whatever the *)
(* size of its reads and whatever the operations before them (ReadAt).       *)
THEOREM ReadsAreComplete == Spec => []ReadsCoverTheFile
<1>1. TypeOK => ReadsCoverTheFile
  BY PiecesAreTheFile, BoundsAssumption DEF TypeOK, ReadsCoverTheFile
<1>2. QED
  BY <1>1, TypeCorrect, PTL
=============================================================================
