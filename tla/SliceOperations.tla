-------------------------- MODULE SliceOperations --------------------------
(***************************************************************************)
(* One GrowableByteSlice under any sequence of the operations that         *)
(* FileBuffer calls: Resize, WriteAt and ReadFrom.                         *)
(***************************************************************************)
EXTENDS GrowableByteSlice, SequencesExt

CONSTANTS
    MaxLen,  \* bound: no operation makes the slice longer
    Spares   \* how many spare bytes ioutil.ReadAll may leave

ASSUME BoundsAssumption == MaxLen \in Nat /\ Spares \subseteq Nat

VARIABLE slice   \* GrowableByteSlice.data

(* The contents a write, or a stream of the device, may carry.               *)
Contents == UNION {[1..n -> Byte] : n \in 0..MaxLen}

Init == slice = Nothing

Resize(newLen) == slice' = Resized(slice, newLen)

WriteAt(data, off) == slice' = Written(slice, data, off)

ReadFrom(data, spare) == slice' = Loaded(data, spare)

Next ==
    \/ \E n \in 0..MaxLen : Resize(n)
    \/ \E data \in Contents, off \in 0..MaxLen :
           /\ off + Len(data) <= MaxLen
           /\ WriteAt(data, off)
    \/ \E data \in Contents, spare \in Spares : ReadFrom(data, spare)

Spec == Init /\ [][Next]_slice

-----------------------------------------------------------------------------

TypeOK == slice \in Slices

(* The pieces read at 0, size, 2*size, ... up to the first io.EOF.           *)
Chunks(s, size) ==
    LET chunk(k) == ReadAt(s, size, (k - 1) * size)
        atEof == {k \in 1..(s.len + 1) : chunk(k).eof}
        last == CHOOSE k \in atEof : \A j \in atEof : k <= j
    IN  [k \in 1..last |-> chunk(k).data]

(* Reading a file piece by piece up to io.EOF gives the whole file and       *)
(* nothing else, whatever the size of the pieces                             *)
(* (src/internal/util/growable_byte_slice.go:96).                            *)
ReadsCoverTheFile ==
    \A size \in 1..(MaxLen + 1) : FlattenSeq(Chunks(slice, size)) = Data(slice)

(* From any slice whose spare bytes are 0, every operation but a shrink that *)
(* keeps some bytes in place has the effect it has on a file, and leaves the *)
(* spare bytes 0: loads, writes past the end, extensions, truncations to     *)
(* nothing and reallocations never lose a byte or uncover an old one         *)
(* (src/internal/util/growable_byte_slice.go:46-81).                         *)
FileUntilPartialShrink ==
    [][SpareIsZero(slice) =>
         /\ \A n \in 0..MaxLen :
                Resize(n) /\ ~PartialShrink(slice, n) =>
                    /\ Data(slice') = TruncatedFile(Data(slice), n)
                    /\ SpareIsZero(slice')
         /\ \A data \in Contents, off \in 0..MaxLen :
                WriteAt(data, off) =>
                    /\ Data(slice') = WrittenFile(Data(slice), data, off)
                    /\ SpareIsZero(slice')
         /\ \A data \in Contents, spare \in Spares :
                ReadFrom(data, spare) =>
                    /\ Data(slice') = data
                    /\ SpareIsZero(slice')]_slice

(* In any state, whatever the spare bytes hold, a write changes the bytes it *)
(* writes and no other byte of the file, and never makes the file shorter.   *)
WriteIsLocal ==
    [][\A data \in Contents, off \in 0..MaxLen :
         WriteAt(data, off) =>
            /\ Len(Data(slice')) = Larger(Len(Data(slice)), off + Len(data))
            /\ \A i \in 1..Len(data) : Data(slice')[off + i] = data[i]
            /\ \A i \in 1..Len(Data(slice)) :
                   i <= off \/ i > off + Len(data) => Data(slice')[i] = Data(slice)[i]]_slice

(* A truncation keeps the bytes up to the new length: shrink's result has    *)
(* "the same initial bytes" (src/internal/util/growable_byte_slice.go:64).   *)
ShrinkKeepsPrefix ==
    [][\A n \in 0..MaxLen :
         Resize(n) /\ n < Len(Data(slice)) =>
             Data(slice') = SubSeq(Data(slice), 1, n)]_slice
=============================================================================
