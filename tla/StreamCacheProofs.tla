--------------------------- MODULE StreamCacheProofs ---------------------------
(***************************************************************************)
(* The cache in front of a debug section never holds anything but the      *)
(* section's bytes, and the stack of streams implements ByteStream, for    *)
(* every section size, file size and cache capacity.                       *)
(***************************************************************************)
EXTENDS StreamCache, TLAPS

(* The smaller of two numbers (std::min) is one of them and below neither. *)
LEMMA SmallerFact ==
    ASSUME NEW a \in Int, NEW b \in Int
    PROVE  /\ Smaller(a, b) \in {a, b}
           /\ Smaller(a, b) <= a
           /\ Smaller(a, b) <= b
  BY DEF Smaller

(* The larger of two numbers is one of them and above neither. *)
LEMMA LargerFact ==
    ASSUME NEW a \in Int, NEW b \in Int
    PROVE  /\ Larger(a, b) \in {a, b}
           /\ Larger(a, b) >= a
           /\ Larger(a, b) >= b
  BY DEF Larger

(* A function on 1 .. n is a sequence of length n. *)
LEMMA FiniteSequence ==
    ASSUME NEW S, NEW n \in Nat, NEW f \in [1 .. n -> S]
    PROVE  f \in Seq(S) /\ Len(f) = n
  OBVIOUS

(* What exists of a section is a prefix of it that lies inside the file. *)
LEMMA AvailFact ==
    /\ Avail \in Nat
    /\ Avail <= Size
    /\ \A i \in Nat : i < Avail => Start + i < FileSize
    /\ \A i \in Nat : i < Size /\ Start + i < FileSize => i < Avail
  BY StreamAssumption DEF Avail, Smaller, Larger

(***************************************************************************)
(* A substream read at p delivers bytes of the section that exist, at most *)
(* as many as asked for; it delivers none only if none was asked for or    *)
(* none is left at p.                                                      *)
(***************************************************************************)
LEMMA SubReadFact ==
    ASSUME TypeOK, NEW p \in 0 .. Size, NEW n \in Nat
    PROVE  /\ SubCount(p, n) \in Nat
           /\ SubCount(p, n) <= n
           /\ p + SubCount(p, n) <= Size
           /\ p + SubCount(p, n) \in 0 .. Size
           /\ SubCount(p, n) > 0 => p + SubCount(p, n) <= Avail
           /\ BaseAfter(p, SubCount(p, n)) \in Nat
           /\ p < Avail => SubCount(p, n) = Smaller(Avail - p, n)
<1> USE StreamAssumption
<1>1. CASE ~SubReachable(p)
  <2>1. SubCount(p, n) = 0 /\ BaseAfter(p, SubCount(p, n)) = basePos
    BY <1>1 DEF SubCount, BaseAfter
  <2>2. ~(p < Avail)
    <3>1. SUFFICES ASSUME p < Avail PROVE Start + p < FileSize
      BY <1>1 DEF SubReachable, BaseSeek
    <3>2. p \in Nat
      OBVIOUS
    <3> QED BY <3>1, <3>2, AvailFact
  <2> QED
    BY <2>1, <2>2 DEF TypeOK
<1>2. CASE SubReachable(p)
  <2>1. SubCount(p, n) =
          Smaller(Smaller(Size - p, n), Larger(FileSize - (Start + p), 0))
    BY <1>2 DEF SubCount
  <2>2. BaseAfter(p, SubCount(p, n)) = Start + p + SubCount(p, n)
    BY <1>2 DEF BaseAfter
  <2> QED
    BY <2>1, <2>2 DEF Smaller, Larger, Avail
<1> QED
  BY <1>1, <1>2

(* substream::seek never moves past the end, and goes where it is told
   whenever that is inside the section. *)
LEMMA SubSeekFact ==
    ASSUME TypeOK, NEW o \in Nat
    PROVE  /\ SubSeek(o) \in 0 .. Size
           /\ SubSeek(o) <= o
           /\ o < Size => SubSeek(o) = o
<1>1. CASE o < Size
  BY <1>1, StreamAssumption DEF SubSeek
<1>2. CASE ~(o < Size)
  BY <1>2, StreamAssumption DEF SubSeek, TypeOK
<1> QED
  BY <1>1, <1>2

(***************************************************************************)
(* The three operations that reach the parent, in terms of the place they  *)
(* start from and the number of bytes they transfer.                       *)
(***************************************************************************)
MissEffect(n, from, count, ret) ==
    /\ from <= pos
    /\ pos < Size => from = pos
    /\ from + count \in 0 .. Size
    /\ count > 0 => from + count <= Avail
    /\ from < Avail => count = Smaller(Avail - from, kSIZE)
    /\ ret = Smaller(count, n)
    /\ n <= kSIZE
    /\ data' = data
    /\ cachePos' = from
    /\ hasCache' = TRUE
    /\ buffer' = [i \in 0 .. kSIZE - 1 |->
                     IF i < count THEN data[Start + from + i]
                                  ELSE buffer[i]]
    /\ out' = [i \in 1 .. ret |->
                  IF pos - from + i <= kSIZE
                  THEN buffer'[pos - from + i - 1] ELSE Junk]
    /\ pos' = Smaller(pos + ret, Size)
    /\ subPos' = from + count
    /\ basePos' \in Nat

DirectEffect(n, from, count) ==
    /\ pos < Size => from = pos
    /\ from + count \in 0 .. Size
    /\ count > 0 => from + count <= Avail
    /\ from < Avail => count = Smaller(Avail - from, n)
    /\ n > kSIZE
    /\ UNCHANGED <<data, cachePos, hasCache, buffer>>
    /\ out' = [i \in 1 .. count |-> data[Start + from + i - 1]]
    /\ pos' = pos + count
    /\ subPos' = from + count
    /\ basePos' \in Nat

WriteEffect(n, b, from, count) ==
    /\ pos < Size => from = pos
    /\ from + count \in 0 .. Size
    /\ hasCache' = FALSE
    /\ data' = [a \in 0 .. FileSize - 1 |->
                   IF Start + from <= a /\ a < Start + from + count
                   THEN b ELSE data[a]]
    /\ subPos' = from + count
    /\ basePos' \in Nat
    /\ UNCHANGED <<pos, cachePos, buffer, out>>

(* A read that misses the buffer, in terms of MissEffect. *)
LEMMA MissFact ==
    ASSUME TypeOK, NEW n \in 0 .. MaxRequest, ReadMiss(n)
    PROVE  \E from \in 0 .. Size, count \in 0 .. kSIZE, ret \in 0 .. n :
              MissEffect(n, from, count, ret)
<1> USE StreamAssumption
<1> DEFINE from == SubSeek(pos)
           count == SubCount(from, kSIZE)
           ret == Smaller(count, n)
<1>1. from \in 0 .. Size /\ from <= pos /\ (pos < Size => from = pos)
  BY SubSeekFact DEF TypeOK
<1>2. /\ count \in 0 .. kSIZE /\ from + count \in 0 .. Size
      /\ BaseAfter(from, count) \in Nat
      /\ count > 0 => from + count <= Avail
      /\ from < Avail => count = Smaller(Avail - from, kSIZE)
  <2> HIDE DEF from
  <2>1. /\ count \in Nat /\ count <= kSIZE /\ from + count \in 0 .. Size
        /\ BaseAfter(from, count) \in Nat
        /\ count > 0 => from + count <= Avail
        /\ from < Avail => count = Smaller(Avail - from, kSIZE)
    BY <1>1, SubReadFact
  <2> HIDE DEF count
  <2> QED BY <2>1
<1>3. ret \in 0 .. n
  <2> HIDE DEF count
  <2> QED BY <1>2, SmallerFact
<1> HIDE DEF from, count, ret
<1>4. /\ cachePos' = from /\ hasCache' = TRUE /\ data' = data
      /\ n <= kSIZE
      /\ buffer' = [i \in 0 .. kSIZE - 1 |->
                       IF i < count THEN data[Start + from + i] ELSE buffer[i]]
      /\ out' = [i \in 1 .. ret |-> IF pos - from + i <= kSIZE
                                    THEN buffer'[pos - from + i - 1] ELSE Junk]
      /\ pos' = Smaller(pos + ret, Size)
      /\ subPos' = from + count /\ basePos' = BaseAfter(from, count)
  BY DEF ReadMiss, Refill, Refilled, from, count, ret
<1>5. ret = Smaller(count, n)
  BY DEF ret
<1> QED
  BY <1>1, <1>2, <1>3, <1>4, <1>5 DEF MissEffect

(* A read larger than the buffer, in terms of DirectEffect. *)
LEMMA DirectFact ==
    ASSUME TypeOK, NEW n \in 0 .. MaxRequest, ReadDirect(n)
    PROVE  \E from \in 0 .. Size, count \in 0 .. n :
              DirectEffect(n, from, count)
<1> USE StreamAssumption
<1> DEFINE from == SubSeek(pos)
           count == SubCount(from, n)
<1>0. n \in Nat
  OBVIOUS
<1>1. from \in 0 .. Size /\ (pos < Size => from = pos)
  BY SubSeekFact DEF TypeOK
<1>2. /\ count \in 0 .. n /\ from + count \in 0 .. Size
      /\ BaseAfter(from, count) \in Nat
      /\ count > 0 => from + count <= Avail
      /\ from < Avail => count = Smaller(Avail - from, n)
  <2> HIDE DEF from
  <2>1. /\ count \in Nat /\ count <= n /\ from + count \in 0 .. Size
        /\ BaseAfter(from, count) \in Nat
        /\ count > 0 => from + count <= Avail
        /\ from < Avail => count = Smaller(Avail - from, n)
    BY <1>0, <1>1, SubReadFact
  <2> HIDE DEF count
  <2> QED BY <2>1
<1> HIDE DEF from, count
<1>3. /\ out' = [i \in 1 .. count |-> data[Start + from + i - 1]]
      /\ pos' = pos + count /\ n > kSIZE
      /\ subPos' = from + count /\ basePos' = BaseAfter(from, count)
      /\ UNCHANGED <<data, cachePos, hasCache, buffer>>
  BY DEF ReadDirect, DirectFrom, from, count, cache
<1> QED
  BY <1>1, <1>2, <1>3 DEF DirectEffect

(* A write, in terms of WriteEffect. *)
LEMMA WriteFact ==
    ASSUME TypeOK, NEW n \in 0 .. MaxRequest, NEW b \in Byte, Write(n, b)
    PROVE  \E from \in 0 .. Size, count \in 0 .. n :
              WriteEffect(n, b, from, count)
<1> USE StreamAssumption
<1> DEFINE from == SubSeek(pos)
           count == IF BaseIsFile THEN 0 ELSE SubCount(from, n)
<1>0. n \in Nat
  OBVIOUS
<1>1. from \in 0 .. Size /\ (pos < Size => from = pos)
  BY SubSeekFact DEF TypeOK
<1>2. count \in 0 .. n /\ from + count \in 0 .. Size /\ BaseAfter(from, count) \in Nat
  <2> HIDE DEF from
  <2>1. CASE BaseIsFile
    BY <1>1, <2>1 DEF BaseAfter, TypeOK
  <2>2. CASE ~BaseIsFile
    <3>1. count = SubCount(from, n)
      BY <2>2
    <3>2. /\ SubCount(from, n) \in Nat /\ SubCount(from, n) <= n
          /\ from + SubCount(from, n) \in 0 .. Size
          /\ BaseAfter(from, SubCount(from, n)) \in Nat
      BY <1>0, <1>1, SubReadFact
    <3> HIDE DEF count
    <3> QED BY <3>1, <3>2
  <2> QED BY <2>1, <2>2
<1> HIDE DEF from, count
<1>3. /\ hasCache' = FALSE
      /\ data' = [a \in 0 .. FileSize - 1 |->
                     IF Start + from <= a /\ a < Start + from + count
                     THEN b ELSE data[a]]
      /\ subPos' = from + count /\ basePos' = BaseAfter(from, count)
      /\ UNCHANGED <<pos, cachePos, buffer, out>>
  BY DEF Write, WriteThrough, from, count
<1> QED
  BY <1>1, <1>2, <1>3 DEF WriteEffect

-------------------------------------------------------------------------------
(***************************************************************************)
(* Every variable keeps its type.  The one interesting part is that the    *)
(* substream never stands behind the section: pos does, after a large read *)
(* at the end.                                                             *)
(***************************************************************************)
THEOREM TypeCorrect == Spec => []TypeOK
<1>1. Init => TypeOK
  <2> SUFFICES ASSUME Init PROVE TypeOK
    OBVIOUS
  <2>1. buffer \in [0 .. kSIZE - 1 -> Byte \cup {Junk}]
    BY DEF Init
  <2>2. out \in Seq(Byte \cup {Junk})
    BY DEF Init
  <2>3. basePos \in Nat
    <3>1. CASE BaseIsFile \/ Start < FileSize
      BY <3>1, StreamAssumption DEF Init
    <3>2. CASE ~(BaseIsFile \/ Start < FileSize)
      BY <3>2 DEF Init
    <3> QED BY <3>1, <3>2
  <2>4. subPos \in 0 .. Size /\ cachePos \in 0 .. Size /\ pos \in Nat
    BY StreamAssumption DEF Init
  <2>5. data \in [0 .. FileSize - 1 -> Byte] /\ hasCache \in BOOLEAN
    BY DEF Init
  <2> QED
    BY <2>1, <2>2, <2>3, <2>4, <2>5 DEF TypeOK
<1>2. TypeOK /\ [Next]_vars => TypeOK'
  <2> SUFFICES ASSUME TypeOK, [Next]_vars
               PROVE  TypeOK'
    OBVIOUS
  <2> USE StreamAssumption
  <2>1. ASSUME NEW o \in 0 .. MaxRequest, Seek(o)
        PROVE  TypeOK'
    BY <2>1 DEF Seek, TypeOK, Smaller, parent, cache
  <2>2. ASSUME NEW n \in 0 .. MaxRequest, ReadHit(n)
        PROVE  TypeOK'
    <3>1. pos' \in Nat
      BY <2>2 DEF ReadHit, TypeOK, Smaller
    <3>2. out' \in Seq(Byte \cup {Junk})
      <4>1. \A i \in 1 .. n : buffer[pos - cachePos + i - 1] \in Byte \cup {Junk}
        BY <2>2 DEF ReadHit, IsHit, TypeOK
      <4> QED
        BY <2>2, <4>1 DEF ReadHit
    <3> QED
      BY <2>2, <3>1, <3>2 DEF ReadHit, TypeOK, parent, cache
  <2>3. ASSUME NEW n \in 0 .. MaxRequest, ReadMiss(n)
        PROVE  TypeOK'
    <3>1. PICK from \in 0 .. Size, count \in 0 .. kSIZE, ret \in 0 .. n :
                  MissEffect(n, from, count, ret)
      BY <2>3, MissFact
    <3>2. buffer' \in [0 .. kSIZE - 1 -> Byte \cup {Junk}]
      <4>1. ASSUME NEW i \in 0 .. kSIZE - 1, i < count
            PROVE  Start + from + i \in 0 .. FileSize - 1
        <5>1. from + i \in Nat /\ from + i < Avail
          BY <3>1, <4>1, AvailFact DEF MissEffect
        <5> QED BY <5>1, AvailFact
      <4>2. buffer' = [i \in 0 .. kSIZE - 1 |->
                          IF i < count THEN data[Start + from + i] ELSE buffer[i]]
        BY <3>1 DEF MissEffect
      <4> QED BY <4>1, <4>2 DEF TypeOK
    <3>3. out' \in Seq(Byte \cup {Junk})
      <4>1. from <= pos
        BY <3>1 DEF MissEffect
      <4>2. out' = [i \in 1 .. ret |-> IF pos - from + i <= kSIZE
                                      THEN buffer'[pos - from + i - 1] ELSE Junk]
        BY <3>1 DEF MissEffect
      <4>3. ASSUME NEW i \in 1 .. ret
            PROVE  (IF pos - from + i <= kSIZE
                    THEN buffer'[pos - from + i - 1] ELSE Junk) \in Byte \cup {Junk}
        <5>1. pos - from + i <= kSIZE => pos - from + i - 1 \in 0 .. kSIZE - 1
          BY <4>1 DEF TypeOK
        <5> QED BY <5>1, <3>2
      <4>4. out' \in [1 .. ret -> Byte \cup {Junk}]
        BY <4>2, <4>3
      <4> QED BY <4>4, FiniteSequence
    <3>4. pos' \in Nat
      BY <3>1 DEF Smaller, TypeOK, MissEffect
    <3> QED
      BY <3>1, <3>2, <3>3, <3>4 DEF TypeOK, MissEffect
  <2>4. ASSUME NEW n \in 0 .. MaxRequest, ReadDirect(n)
        PROVE  TypeOK'
    <3>1. PICK from \in 0 .. Size, count \in 0 .. n : DirectEffect(n, from, count)
      BY <2>4, DirectFact
    <3>2. out' \in Seq(Byte \cup {Junk})
      <4>1. ASSUME NEW i \in 1 .. count
            PROVE  Start + from + i - 1 \in 0 .. FileSize - 1
        <5>1. from + (i - 1) \in Nat /\ from + (i - 1) < Avail
          BY <3>1, <4>1, AvailFact DEF DirectEffect
        <5> QED BY <5>1, AvailFact
      <4>2. out' = [i \in 1 .. count |-> data[Start + from + i - 1]]
        BY <3>1 DEF DirectEffect
      <4>3. out' \in [1 .. count -> Byte \cup {Junk}]
        BY <4>1, <4>2 DEF TypeOK
      <4> QED BY <4>3, FiniteSequence
    <3> QED
      BY <3>1, <3>2 DEF TypeOK, DirectEffect
  <2>5. ASSUME NEW n \in 0 .. MaxRequest, NEW b \in Byte, Write(n, b)
        PROVE  TypeOK'
    <3>1. PICK from \in 0 .. Size, count \in 0 .. n : WriteEffect(n, b, from, count)
      BY <2>5, WriteFact
    <3> QED
      BY <3>1 DEF TypeOK, WriteEffect
  <2>6. ASSUME NEW p \in 0 .. FileSize, OtherReader(p)
        PROVE  TypeOK'
    BY <2>6 DEF OtherReader, TypeOK, cache
  <2>7. CASE UNCHANGED vars
    BY <2>7 DEF vars, TypeOK
  <2> QED
    BY <2>1, <2>2, <2>3, <2>4, <2>5, <2>6, <2>7 DEF Next, Read
<1> QED
  BY <1>1, <1>2, PTL DEF Spec

(***************************************************************************)
(* CacheCoherent, for every section and every cache capacity: a refill     *)
(* copies from where the parent stands, and it records that place as the   *)
(* place of the buffer, so that the two agree even when the seek before    *)
(* it was ignored.                                                         *)
(***************************************************************************)
THEOREM CacheIsCoherent == Spec => []CacheCoherent
<1>1. Init => CacheCoherent
  BY DEF Init, CacheCoherent
<1>2. TypeOK /\ CacheCoherent /\ [Next]_vars => CacheCoherent'
  <2> SUFFICES ASSUME TypeOK, CacheCoherent, [Next]_vars
               PROVE  CacheCoherent'
    OBVIOUS
  <2> USE StreamAssumption
  <2>1. ASSUME NEW o \in 0 .. MaxRequest, Seek(o)
        PROVE  CacheCoherent'
    BY <2>1 DEF Seek, CacheCoherent, parent, cache
  <2>2. ASSUME NEW n \in 0 .. MaxRequest, ReadHit(n)
        PROVE  CacheCoherent'
    BY <2>2 DEF ReadHit, CacheCoherent, parent, cache
  <2>3. ASSUME NEW n \in 0 .. MaxRequest, ReadMiss(n)
        PROVE  CacheCoherent'
    <3>1. PICK from \in 0 .. Size, count \in 0 .. kSIZE, ret \in 0 .. n :
                  MissEffect(n, from, count, ret)
      BY <2>3, MissFact
    <3>2. SUFFICES ASSUME NEW i \in 0 .. kSIZE - 1, from + i < Avail
                   PROVE  buffer'[i] = data[Start + from + i]
      BY <3>1 DEF CacheCoherent, MissEffect
    <3>3. from < Avail
      BY <3>2, AvailFact
    <3>4. i < count
      BY SMTT(30), <3>1, <3>2, <3>3, AvailFact DEF Smaller, MissEffect
    <3> QED
      BY <3>1, <3>4 DEF MissEffect
  <2>4. ASSUME NEW n \in 0 .. MaxRequest, ReadDirect(n)
        PROVE  CacheCoherent'
    BY <2>4 DEF ReadDirect, DirectFrom, CacheCoherent, cache
  <2>5. ASSUME NEW n \in 0 .. MaxRequest, NEW b \in Byte, Write(n, b)
        PROVE  CacheCoherent'
    BY <2>5 DEF Write, CacheCoherent
  <2>6. ASSUME NEW p \in 0 .. FileSize, OtherReader(p)
        PROVE  CacheCoherent'
    BY <2>6 DEF OtherReader, CacheCoherent, cache
  <2>7. CASE UNCHANGED vars
    BY <2>7 DEF vars, CacheCoherent
  <2> QED
    BY <2>1, <2>2, <2>3, <2>4, <2>5, <2>6, <2>7 DEF Next, Read
<1> QED
  BY <1>1, <1>2, TypeCorrect, PTL DEF Spec

(***************************************************************************)
(* WritesStayInSection, for every section and file: whatever a write does  *)
(* to the shared bytes, it does it inside the section's window.            *)
(***************************************************************************)
THEOREM WritesStayInside == Spec => WritesStayInSection
<1>1. TypeOK /\ [Next]_vars =>
        [\A a \in 0 .. FileSize - 1 :
            (a < Start \/ a >= Start + Size) => data'[a] = data[a]]_vars
  <2> SUFFICES ASSUME TypeOK, [Next]_vars, NEW a \in 0 .. FileSize - 1,
                      a < Start \/ a >= Start + Size
               PROVE  data'[a] = data[a]
    OBVIOUS
  <2> USE StreamAssumption
  <2>1. ASSUME NEW n \in 0 .. MaxRequest, NEW b \in Byte, Write(n, b)
        PROVE  data'[a] = data[a]
    <3>1. PICK from \in 0 .. Size, count \in 0 .. n : WriteEffect(n, b, from, count)
      BY <2>1, WriteFact
    <3>2. ~(Start + from <= a /\ a < Start + from + count)
      BY <3>1 DEF WriteEffect
    <3> QED BY <3>1, <3>2 DEF WriteEffect
  <2>2. ASSUME ~ \E n \in 0 .. MaxRequest, b \in Byte : Write(n, b)
        PROVE  data' = data
    BY <2>2 DEF Next, Seek, Read, ReadHit, ReadMiss, ReadDirect, DirectFrom, OtherReader,
                vars, parent
  <2> QED
    BY <2>1, <2>2
<1> QED
  BY <1>1, TypeCorrect, PTL DEF Spec, WritesStayInSection

-------------------------------------------------------------------------------
(* The section's part of the base stream is a window of ByteStream. *)
LEMMA SectionBytesTyped ==
    ASSUME TypeOK
    PROVE  sectionBytes \in BS!Window
<1>1. ASSUME NEW i \in 0 .. Avail - 1
      PROVE  Start + i \in 0 .. FileSize - 1
  BY AvailFact, StreamAssumption
<1> QED
  BY <1>1 DEF TypeOK, sectionBytes, BS!Window

(* A read delivers the section's bytes from the position on, as far as they
   exist. *)
LEMMA ReadRefines ==
    ASSUME TypeOK, TypeOK', CacheCoherent, NEW n \in 0 .. MaxRequest, Read(n)
    PROVE  BS!ReadInside(n) \/ BS!ReadPastEnd(n)
<1> USE StreamAssumption
<1>0. n \in Nat /\ pos \in Nat /\ cachePos \in Nat
  BY DEF TypeOK
<1>1. sectionBytes' = sectionBytes
  BY DEF Read, ReadHit, ReadMiss, ReadDirect, DirectFrom, sectionBytes, parent
<1>2. ASSUME NEW k \in Nat \ {0}, pos + k <= Avail
      PROVE  sectionBytes[pos + k - 1] = data[Start + pos + k - 1]
  <2>1. pos + k - 1 \in 0 .. Avail - 1
    BY <1>0, <1>2, AvailFact
  <2>2. Start + (pos + k - 1) = Start + pos + k - 1
    BY <1>0
  <2> QED BY <2>1, <2>2 DEF sectionBytes
<1>3. CASE ReadHit(n)
  <2>1. ASSUME NEW k \in 1 .. n, pos + k <= Avail
        PROVE  buffer[pos - cachePos + k - 1] = sectionBytes[pos + k - 1]
    <3> DEFINE j == pos - cachePos + k - 1
    <3>1. j \in 0 .. kSIZE - 1 /\ cachePos + j = pos + k - 1 /\ hasCache
      BY <1>0, <1>3 DEF ReadHit, IsHit
    <3>2. cachePos + j < Avail
      BY <1>0, <2>1, <3>1, AvailFact
    <3>3. Start + cachePos + j = Start + pos + k - 1
      BY <1>0, <3>1
    <3> HIDE DEF j
    <3>4. buffer[j] = data[Start + cachePos + j]
      BY <3>1, <3>2 DEF CacheCoherent
    <3> QED BY <1>2, <2>1, <3>3, <3>4 DEF j
  <2>2. out' = [k \in 1 .. n |-> buffer[pos - cachePos + k - 1]] /\ Len(out') = n
    BY <1>0, <1>3 DEF ReadHit
  <2>3. pos' = Smaller(pos + n, Size)
    BY <1>3 DEF ReadHit
  <2>4. CASE pos + n <= Avail
    <3>1. out' = [k \in 1 .. n |-> sectionBytes[pos + k - 1]]
      <4>1. ASSUME NEW k \in 1 .. n PROVE pos + k <= Avail
        BY <1>0, <2>4, AvailFact
      <4> QED BY <2>1, <2>2, <4>1
    <3>2. pos' = pos + n
      BY <1>0, <2>3, <2>4, AvailFact DEF Smaller
    <3> QED BY <1>1, <2>4, <3>1, <3>2 DEF BS!ReadInside
  <2>5. CASE pos + n > Avail
    <3>1. ASSUME NEW k \in 1 .. Avail - pos
          PROVE  k <= Len(out') /\ out'[k] = sectionBytes[pos + k - 1]
      <4>1. k \in 1 .. n /\ pos + k <= Avail
        BY <1>0, <2>5, AvailFact
      <4> QED BY <2>1, <2>2, <4>1
    <3>2. pos < Avail => pos' = BS!Smaller(pos + Len(out'), Size)
      BY <2>2, <2>3 DEF BS!Smaller, Smaller
    <3>3. Len(out') <= n
      BY <1>0, <2>2
    <3> QED
      BY <1>1, <2>5, <3>1, <3>2, <3>3 DEF BS!ReadPastEnd, TypeOK
  <2> QED BY <1>0, <2>4, <2>5, AvailFact
<1>4. CASE ReadMiss(n)
  <2>1. PICK from \in 0 .. Size, count \in 0 .. kSIZE, ret \in 0 .. n :
                MissEffect(n, from, count, ret)
    BY <1>4, MissFact
  <2>2. ret = Smaller(count, n) /\ n <= kSIZE /\ pos' = Smaller(pos + ret, Size)
        /\ Len(out') = ret
    BY <2>1 DEF MissEffect
  <2>3. pos < Avail => from = pos /\ count = Smaller(Avail - pos, kSIZE)
    BY SMTT(30), <1>0, <2>1, AvailFact DEF MissEffect
  <2>4. ASSUME NEW k \in 1 .. ret, pos < Avail
        PROVE  out'[k] = sectionBytes[pos + k - 1]
    <3>1. from = pos /\ k <= count /\ k <= kSIZE /\ pos + k <= Avail
      BY <1>0, <2>2, <2>3, <2>4, AvailFact DEF Smaller
    <3>2. pos - from + k = k /\ k - 1 \in 0 .. kSIZE - 1 /\ k - 1 < count
      BY <1>0, <3>1
    <3>3. out'[k] = buffer'[k - 1]
      BY <2>1, <3>1, <3>2 DEF MissEffect
    <3>4. buffer'[k - 1] = data[Start + from + (k - 1)]
      BY <2>1, <3>2 DEF MissEffect
    <3>5. Start + from + (k - 1) = Start + pos + k - 1
      BY <1>0, <3>1
    <3> QED BY <1>2, <3>1, <3>3, <3>4, <3>5
  <2>5. CASE pos + n <= Avail
    <3>1. ret = n /\ pos' = pos + n
      BY <1>0, <2>2, <2>3, <2>5, AvailFact DEF Smaller
    <3>2. ASSUME NEW k \in 1 .. n
          PROVE  out'[k] = sectionBytes[pos + k - 1]
      <4>1. pos < Avail /\ k \in 1 .. ret
        BY <1>0, <2>5, <3>1, AvailFact
      <4> QED BY <2>4, <4>1
    <3>3. out' = [k \in 1 .. n |-> sectionBytes[pos + k - 1]]
      BY <2>1, <3>1, <3>2 DEF MissEffect
    <3> QED BY <1>1, <2>5, <3>1, <3>3 DEF BS!ReadInside
  <2>6. CASE pos + n > Avail
    <3>1. pos < Avail => ret = Avail - pos
      BY <1>0, <2>2, <2>3, <2>6, AvailFact DEF Smaller
    <3>2. ASSUME NEW k \in 1 .. Avail - pos
          PROVE  k <= Len(out') /\ out'[k] = sectionBytes[pos + k - 1]
      <4>1. pos < Avail
        BY <1>0, AvailFact
      <4>2. k \in 1 .. ret
        BY <1>0, <3>1, <4>1, AvailFact
      <4> QED BY <2>2, <2>4, <4>1, <4>2
    <3>3. pos < Avail => pos' = BS!Smaller(pos + Len(out'), Size)
      BY <2>2 DEF BS!Smaller, Smaller
    <3>4. Len(out') <= n
      BY <1>0, <2>2
    <3> QED
      BY <1>1, <2>6, <3>2, <3>3, <3>4 DEF BS!ReadPastEnd, TypeOK
  <2> QED BY <1>0, <2>5, <2>6, AvailFact
<1>5. CASE ReadDirect(n)
  <2>1. PICK from \in 0 .. Size, count \in 0 .. n : DirectEffect(n, from, count)
    BY <1>5, DirectFact
  <2>2. pos' = pos + count /\ Len(out') = count
        /\ out' = [k \in 1 .. count |-> data[Start + from + k - 1]]
    BY <2>1 DEF DirectEffect
  <2>3. pos < Avail => from = pos /\ count = Smaller(Avail - pos, n)
    BY <1>0, <2>1, AvailFact DEF DirectEffect
  <2>4. ASSUME NEW k \in 1 .. count, pos < Avail
        PROVE  out'[k] = sectionBytes[pos + k - 1]
    <3>1. from = pos /\ pos + k <= Avail
      BY <1>0, <2>3, <2>4, AvailFact DEF Smaller
    <3>2. out'[k] = data[Start + pos + k - 1]
      BY <2>2, <3>1
    <3>3. k \in Nat \ {0}
      OBVIOUS
    <3>4. sectionBytes[pos + k - 1] = data[Start + pos + k - 1]
      BY <1>2, <3>1, <3>3
    <3> QED BY <3>2, <3>4
  <2>5. CASE pos + n <= Avail
    <3>1. pos < Avail /\ count = n
      BY <1>0, <2>1, <2>3, <2>5, AvailFact DEF DirectEffect, Smaller
    <3>2. out' = [k \in 1 .. n |-> sectionBytes[pos + k - 1]]
      BY <2>2, <2>4, <3>1
    <3> QED BY <1>1, <2>2, <2>5, <3>1, <3>2 DEF BS!ReadInside
  <2>6. CASE pos + n > Avail
    <3>1. pos < Avail => count = Avail - pos
      BY <1>0, <2>3, <2>6, AvailFact DEF Smaller
    <3>2. ASSUME NEW k \in 1 .. Avail - pos
          PROVE  k <= Len(out') /\ out'[k] = sectionBytes[pos + k - 1]
      <4>1. pos < Avail
        BY <1>0, AvailFact
      <4>2. k \in 1 .. count
        BY <1>0, <3>1, <4>1, AvailFact
      <4> QED BY <2>2, <2>4, <4>1, <4>2
    <3>3. pos < Avail => pos' = BS!Smaller(pos + Len(out'), Size)
      BY <1>0, <2>2, <3>1, AvailFact DEF BS!Smaller
    <3>4. Len(out') <= n
      BY <1>0, <2>2
    <3> QED
      BY <1>1, <2>6, <3>2, <3>3, <3>4 DEF BS!ReadPastEnd, TypeOK
  <2> QED BY <1>0, <2>5, <2>6, AvailFact
<1> QED
  BY <1>3, <1>4, <1>5 DEF Read

(* A write changes at most the bytes it addresses when the reader stands
   inside the section, so it is a Write of ByteStream. *)
LEMMA WriteRefines ==
    ASSUME TypeOK, TypeOK', NEW n \in 0 .. MaxRequest, NEW b \in Byte, Write(n, b)
    PROVE  BS!Write(n)
<1> USE StreamAssumption
<1>1. PICK from \in 0 .. Size, count \in 0 .. n : WriteEffect(n, b, from, count)
  BY WriteFact
<1>2. sectionBytes' \in BS!Window
  <2>1. ASSUME NEW i \in 0 .. Avail - 1
        PROVE  Start + i \in 0 .. FileSize - 1
    BY AvailFact
  <2> QED BY <2>1 DEF TypeOK, sectionBytes, BS!Window
<1>3. ASSUME pos < Size, NEW i \in 0 .. Avail - 1, ~(pos <= i /\ i < pos + n)
      PROVE  sectionBytes'[i] = sectionBytes[i]
  <2>1. Start + i \in 0 .. FileSize - 1
    BY AvailFact
  <2>2. ~(Start + from <= Start + i /\ Start + i < Start + from + count)
    BY <1>1, <1>3 DEF WriteEffect, TypeOK
  <2>3. data'[Start + i] = data[Start + i]
    BY <1>1, <2>1, <2>2 DEF WriteEffect
  <2> QED BY <2>3 DEF sectionBytes
<1> QED
  BY <1>1, <1>2, <1>3 DEF WriteEffect, BS!Write

(***************************************************************************)
(* ImplementsByteStream, for every section, file and cache capacity: the   *)
(* parsers' reads through the cache deliver every byte of the section      *)
(* that is left, in order, also when they ask for more, and move the       *)
(* reader by what they delivered.                                          *)
(***************************************************************************)
THEOREM StackImplementsByteStream == Spec => ImplementsByteStream
<1>1. TypeOK /\ Init => BS!Init
  BY SectionBytesTyped DEF Init, BS!Init
<1>2. TypeOK /\ TypeOK' /\ CacheCoherent /\ [Next]_vars => [BS!Next]_(BS!vars)
  <2> SUFFICES ASSUME TypeOK, TypeOK', CacheCoherent, [Next]_vars
               PROVE  BS!Next \/ UNCHANGED BS!vars
    OBVIOUS
  <2>1. ASSUME NEW o \in 0 .. MaxRequest, Seek(o)
        PROVE  BS!Next
    <3>1. BS!Seek(o)
      BY <2>1 DEF Seek, BS!Seek, BS!Smaller, Smaller, sectionBytes, parent
    <3> QED BY <3>1 DEF BS!Next
  <2>2. ASSUME NEW n \in 0 .. MaxRequest, Read(n)
        PROVE  BS!Next
    BY <2>2, ReadRefines DEF BS!Next
  <2>3. ASSUME NEW n \in 0 .. MaxRequest, NEW b \in Byte, Write(n, b)
        PROVE  BS!Next
    BY <2>3, WriteRefines DEF BS!Next
  <2>4. ASSUME NEW p \in 0 .. FileSize, OtherReader(p)
        PROVE  UNCHANGED BS!vars
    BY <2>4 DEF OtherReader, BS!vars, sectionBytes
  <2>5. CASE UNCHANGED vars
    BY <2>5 DEF vars, BS!vars, sectionBytes
  <2> QED
    BY <2>1, <2>2, <2>3, <2>4, <2>5 DEF Next
<1> QED
  BY <1>1, <1>2, TypeCorrect, CacheIsCoherent, PTL
     DEF Spec, ImplementsByteStream, BS!Spec

===============================================================================
