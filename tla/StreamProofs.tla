----------------------------- MODULE StreamProofs -----------------------------
(***************************************************************************)
(* What rpc/stream keeps and what its readers are given, for segments and  *)
(* capacities of any size and any number of readers.                       *)
(***************************************************************************)
EXTENDS Stream, TLAPS

\* The remainder and the quotient that doRead splits an offset into.
LEMMA DivMod ==
  ASSUME NEW o \in Nat, NEW k \in Nat \ {0}
  PROVE  /\ o \div k \in Nat
         /\ o % k \in 0 .. k - 1
         /\ o = (o \div k) * k + (o % k)
  BY SMT

\* Multiplication by a segment size is monotone.
LEMMA TimesMono ==
  ASSUME NEW a \in Nat, NEW b \in Nat, NEW k \in Nat, a <= b
  PROVE  a * k <= b * k
<1>1. PICK d \in Nat : b = a + d
  <2> WITNESS b - a \in Nat
  <2> QED OBVIOUS
<1>2. d * k \in Nat /\ (a + d) * k = a * k + d * k
  OBVIOUS
<1> QED
  BY <1>1, <1>2

\* NewStream rounds the number of segments up: they hold the capacity.
LEMMA Rounded == maxSegments \in Nat \ {0} /\ maxSegments * segmentSize >= capacity
<1> DEFINE n == capacity + segmentSize - 1
<1>1. n \in Nat /\ segmentSize \in Nat \ {0} /\ capacity \in Nat \ {0}
  BY StreamAssumption
<1>2. maxSegments = n \div segmentSize
  BY DEF maxSegments
<1> HIDE DEF n
<1>3. /\ maxSegments \in Nat /\ n % segmentSize \in 0 .. segmentSize - 1
      /\ n = maxSegments * segmentSize + (n % segmentSize)
  BY <1>1, <1>2, DivMod, Zenon
<1>4. maxSegments * segmentSize >= capacity
  <2>1. maxSegments * segmentSize \in Nat
    BY <1>1, <1>3
  <2> QED
    BY <2>1, <1>1, <1>3 DEF n
<1>5. maxSegments # 0
  BY <1>1, <1>4
<1> QED
  BY <1>3, <1>4, <1>5

----------------------------------------------------------------------------
\* All segments but the last are full and none is empty, and one more than
\* maxSegments of them are there once a segment was pruned.
Shape ==
  /\ \A i \in 1 .. Len(segments) : Len(segments[i]) \in 1 .. segmentSize
  /\ \A i \in 1 .. Len(segments) - 1 : Len(segments[i]) = segmentSize
  /\ Len(segments) <= maxSegments + 1
  /\ segmentOffset # 0 => Len(segments) = maxSegments + 1

StreamInv == TypeOK /\ Shape /\ PositionsAreIds

LEMMA InitInv == Init => StreamInv
<1> SUFFICES ASSUME Init PROVE StreamInv
  OBVIOUS
<1>1. segments = <<>> /\ segmentOffset = 0 /\ added = 0
  BY DEF Init
<1>2. TypeOK
  <2>1. given \in [Readers -> Seq(Nat)] /\ segments \in Seq(Seq(Nat))
    BY DEF Init
  <2>2. /\ pc \in [Readers -> Labels]
        /\ offset \in [Readers -> -1 .. added]
        /\ due \in [Subscribers -> Nat]
        /\ typ \in [Filters -> {"logs", "hashes"}]
    BY DEF Init, Labels
  <2>3. {segmentOffset, adding, added} \subseteq Nat
    BY DEF Init
  <2>4. writeLocked \in BOOLEAN
    BY Zenon DEF Init
  <2> QED
    BY <2>1, <2>2, <2>3, <2>4, Zenon DEF TypeOK
<1>3. Shape /\ PositionsAreIds
  BY <1>1, Rounded DEF Shape, PositionsAreIds, lastID
<1> QED
  BY <1>2, <1>3 DEF StreamInv

\* What there is to read at an offset, and the offset that goes with it.
LEMMA ReadFacts ==
  ASSUME StreamInv, NEW o \in Nat \cup {-1}
  PROVE  /\ doRead(o).offset \in 0 .. added
         /\ doRead(o).items \in Seq(Nat)
         /\ doRead(o).items # <<>> =>
              LET c == doRead(o).items IN
              /\ \A i \in 1 .. Len(c) : c[i] = c[1] + i - 1
              /\ c[1] > o
              /\ o >= Pruned => c[1] = o + 1
              /\ doRead(o).offset = c[Len(c)]
<1>a. segmentSize \in Nat \ {0}
  BY StreamAssumption
<1>b. /\ segments \in Seq(Seq(Nat)) /\ segmentOffset \in Nat /\ added \in Nat
      /\ lastID = added
  BY DEF StreamInv, TypeOK, PositionsAreIds
<1>1. CASE doRead(o) = Nothing
  BY <1>1, <1>b DEF Nothing
<1>2. CASE doRead(o) # Nothing
  <2> DEFINE k   == SegmentOf(o)
             seg == segments[k + 1]
             f   == FirstItem(o)
             c   == SubSeq(seg, f, Len(seg))
             base == (segmentOffset + k) * segmentSize
  <2>1. o \in Nat
    <3>1. ~(o < 0)
      BY <1>2 DEF doRead
    <3> QED
      BY <3>1
  <2>2. /\ o \div segmentSize \in Nat /\ o % segmentSize \in 0 .. segmentSize - 1
        /\ o = (o \div segmentSize) * segmentSize + (o % segmentSize)
    BY <1>a, <2>1, DivMod, Zenon
  <2>3. k \in Nat /\ f \in 1 .. segmentSize /\ f = (o % segmentSize) + 1
    BY <1>a, <1>b, <2>2 DEF SegmentOf, FirstItem
  <2>r. /\ ~(k >= Len(segments)) /\ c # <<>>
        /\ doRead(o) = [items |-> c, offset |-> base + Len(seg)]
    BY <1>2, Zenon DEF doRead
  <2>4. k + 1 \in 1 .. Len(segments) /\ seg \in Seq(Nat)
    <3> HIDE DEF k
    <3>1. k + 1 \in 1 .. Len(segments)
      BY <1>b, <2>r, <2>3
    <3> QED
      BY <1>b, <3>1
  <2>5. base \in Nat /\ \A j \in 1 .. Len(seg) : seg[j] = base + j
    <3>1. base \in Nat
      BY <1>a, <1>b, <2>3
    <3>2. \A j \in 1 .. Len(seg) : seg[j] = (segmentOffset + (k + 1) - 1) * segmentSize + j
      BY <2>4 DEF StreamInv, PositionsAreIds
    <3>3. segmentOffset + (k + 1) - 1 = segmentOffset + k
      BY <1>b, <2>3
    <3> QED
      BY <3>1, <3>2, <3>3
  <2>6. /\ base + f > o
        /\ o >= Pruned => base + f = o + 1
    <3>1. CASE o \div segmentSize >= segmentOffset
      <4>1. segmentOffset + k = o \div segmentSize
        BY <3>1, <1>b, <2>2 DEF SegmentOf
      <4>2. base = (o \div segmentSize) * segmentSize
        BY <4>1
      <4>3. o = base + (o % segmentSize)
        BY <4>2, <2>2
      <4> DEFINE rest == o % segmentSize
      <4>4. o = base + rest /\ f = rest + 1 /\ rest \in Int
        BY <4>3, <1>a, <2>2, <2>3
      <4> HIDE DEF base, f, k, seg, rest
      <4> QED
        BY <4>4, <2>5
    <3>2. CASE ~(o \div segmentSize >= segmentOffset)
      <4>1. k = 0 /\ base = Pruned
        BY <3>2, <1>b DEF SegmentOf, Pruned
      <4>2. (o \div segmentSize + 1) * segmentSize <= Pruned
        <5>1. o \div segmentSize + 1 \in Nat /\ o \div segmentSize + 1 <= segmentOffset
          BY <3>2, <2>2, <1>b
        <5> QED
          BY <5>1, <1>a, <1>b, TimesMono, Zenon DEF Pruned
      <4>3. (o \div segmentSize + 1) * segmentSize
              = (o \div segmentSize) * segmentSize + segmentSize
        BY <1>a, <2>2
      <4>4. o < Pruned
        <5> DEFINE p == (o \div segmentSize) * segmentSize
        <5>1. p \in Nat /\ o = p + (o % segmentSize) /\ p + segmentSize <= Pruned
          BY <1>a, <2>2, <4>2, <4>3
        <5>2. Pruned \in Nat
          BY <1>a, <1>b DEF Pruned
        <5> HIDE DEF p
        <5> QED
          BY <5>1, <5>2, <1>a, <2>1, <2>2
      <4> QED
        BY <4>1, <4>4, <2>1, <2>3, <2>5
    <3> QED
      BY <3>1, <3>2
  <2>l. base + Len(seg) <= added
    <3> DEFINE n == Len(segments)
               last == Len(segments[n])
    <3>1. n \in Nat /\ n \in 1 .. n /\ segments # <<>>
      BY <1>b, <2>4
    <3>2. /\ added = (segmentOffset + n - 1) * segmentSize + last
          /\ last \in Nat
      BY <1>b, <3>1 DEF lastID
    <3>3. Len(seg) \in Nat /\ Len(seg) <= segmentSize
      BY <2>4, <1>a DEF StreamInv, Shape
    <3>4. CASE k + 1 = n
      <4>1. segmentOffset + n - 1 = segmentOffset + k /\ seg = segments[n]
        BY <3>4, <1>b, <2>3
      <4> QED
        BY <4>1, <3>2, <2>5, <3>3
    <3>5. CASE k + 1 # n
      <4>1. /\ segmentOffset + k + 1 \in Nat /\ segmentOffset + n - 1 \in Nat
            /\ segmentOffset + k + 1 <= segmentOffset + n - 1
        <5> HIDE DEF k
        <5> QED
          BY <3>5, <2>3, <2>4, <3>1, <1>b
      <4>2. (segmentOffset + k + 1) * segmentSize <= (segmentOffset + n - 1) * segmentSize
        BY <4>1, <1>a, TimesMono
      <4>3. (segmentOffset + k + 1) * segmentSize = base + segmentSize
        BY <1>a, <1>b, <2>3
      <4> DEFINE top == (segmentOffset + n - 1) * segmentSize
      <4>4. top \in Nat /\ base + segmentSize <= top /\ added = top + last
        BY <4>1, <4>2, <4>3, <3>2, <1>a
      <4> HIDE DEF top, base, last, seg
      <4> QED
        BY <4>4, <3>2, <3>3, <2>5, <1>a
    <3> QED
      BY <3>4, <3>5
  <2> HIDE DEF k, f, base, seg
  <2>7. /\ Len(c) = Len(seg) - f + 1 /\ Len(c) >= 1 /\ f <= Len(seg)
        /\ c \in Seq(Nat)
        /\ \A i \in 1 .. Len(c) : c[i] = seg[f + i - 1]
    <3>1. Len(seg) \in Nat /\ f \in Nat \ {0}
      BY <2>3, <2>4, <1>a
    <3>2. f <= Len(seg)
      BY <2>r, <2>4, <3>1
    <3>3. Len(c) = Len(seg) - f + 1
      BY <3>1, <3>2, <2>4
    <3>4. \A i \in 1 .. Len(c) : c[i] = seg[f + i - 1]
      BY <3>1, <3>2, <3>3, <2>4
    <3>5. c \in Seq(Nat)
      BY <3>1, <3>2, <2>4
    <3>6. Len(c) >= 1
      BY <3>1, <3>2, <3>3
    <3> QED
      BY <3>2, <3>3, <3>4, <3>5, <3>6
  <2> HIDE DEF c
  <2>t. Len(seg) \in Nat /\ f \in Nat /\ Len(c) \in Nat
    <3>1. Len(seg) \in Nat
      BY <2>4
    <3>2. f \in Nat
      BY <2>3, <1>a
    <3>3. Len(c) \in Nat
      BY <2>7
    <3> QED
      BY <3>1, <3>2, <3>3
  <2>8. \A i \in 1 .. Len(c) : c[i] = base + f + i - 1
    <3> SUFFICES ASSUME NEW i \in 1 .. Len(c) PROVE c[i] = base + f + i - 1
      OBVIOUS
    <3>1. f + i - 1 \in 1 .. Len(seg) /\ c[i] = seg[f + i - 1]
      BY <2>7, <2>t, <2>3, SMTT(30)
    <3>2. seg[f + i - 1] = base + (f + i - 1)
      BY <3>1, <2>5
    <3> QED
      BY <3>1, <3>2, <2>5, <2>t
  <2>9. c[1] = base + f /\ c[Len(c)] = base + Len(seg)
    <3>1. 1 \in 1 .. Len(c) /\ Len(c) \in 1 .. Len(c)
      BY <2>7, <2>t
    <3>2. c[1] = base + f + 1 - 1 /\ c[Len(c)] = base + f + Len(c) - 1
      BY <3>1, <2>8
    <3> QED
      BY <3>2, <2>7, <2>5, <2>t
  <2>10. doRead(o).items = c /\ doRead(o).offset = base + Len(seg)
    BY <2>r
  <2> QED
    BY <2>10, <2>1, <2>5, <2>6, <2>7, <2>8, <2>9, <2>t, <2>l, <1>b
<1> QED
  BY <1>1, <1>2

----------------------------------------------------------------------------
\* Appending to the last segment, or starting one and pruning one, keeps the shape
\* and the ids.
LEMMA PushInv == StreamInv /\ Push => StreamInv'
<1> SUFFICES ASSUME StreamInv, Push PROVE StreamInv'
  OBVIOUS
<1> DEFINE n == Len(segments)
<1>a. segmentSize \in Nat \ {0} /\ maxSegments \in Nat \ {0}
  BY StreamAssumption, Rounded
<1>b. /\ segments \in Seq(Seq(Nat)) /\ segmentOffset \in Nat /\ added \in Nat /\ adding \in Nat
      /\ n \in Nat /\ added + 1 \in Nat
  BY DEF StreamInv, TypeOK
<1>c. added' = added + 1 /\ adding' = adding - 1 /\ adding > 0
  BY DEF Push
<1>m. maxSegments' = maxSegments
  BY DEF maxSegments
<1>t. segments' \in Seq(Seq(Nat)) /\ segmentOffset' \in Nat => TypeOK'
  BY <1>b, <1>c DEF StreamInv, TypeOK, Push
<1>1. CASE ~NeedsSegment
  <2>1. /\ segments # <<>> /\ Len(segments[n]) # segmentSize
        /\ segments' = [segments EXCEPT ![n] = Append(@, added + 1)]
        /\ segmentOffset' = segmentOffset
    BY <1>1 DEF NeedsSegment, Push
  <2>2. n \in 1 .. n /\ segments[n] \in Seq(Nat)
    BY <1>b, <2>1
  <2>3. /\ Append(segments[n], added + 1) \in Seq(Nat)
        /\ Len(Append(segments[n], added + 1)) = Len(segments[n]) + 1
        /\ Append(segments[n], added + 1)[Len(segments[n]) + 1] = added + 1
        /\ \A j \in 1 .. Len(segments[n]) : Append(segments[n], added + 1)[j] = segments[n][j]
    BY <1>b, <2>2
  <2>4. /\ segments' \in Seq(Seq(Nat)) /\ Len(segments') = n
        /\ segments'[n] = Append(segments[n], added + 1)
        /\ \A i \in 1 .. n : i # n => segments'[i] = segments[i]
    BY <1>b, <2>1, <2>2, <2>3
  <2>5. Len(segments[n]) \in 1 .. segmentSize
    BY <2>2 DEF StreamInv, Shape
  <2>6. Shape'
    <3>1. ASSUME NEW i \in 1 .. n PROVE Len(segments'[i]) \in 1 .. segmentSize
      <4>1. CASE i = n
        BY <4>1, <1>a, <2>1, <2>3, <2>4, <2>5
      <4>2. CASE i # n
        BY <4>2, <2>4 DEF StreamInv, Shape
      <4> QED
        BY <4>1, <4>2
    <3>2. ASSUME NEW i \in 1 .. n - 1 PROVE Len(segments'[i]) = segmentSize
      <4>1. i \in 1 .. n /\ i # n
        BY <1>b
      <4> QED
        BY <4>1, <2>4, SMTT(30) DEF StreamInv, Shape
    <3>3. n <= maxSegments + 1 /\ (segmentOffset # 0 => n = maxSegments + 1)
      BY DEF StreamInv, Shape
    <3> HIDE DEF n
    <3> QED
      BY <3>1, <3>2, <3>3, <1>m, <2>1, <2>4 DEF Shape
  <2> DEFINE base == (segmentOffset + n - 1) * segmentSize
  <2>7. base \in Nat /\ added = base + Len(segments[n])
    <3>1. segmentOffset + n - 1 \in Nat
      BY <1>b, <2>2
    <3>2. base \in Nat
      BY <3>1, <1>a
    <3>3. added = base + Len(segments[n])
      BY <2>1 DEF StreamInv, PositionsAreIds, lastID
    <3> QED
      BY <3>2, <3>3
  <2>8. lastID' = base + Len(segments'[n])
    <3>1. segments' # <<>>
      BY <1>b, <2>2, <2>4
    <3>2. lastID' = (segmentOffset' + Len(segments') - 1) * segmentSize + Len(segments'[Len(segments')])
      BY <3>1, Zenon DEF lastID
    <3> QED
      BY <3>2, <2>1, <2>4, Zenon
  <2>9. \A i \in 1 .. n : \A j \in 1 .. Len(segments'[i]) :
          segments'[i][j] = (segmentOffset + i - 1) * segmentSize + j
    <3> SUFFICES ASSUME NEW i \in 1 .. n, NEW j \in 1 .. Len(segments'[i])
                 PROVE  segments'[i][j] = (segmentOffset + i - 1) * segmentSize + j
      OBVIOUS
    <3>1. CASE i # n
      BY <3>1, <2>4, SMTT(30) DEF StreamInv, PositionsAreIds
    <3>2. CASE i = n /\ j = Len(segments[n]) + 1
      BY <3>2, <2>3, <2>4, <2>5, <2>7
    <3>3. CASE i = n /\ j # Len(segments[n]) + 1
      <4>1. j \in 1 .. Len(segments[n])
        BY <3>3, <2>3, <2>4, <2>5
      <4> QED
        BY <4>1, <3>3, <2>3, <2>4, <2>2, Zenon DEF StreamInv, PositionsAreIds
    <3> QED
      BY <3>1, <3>2, <3>3
  <2>10. PositionsAreIds'
    <3>1. lastID' = added'
      <4> HIDE DEF base
      <4> QED
        BY <1>b, <1>c, <2>3, <2>4, <2>5, <2>7, <2>8
    <3> HIDE DEF n, base
    <3>2. Len(segments') = n /\ segmentOffset' = segmentOffset
      BY <2>1, <2>4
    <3> QED
      BY <3>1, <3>2, <2>9, Zenon DEF PositionsAreIds
  <2> QED
    BY <1>b, <1>t, <2>1, <2>4, <2>6, <2>10, Zenon DEF StreamInv
<1>2. CASE NeedsSegment
  <2> DEFINE kept == IF Prunes THEN Tail(segments) ELSE segments
             m == Len(kept)
  <2>1. /\ segments' = Append(kept, <<added + 1>>)
        /\ segmentOffset' = IF Prunes THEN segmentOffset + 1 ELSE segmentOffset
    BY <1>2 DEF Push, NextSegmentOffset
  <2>2. \A i \in 1 .. n : Len(segments[i]) = segmentSize
    <3>1. CASE segments = <<>>
      BY <3>1
    <3>2. CASE segments # <<>>
      <4>1. Len(segments[n]) = segmentSize
        BY <3>2, <1>2 DEF NeedsSegment
      <4> QED
        BY <4>1, <1>b DEF StreamInv, Shape
    <3> QED
      BY <3>1, <3>2
  <2>3. added = (segmentOffset + n) * segmentSize
    <3>1. CASE segments = <<>>
      <4>1. n = 0 /\ added = 0
        BY <3>1 DEF StreamInv, PositionsAreIds, lastID
      <4>2. segmentOffset = 0
        BY <4>1, <1>a, <1>b DEF StreamInv, Shape
      <4> QED
        BY <4>1, <4>2, <1>a
    <3>2. CASE segments # <<>>
      <4>1. n \in 1 .. n
        BY <3>2, <1>b
      <4>2. added = (segmentOffset + n - 1) * segmentSize + segmentSize
        BY <3>2, <4>1, <2>2 DEF StreamInv, PositionsAreIds, lastID
      <4> QED
        BY <4>2, <1>a, <1>b
    <3> QED
      BY <3>1, <3>2
  <2>4. /\ kept \in Seq(Seq(Nat)) /\ m \in Nat /\ segmentOffset' \in Nat
        /\ segmentOffset' + m = segmentOffset + n
        /\ m <= maxSegments
        /\ segmentOffset' # 0 => m = maxSegments
        /\ \A i \in 1 .. m : /\ Len(kept[i]) = segmentSize
                            /\ \A j \in 1 .. segmentSize :
                                 kept[i][j] = (segmentOffset' + i - 1) * segmentSize + j
    <3>1. CASE Prunes
      <4>1. n > maxSegments /\ n = maxSegments + 1
        BY <3>1, <1>a, <1>b DEF Prunes, StreamInv, Shape
      <4>2. kept = Tail(segments) /\ segmentOffset' = segmentOffset + 1 /\ segments # <<>>
        BY <3>1, <2>1, <4>1, <1>a
      <4>3. /\ kept \in Seq(Seq(Nat)) /\ m = n - 1
            /\ \A i \in 1 .. m : kept[i] = segments[i + 1]
        BY <4>1, <4>2, <1>a, <1>b
      <4>4. ASSUME NEW i \in 1 .. m
            PROVE  /\ Len(kept[i]) = segmentSize
                   /\ \A j \in 1 .. segmentSize :
                        kept[i][j] = (segmentOffset' + i - 1) * segmentSize + j
        <5>1. i + 1 \in 1 .. n /\ kept[i] = segments[i + 1] /\ i \in Nat
          BY <4>1, <4>3, <1>a, <1>b
        <5>2. Len(segments[i + 1]) = segmentSize
          BY <5>1, <2>2
        <5>3. \A j \in 1 .. segmentSize :
                segments[i + 1][j] = (segmentOffset + (i + 1) - 1) * segmentSize + j
          BY <5>1, <5>2 DEF StreamInv, PositionsAreIds
        <5>4. segmentOffset + (i + 1) - 1 = segmentOffset' + i - 1
          BY <5>1, <4>2, <1>b
        <5> QED
          BY <5>1, <5>2, <5>3, <5>4
      <4>5. /\ m \in Nat /\ segmentOffset' \in Nat /\ segmentOffset' + m = segmentOffset + n
            /\ m <= maxSegments /\ m = maxSegments
        <5>1. m = n - 1 /\ n = maxSegments + 1 /\ segmentOffset' = segmentOffset + 1
          BY <4>1, <4>2, <4>3
        <5>2. n \in Nat /\ segmentOffset \in Nat /\ maxSegments \in Nat
          BY <1>a, <1>b
        <5> HIDE DEF kept, m, n
        <5> QED
          BY <5>1, <5>2
      <4> HIDE DEF kept, m
      <4> QED
        BY <4>3, <4>4, <4>5, Zenon
    <3>2. CASE ~Prunes
      <4>1. kept = segments /\ segmentOffset' = segmentOffset
        BY <3>2, <2>1
      <4>2. n <= maxSegments
        BY <3>2, <1>a, <1>b DEF Prunes
      <4>3. segmentOffset = 0
        BY <4>2, <1>a, <1>b DEF StreamInv, Shape
      <4>4. m = n
        BY <4>1
      <4>5. \A i \in 1 .. m : /\ Len(kept[i]) = segmentSize
                             /\ \A j \in 1 .. segmentSize :
                                  kept[i][j] = (segmentOffset' + i - 1) * segmentSize + j
        BY <4>1, <4>4, <2>2 DEF StreamInv, PositionsAreIds
      <4> HIDE DEF kept, m
      <4> QED
        BY <4>1, <4>2, <4>3, <4>4, <4>5, <1>b
    <3> QED
      BY <3>1, <3>2, Zenon
  <2> HIDE DEF kept
  <2>5. <<added + 1>> \in Seq(Nat) /\ Len(<<added + 1>>) = 1 /\ <<added + 1>>[1] = added + 1
    BY <1>b
  <2>6. /\ segments' \in Seq(Seq(Nat)) /\ Len(segments') = m + 1
        /\ segments'[m + 1] = <<added + 1>> /\ segments' # <<>>
        /\ \A i \in 1 .. m : segments'[i] = kept[i]
    <3> DEFINE new == <<added + 1>>
    <3>1. segments' = Append(kept, new) /\ kept \in Seq(Seq(Nat)) /\ new \in Seq(Nat)
      BY <2>1, <2>4, <2>5
    <3> HIDE DEF new
    <3>2. /\ segments' \in Seq(Seq(Nat)) /\ Len(segments') = m + 1
          /\ segments'[m + 1] = new /\ segments' # <<>>
          /\ \A i \in 1 .. m : segments'[i] = kept[i]
      BY <3>1
    <3> QED
      BY <3>2, Zenon DEF new
  <2> HIDE DEF m
  <2>7. \A i \in 1 .. Len(segments') : i \in 1 .. m \/ i = m + 1
    BY <2>4, <2>6
  <2>8. Shape'
    <3>1. \A i \in 1 .. m : Len(segments'[i]) = segmentSize
      BY <2>4, <2>6, Zenon
    <3>2. Len(segments'[m + 1]) = 1
      BY <2>5, <2>6
    <3>3. 1 \in 1 .. segmentSize /\ segmentSize \in 1 .. segmentSize
      BY <1>a
    <3>4. \A i \in 1 .. Len(segments') : Len(segments'[i]) \in 1 .. segmentSize
      BY <3>1, <3>2, <3>3, <2>7, Zenon
    <3>5. Len(segments') - 1 = m
      BY <2>4, <2>6
    <3>6. Len(segments') <= maxSegments + 1 /\ (segmentOffset' # 0 => Len(segments') = maxSegments + 1)
      BY <1>a, <2>4, <2>6
    <3> QED
      BY <3>1, <3>4, <3>5, <3>6, <1>m, Zenon DEF Shape
  <2>9. PositionsAreIds'
    <3>1. (segmentOffset' + (m + 1) - 1) * segmentSize = added
      <4>1. segmentOffset' + (m + 1) - 1 = segmentOffset + n
        BY <1>b, <2>4
      <4> QED
        BY <4>1, <2>3
    <3>2. lastID' = added'
      BY <3>1, <2>5, <2>6, <1>c DEF lastID
    <3>3. ASSUME NEW i \in 1 .. Len(segments'), NEW j \in 1 .. Len(segments'[i])
          PROVE  segments'[i][j] = (segmentOffset' + i - 1) * segmentSize + j
      <4>1. CASE i \in 1 .. m
        BY <4>1, <2>4, <2>6, ZenonT(40)
      <4>2. CASE i = m + 1
        <5>1. j = 1
          BY <4>2, <2>5, <2>6
        <5> QED
          BY <5>1, <4>2, <3>1, <2>5, <2>6
      <4> QED
        BY <4>1, <4>2, <2>7
    <3> QED
      BY <3>2, <3>3 DEF PositionsAreIds
  <2> QED
    BY <1>t, <2>4, <2>6, <2>8, <2>9 DEF StreamInv
<1> QED
  BY <1>1, <1>2

----------------------------------------------------------------------------
\* A reader that takes what there is, or goes on to another place, leaves the stream
\* alone.
LEMMA TakeInv ==
  ASSUME StreamInv, NEW r \in Readers, NEW something \in Labels, NEW nothing \in Labels,
         Take(r, something, nothing), typ' \in [Filters -> {"logs", "hashes"}]
  PROVE  StreamInv'
<1>1. offset[r] \in Nat \cup {-1} /\ given[r] \in Seq(Nat)
  BY DEF StreamInv, TypeOK
<1>2. doRead(offset[r]).offset \in 0 .. added /\ given[r] \o doRead(offset[r]).items \in Seq(Nat)
  BY <1>1, ReadFacts
<1>3. UNCHANGED <<segments, segmentOffset, adding, writeLocked, added>>
  BY DEF Take, streamVars
<1>4. /\ offset' = [offset EXCEPT ![r] = doRead(offset[r]).offset]
      /\ \/ pc' = [pc EXCEPT ![r] = something]
         \/ pc' = [pc EXCEPT ![r] = nothing]
      /\ \/ given' = [given EXCEPT ![r] = given[r] \o doRead(offset[r]).items]
         \/ given' = given
  BY Zenon DEF Take
<1>5. TypeOK'
  <2>1. offset' \in [Readers -> -1 .. added']
    <3>1. doRead(offset[r]).offset \in -1 .. added
      BY <1>2 DEF StreamInv, TypeOK
    <3> QED
      BY <3>1, <1>3, <1>4, Zenon DEF StreamInv, TypeOK
  <2>2. given' \in [Readers -> Seq(Nat)]
    BY <1>2, <1>4, Zenon DEF StreamInv, TypeOK
  <2>3. pc' \in [Readers -> Labels]
    BY <1>4, Zenon DEF StreamInv, TypeOK
  <2>4. due' \in [Subscribers -> Nat]
    BY DEF Take, StreamInv, TypeOK
  <2> QED
    BY <1>3, <2>1, <2>2, <2>3, <2>4, Zenon DEF StreamInv, TypeOK
<1>6. Shape' /\ PositionsAreIds'
  BY <1>3 DEF StreamInv, Shape, PositionsAreIds, lastID, maxSegments
<1> QED
  BY <1>5, <1>6 DEF StreamInv

LEMMA GotoInv ==
  ASSUME StreamInv, NEW r \in Readers, NEW label \in Labels,
         Goto(r, label), typ' \in [Filters -> {"logs", "hashes"}]
  PROVE  StreamInv'
<1>1. /\ UNCHANGED <<segments, segmentOffset, adding, writeLocked, added, offset, given>>
      /\ pc' = [pc EXCEPT ![r] = label]
  BY DEF Goto, streamVars
<1>2. TypeOK'
  <2>1. pc' \in [Readers -> Labels]
    BY <1>1, Zenon DEF StreamInv, TypeOK
  <2>2. due' \in [Subscribers -> Nat]
    BY DEF Goto, StreamInv, TypeOK
  <2> QED
    BY <1>1, <2>1, <2>2, Zenon DEF StreamInv, TypeOK
<1>3. Shape' /\ PositionsAreIds'
  BY <1>1 DEF StreamInv, Shape, PositionsAreIds, lastID, maxSegments
<1> QED
  BY <1>2, <1>3 DEF StreamInv

LEMMA NextInv == StreamInv /\ [Next]_vars => StreamInv'
<1> SUFFICES ASSUME StreamInv, [Next]_vars PROVE StreamInv'
  OBVIOUS
<1>0. TypeOK
  BY DEF StreamInv
<1>1. CASE AddBegin
  <2>1. UNCHANGED <<segments, segmentOffset, added, pc, offset, typ, given, due>>
    BY <1>1 DEF AddBegin
  <2>2. adding' \in Nat /\ writeLocked' \in BOOLEAN
    BY <1>1, StreamAssumption DEF AddBegin
  <2>3. TypeOK'
    BY <2>1, <2>2, <1>0 DEF TypeOK
  <2>4. Shape' /\ PositionsAreIds'
    BY <2>1 DEF StreamInv, Shape, PositionsAreIds, lastID, maxSegments
  <2> QED
    BY <2>3, <2>4 DEF StreamInv
<1>2. CASE Push
  BY <1>2, PushInv
<1>3. CASE AddEnd
  <2>1. UNCHANGED <<segments, segmentOffset, adding, added, offset, typ, given>>
    BY <1>3 DEF AddEnd
  <2>2. pc' \in [Readers -> Labels] /\ due' \in [Subscribers -> Nat] /\ writeLocked' \in BOOLEAN
    <3>1. pc' \in [Readers -> Labels] /\ due' \in [Subscribers -> Nat]
      BY <1>3, <1>0 DEF AddEnd, TypeOK, Labels
    <3>2. writeLocked' \in BOOLEAN
      BY <1>3, Zenon DEF AddEnd
    <3> QED
      BY <3>1, <3>2
  <2>3. TypeOK'
    BY <2>1, <2>2, <1>0 DEF TypeOK
  <2>4. Shape' /\ PositionsAreIds'
    BY <2>1 DEF StreamInv, Shape, PositionsAreIds, lastID, maxSegments
  <2> QED
    BY <2>3, <2>4 DEF StreamInv
<1>4. ASSUME NEW s \in Subscribers, Step(s) \/ Cancel(s) PROVE StreamInv'
  <2>0. s \in Readers /\ typ \in [Filters -> {"logs", "hashes"}]
    BY <1>0 DEF Readers, TypeOK
  <2>1. CASE Read(s)
    BY <2>0, <2>1, TakeInv DEF Read, Labels
  <2>2. CASE Callback(s)
    BY <2>0, <2>2, GotoInv DEF Callback, Labels
  <2>3. CASE Wait(s)
    BY <2>0, <2>3, GotoInv DEF Wait, Labels
  <2>4. CASE Wake(s)
    BY <2>0, <2>4, GotoInv DEF Wake, Labels
  <2>5. CASE Cancel(s)
    BY <2>0, <2>5, GotoInv DEF Cancel, Labels
  <2> QED
    BY <1>4, <2>1, <2>2, <2>3, <2>4, <2>5 DEF Step
<1>5. ASSUME NEW f \in Filters, NewFilter(f) \/ GetFilterChanges(f) \/ Poll(f) PROVE StreamInv'
  <2>0. f \in Readers /\ typ \in [Filters -> {"logs", "hashes"}]
    BY <1>0 DEF Readers, TypeOK
  <2>1. CASE NewFilter(f)
    <3>1. typ' \in [Filters -> {"logs", "hashes"}]
      BY <2>0, <2>1 DEF NewFilter
    <3> QED
      BY <2>0, <2>1, <3>1, TakeInv DEF NewFilter, Labels
  <2>2. CASE GetFilterChanges(f)
    BY <2>0, <2>2, GotoInv DEF GetFilterChanges, Labels
  <2>3. CASE Poll(f)
    BY <2>0, <2>3, TakeInv DEF Poll, Labels
  <2> QED
    BY <1>5, <2>1, <2>2, <2>3
<1>6. CASE UNCHANGED vars
  BY <1>6 DEF vars, StreamInv, TypeOK, Shape, PositionsAreIds, lastID, maxSegments
<1> QED
  BY <1>1, <1>2, <1>3, <1>4, <1>5, <1>6 DEF Next

\* Types, for any sizes and readers.
THEOREM StreamTypeCorrect == Spec => []TypeOK
<1>1. StreamInv => TypeOK
  BY DEF StreamInv
<1> QED
  BY <1>1, InitInv, NextInv, PTL DEF Spec

\* The ids computed from offsets are those of the items, whatever was pruned (lastID
\* and doRead of stream.go).
THEOREM IdsArePositions == Spec => []PositionsAreIds
<1>1. StreamInv => PositionsAreIds
  BY DEF StreamInv
<1> QED
  BY <1>1, InitInv, NextInv, PTL DEF Spec

\* Add prunes no item that is among the last capacity ones, for any segment size and
\* capacity, multiples of one another or not.
THEOREM CapacityRetained == Spec => []RetainsCapacity
<1>1. StreamInv => RetainsCapacity
  <2> SUFFICES ASSUME StreamInv, segmentOffset # 0
               PROVE  segmentOffset * segmentSize + capacity <= added
    BY DEF StreamInv, Shape, RetainsCapacity
  <2> DEFINE n == Len(segments)
  <2>1. /\ segmentSize \in Nat \ {0} /\ capacity \in Nat /\ maxSegments \in Nat \ {0}
        /\ maxSegments * segmentSize >= capacity
    BY StreamAssumption, Rounded
  <2>2. segmentOffset \in Nat /\ n = maxSegments + 1 /\ segments \in Seq(Seq(Nat)) /\ added \in Nat
    BY DEF StreamInv, Shape, TypeOK
  <2>3. n \in 1 .. n /\ segments # <<>>
    BY <2>1, <2>2
  <2>4. added = (segmentOffset + n - 1) * segmentSize + Len(segments[n]) /\ Len(segments[n]) \in Nat
    BY <2>2, <2>3 DEF StreamInv, PositionsAreIds, lastID, Shape
  <2>5. (segmentOffset + n - 1) * segmentSize = segmentOffset * segmentSize + maxSegments * segmentSize
    BY <2>1, <2>2
  <2>6. segmentOffset * segmentSize \in Nat /\ maxSegments * segmentSize \in Nat
    BY <2>1, <2>2
  <2> QED
    BY <2>1, <2>4, <2>5, <2>6, SMTT(30)
<1> QED
  BY <1>1, InitInv, NextInv, PTL DEF Spec

\* A read that gives nothing: the reader has the last item already.
LEMMA NothingNew ==
  ASSUME StreamInv, NEW o \in 0 .. added, doRead(o).items = <<>>
  PROVE  doRead(o).offset = o
<1>a. segmentSize \in Nat \ {0} /\ maxSegments \in Nat \ {0}
  BY StreamAssumption, Rounded
<1>b. /\ segments \in Seq(Seq(Nat)) /\ segmentOffset \in Nat /\ added \in Nat /\ o \in Nat
      /\ lastID = added
  BY DEF StreamInv, TypeOK, PositionsAreIds
<1> DEFINE q   == o \div segmentSize
           m   == o % segmentSize
           k   == SegmentOf(o)
           n   == Len(segments)
           seg == segments[k + 1]
<1>1. doRead(o) = Nothing
  BY Zenon DEF doRead, Nothing
<1>2. k >= n \/ SubSeq(seg, m + 1, Len(seg)) = <<>>
  <2>1. ~(o < 0)
    BY <1>b
  <2> QED
    BY <2>1, Zenon DEF doRead, FirstItem
<1>3. q \in Nat /\ m \in 0 .. segmentSize - 1 /\ o = q * segmentSize + m /\ q * segmentSize \in Nat
  <2>1. q \in Nat /\ m \in 0 .. segmentSize - 1 /\ o = q * segmentSize + m
    BY <1>a, <1>b, DivMod, Zenon
  <2> HIDE DEF q, m
  <2> QED
    BY <2>1, <1>a
<1>4. k = IF q >= segmentOffset THEN q - segmentOffset ELSE 0
  BY Zenon DEF SegmentOf
<1> HIDE DEF q, m, k
<1>5. k \in Nat /\ n \in Nat
  BY <1>b, <1>3, <1>4
<1>6. n # 0 => added = (segmentOffset + n - 1) * segmentSize + Len(segments[n])
  BY <1>b DEF lastID
<1>7. o >= added
  <2>1. CASE n = 0
    BY <2>1, <1>b DEF lastID
  <2>2. CASE n # 0 /\ k >= n
    <3> DEFINE e == segmentOffset + n - 1
    <3>1. e \in Nat /\ e + 1 <= q
      BY <2>2, <1>b, <1>3, <1>4, <1>5
    <3>2. Len(segments[n]) \in 1 .. segmentSize
      BY <2>2, <1>5 DEF StreamInv, Shape
    <3>3. added = e * segmentSize + Len(segments[n])
      BY <2>2, <1>6
    <3> HIDE DEF e
    <3>4. (e + 1) * segmentSize <= q * segmentSize
      BY <3>1, <1>a, <1>3, TimesMono
    <3>5. (e + 1) * segmentSize = e * segmentSize + segmentSize /\ e * segmentSize \in Nat
      BY <3>1, <1>a
    <3> QED
      BY <3>2, <3>3, <3>4, <3>5, <1>a, <1>b, <1>3
  <2>3. CASE n # 0 /\ ~(k >= n)
    <3>1. k + 1 \in 1 .. n /\ seg \in Seq(Nat) /\ Len(seg) \in Nat
      BY <2>3, <1>b, <1>5
    <3>2. m >= Len(seg)
      <4> HIDE DEF seg
      <4>0. SubSeq(seg, m + 1, Len(seg)) = <<>>
        BY <2>3, <1>2, Zenon
      <4>1. Len(SubSeq(seg, m + 1, Len(seg))) = 0
        <5>1. Len(<<>>) = 0
          OBVIOUS
        <5> QED
          BY <4>0, <5>1, Zenon
      <4> QED
        BY <4>1, <3>1, <1>3, <1>a
    <3>3. k + 1 = n
      <4>1. Len(seg) # segmentSize
        <5> HIDE DEF seg
        <5> QED
          BY <3>1, <3>2, <1>3, <1>a
      <4> QED
        BY <4>1, <3>1, <1>5 DEF StreamInv, Shape
    <3>4. segmentOffset + n - 1 = q
      <4>1. CASE segmentOffset = 0
        BY <4>1, <3>3, <1>3, <1>4, <1>5
      <4>2. CASE segmentOffset # 0
        <5>1. n = maxSegments + 1
          BY <4>2 DEF StreamInv, Shape
        <5>2. k # 0
          BY <5>1, <3>3, <1>5, <1>a
        <5> QED
          BY <5>2, <3>3, <1>3, <1>4, <1>5, <1>b
      <4> QED
        BY <4>1, <4>2
    <3>5. added = q * segmentSize + Len(seg)
      BY <2>3, <3>3, <3>4, <1>6, Zenon
    <3> HIDE DEF seg
    <3> QED
      BY <3>1, <3>2, <3>5, <1>a, <1>b, <1>3
  <2> QED
    BY <2>1, <2>2, <2>3
<1> QED
  BY <1>1, <1>7, <1>b DEF Nothing

\* What a reader is given, and the offset it is told, are those of doRead.
LEMMA GivenByTake ==
  ASSUME StreamInv, [Next]_vars, NEW r \in Readers
  PROVE  \/ given'[r] = given[r] /\ offset'[r] = offset[r]
         \/ /\ offset'[r] = doRead(offset[r]).offset
            /\ given'[r] = given[r] \o doRead(offset[r]).items
<1>0. given \in [Readers -> Seq(Nat)] /\ offset \in [Readers -> Nat \cup {-1}]
  BY SMTT(30) DEF StreamInv, TypeOK
<1>1. ASSUME NEW t \in Readers, NEW something, NEW nothing, Take(t, something, nothing)
      PROVE  \/ given'[r] = given[r] /\ offset'[r] = offset[r]
             \/ /\ offset'[r] = doRead(offset[r]).offset
                /\ given'[r] = given[r] \o doRead(offset[r]).items
  <2>1. /\ offset' = [offset EXCEPT ![t] = doRead(offset[t]).offset]
        /\ \/ given' = [given EXCEPT ![t] = given[t] \o doRead(offset[t]).items]
           \/ doRead(offset[t]).items = <<>> /\ given' = given
    BY <1>1, Zenon DEF Take
  <2>2. given[r] \o <<>> = given[r]
    BY <1>0
  <2>3. CASE t = r
    BY <1>0, <2>1, <2>2, <2>3, Zenon
  <2>4. CASE t # r
    BY <1>0, <2>1, <2>4, Zenon
  <2> QED
    BY <2>3, <2>4, Zenon
<1>2. \/ UNCHANGED <<given, offset>>
      \/ \E t \in Readers : \E something, nothing : Take(t, something, nothing)
  <2>0. Subscribers \subseteq Readers /\ Filters \subseteq Readers
    BY DEF Readers
  <2>2. AddBegin \/ Push \/ AddEnd \/ UNCHANGED vars => UNCHANGED <<given, offset>>
    BY DEF AddBegin, Push, AddEnd, vars
  <2>3. ASSUME NEW s \in Subscribers, Step(s) \/ Cancel(s)
        PROVE  Read(s) \/ UNCHANGED <<given, offset>>
    BY <2>3 DEF Step, Cancel, Callback, Wait, Wake, Goto
  <2>4. ASSUME NEW f \in Filters, NewFilter(f) \/ GetFilterChanges(f) \/ Poll(f)
        PROVE  NewFilter(f) \/ Poll(f) \/ UNCHANGED <<given, offset>>
    BY <2>4 DEF GetFilterChanges, Goto
  <2> QED
    BY <2>0, <2>2, <2>3, <2>4, Zenon DEF Next, Read, NewFilter, Poll
<1> QED
  BY <1>1, <1>2, Zenon

\* What a reader is given is in order, new to it, and without a gap unless the next
\* item was pruned, and its offset moves with what it is given: for any number of
\* readers, any sizes, and any interleaving with the rounds of Add.
THEOREM ReadersInOrder == Spec => ReadsInOrder
<1> DEFINE first(r) == Len(given[r]) + 1
           InOrder(r) ==
             /\ \A i \in first(r) .. Len(given'[r]) :
                  given'[r][i] = given'[r][first(r)] + i - first(r)
             /\ given'[r][first(r)] > offset[r]
             /\ offset[r] >= Pruned => given'[r][first(r)] = offset[r] + 1
             /\ offset'[r] = given'[r][Len(given'[r])]
<1>1. ASSUME StreamInv, [Next]_vars, NEW r \in Readers
      PROVE  IF given'[r] = given[r] THEN offset'[r] = offset[r] \/ offset[r] = -1
             ELSE InOrder(r)
  <2> DEFINE o == offset[r]
             c == doRead(o).items
             g == given[r]
             h == given'[r]
  <2>1. o \in Nat \cup {-1} /\ o \in -1 .. added /\ g \in Seq(Nat) /\ added \in Nat
    BY <1>1 DEF StreamInv, TypeOK
  <2>2. c \in Seq(Nat)
    BY <1>1, <2>1, ReadFacts, Zenon
  <2>3. \/ h = g /\ offset'[r] = o
        \/ offset'[r] = doRead(o).offset /\ h = g \o c
    BY <1>1, GivenByTake, Zenon
  <2>4. CASE c = <<>>
    <3>1. h = g
      BY <2>1, <2>3, <2>4
    <3>2. o # -1 => doRead(o).offset = o
      BY <1>1, <2>1, <2>4, NothingNew
    <3> QED
      BY <2>3, <3>1, <3>2, Zenon
  <2>5. CASE c # <<>> /\ h # g
    <3>1. /\ \A i \in 1 .. Len(c) : c[i] = c[1] + i - 1
          /\ c[1] > o
          /\ o >= Pruned => c[1] = o + 1
          /\ offset'[r] = c[Len(c)]
      BY <1>1, <2>1, <2>3, <2>5, ReadFacts, Zenon
    <3> HIDE DEF c, o, g
    <3>2. Len(c) \in Nat \ {0} /\ Len(g) \in Nat /\ h = g \o c
      BY <2>1, <2>2, <2>3, <2>5
    <3>3. /\ Len(h) = Len(g) + Len(c)
          /\ \A i \in Len(g) + 1 .. Len(h) : h[i] = c[i - Len(g)]
      BY <2>1, <2>2, <3>2
    <3> HIDE DEF h
    <3>4. h[Len(g) + 1] = c[1] /\ h[Len(h)] = c[Len(c)]
      BY <3>2, <3>3
    <3>5. \A i \in Len(g) + 1 .. Len(h) : h[i] = h[Len(g) + 1] + i - (Len(g) + 1)
      <4> TAKE i \in Len(g) + 1 .. Len(h)
      <4>1. i - Len(g) \in 1 .. Len(c) /\ h[i] = c[i - Len(g)]
        BY <3>2, <3>3
      <4>2. c[i - Len(g)] = c[1] + (i - Len(g)) - 1 /\ c[1] \in Nat
        BY <4>1, <3>1, <3>2, <2>2
      <4> QED
        BY <4>1, <4>2, <3>2, <3>4
    <3> QED
      BY <3>1, <3>4, <3>5, <2>5 DEF h, g, o
  <2>6. CASE h = g /\ c # <<>>
    <3> HIDE DEF c, g, h
    <3>1. Len(g \o c) # Len(g)
      BY <2>1, <2>2, <2>6
    <3>2. offset'[r] = o
      BY <2>3, <2>6, <3>1
    <3> QED
      BY <2>6, <3>2 DEF h, g
  <2> QED
    BY <2>4, <2>5, <2>6
<1>2. StreamInv /\ [Next]_vars =>
        [\A r \in Readers :
           IF given'[r] = given[r] THEN offset'[r] = offset[r] \/ offset[r] = -1
           ELSE InOrder(r)]_vars
  BY <1>1
<1> QED
  BY <1>2, InitInv, NextInv, PTL DEF Spec, ReadsInOrder

==============================================================================
