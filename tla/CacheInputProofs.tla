--------------------------- MODULE CacheInputProofs ---------------------------
(***************************************************************************)
(* Two components that keep what they promise behind one lock.             *)
(*                                                                         *)
(* The ring cache of lib/cache.c, for any size, any bytes and any threads: *)
(* it implements the bounded byte stream of ByteStream, and with one       *)
(* reader and one writer no condition wait outlives its reason.            *)
(*                                                                         *)
(* The input chip of driver/core/cavan_input_core.c, for any devices and   *)
(* any tasks: its threads, its activity and its power follow the lists of  *)
(* enabled devices.                                                        *)
(***************************************************************************)
EXTENDS CavanCache, InputChip, SequenceTheorems, TLAPS

-----------------------------------------------------------------------------
(* Offsets around the ring.                                                  *)

\* Where the byte d places after an offset is, by cases instead of by %.
Wrap(x) == IF x < Size THEN x ELSE x - Size

\* One turn around the ring at most: % subtracts Size once or not at all.
LEMMA WrapIsMod ==
    ASSUME NEW x \in 0..(2 * Size - 1)
    PROVE  x % Size = Wrap(x) /\ Wrap(x) \in Offsets
  <1>1. Size \in Nat \ {0}
    BY CacheAssumption
  <1>2. CASE x < Size
    <2>1. x \in 0..(Size - 1)
      BY <1>1, <1>2
    <2>2. x % Size = x
      BY <1>1, <2>1, SMT
    <2> QED
      BY <1>2, <2>1, <2>2 DEF Wrap, Offsets
  <1>3. CASE ~(x < Size)
    <2>1. x \in Size..(2 * Size - 1)
      BY <1>1, <1>3
    <2>2. x % Size = x - Size
      BY <1>1, <2>1, SMT
    <2>3. x - Size \in 0..(Size - 1)
      BY <1>1, <2>1
    <2> QED
      BY <1>3, <2>2, <2>3 DEF Wrap, Offsets
  <1> QED
    BY <1>2, <1>3

RingOK == head \in Offsets /\ tail \in Offsets /\ mem \in [Offsets -> Bytes]

\* cavan_cache_used_space and cavan_cache_free_space share the ring between them but
\* for one byte.
LEMMA Spaces ==
    ASSUME head \in Offsets, tail \in Offsets
    PROVE  /\ UsedSpace \in 0..(Size - 1) /\ FreeSpace \in 0..(Size - 1)
           /\ UsedSpace + FreeSpace = Size - 1
           /\ UsedRight \in 0..Size /\ FreeRight \in 0..Size
  BY CacheAssumption DEF Offsets, UsedSpace, FreeSpace, UsedRight, FreeRight

\* The contents of the ring without %.
LEMMA ContentsIs ==
    ASSUME RingOK
    PROVE  /\ Contents = [i \in 1..UsedSpace |-> mem[Wrap(head + i - 1)]]
           /\ Contents \in Seq(Bytes) /\ Len(Contents) = UsedSpace
           /\ \A i \in 1..UsedSpace : Wrap(head + i - 1) \in Offsets
  <1>1. (Size + tail - head) % Size = UsedSpace
    <2>1. Size + tail - head \in 0..(2 * Size - 1)
      BY CacheAssumption DEF RingOK, Offsets
    <2>2. Wrap(Size + tail - head) = UsedSpace
      BY CacheAssumption DEF RingOK, Offsets, Wrap, UsedSpace
    <2> QED
      BY <2>1, <2>2, WrapIsMod
  <1>2. \A i \in 1..UsedSpace : head + i - 1 \in 0..(2 * Size - 1)
    BY CacheAssumption, Spaces DEF RingOK, Offsets
  <1>3. \A i \in 1..UsedSpace : (head + i - 1) % Size = Wrap(head + i - 1)
                                /\ Wrap(head + i - 1) \in Offsets
    BY <1>2, WrapIsMod
  <1>4. Contents = [i \in 1..UsedSpace |-> mem[Wrap(head + i - 1)]]
    BY <1>1, <1>3 DEF Contents
  <1>5. UsedSpace \in Nat
    BY Spaces, CacheAssumption DEF RingOK
  <1>6. \A i \in 1..UsedSpace : mem[Wrap(head + i - 1)] \in Bytes
    BY <1>3 DEF RingOK
  <1>7. Contents \in Seq(Bytes) /\ Len(Contents) = UsedSpace
    BY <1>4, <1>5, <1>6
  <1> QED
    BY <1>3, <1>4, <1>7

-----------------------------------------------------------------------------
(* The two copies.                                                           *)

\* cavan_cache_write moves tail over the bytes it copied.
LEMMA TailMoves ==
    ASSUME head \in Offsets, tail \in Offsets, NEW n \in 1..FreeSpace,
           tail' = Advance(tail, n, FreeRight), head' = head
    PROVE  /\ tail' \in Offsets /\ UsedSpace' = UsedSpace + n /\ FreeSpace' = FreeSpace - n
  <1>1. CASE tail < head
    BY <1>1, CacheAssumption DEF Offsets, Advance, UsedSpace, FreeSpace, FreeRight
  <1>2. CASE ~(tail < head)
    <2>1. FreeRight = Size - tail /\ FreeSpace = (Size - tail) + head - 1
      BY <1>2 DEF FreeRight, FreeSpace
    <2>2. CASE n > FreeRight
      BY <1>2, <2>1, <2>2, CacheAssumption DEF Offsets, Advance, UsedSpace, FreeSpace
    <2>3. CASE ~(n > FreeRight)
      BY <1>2, <2>1, <2>3, CacheAssumption DEF Offsets, Advance, UsedSpace, FreeSpace
    <2> QED
      BY <2>2, <2>3
  <1> QED
    BY <1>1, <1>2

\* The two memcpy calls put byte j of s where the j-th byte after the contents belongs,
\* and leave the contents alone.
LEMMA CopyInPlaces ==
    ASSUME RingOK, NEW s \in Seq(Bytes), Len(s) \in 1..FreeSpace
    PROVE  /\ CopyIn(s) \in [Offsets -> Bytes]
           /\ \A i \in 1..UsedSpace : CopyIn(s)[Wrap(head + i - 1)] = mem[Wrap(head + i - 1)]
           /\ \A j \in 1..Len(s) : CopyIn(s)[Wrap(head + UsedSpace + j - 1)] = s[j]
  <1> DEFINE n == Len(s)
  <1>1. n \in Nat /\ n \in 1..FreeSpace /\ \A j \in 1..n : s[j] \in Bytes
    BY Spaces, CacheAssumption DEF RingOK
  <1> HIDE DEF n
  <1> DEFINE C(i) == IF tail <= i /\ i < tail + n THEN s[i - tail + 1]
                     ELSE IF n > FreeRight /\ i < n - FreeRight THEN s[FreeRight + i + 1]
                     ELSE mem[i]
  <1>2. CopyIn(s) = [i \in Offsets |-> C(i)]
    BY DEF CopyIn, n
  <1>3. ASSUME NEW i \in Offsets PROVE C(i) \in Bytes
    <2>1. CASE tail <= i /\ i < tail + n
      <3>1. i - tail + 1 \in 1..n
        BY <2>1, <1>1 DEF RingOK, Offsets
      <3> QED
        BY <2>1, <3>1, <1>1
    <2>2. CASE ~(tail <= i /\ i < tail + n) /\ n > FreeRight /\ i < n - FreeRight
      <3>1. FreeRight + i + 1 \in 1..n
        BY <2>2, <1>1, Spaces DEF RingOK, Offsets
      <3> QED
        BY <2>2, <3>1, <1>1
    <2>3. CASE ~(tail <= i /\ i < tail + n) /\ ~(n > FreeRight /\ i < n - FreeRight)
      BY <2>3 DEF RingOK
    <2> QED
      BY <2>1, <2>2, <2>3
  <1>4. ASSUME NEW i \in 1..UsedSpace
        PROVE  CopyIn(s)[Wrap(head + i - 1)] = mem[Wrap(head + i - 1)]
    <2> DEFINE x == Wrap(head + i - 1)
    <2>1. x \in Offsets
      BY ContentsIs
    <2>2. ~(tail <= x /\ x < tail + n)
      BY <1>1, CacheAssumption DEF RingOK, Offsets, Wrap, UsedSpace, FreeSpace
    <2>3. ~(n > FreeRight /\ x < n - FreeRight)
      BY <1>1, CacheAssumption DEF RingOK, Offsets, Wrap, UsedSpace, FreeSpace, FreeRight
    <2> HIDE DEF x
    <2>4. C(x) = mem[x]
      BY <2>2, <2>3
    <2> QED
      BY <1>2, <2>1, <2>4 DEF x
  <1>5. ASSUME NEW j \in 1..n
        PROVE  CopyIn(s)[Wrap(head + UsedSpace + j - 1)] = s[j]
    <2> DEFINE x == Wrap(head + UsedSpace + j - 1)
    <2>1. x \in Offsets
      BY <1>1, CacheAssumption DEF RingOK, Offsets, Wrap, UsedSpace, FreeSpace
    <2>2. CASE tail + j - 1 < Size
      <3>1. x = tail + j - 1 /\ tail <= x /\ x < tail + n /\ x - tail + 1 = j
        BY <1>1, <2>2, CacheAssumption DEF RingOK, Offsets, Wrap, UsedSpace, FreeSpace
      <3> HIDE DEF x
      <3>2. C(x) = s[j]
        BY <3>1
      <3> QED
        BY <1>2, <2>1, <3>2 DEF x
    <2>3. CASE ~(tail + j - 1 < Size)
      <3>1. /\ x = tail + j - 1 - Size /\ ~(tail <= x)
            /\ n > FreeRight /\ x < n - FreeRight /\ FreeRight + x + 1 = j
        BY <1>1, <2>3, CacheAssumption DEF RingOK, Offsets, Wrap, UsedSpace, FreeSpace, FreeRight
      <3> HIDE DEF x
      <3>2. C(x) = s[j]
        BY <3>1
      <3> QED
        BY <1>2, <2>1, <3>2 DEF x
    <2> QED
      BY <2>2, <2>3
  <1> QED
    BY <1>2, <1>3, <1>4, <1>5 DEF n

\* A chunk that is written is appended to the contents.
LEMMA WriteAppends ==
    ASSUME RingOK, NEW s \in Seq(Bytes), Len(s) \in 1..FreeSpace,
           mem' = CopyIn(s), tail' = Advance(tail, Len(s), FreeRight), head' = head
    PROVE  RingOK' /\ Contents' = Contents \o s
  <1>1. tail' \in Offsets /\ UsedSpace' = UsedSpace + Len(s)
    BY TailMoves DEF RingOK
  <1>2. RingOK'
    BY <1>1, CopyInPlaces DEF RingOK
  <1>3. /\ Contents' = [i \in 1..UsedSpace' |-> mem'[Wrap(head' + i - 1)]]
        /\ Contents' \in Seq(Bytes) /\ Len(Contents') = UsedSpace'
    <2>1. (RingOK => /\ Contents = [i \in 1..UsedSpace |-> mem[Wrap(head + i - 1)]]
                     /\ Contents \in Seq(Bytes) /\ Len(Contents) = UsedSpace)'
      BY ContentsIs, PTL
    <2> QED
      BY <1>2, <2>1 DEF Wrap
  <1>4. /\ Contents = [i \in 1..UsedSpace |-> mem[Wrap(head + i - 1)]]
        /\ Contents \in Seq(Bytes) /\ Len(Contents) = UsedSpace
    BY ContentsIs
  <1>5. UsedSpace \in Nat /\ Len(s) \in Nat
    BY Spaces, CacheAssumption DEF RingOK
  <1>6. /\ Contents \o s \in Seq(Bytes) /\ Len(Contents \o s) = UsedSpace + Len(s)
        /\ \A i \in 1..(UsedSpace + Len(s)) :
               (Contents \o s)[i] = IF i <= UsedSpace THEN Contents[i] ELSE s[i - UsedSpace]
    <2>1. /\ Contents \o s \in Seq(Bytes) /\ Len(Contents \o s) = Len(Contents) + Len(s)
          /\ \A i \in 1..(Len(Contents) + Len(s)) :
                 (Contents \o s)[i] = IF i <= Len(Contents) THEN Contents[i] ELSE s[i - Len(Contents)]
      BY <1>4, ConcatProperties, Zenon
    <2> QED
      BY <1>4, <2>1, Zenon
  <1>7. ASSUME NEW i \in 1..(UsedSpace + Len(s)) PROVE Contents'[i] = (Contents \o s)[i]
    <2>1. Contents'[i] = CopyIn(s)[Wrap(head + i - 1)]
      BY <1>1, <1>3
    <2>2. CASE i <= UsedSpace
      <3>1. i \in 1..UsedSpace
        BY <1>5, <1>7, <2>2
      <3>2. (Contents \o s)[i] = mem[Wrap(head + i - 1)]
        BY <1>4, <1>6, <2>2, <3>1
      <3> QED
        BY <2>1, <3>1, <3>2, CopyInPlaces
    <2>3. CASE ~(i <= UsedSpace)
      <3> DEFINE j == i - UsedSpace
      <3>1. j \in 1..Len(s) /\ head + UsedSpace + j - 1 = head + i - 1
        BY <1>5, <1>7, <2>3 DEF RingOK, Offsets
      <3>2. (Contents \o s)[i] = s[j]
        BY <1>6, <2>3
      <3> HIDE DEF j
      <3>3. CopyIn(s)[Wrap(head + UsedSpace + j - 1)] = s[j]
        BY <3>1, CopyInPlaces
      <3> QED
        BY <2>1, <3>1, <3>2, <3>3
    <2> QED
      BY <2>2, <2>3
  <1>8. Contents' = Contents \o s
    BY <1>1, <1>3, <1>6, <1>7, SeqEqual
  <1> QED
    BY <1>2, <1>8

\* cavan_cache_read moves head over the bytes it copied.
LEMMA HeadMoves ==
    ASSUME head \in Offsets, tail \in Offsets, NEW n \in 1..UsedSpace,
           head' = Advance(head, n, UsedRight), tail' = tail
    PROVE  /\ head' \in Offsets /\ UsedSpace' = UsedSpace - n
           /\ \A i \in 1..(UsedSpace - n) : Wrap(head' + i - 1) = Wrap(head + (n + i) - 1)
  <1>1. CASE head > tail
    <2>1. UsedRight = Size - head /\ UsedSpace = (Size - head) + tail
      BY <1>1 DEF UsedRight, UsedSpace
    <2>2. CASE n > UsedRight
      <3>1. head' = n - (Size - head) /\ head' \in Offsets /\ ~(head' > tail)
        BY <1>1, <2>1, <2>2, CacheAssumption DEF Offsets, Advance
      <3> QED
        BY <1>1, <2>1, <2>2, <3>1, CacheAssumption DEF Offsets, UsedSpace, Wrap
    <2>3. CASE ~(n > UsedRight) /\ head + n >= Size
      <3>1. head' = 0 /\ n = Size - head
        BY <1>1, <2>1, <2>3, CacheAssumption DEF Offsets, Advance
      <3> QED
        BY <1>1, <2>1, <2>3, <3>1, CacheAssumption DEF Offsets, UsedSpace, Wrap
    <2>4. CASE ~(n > UsedRight) /\ ~(head + n >= Size)
      <3>1. head' = head + n
        BY <1>1, <2>1, <2>4, CacheAssumption DEF Offsets, Advance
      <3> QED
        BY <1>1, <2>1, <2>4, <3>1, CacheAssumption DEF Offsets, UsedSpace, Wrap
    <2> QED
      BY <2>2, <2>3, <2>4
  <1>2. CASE ~(head > tail)
    <2>1. UsedRight = tail - head /\ UsedSpace = tail - head
      BY <1>2 DEF UsedRight, UsedSpace
    <2>2. head' = head + n
      BY <1>2, <2>1, CacheAssumption DEF Offsets, Advance
    <2> QED
      BY <1>2, <2>1, <2>2, CacheAssumption DEF Offsets, UsedSpace, Wrap
  <1> QED
    BY <1>1, <1>2

\* The two memcpy calls of cavan_cache_read copy the oldest bytes, in order.
LEMMA CopyOutTakes ==
    ASSUME RingOK, NEW n \in 1..UsedSpace
    PROVE  CopyOut(n) = SubSeq(Contents, 1, n)
  <1>1. n \in Nat /\ UsedSpace \in Nat
    BY Spaces, CacheAssumption DEF RingOK
  <1>2. \A i \in 1..n : i \in 1..UsedSpace
    BY <1>1
  <1>3. ASSUME NEW i \in 1..n PROVE CopyOut(n)[i] = Contents[i]
    <2>1. Contents[i] = mem[Wrap(head + i - 1)]
      BY <1>2, ContentsIs
    <2>2. CASE n > UsedRight /\ i > UsedRight
      <3>1. i - UsedRight - 1 = Wrap(head + i - 1)
        BY <1>1, <1>2, <2>2, CacheAssumption DEF RingOK, Offsets, UsedRight, UsedSpace, Wrap
      <3> QED
        BY <2>1, <2>2, <3>1 DEF CopyOut
    <2>3. CASE ~(n > UsedRight /\ i > UsedRight)
      <3>1. head + i - 1 = Wrap(head + i - 1)
        BY <1>1, <1>2, <2>3, CacheAssumption DEF RingOK, Offsets, UsedRight, UsedSpace, Wrap
      <3> QED
        BY <2>1, <2>3, <3>1 DEF CopyOut
    <2> QED
      BY <2>2, <2>3
  <1>4. Contents \in Seq(Bytes) /\ Len(Contents) = UsedSpace
    BY ContentsIs
  <1>5. \A i \in 1..n : Contents[i] \in Bytes
    BY <1>2, <1>4, ElementOfSeq
  <1>6. CopyOut(n) \in Seq(Bytes) /\ Len(CopyOut(n)) = n
    <2>1. DOMAIN CopyOut(n) = 1..n /\ CopyOut(n) = [i \in 1..n |-> CopyOut(n)[i]]
      BY DEF CopyOut
    <2>2. \A i \in 1..n : CopyOut(n)[i] \in Bytes
      BY <1>3, <1>5
    <2> QED
      BY <1>1, <2>1, <2>2
  <1>7. /\ SubSeq(Contents, 1, n) \in Seq(Bytes) /\ Len(SubSeq(Contents, 1, n)) = n
        /\ \A i \in 1..n : SubSeq(Contents, 1, n)[i] = Contents[i]
    BY <1>1, <1>4, <1>5
  <1> QED
    BY <1>3, <1>6, <1>7, SeqEqual

\* A chunk that is read is the front of the contents, and the rest stays.
LEMMA ReadTakes ==
    ASSUME RingOK, NEW n \in 1..UsedSpace,
           mem' = mem, head' = Advance(head, n, UsedRight), tail' = tail
    PROVE  RingOK' /\ Contents' = SubSeq(Contents, n + 1, Len(Contents))
  <1>1. /\ head' \in Offsets /\ UsedSpace' = UsedSpace - n
        /\ \A i \in 1..(UsedSpace - n) : Wrap(head' + i - 1) = Wrap(head + (n + i) - 1)
    BY HeadMoves DEF RingOK
  <1>2. RingOK'
    BY <1>1 DEF RingOK
  <1>3. /\ Contents' = [i \in 1..UsedSpace' |-> mem'[Wrap(head' + i - 1)]]
        /\ Contents' \in Seq(Bytes) /\ Len(Contents') = UsedSpace'
    <2>1. (RingOK => /\ Contents = [i \in 1..UsedSpace |-> mem[Wrap(head + i - 1)]]
                     /\ Contents \in Seq(Bytes) /\ Len(Contents) = UsedSpace)'
      BY ContentsIs, PTL
    <2> QED
      BY <1>2, <2>1 DEF Wrap
  <1>4. /\ Contents = [i \in 1..UsedSpace |-> mem[Wrap(head + i - 1)]]
        /\ Contents \in Seq(Bytes) /\ Len(Contents) = UsedSpace
    BY ContentsIs
  <1>5. UsedSpace \in Nat /\ n \in Nat /\ n <= UsedSpace
    BY Spaces, CacheAssumption DEF RingOK
  <1> DEFINE s == SubSeq(Contents, n + 1, UsedSpace)
  <1>6. /\ s \in Seq(Bytes) /\ Len(s) = UsedSpace - n
        /\ \A i \in 1..(UsedSpace - n) : s[i] = Contents[n + i]
    <2>1. \A i \in (n + 1)..UsedSpace : Contents[i] \in Bytes
      BY <1>4, <1>5, ElementOfSeq
    <2>2. /\ s \in Seq(Bytes) /\ Len(s) = IF n + 1 <= UsedSpace THEN UsedSpace - (n + 1) + 1 ELSE 0
          /\ \A i \in 1..(UsedSpace - (n + 1) + 1) : s[i] = Contents[(n + 1) + i - 1]
      BY <1>5, <2>1, SubSeqProperties
    <2> HIDE DEF s
    <2>3. UsedSpace - (n + 1) + 1 = UsedSpace - n /\ (n + 1 <= UsedSpace \/ UsedSpace - n = 0)
      BY <1>5
    <2>4. \A i \in 1..(UsedSpace - n) : (n + 1) + i - 1 = n + i
      BY <1>5
    <2> QED
      BY <2>2, <2>3, <2>4
  <1> HIDE DEF s
  <1>7. ASSUME NEW i \in 1..(UsedSpace - n) PROVE Contents'[i] = s[i]
    <2>1. Contents'[i] = mem[Wrap(head + (n + i) - 1)]
      BY <1>1, <1>3
    <2>2. n + i \in 1..UsedSpace
      BY <1>5
    <2> QED
      BY <1>4, <1>6, <2>1, <2>2
  <1>8. Contents' = s
    BY <1>1, <1>3, <1>6, <1>7, SeqEqual
  <1> QED
    BY <1>2, <1>4, <1>8 DEF s

-----------------------------------------------------------------------------
(* Types.                                                                    *)

\* Strings(n) are the byte sequences of 1 to n bytes.
LEMMA StringsAre ==
    ASSUME NEW n \in Nat
    PROVE  \A s : s \in Strings(n) <=> s \in Seq(Bytes) /\ Len(s) \in 1..n
  <1>1. ASSUME NEW s, s \in Strings(n) PROVE s \in Seq(Bytes) /\ Len(s) \in 1..n
    <2>1. PICK k \in 1..n : s \in [1..k -> Bytes]
      BY <1>1 DEF Strings
    <2> QED
      BY <2>1
  <1>2. ASSUME NEW s, s \in Seq(Bytes), Len(s) \in 1..n PROVE s \in Strings(n)
    <2>1. s \in [1..Len(s) -> Bytes]
      BY <1>2
    <2> QED
      BY <1>2, <2>1 DEF Strings
  <1> QED
    BY <1>1, <1>2

BufferOK == \A w \in Writers : IF wpc[w] = "idle" THEN wbuf[w] = <<>> ELSE wbuf[w] \in Strings(MaxLen)
WokenOK == woken \subseteq {w \in Writers : wpc[w] = "wait"} \cup {r \in Readers : rpc[r] = "wait"}

\* The types of what the threads keep.
ThreadsOK ==
    /\ closed \in BOOLEAN
    /\ closing \in {"none", "rdcond", "wrcond"}
    /\ wpc \in [Writers -> {"idle", "call", "wait"}]
    /\ DOMAIN wbuf = Writers /\ wbuf = [w \in Writers |-> wbuf[w]]
    /\ BufferOK
    /\ rpc \in [Readers -> {"idle", "call", "wait"}]
    /\ rcall \in [Readers -> Calls]
    /\ WokenOK
    /\ out \in Strings(Size - 1) \cup {<<>>}

CacheOK == RingOK /\ ThreadsOK

\* A ring has offsets.
LEMMA OffsetsExist == 0 \in Offsets /\ Size - 1 \in Nat /\ MaxLen \in Nat
  BY CacheAssumption DEF Offsets

\* The call of a reader that makes none is one.
LEMMA NoCallOK == NoCall \in Calls
  BY CacheAssumption DEF NoCall, Calls

\* cavan_cache_create establishes the types.
LEMMA InitOK == CacheInit => CacheOK
  <1> SUFFICES ASSUME CacheInit
               PROVE  CacheOK
    OBVIOUS
  <1>1. RingOK
    BY OffsetsExist, CacheAssumption DEF CacheInit, RingOK
  <1>2. BufferOK /\ WokenOK
    BY DEF CacheInit, BufferOK, WokenOK
  <1>3. rcall \in [Readers -> Calls]
    BY NoCallOK DEF CacheInit
  <1> QED
    BY <1>1, <1>2, <1>3 DEF CacheInit, CacheOK, ThreadsOK

\* A signal goes to a thread that waits, and the caller is not one of them.
LEMMA SignalOK ==
    ASSUME NEW waiting, NEW x, CondSignal(waiting, x)
    PROVE  /\ woken' \subseteq (woken \ {x}) \cup (waiting \ {x})
           /\ woken \ {x} \subseteq woken'
           /\ waiting \ {x} # {} => (waiting \ {x}) \cap woken' # {}
  BY DEF CondSignal

\* The chunk a writer copies: what fits, and what is left of it.
LEMMA ChunkFacts ==
    ASSUME CacheOK, NEW w \in Writers, Running(wpc[w]), FreeSpace > 0
    PROVE  LET n == Least(FreeSpace, Len(wbuf[w]))
               s == SubSeq(wbuf[w], 1, n)
               rest == SubSeq(wbuf[w], n + 1, Len(wbuf[w]))
           IN  /\ wbuf[w] \in Seq(Bytes) /\ Len(wbuf[w]) \in 1..MaxLen
               /\ n \in 1..FreeSpace /\ n \in 1..Len(wbuf[w])
               /\ s \in Seq(Bytes) /\ Len(s) = n
               /\ rest \in Strings(MaxLen) \cup {<<>>}
               /\ rest # <<>> => n = FreeSpace
  <1> DEFINE b == wbuf[w]
             n == Least(FreeSpace, Len(b))
             s == SubSeq(b, 1, n)
             rest == SubSeq(b, n + 1, Len(b))
  <1>1. b \in Seq(Bytes) /\ Len(b) \in 1..MaxLen
    BY StringsAre, OffsetsExist DEF CacheOK, ThreadsOK, BufferOK, Running
  <1> HIDE DEF b
  <1>2. FreeSpace \in Nat \ {0} /\ Len(b) \in Nat \ {0} /\ Len(b) <= MaxLen
    BY <1>1, Spaces, CacheAssumption DEF CacheOK, RingOK
  <1>3. /\ n \in 1..FreeSpace /\ n \in 1..Len(b) /\ n \in Nat
        /\ n # FreeSpace => n = Len(b)
    BY <1>2 DEF Least
  <1> HIDE DEF n
  <1>4. s \in Seq(Bytes) /\ Len(s) = n
    <2>1. \A i \in 1..n : b[i] \in Bytes
      BY <1>1, <1>2, <1>3, ElementOfSeq
    <2> QED
      BY <1>3, <2>1, SubSeqProperties
  <1>5. rest \in Seq(Bytes) /\ Len(rest) = IF n + 1 <= Len(b) THEN Len(b) - (n + 1) + 1 ELSE 0
    <2>1. \A i \in (n + 1)..Len(b) : b[i] \in Bytes
      BY <1>1, <1>2, <1>3, ElementOfSeq
    <2> QED
      BY <1>2, <1>3, <2>1, SubSeqProperties
  <1> HIDE DEF rest, s
  <1>6. n + 1 <= Len(b) => Len(rest) \in 1..MaxLen
    BY <1>2, <1>3, <1>5, OffsetsExist
  <1>7. ~(n + 1 <= Len(b)) => rest = <<>>
    BY <1>2, <1>3, SubSeqEmpty DEF rest
  <1>8. rest \in Strings(MaxLen) \cup {<<>>}
    BY <1>5, <1>6, <1>7, StringsAre, OffsetsExist
  <1>9. rest # <<>> => n = FreeSpace
    BY <1>2, <1>3, <1>7
  <1> QED
    BY <1>1, <1>3, <1>4, <1>8, <1>9 DEF b, n, s, rest

\* The effect of a write chunk on the ring and on the writer.
LEMMA WriteEffect ==
    ASSUME CacheOK, NEW w \in Writers, WriteChunk(w)
    PROVE  \E n \in 1..Len(wbuf[w]) :
             /\ RingOK' /\ n <= FreeSpace
             /\ Contents' = Contents \o SubSeq(wbuf[w], 1, n)
             /\ FreeSpace' = FreeSpace - n /\ UsedSpace' = UsedSpace + n
             /\ \E rest \in Strings(MaxLen) \cup {<<>>} :
                  /\ wbuf' = [wbuf EXCEPT ![w] = rest]
                  /\ wpc' = [wpc EXCEPT ![w] = IF rest = <<>> THEN "idle" ELSE "wait"]
                  /\ rest # <<>> => ~closed /\ FreeSpace' = 0
                  /\ rest = SubSeq(wbuf[w], n + 1, Len(wbuf[w])) \/ (closed /\ rest = <<>>)
  <1> DEFINE n == Least(FreeSpace, Len(wbuf[w]))
             s == SubSeq(wbuf[w], 1, n)
             left == SubSeq(wbuf[w], n + 1, Len(wbuf[w]))
             rest == IF closed THEN <<>> ELSE left
  <1>1. /\ n \in 1..FreeSpace /\ n \in 1..Len(wbuf[w])
        /\ s \in Seq(Bytes) /\ Len(s) = n
        /\ left \in Strings(MaxLen) \cup {<<>>}
        /\ left # <<>> => n = FreeSpace
    BY ChunkFacts DEF WriteChunk
  <1>2. /\ mem' = CopyIn(s) /\ tail' = Advance(tail, n, FreeRight) /\ head' = head
        /\ wbuf' = [wbuf EXCEPT ![w] = rest]
        /\ wpc' = [wpc EXCEPT ![w] = IF rest = <<>> THEN "idle" ELSE "wait"]
    BY DEF WriteChunk
  <1> HIDE DEF n, s, left
  <1>3. RingOK' /\ Contents' = Contents \o s
    BY <1>1, <1>2, WriteAppends DEF CacheOK
  <1>4. FreeSpace' = FreeSpace - n /\ UsedSpace' = UsedSpace + n
    BY <1>1, <1>2, TailMoves DEF CacheOK, RingOK
  <1>5. FreeSpace \in Nat /\ n <= FreeSpace /\ (n = FreeSpace => FreeSpace - n = 0)
    BY <1>1, Spaces, CacheAssumption DEF CacheOK, RingOK
  <1>6. rest # <<>> => ~closed /\ FreeSpace' = 0
    BY <1>1, <1>4, <1>5
  <1> QED
    BY <1>1, <1>2, <1>3, <1>4, <1>5, <1>6 DEF s, left

\* The call a reader goes on with still wants something.
LEMMA NextCallOK ==
    ASSUME NEW c \in Calls, NEW n \in 1..c.want, NEW byte, ~Done(c, n, byte)
    PROVE  NextCall(c, n, byte) \in Calls
  <1>1. c.want \in 1..MaxLen /\ c.want \in Nat /\ MaxLen \in Nat
    BY OffsetsExist DEF Calls
  <1>2. CASE c.mode = "fill"
    <2>1. c.want - n \in 1..MaxLen
      BY <1>1, <1>2 DEF Done
    <2>2. [c EXCEPT !.want = c.want - n] \in Calls
      BY <2>1 DEF Calls
    <2> QED
      BY <1>2, <2>2 DEF NextCall
  <1>3. CASE c.mode = "line" /\ byte # Newline
    <2>1. c.want - 1 \in 1..MaxLen
      BY <1>1, <1>3 DEF Done
    <2>2. [c EXCEPT !.want = c.want - 1, !.some = TRUE] \in Calls
      BY <2>1 DEF Calls
    <2>3. NextCall(c, n, byte) = [c EXCEPT !.want = c.want - 1, !.some = TRUE]
      BY <1>3 DEF NextCall
    <2> QED
      BY <2>2, <2>3
  <1>4. CASE ~(c.mode = "fill") /\ ~(c.mode = "line" /\ byte # Newline)
    <2>1. NextCall(c, n, byte) = c
      BY <1>4 DEF NextCall
    <2> QED
      BY <2>1
  <1> QED
    BY <1>2, <1>3, <1>4

\* The effect of a read chunk on the ring and on the reader.
LEMMA ReadEffect ==
    ASSUME CacheOK, NEW r \in Readers, ReadChunk(r)
    PROVE  \E n \in 1..UsedSpace :
             /\ RingOK' /\ out' = SubSeq(Contents, 1, n) /\ out' \in Strings(Size - 1)
             /\ Contents' = SubSeq(Contents, n + 1, Len(Contents))
             /\ \E pc \in {"idle", "call"}, c \in Calls :
                  rpc' = [rpc EXCEPT ![r] = pc] /\ rcall' = [rcall EXCEPT ![r] = c]
  <1> DEFINE c == rcall[r]
             most == IF c.mode = "line" THEN 1 ELSE c.want
             n == Least(UsedSpace - c.reserved, most)
  <1>1. c \in Calls /\ c.want \in 1..MaxLen /\ c.reserved \in 0..MaxReserved
    BY DEF CacheOK, ThreadsOK, Calls
  <1>2. UsedSpace > c.reserved
    BY DEF ReadChunk, Available
  <1>3. /\ out' = CopyOut(n) /\ head' = Advance(head, n, UsedRight)
        /\ \/ rpc' = [rpc EXCEPT ![r] = "idle"] /\ rcall' = [rcall EXCEPT ![r] = NoCall]
           \/ /\ ~Done(c, n, mem[head]) /\ rpc' = [rpc EXCEPT ![r] = "call"]
              /\ rcall' = [rcall EXCEPT ![r] = NextCall(c, n, mem[head])]
        /\ UNCHANGED <<tail, mem>>
    BY DEF ReadChunk
  <1> HIDE DEF c
  <1>4. UsedSpace \in Nat /\ UsedSpace <= Size - 1 /\ MaxLen \in Nat /\ MaxReserved \in Nat /\ Size - 1 \in Nat
    BY Spaces, CacheAssumption DEF CacheOK, RingOK
  <1>5. most \in 1..c.want
    BY <1>1, <1>4
  <1> HIDE DEF most
  <1>6. n \in 1..UsedSpace /\ n \in 1..c.want /\ n \in 1..(Size - 1) /\ n \in Nat
    BY <1>1, <1>2, <1>4, <1>5 DEF Least
  <1> HIDE DEF n
  <1>7. RingOK' /\ Contents' = SubSeq(Contents, n + 1, Len(Contents))
    BY <1>3, <1>6, ReadTakes DEF CacheOK
  <1>8. out' = SubSeq(Contents, 1, n)
    BY <1>3, <1>6, CopyOutTakes DEF CacheOK
  <1>9. out' \in Strings(Size - 1)
    <2>1. Contents \in Seq(Bytes) /\ Len(Contents) = UsedSpace
      BY ContentsIs DEF CacheOK
    <2>2. \A i \in 1..n : Contents[i] \in Bytes
      BY <1>4, <1>6, <2>1, ElementOfSeq
    <2>3. out' \in Seq(Bytes) /\ Len(out') = n
      BY <1>6, <1>8, <2>2, SubSeqProperties
    <2> QED
      BY <1>4, <1>6, <2>3, StringsAre
  <1>10. ~Done(c, n, mem[head]) => NextCall(c, n, mem[head]) \in Calls
    BY <1>1, <1>6, NextCallOK
  <1> QED
    BY <1>3, <1>6, <1>7, <1>8, <1>9, <1>10, NoCallOK

\* The writers' steps keep the types.
LEMMA WriterOK ==
    ASSUME CacheOK, NEW w \in Writers, cavan_cache_write(w) \/ Write(w)
    PROVE  CacheOK'
  <1> USE DEF CacheOK
  <1>1. w \notin Readers
    BY CacheAssumption
  <1>2. CASE cavan_cache_write(w)
    <2>1. PICK s \in Strings(MaxLen) : wbuf' = [wbuf EXCEPT ![w] = s]
      BY <1>2 DEF cavan_cache_write
    <2>2. wpc[w] = "idle" /\ wpc' = [wpc EXCEPT ![w] = "call"]
          /\ UNCHANGED <<ring, closed, closing, rpc, rcall, woken, out>>
      BY <1>2 DEF cavan_cache_write
    <2>3. RingOK'
      BY <2>2 DEF ring, RingOK
    <2>4. BufferOK'
      BY <2>1, <2>2 DEF ThreadsOK, BufferOK
    <2>5. WokenOK'
      BY <2>2 DEF ThreadsOK, WokenOK
    <2> QED
      BY <2>1, <2>2, <2>3, <2>4, <2>5 DEF ThreadsOK
  <1>3. CASE WriteChunk(w)
    <2>1. PICK rest \in Strings(MaxLen) \cup {<<>>} :
             /\ wbuf' = [wbuf EXCEPT ![w] = rest]
             /\ wpc' = [wpc EXCEPT ![w] = IF rest = <<>> THEN "idle" ELSE "wait"]
      BY <1>3, WriteEffect
    <2>2. RingOK'
      BY <1>3, WriteEffect
    <2>3. UNCHANGED <<closed, closing, rpc, rcall, out>> /\ CondSignal(ReadersWaiting, w)
      BY <1>3 DEF WriteChunk
    <2>4. BufferOK'
      BY <2>1 DEF ThreadsOK, BufferOK
    <2>5. woken' \subseteq (woken \ {w}) \cup ReadersWaiting
      BY <2>3, SignalOK
    <2>6. WokenOK'
      BY <1>1, <2>1, <2>3, <2>5 DEF ThreadsOK, WokenOK, ReadersWaiting
    <2> QED
      BY <2>1, <2>2, <2>3, <2>4, <2>6 DEF ThreadsOK
  <1>4. CASE WriteFull(w)
    <2>1. PICK pc \in {"idle", "wait"}, b \in Strings(MaxLen) \cup {<<>>} :
             /\ wpc' = [wpc EXCEPT ![w] = pc] /\ wbuf' = [wbuf EXCEPT ![w] = b]
             /\ IF pc = "idle" THEN b = <<>> ELSE b \in Strings(MaxLen)
      BY <1>4 DEF WriteFull, Running, ThreadsOK, BufferOK
    <2>2. UNCHANGED <<ring, closed, closing, rpc, rcall, out>> /\ woken' = woken \ {w}
      BY <1>4 DEF WriteFull
    <2>3. RingOK'
      BY <2>2 DEF ring, RingOK
    <2>4. BufferOK'
      BY <2>1 DEF ThreadsOK, BufferOK
    <2>5. WokenOK'
      BY <1>1, <2>1, <2>2 DEF ThreadsOK, WokenOK
    <2> QED
      BY <2>1, <2>2, <2>3, <2>4, <2>5 DEF ThreadsOK
  <1> QED
    BY <1>2, <1>3, <1>4 DEF Write

\* The readers' steps keep the types.
LEMMA ReaderOK ==
    ASSUME CacheOK, NEW r \in Readers, cavan_cache_read(r) \/ Read(r) \/ ReadTimeout(r)
    PROVE  CacheOK'
  <1> USE DEF CacheOK
  <1>1. r \notin Writers
    BY CacheAssumption
  <1>2. CASE ReadChunk(r)
    <2>1. /\ RingOK' /\ out' \in Strings(Size - 1)
          /\ \E pc \in {"idle", "call"}, c \in Calls :
                rpc' = [rpc EXCEPT ![r] = pc] /\ rcall' = [rcall EXCEPT ![r] = c]
      BY <1>2, ReadEffect
    <2>2. UNCHANGED <<closed, closing, wpc, wbuf>> /\ CondSignal(WritersWaiting, r)
      BY <1>2 DEF ReadChunk
    <2>3. woken' \subseteq (woken \ {r}) \cup WritersWaiting
      BY <2>2, SignalOK
    <2>4. WokenOK'
      BY <1>1, <2>1, <2>2, <2>3 DEF ThreadsOK, WokenOK, WritersWaiting
    <2>5. BufferOK'
      BY <2>2 DEF ThreadsOK, BufferOK
    <2> QED
      BY <2>1, <2>2, <2>4, <2>5 DEF ThreadsOK
  <1>3. CASE /\ \E pc \in {"idle", "call", "wait"}, c \in Calls :
                   rpc' = [rpc EXCEPT ![r] = pc] /\ rcall' = [rcall EXCEPT ![r] = c]
             /\ woken' = woken \ {r} \/ (woken' = woken /\ rpc[r] = "idle")
             /\ UNCHANGED <<ring, closed, closing, wpc, wbuf, out>>
    <2>1. WokenOK'
      BY <1>1, <1>3 DEF ThreadsOK, WokenOK
    <2>2. BufferOK' /\ RingOK'
      BY <1>3 DEF ThreadsOK, BufferOK, ring, RingOK
    <2> QED
      BY <1>3, <2>1, <2>2 DEF ThreadsOK
  <1>4. CASE cavan_cache_read(r)
    BY <1>3, <1>4 DEF cavan_cache_read
  <1>5. CASE ReadEnd(r)
    BY <1>3, <1>5, NoCallOK DEF ReadEnd
  <1>6. CASE ReadWait(r)
    <2>1. rcall' = [rcall EXCEPT ![r] = rcall[r]] /\ rcall[r] \in Calls
      BY <1>6 DEF ReadWait, ThreadsOK
    <2> QED
      BY <1>3, <1>6, <2>1 DEF ReadWait
  <1> QED
    BY <1>2, <1>4, <1>5, <1>6 DEF Read, ReadTimeout, ReadClosed

\* So does every other step.
LEMMA StepOK ==
    ASSUME CacheOK, [CacheNext]_vars
    PROVE  CacheOK'
  <1> USE DEF CacheOK
  <1>1. CASE cavan_cache_open
    BY <1>1, OffsetsExist DEF cavan_cache_open, RingOK, ThreadsOK, BufferOK, WokenOK
  <1>2. CASE cavan_cache_close
    BY <1>2 DEF cavan_cache_close, ring, RingOK, ThreadsOK, BufferOK, WokenOK
  <1>3. CASE CloseBroadcast
    BY <1>3 DEF CloseBroadcast, ReadersWaiting, WritersWaiting, ring, RingOK, ThreadsOK, BufferOK, WokenOK
  <1>4. CASE UNCHANGED vars
    BY <1>4 DEF vars, RingOK, ThreadsOK, BufferOK, WokenOK
  <1> QED
    BY <1>1, <1>2, <1>3, <1>4, WriterOK, ReaderOK DEF CacheNext

\* Every reachable ring is well-typed.
THEOREM CacheTypesInv == CacheSpec => []CacheOK
  <1>1. CacheInit => CacheOK
    BY InitOK
  <1>2. CacheOK /\ [CacheNext]_vars => CacheOK'
    BY StepOK
  <1> QED
    BY <1>1, <1>2, PTL DEF CacheSpec

\* The cache's types: head and tail never leave the ring and a caller's buffer is
\* never overrun.
THEOREM CacheTypes == CacheSpec => []CacheTypeOK
  <1>1. CacheOK => CacheTypeOK
    BY DEF CacheOK, RingOK, ThreadsOK, BufferOK, WokenOK, CacheTypeOK
  <1> QED
    BY <1>1, CacheTypesInv, PTL

-----------------------------------------------------------------------------
(* The ring implements the byte stream.                                      *)

\* An empty ring is an empty stream.
LEMMA EmptyRing ==
    ASSUME head = 0, tail = 0
    PROVE  Contents = <<>>
  <1>1. (Size + tail - head) % Size = 0
    <2>1. Size \in 0..(2 * Size - 1) /\ Wrap(Size) = 0
      BY CacheAssumption DEF Wrap
    <2>2. Size + tail - head = Size
      BY CacheAssumption
    <2> QED
      BY <2>1, <2>2, WrapIsMod
  <1> QED
    BY <1>1 DEF Contents

\* A writer's step offers bytes, appends a chunk, gives up on a closed full stream, or
\* is not seen.
LEMMA WriterRefines ==
    ASSUME CacheOK, NEW w \in Writers, cavan_cache_write(w) \/ Write(w)
    PROVE  [Stream!StreamNext]_(Stream!streamVars)
  <1> USE DEF Stream!StreamNext, Stream!streamVars
  <1>1. CASE cavan_cache_write(w)
    <2>1. PICK s \in Strings(MaxLen) : wbuf' = [wbuf EXCEPT ![w] = s]
      BY <1>1 DEF cavan_cache_write
    <2>2. wbuf[w] = <<>> /\ wbuf'[w] = s
      BY <1>1, <2>1 DEF cavan_cache_write, CacheOK, ThreadsOK, BufferOK
    <2>3. s \in Seq(Bytes) \ {<<>>}
      <3>1. s \in Seq(Bytes) /\ Len(s) \in 1..MaxLen
        BY StringsAre, OffsetsExist
      <3> QED
        BY <3>1, EmptySeq, OffsetsExist
    <2>4. UNCHANGED <<Contents, closed, out>>
      BY <1>1 DEF cavan_cache_write, ring, Contents
    <2>5. Stream!StreamOffer(w)
      BY <2>1, <2>2, <2>3, <2>4 DEF Stream!StreamOffer
    <2> QED
      BY <2>5
  <1>2. CASE WriteChunk(w)
    <2>1. PICK n \in 1..Len(wbuf[w]) :
             /\ n <= FreeSpace
             /\ Contents' = Contents \o SubSeq(wbuf[w], 1, n)
             /\ \/ wbuf' = [wbuf EXCEPT ![w] = SubSeq(wbuf[w], n + 1, Len(wbuf[w]))]
                \/ closed /\ wbuf' = [wbuf EXCEPT ![w] = <<>>]
      BY <1>2, WriteEffect
    <2>2. Len(Contents) + n <= Size - 1
      <3>1. Len(Contents) = UsedSpace /\ Len(wbuf[w]) \in Nat
        BY <1>2, ContentsIs, ChunkFacts, OffsetsExist DEF CacheOK, WriteChunk
      <3>2. UsedSpace \in 0..(Size - 1) /\ FreeSpace \in 0..(Size - 1)
            /\ UsedSpace + FreeSpace = Size - 1 /\ Size - 1 \in Nat
        BY Spaces, CacheAssumption DEF CacheOK, RingOK
      <3> QED
        BY <2>1, <3>1, <3>2
    <2>3. UNCHANGED <<closed, out>>
      BY <1>2 DEF WriteChunk
    <2>4. Stream!StreamWrite(w)
      BY <2>1, <2>2, <2>3 DEF Stream!StreamWrite
    <2> QED
      BY <2>4
  <1>3. CASE WriteFull(w)
    <2>1. UNCHANGED <<Contents, closed, out>>
      BY <1>3 DEF WriteFull, ring, Contents
    <2>2. CASE closed
      <3>1. Len(Contents) = Size - 1
        <4>1. Len(Contents) = UsedSpace
          BY ContentsIs DEF CacheOK
        <4>2. UsedSpace + FreeSpace = Size - 1 /\ UsedSpace \in Nat /\ FreeSpace = 0
          BY <1>3, Spaces, CacheAssumption DEF WriteFull, CacheOK, RingOK
        <4> QED
          BY <4>1, <4>2
      <3>2. Stream!StreamGiveUp(w)
        BY <1>3, <2>1, <2>2, <3>1 DEF WriteFull, Stream!StreamGiveUp
      <3> QED
        BY <3>2
    <2>3. CASE ~closed
      BY <1>3, <2>1, <2>3 DEF WriteFull
    <2> QED
      BY <2>2, <2>3
  <1> QED
    BY <1>1, <1>2, <1>3 DEF Write

\* A reader's step takes the front of the stream or is not seen.
LEMMA ReaderRefines ==
    ASSUME CacheOK, NEW r \in Readers, cavan_cache_read(r) \/ Read(r) \/ ReadTimeout(r)
    PROVE  [Stream!StreamNext]_(Stream!streamVars)
  <1> USE DEF Stream!StreamNext, Stream!streamVars
  <1>1. CASE ReadChunk(r)
    <2>1. PICK n \in 1..UsedSpace :
             out' = SubSeq(Contents, 1, n) /\ Contents' = SubSeq(Contents, n + 1, Len(Contents))
      BY <1>1, ReadEffect
    <2>2. Len(Contents) = UsedSpace
      BY ContentsIs DEF CacheOK
    <2>3. UNCHANGED <<wbuf, closed>>
      BY <1>1 DEF ReadChunk
    <2>4. Stream!StreamRead
      BY <2>1, <2>2, <2>3 DEF Stream!StreamRead
    <2> QED
      BY <2>4
  <1>2. CASE cavan_cache_read(r) \/ ReadClosed(r) \/ ReadWait(r) \/ ReadTimeout(r)
    <2>1. UNCHANGED <<ring, wbuf, closed, out>>
      BY <1>2 DEF cavan_cache_read, ReadClosed, ReadWait, ReadTimeout, ReadEnd
    <2>2. UNCHANGED Contents
      BY <2>1 DEF ring, Contents
    <2> QED
      BY <2>1, <2>2
  <1> QED
    BY <1>1, <1>2 DEF Read

\* Every step of the cache is a step of the stream or a stutter.
LEMMA StepRefines ==
    ASSUME CacheOK, [CacheNext]_vars
    PROVE  [Stream!StreamNext]_(Stream!streamVars)
  <1>1. CASE cavan_cache_open
    <2>1. (head = 0 /\ tail = 0 => Contents = <<>>)'
      BY EmptyRing, PTL
    <2>2. Stream!StreamOpen
      BY <1>1, <2>1 DEF cavan_cache_open, Stream!StreamOpen
    <2> QED
      BY <2>2 DEF Stream!StreamNext
  <1>2. CASE cavan_cache_close
    <2>1. UNCHANGED Contents
      BY <1>2 DEF cavan_cache_close, ring, Contents
    <2>2. Stream!StreamClose
      BY <1>2, <2>1 DEF cavan_cache_close, Stream!StreamClose
    <2> QED
      BY <2>2 DEF Stream!StreamNext
  <1>3. CASE CloseBroadcast \/ UNCHANGED vars
    <2>1. UNCHANGED <<ring, wbuf, closed, out>>
      BY <1>3 DEF CloseBroadcast, vars, ring
    <2>2. UNCHANGED Contents
      BY <2>1 DEF ring, Contents
    <2> QED
      BY <2>1, <2>2 DEF Stream!streamVars
  <1> QED
    BY <1>1, <1>2, <1>3, WriterRefines, ReaderRefines DEF CacheNext

\* The ring cache implements the bounded byte stream, for every size and any number
\* of readers and writers: what is written comes out once and in order across every
\* wrap of head and tail, and a full ring is not overrun.
THEOREM CacheRefinesStream == CacheSpec => RefinesStream
  <1>1. CacheInit => Stream!StreamInit
    BY EmptyRing DEF CacheInit, Stream!StreamInit
  <1>2. CacheOK /\ [CacheNext]_vars => [Stream!StreamNext]_(Stream!streamVars)
    BY StepRefines
  <1> QED
    BY <1>1, <1>2, CacheTypesInv, PTL DEF CacheSpec, RefinesStream, Stream!StreamSpec

-----------------------------------------------------------------------------
(* Waiting threads.                                                          *)

ReaderRemembered(r) == r \in ReadersWaiting => ~Available(r) /\ (closed => closing = "rdcond")
WriterRemembered(w) == w \in WritersWaiting => IF closed THEN closing # "none" ELSE FreeSpace = 0

\* NobodyForgotten for the one reader and for the one writer.
LEMMA ForgottenIs ==
    NobodyForgotten <=> /\ \A r \in Readers : Readers = {r} => ReaderRemembered(r)
                        /\ \A w \in Writers : Writers = {w} => WriterRemembered(w)
  BY DEF NobodyForgotten, ReaderRemembered, WriterRemembered

\* A step that leaves the reader, its signals and its reasons alone.
LEMMA SameReader ==
    ASSUME NEW r \in Readers, ReaderRemembered(r),
           UNCHANGED <<head, tail, rpc, rcall>>, woken \cap Readers \subseteq woken',
           closed' => closed /\ (closing' = closing \/ closing # "rdcond")
    PROVE  ReaderRemembered(r)'
  <1>1. r \in ReadersWaiting' => r \in ReadersWaiting
    BY DEF ReadersWaiting
  <1>2. Available(r)' = Available(r)
    BY DEF Available, UsedSpace
  <1> QED
    BY <1>1, <1>2 DEF ReaderRemembered

\* A writer's step: a chunk wakes the reader.
LEMMA WriterRemindsReader ==
    ASSUME CacheOK, NEW r \in Readers, Readers = {r}, ReaderRemembered(r),
           NEW w \in Writers, cavan_cache_write(w) \/ Write(w)
    PROVE  ReaderRemembered(r)'
  <1>1. w # r
    BY CacheAssumption
  <1>2. CASE WriteChunk(w)
    <2>1. CondSignal(ReadersWaiting, w) /\ rpc' = rpc
      BY <1>2 DEF WriteChunk
    <2>2. ReadersWaiting \subseteq {r}
      BY DEF ReadersWaiting
    <2>3. r \notin ReadersWaiting'
      BY <1>1, <2>1, <2>2, SignalOK DEF ReadersWaiting
    <2> QED
      BY <2>3 DEF ReaderRemembered
  <1>3. CASE cavan_cache_write(w) \/ WriteFull(w)
    <2>1. /\ UNCHANGED <<head, tail, rpc, rcall, closed, closing>>
          /\ woken \cap Readers \subseteq woken'
      BY <1>1, <1>3 DEF cavan_cache_write, WriteFull, ring
    <2> QED
      BY <2>1, SameReader
  <1> QED
    BY <1>2, <1>3 DEF Write

\* A reader waits only when it has looked, with the cache open.
LEMMA ReaderRemindsReader ==
    ASSUME CacheOK, NEW r \in Readers, ReaderRemembered(r),
           cavan_cache_read(r) \/ Read(r) \/ ReadTimeout(r)
    PROVE  ReaderRemembered(r)'
  <1>1. CASE ReadWait(r)
    <2>1. ~Available(r) /\ ~closed /\ UNCHANGED <<head, tail, rcall, closed>>
      BY <1>1 DEF ReadWait, ring
    <2>2. ~Available(r)'
      BY <2>1 DEF Available, UsedSpace
    <2> QED
      BY <2>1, <2>2 DEF ReaderRemembered
  <1>2. CASE ReadChunk(r)
    <2>1. rpc'[r] # "wait"
      BY <1>2, ReadEffect DEF CacheOK, ThreadsOK
    <2> QED
      BY <2>1 DEF ReaderRemembered, ReadersWaiting
  <1>3. CASE cavan_cache_read(r) \/ ReadEnd(r)
    <2>1. rpc'[r] # "wait"
      BY <1>3 DEF cavan_cache_read, ReadEnd, CacheOK, ThreadsOK
    <2> QED
      BY <2>1 DEF ReaderRemembered, ReadersWaiting
  <1> QED
    BY <1>1, <1>2, <1>3 DEF Read, ReadClosed, ReadTimeout

\* A reader's step: a chunk wakes the writer.
LEMMA ReaderRemindsWriter ==
    ASSUME CacheOK, NEW w \in Writers, Writers = {w}, WriterRemembered(w),
           NEW r \in Readers, cavan_cache_read(r) \/ Read(r) \/ ReadTimeout(r)
    PROVE  WriterRemembered(w)'
  <1>1. w # r
    BY CacheAssumption
  <1>2. CASE ReadChunk(r)
    <2>1. CondSignal(WritersWaiting, r) /\ wpc' = wpc
      BY <1>2 DEF ReadChunk
    <2>2. WritersWaiting \subseteq {w}
      BY DEF WritersWaiting
    <2>3. w \notin WritersWaiting'
      BY <1>1, <2>1, <2>2, SignalOK DEF WritersWaiting
    <2> QED
      BY <2>3 DEF WriterRemembered
  <1>3. CASE cavan_cache_read(r) \/ ReadWait(r) \/ ReadEnd(r)
    <2>1. UNCHANGED <<head, tail, wpc, closed, closing>> /\ woken \ {r} \subseteq woken'
      BY <1>3 DEF cavan_cache_read, ReadWait, ReadEnd, ring
    <2>2. w \in WritersWaiting' => w \in WritersWaiting
      BY <1>1, <2>1 DEF WritersWaiting
    <2>3. FreeSpace' = FreeSpace
      BY <2>1 DEF FreeSpace
    <2> QED
      BY <2>1, <2>2, <2>3 DEF WriterRemembered
  <1> QED
    BY <1>2, <1>3 DEF Read, ReadClosed, ReadTimeout

\* A writer waits only when the ring is full and open.
LEMMA WriterRemindsWriter ==
    ASSUME CacheOK, NEW w \in Writers, WriterRemembered(w), cavan_cache_write(w) \/ Write(w)
    PROVE  WriterRemembered(w)'
  <1>1. CASE WriteChunk(w)
    <2>1. wpc'[w] = "wait" => ~closed /\ FreeSpace' = 0
      BY <1>1, WriteEffect DEF CacheOK, ThreadsOK
    <2>2. closed' = closed
      BY <1>1 DEF WriteChunk
    <2> QED
      BY <2>1, <2>2 DEF WriterRemembered, WritersWaiting
  <1>2. CASE WriteFull(w)
    <2>1. (wpc'[w] = "wait" => ~closed) /\ FreeSpace = 0 /\ UNCHANGED <<head, tail, closed>>
      BY <1>2 DEF WriteFull, ring, CacheOK, ThreadsOK
    <2>2. FreeSpace' = 0
      BY <2>1 DEF FreeSpace
    <2> QED
      BY <2>1, <2>2 DEF WriterRemembered, WritersWaiting
  <1>3. CASE cavan_cache_write(w)
    <2>1. wpc'[w] # "wait"
      BY <1>3 DEF cavan_cache_write, CacheOK, ThreadsOK
    <2> QED
      BY <2>1 DEF WriterRemembered, WritersWaiting
  <1> QED
    BY <1>1, <1>2, <1>3 DEF Write

\* Closing tells both sides, and reopening finds nobody waiting for a broadcast.
LEMMA CloseReminds ==
    ASSUME CacheOK, cavan_cache_open \/ cavan_cache_close \/ CloseBroadcast \/ UNCHANGED vars
    PROVE  /\ \A r \in Readers : ReaderRemembered(r) => ReaderRemembered(r)'
           /\ \A w \in Writers : WriterRemembered(w) => WriterRemembered(w)'
  <1> USE DEF ReaderRemembered, WriterRemembered, ReadersWaiting, WritersWaiting
  <1>1. CASE cavan_cache_open
    <2>1. closed /\ closing = "none" /\ ~closed' /\ UNCHANGED <<wpc, rpc, rcall, woken>>
      BY <1>1 DEF cavan_cache_open
    <2> QED
      BY <2>1
  <1>2. CASE cavan_cache_close
    <2>1. UNCHANGED <<head, tail, rcall, wpc, rpc, woken>> /\ closing' = "rdcond" /\ closed'
      BY <1>2 DEF cavan_cache_close, ring
    <2>2. \A r \in Readers : Available(r)' = Available(r)
      BY <2>1 DEF Available, UsedSpace
    <2> QED
      BY <2>1, <2>2
  <1>3. CASE CloseBroadcast
    <2>1. UNCHANGED <<head, tail, rcall, wpc, rpc, closed>>
      BY <1>3 DEF CloseBroadcast, ring
    <2>2. \A r \in Readers : Available(r)' = Available(r)
      BY <2>1 DEF Available, UsedSpace
    <2>3. FreeSpace' = FreeSpace
      BY <2>1 DEF FreeSpace
    <2> QED
      BY <1>3, <2>1, <2>2, <2>3 DEF CloseBroadcast
  <1>4. CASE UNCHANGED vars
    BY <1>4 DEF vars, Available, UsedSpace, FreeSpace
  <1> QED
    BY <1>1, <1>2, <1>3, <1>4

\* Every step remembers the threads that wait.
LEMMA StepRemembers ==
    ASSUME CacheOK, NobodyForgotten, [CacheNext]_vars
    PROVE  NobodyForgotten'
  <1>1. ASSUME NEW r \in Readers, Readers = {r} PROVE ReaderRemembered(r)'
    <2>1. ReaderRemembered(r)
      BY <1>1, ForgottenIs
    <2>2. ASSUME NEW q \in Readers, cavan_cache_read(q) \/ Read(q) \/ ReadTimeout(q)
          PROVE  ReaderRemembered(r)'
      <3>1. q = r
        BY <1>1
      <3> QED
        BY <2>1, <2>2, <3>1, ReaderRemindsReader
    <2>3. ASSUME NEW w \in Writers, cavan_cache_write(w) \/ Write(w) PROVE ReaderRemembered(r)'
      BY <1>1, <2>1, <2>3, WriterRemindsReader
    <2> QED
      BY <2>1, <2>2, <2>3, CloseReminds DEF CacheNext
  <1>2. ASSUME NEW w \in Writers, Writers = {w} PROVE WriterRemembered(w)'
    <2>1. WriterRemembered(w)
      BY <1>2, ForgottenIs
    <2>2. ASSUME NEW v \in Writers, cavan_cache_write(v) \/ Write(v) PROVE WriterRemembered(w)'
      <3>1. v = w
        BY <1>2
      <3> QED
        BY <2>1, <2>2, <3>1, WriterRemindsWriter
    <2>3. ASSUME NEW r \in Readers, cavan_cache_read(r) \/ Read(r) \/ ReadTimeout(r)
          PROVE  WriterRemembered(w)'
      BY <1>2, <2>1, <2>3, ReaderRemindsWriter
    <2> QED
      BY <2>1, <2>2, <2>3, CloseReminds DEF CacheNext
  <1> QED
    BY <1>1, <1>2 DEF NobodyForgotten, ReaderRemembered, WriterRemembered

\* With one reader and one writer no signal of the cache is lost, for every size,
\* request, reserve and order of chunk, timeout, close and reopen.
THEOREM WaitersRemembered == CacheSpec => []NobodyForgotten
  <1>1. CacheInit => NobodyForgotten
    BY DEF CacheInit, NobodyForgotten, ReadersWaiting, WritersWaiting
  <1>2. CacheOK /\ NobodyForgotten /\ [CacheNext]_vars => NobodyForgotten'
    BY StepRemembers
  <1> QED
    BY <1>1, <1>2, CacheTypesInv, PTL DEF CacheSpec

\* The reader and the writer of a cache never wait for each other: a full ring holds
\* more than any reader reserves.
THEOREM SomebodyAwake == CacheSpec => []NotAllAsleep
  <1>1. CacheOK /\ NobodyForgotten => NotAllAsleep
    <2> SUFFICES ASSUME CacheOK, NobodyForgotten, NEW w \in Writers, NEW r \in Readers,
                        Writers = {w}, Readers = {r}, w \in WritersWaiting,
                        r \in ReadersWaiting, closing = "none"
                 PROVE  FALSE
      BY DEF NotAllAsleep
    <2>1. ~Available(r) /\ FreeSpace = 0
      BY DEF NobodyForgotten
    <2>2. rcall[r].reserved \in 0..MaxReserved
      BY DEF CacheOK, ThreadsOK, Calls
    <2>3. UsedSpace = Size - 1
      BY <2>1, Spaces, CacheAssumption DEF CacheOK, RingOK
    <2>4. UsedSpace > rcall[r].reserved
      BY <2>2, <2>3, CacheAssumption
    <2> QED
      BY <2>1, <2>4 DEF Available
  <1> QED
    BY <1>1, CacheTypesInv, WaitersRemembered, PTL

-----------------------------------------------------------------------------
(* The inductive invariant of the input chip.                                *)

\* Between these places of an operation its caller holds chip->lock.
UnderLock == {"set", "list", "isr", "poll", "active", "calibrate", "power", "restore",
              "unregister", "unlink"}

DeviceOps == {"enable", "disable", "calibrate"}

CallPlaces == UnderLock \cup {"idle", "dev", "chip", "next", "stop", "look", "wake", "off", "crashed"}
CallOps == DeviceOps \cup {"none", "offset", "firmware", "remove"}

ChipCalls == [pc : CallPlaces, op : CallOps, dev : Devices \cup Kinds \cup {Nobody}, saved : BOOLEAN]

ThreadTypes ==
    /\ state \in [Kinds -> {"running", "suspend", "stopping", "stopped"}]
    /\ tpc \in [Kinds -> Places]

ChipTypes ==
    /\ ThreadTypes
    /\ chip \in [powered : BOOLEAN, actived : BOOLEAN]
    /\ devLock \in [Devices -> Callers \cup {Nobody}]
    /\ lists \in [Kinds -> SUBSET Devices]
    /\ registered \subseteq Devices
    /\ call \in [Callers -> ChipCalls]

\* The holder of chip->lock is such a caller, or a thread in a recovery.
ChipHeld ==
    /\ \A u \in Callers : call[u].pc \in UnderLock => chipLock = u
    /\ \A k \in Kinds : chipLock = k => tpc[k] = "recover"

\* A thread without a task is nowhere, a stopped one has left, and one that has passed
\* the tests of its state was not told to stop since.
WorkersAlive ==
    \A k \in Kinds :
        /\ k \notin task \/ state[k] = "stopped" => tpc[k] = "none"
        /\ tpc[k] = "enter" => state[k] \in {"running", "suspend"}

\* A call on a device holds the device's lock until it has moved it, and until then the
\* device is registered; a removal holds it until it unlinks the device, which no list
\* has by then.
DeviceHeld(u) ==
    LET d == call[u].dev IN
    /\ call[u].op \in DeviceOps /\ call[u].pc \in {"chip", "set", "list"} =>
        d \in registered /\ devLock[d] = u
    /\ call[u].op = "remove" /\ call[u].pc \in {"set", "list", "isr", "poll", "active", "unlink"} =>
        d \in Devices /\ devLock[d] = u
    /\ call[u].op = "remove" /\ call[u].pc \in {"isr", "poll", "active", "unlink"} => d \notin enabled

\* Which operation a caller can be in at which place, and what it works on.
RightPlace(u) ==
    /\ call[u].pc # "idle" => call[u].op # "none"
    /\ call[u].pc = "dev" => call[u].op \in DeviceOps
    /\ call[u].pc = "chip" => call[u].op \in DeviceOps \cup {"firmware"}
    /\ call[u].pc \in {"set", "list"} => call[u].op \in DeviceOps \cup {"remove"}
    /\ call[u].pc \in {"power", "restore"} => call[u].op = "firmware"
    /\ call[u].pc \in {"next", "unregister", "unlink"} => call[u].op = "remove"
    /\ call[u].pc \in {"dev", "unregister"} => call[u].dev \in Devices
    /\ call[u].pc \in {"stop", "look", "wake"} => call[u].dev \in Kinds

CallsHold == \A u \in Callers : DeviceHeld(u) /\ RightPlace(u)

\* The lists hold registered devices of their kind.
ListsRegistered ==
    /\ lists["isr"] \subseteq registered \cap Irq
    /\ lists["poll"] \subseteq registered \ Irq

\* No device is left once the threads are being stopped.
Emptied ==
    removed \/ (\E u \in Callers : call[u].pc \in {"stop", "look", "wake", "off"}) => registered = {}

\* The update of thread k's state is still to come.
Due(k) == \E v \in Callers : call[v].pc = "isr" \/ (call[v].pc = "poll" /\ k = "poll")

\* An upgrade has suspended the threads and not yet come to their update.
Upgraded == \E v \in Users : call[v].op = "firmware" /\ call[v].pc \in {"chip", "power"}

ListRuns(k) ==
    lists[k] # {} => \/ state[k] = "running" /\ tpc[k] # "asleep"
                     \/ k \in errored \/ Due(k) \/ Upgraded

ListRests(k) == lists[k] = {} => state[k] # "running" \/ k \in lost \/ Due(k)

\* The chip's flag is behind the lists only on the way to its update or in a recovery
\* that holds the lock, and that recovery finds it switched off.
Recovering(k) == tpc[k] = "recover" /\ chipLock = k

FlagFollows ==
    /\ ~removed /\ chip.actived # (enabled # {}) =>
        \/ astray
        \/ \E v \in Callers : call[v].pc \in {"list", "isr", "poll", "active"}
        \/ \E k \in Kinds : Recovering(k)
    /\ \A k \in Kinds : Recovering(k) => ~chip.actived \/ astray
    /\ Dark(chip) => cut

ChipInv ==
    /\ ChipTypes /\ ChipHeld /\ WorkersAlive /\ CallsHold
    /\ ListsRegistered /\ Emptied /\ FlagFollows
    /\ \A k \in Kinds : ListRuns(k) /\ ListRests(k)

-----------------------------------------------------------------------------
(* What a step does to the calls and to the chip's flags.                    *)

\* Caller u is now at p, in operation o on device d, and no other caller has moved.
CallIs(u, p, o, d) ==
    /\ call' \in [Callers -> ChipCalls]
    /\ call'[u].pc = p /\ call'[u].op = o /\ call'[u].dev = d
    /\ \A v \in Callers \ {u} : call'[v] = call[v]

\* The last pc of an operation, and every place on the way.
LEMMA StepIs ==
    ASSUME ChipTypes, NEW u \in Callers, NEW l \in CallPlaces, Step(u, l)
    PROVE  CallIs(u, l, call[u].op, call[u].dev)
  BY DEF ChipTypes, ChipCalls, Step, CallIs

LEMMA RenameIs ==
    ASSUME ChipTypes, NEW u \in Callers, NEW l \in CallPlaces, NEW o \in CallOps,
           call' = [call EXCEPT ![u].pc = l, ![u].op = o]
    PROVE  CallIs(u, l, o, call[u].dev)
  BY DEF ChipTypes, ChipCalls, CallIs

LEMMA TargetIs ==
    ASSUME ChipTypes, NEW u \in Callers, NEW l \in CallPlaces,
           NEW d \in Devices \cup Kinds \cup {Nobody},
           call' = [call EXCEPT ![u].pc = l, ![u].dev = d]
    PROVE  CallIs(u, l, call[u].op, d)
  BY DEF ChipTypes, ChipCalls, CallIs

LEMMA SaveIs ==
    ASSUME ChipTypes, NEW u \in Callers, NEW l \in CallPlaces, NEW b \in BOOLEAN,
           call' = [call EXCEPT ![u].pc = l, ![u].saved = b]
    PROVE  CallIs(u, l, call[u].op, call[u].dev)
  BY DEF ChipTypes, ChipCalls, CallIs

LEMMA IdleTyped ==
    /\ Idle \in ChipCalls
    /\ Idle.pc = "idle" /\ Idle.op = "none" /\ Idle.dev = Nobody
  <1>1. PICK b \in BOOLEAN : b = FALSE
    OBVIOUS
  <1>2. Idle = [pc |-> "idle", op |-> "none", dev |-> Nobody, saved |-> b]
    BY <1>1, Zenon DEF Idle
  <1> QED
    BY <1>2 DEF ChipCalls, CallPlaces, CallOps

\* A call's record is replaced as a whole.
LEMMA CallSet ==
    ASSUME ChipTypes, NEW u \in Callers, NEW c \in ChipCalls, call' = [call EXCEPT ![u] = c]
    PROVE  CallIs(u, c.pc, c.op, c.dev)
  BY DEF ChipTypes, CallIs

LEMMA StartIs ==
    ASSUME ChipTypes, NEW u \in Callers, NEW p \in CallPlaces, NEW o \in CallOps,
           NEW d \in Devices \cup Kinds \cup {Nobody},
           call' = [call EXCEPT ![u] = [Idle EXCEPT !.pc = p, !.op = o, !.dev = d]]
    PROVE  CallIs(u, p, o, d)
  <1> DEFINE c == [Idle EXCEPT !.pc = p, !.op = o, !.dev = d]
  <1>1. c \in ChipCalls /\ c.pc = p /\ c.op = o /\ c.dev = d
    BY IdleTyped DEF ChipCalls
  <1> QED
    BY <1>1, CallSet

LEMMA OpenIs ==
    ASSUME ChipTypes, NEW u \in Callers, NEW p \in CallPlaces, NEW o \in CallOps,
           call' = [call EXCEPT ![u] = [Idle EXCEPT !.pc = p, !.op = o]]
    PROVE  CallIs(u, p, o, Nobody)
  <1> DEFINE c == [Idle EXCEPT !.pc = p, !.op = o]
  <1>1. c \in ChipCalls /\ c.pc = p /\ c.op = o /\ c.dev = Nobody
    BY IdleTyped DEF ChipCalls
  <1> QED
    BY <1>1, CallSet

\* The operation is over; what the caller held is free and nothing else has changed hands.
Released(u) ==
    /\ CallIs(u, "idle", "none", Nobody)
    /\ chipLock = u => chipLock' = Nobody
    /\ chipLock # u => chipLock' = chipLock
    /\ devLock' \in [Devices -> Callers \cup {Nobody}]
    /\ \A d \in Devices : devLock[d] # u => devLock'[d] = devLock[d]

LEMMA ReturnIs ==
    ASSUME ChipTypes, NEW u \in Callers, Return(u)
    PROVE  Released(u)
  <1>1. CallIs(u, "idle", "none", Nobody)
    BY IdleTyped, CallSet DEF Return
  <1> QED
    BY <1>1 DEF Return, Released, ChipTypes

LEMMA ActiveFlags ==
    ASSUME ChipTypes, NEW on \in BOOLEAN, NEW c \in SetActive(chip, on)
    PROVE  /\ c \in [powered : BOOLEAN, actived : BOOLEAN]
           /\ Dark(c) => Dark(chip)
           /\ ~on => ~c.actived
           /\ on /\ ~c.actived => ~chip.actived
  <1> DEFINE Both(b) == [chip EXCEPT !.powered = b, !.actived = b]
  <1>1. ASSUME NEW b \in BOOLEAN
        PROVE  /\ Both(b) \in [powered : BOOLEAN, actived : BOOLEAN]
               /\ Both(b).powered = b /\ Both(b).actived = b
    BY DEF ChipTypes
  <1>2. \/ c = chip /\ chip.actived = on
        \/ chip.actived # on /\ on /\ \E b \in BOOLEAN : c = Both(b)
        \/ chip.actived # on /\ ~on /\ c = Both(FALSE)
    BY Zenon DEF SetActive
  <1> HIDE DEF Both
  <1> QED
    BY <1>1, <1>2 DEF ChipTypes, Dark

LEMMA PowerFlags ==
    ASSUME ChipTypes, NEW on \in BOOLEAN, NEW c \in SetPower(chip, on)
    PROVE  c \in [powered : BOOLEAN, actived : BOOLEAN] /\ c.actived = chip.actived
  BY DEF ChipTypes, SetPower

-----------------------------------------------------------------------------
(* The threads.                                                              *)

\* What any step may do to the threads.
ThreadMove ==
    \/ UNCHANGED threadVars
    \/ \E ks \in SUBSET Kinds : Suspend(ks)
    \/ \E k \in Kinds : \/ Resume(k) \/ Sleep(k) \/ Proceed(k) \/ Leave(k) \/ Enter(k)
                        \/ WaitReturn(k) \/ EventDone(k) \/ EventFails(k) \/ ErrorHandled(k)
                        \/ StopAsk(k) \/ StopSignal(k) \/ StopWake(k)
                        \/ tpc[k] \in {"event", "recover"} /\ UNCHANGED <<state, task>>
                             /\ \E l \in {"recover", "wait", "error"} : Goto(k, l)

LEMMA ThreadKept ==
    ASSUME ThreadTypes, WorkersAlive, ThreadMove
    PROVE  ThreadTypes' /\ WorkersAlive'
  <1> USE DEF ThreadTypes, WorkersAlive, Places
  <1>1. CASE UNCHANGED threadVars
    BY <1>1 DEF threadVars
  <1>2. ASSUME NEW ks \in SUBSET Kinds, Suspend(ks) PROVE ThreadTypes' /\ WorkersAlive'
    BY <1>2 DEF Suspend
  <1>3. ASSUME NEW k \in Kinds, Resume(k) PROVE ThreadTypes' /\ WorkersAlive'
    BY <1>3 DEF Resume, Locked, Woken
  <1>4. ASSUME NEW k \in Kinds, Sleep(k) \/ Proceed(k) PROVE ThreadTypes' /\ WorkersAlive'
    BY <1>4 DEF Sleep, Proceed, Goto
  <1>5. ASSUME NEW k \in Kinds, Leave(k) PROVE ThreadTypes' /\ WorkersAlive'
    BY <1>5 DEF Leave, Goto
  <1>6. ASSUME NEW k \in Kinds, Enter(k) PROVE ThreadTypes' /\ WorkersAlive'
    BY <1>6 DEF Enter, Goto
  <1>7. ASSUME NEW k \in Kinds, WaitReturn(k) PROVE ThreadTypes' /\ WorkersAlive'
    BY <1>7 DEF WaitReturn, Goto
  <1>8. ASSUME NEW k \in Kinds, EventDone(k) \/ EventFails(k) PROVE ThreadTypes' /\ WorkersAlive'
    BY <1>8 DEF EventDone, EventFails, Goto
  <1>9. ASSUME NEW k \in Kinds, ErrorHandled(k) PROVE ThreadTypes' /\ WorkersAlive'
    BY <1>9 DEF ErrorHandled, Goto
  <1>10. ASSUME NEW k \in Kinds, StopAsk(k) PROVE ThreadTypes' /\ WorkersAlive'
    BY <1>10 DEF StopAsk, Locked
  <1>11. ASSUME NEW k \in Kinds, StopSignal(k) PROVE ThreadTypes' /\ WorkersAlive'
    BY <1>11 DEF StopSignal
  <1>12. ASSUME NEW k \in Kinds, StopWake(k) PROVE ThreadTypes' /\ WorkersAlive'
    BY <1>12 DEF StopWake, Locked, Woken
  <1>13. ASSUME NEW k \in Kinds, tpc[k] \in {"event", "recover"}, UNCHANGED <<state, task>>,
                NEW l \in {"recover", "wait", "error"}, Goto(k, l)
         PROVE  ThreadTypes' /\ WorkersAlive'
    BY <1>13 DEF Goto
  <1> QED
    BY <1>1, <1>2, <1>3, <1>4, <1>5, <1>6, <1>7, <1>8, <1>9, <1>10, <1>11, <1>12, <1>13 DEF
       ThreadMove

-----------------------------------------------------------------------------
(* The threads and the lists.                                                *)

\* Another caller's debt stays; a caller pays its own only at the update.
LEMMA DueKept ==
    ASSUME NEW u \in Callers, NEW p, NEW o, NEW d, CallIs(u, p, o, d),
           call[u].pc \notin {"isr", "poll"},
           call[u].op = "firmware" /\ call[u].pc \in {"chip", "power"} =>
               (p = "power" /\ o = "firmware") \/ p = "isr"
    PROVE  /\ \A k \in Kinds : Due(k) => Due(k)'
           /\ Upgraded => Upgraded' \/ \A k \in Kinds : Due(k)'
  <1>1. \A v \in Callers \ {u} : call'[v] = call[v]
    BY DEF CallIs
  <1>2. ASSUME NEW k \in Kinds, Due(k) PROVE Due(k)'
    BY <1>1, <1>2 DEF Due
  <1>3. ASSUME Upgraded PROVE Upgraded' \/ \A k \in Kinds : Due(k)'
    BY <1>1, <1>3 DEF Upgraded, Due, CallIs, Callers
  <1> QED
    BY <1>2, <1>3

\* A step that touches neither threads nor lists, of a caller that owes no update.
LEMMA RunsSame ==
    ASSUME \A k \in Kinds : ListRuns(k) /\ ListRests(k),
           UNCHANGED <<state, tpc, errored, lost, lists>>,
           \A k \in Kinds : Due(k) => Due(k)',
           Upgraded => Upgraded' \/ \A k \in Kinds : Due(k)'
    PROVE  \A k \in Kinds : ListRuns(k)' /\ ListRests(k)'
  BY DEF ListRuns, ListRests

LEMMA RunsQuiet ==
    ASSUME ChipInv, NEW u \in Callers, NEW p, NEW o, NEW d, CallIs(u, p, o, d),
           call[u].pc \notin {"isr", "poll"},
           call[u].op = "firmware" /\ call[u].pc \in {"chip", "power"} =>
               (p = "power" /\ o = "firmware") \/ p = "isr",
           UNCHANGED <<threadVars, lists>>
    PROVE  \A k \in Kinds : ListRuns(k)' /\ ListRests(k)'
  <1>1. /\ \A k \in Kinds : Due(k) => Due(k)'
        /\ Upgraded => Upgraded' \/ \A k \in Kinds : Due(k)'
    BY DueKept
  <1> QED
    BY <1>1, RunsSame DEF ChipInv, threadVars

\* An update that is due excuses any state of a thread.
LEMMA RunsDue ==
    ASSUME NEW u \in Callers, NEW o, NEW d, CallIs(u, "isr", o, d)
    PROVE  \A k \in Kinds : ListRuns(k)' /\ ListRests(k)'
  BY DEF CallIs, Due, ListRuns, ListRests

\* The update of one thread leaves the debts to the other.
LEMMA DueOther ==
    ASSUME NEW u \in Callers, NEW k \in Kinds, NEW o, NEW d, At(u, k),
           CallIs(u, IF k = "isr" THEN "poll" ELSE "active", o, d)
    PROVE  /\ \A j \in Kinds \ {k} : Due(j) => Due(j)'
           /\ Upgraded => Upgraded'
  <1>1. k \in {"isr", "poll"} /\ Users \subseteq Callers
    BY InputAssumption DEF Callers
  <1>2. \A v \in Callers \ {u} : call'[v] = call[v]
    BY DEF CallIs
  <1>3. ASSUME NEW j \in Kinds \ {k}, Due(j) PROVE Due(j)'
    BY <1>1, <1>2, <1>3, InputAssumption DEF Due, At, CallIs
  <1>4. ASSUME Upgraded PROVE Upgraded'
    BY <1>1, <1>2, <1>4 DEF Upgraded, At
  <1> QED
    BY <1>3, <1>4

\* A caller that holds chip->lock keeps every thread's recovery from holding it.
LEMMA HolderCalls ==
    ASSUME ChipInv, NEW u \in Callers, call[u].pc \in UnderLock
    PROVE  /\ chipLock = u
           /\ \A k \in Kinds : ~Recovering(k)
           /\ \A v \in Callers \ {u} : call[v].pc \notin UnderLock
  BY InputAssumption DEF ChipInv, ChipHeld, Recovering

-----------------------------------------------------------------------------
(* Every step of a caller keeps the invariant.                               *)

\* A call on a device starts without a lock.
LEMMA DeviceCallKept ==
    ASSUME ChipInv, NEW u \in Callers, DeviceCall(u)
    PROVE  ChipInv'
  <1>1. \E d \in registered, op \in DeviceOps : CallIs(u, "dev", op, d)
    BY StartIs DEF ChipInv, CallPlaces, CallOps, UnderLock, DeviceOps, ChipTypes, DeviceCall
  <1>2. ThreadTypes' /\ WorkersAlive'
    BY ThreadKept DEF ThreadMove, ChipInv, ChipTypes, chipVars, DeviceCall
  <1>3. ChipTypes'
    BY <1>1, <1>2 DEF CallIs, ChipInv, ChipTypes, chipVars, DeviceCall
  <1>4. ChipHeld'
    BY <1>1, InputAssumption DEF CallIs, ChipInv, ChipTypes, ChipHeld, UnderLock, chipVars,
       threadVars, At, DeviceCall
  <1>5. CallsHold'
    BY <1>1, InputAssumption DEF CallIs, ChipInv, ChipTypes, ChipHeld, CallsHold, RightPlace,
       DeviceHeld, DeviceOps, UnderLock, enabled, chipVars, At, DeviceCall
  <1>6. ListsRegistered' /\ Emptied'
    BY <1>1, InputAssumption DEF CallIs, ChipInv, ListsRegistered, Emptied, CallsHold,
       RightPlace, chipVars, At, DeviceCall
  <1>7. FlagFollows'
    BY <1>1, InputAssumption DEF CallIs, ChipInv, ChipTypes, ChipHeld, UnderLock, FlagFollows,
       Recovering, enabled, Dark, chipVars, threadVars, At, DeviceCall
  <1>8. \A k \in Kinds : ListRuns(k)' /\ ListRests(k)'
    BY <1>1, RunsQuiet DEF chipVars, At, DeviceCall
  <1> QED
    BY <1>2, <1>3, <1>4, <1>5, <1>6, <1>7, <1>8 DEF ChipInv

\* The removal starts.
LEMMA RemoveStartKept ==
    ASSUME ChipInv, NEW u \in Callers, RemoveStart(u)
    PROVE  ChipInv'
  <1>1. CallIs(u, "next", "remove", Nobody)
    BY OpenIs DEF ChipInv, CallPlaces, CallOps, UnderLock, DeviceOps, RemoveStart
  <1>2. ThreadTypes' /\ WorkersAlive'
    BY ThreadKept DEF ThreadMove, ChipInv, ChipTypes, chipVars, RemoveStart
  <1>3. ChipTypes'
    BY <1>1, <1>2 DEF CallIs, ChipInv, ChipTypes, chipVars, RemoveStart
  <1>4. ChipHeld'
    BY <1>1, InputAssumption DEF CallIs, ChipInv, ChipTypes, ChipHeld, UnderLock, chipVars,
       threadVars, At, RemoveStart
  <1>5. CallsHold'
    BY <1>1, InputAssumption DEF CallIs, ChipInv, ChipTypes, ChipHeld, CallsHold, RightPlace,
       DeviceHeld, DeviceOps, UnderLock, enabled, chipVars, At, RemoveStart
  <1>6. ListsRegistered' /\ Emptied'
    BY <1>1, InputAssumption DEF CallIs, ChipInv, ListsRegistered, Emptied, CallsHold,
       RightPlace, chipVars, At, RemoveStart
  <1>7. FlagFollows'
    BY <1>1, InputAssumption DEF CallIs, ChipInv, ChipTypes, ChipHeld, UnderLock, FlagFollows,
       Recovering, enabled, Dark, chipVars, threadVars, At, RemoveStart
  <1>8. \A k \in Kinds : ListRuns(k)' /\ ListRests(k)'
    BY <1>1, RunsQuiet DEF chipVars, At, RemoveStart
  <1> QED
    BY <1>2, <1>3, <1>4, <1>5, <1>6, <1>7, <1>8 DEF ChipInv

\* dev->lock is free, and with it the device is registered.
LEMMA LockDevKept ==
    ASSUME ChipInv, NEW u \in Callers, LockDev(u)
    PROVE  ChipInv'
  <1>1. CallIs(u, "chip", call[u].op, call[u].dev)
    BY StepIs DEF ChipInv, CallPlaces, UnderLock, LockDev
  <1>2. ThreadTypes' /\ WorkersAlive'
    BY ThreadKept DEF ThreadMove, ChipInv, ChipTypes, LockDev
  <1>3. ChipTypes'
    BY <1>1, <1>2 DEF CallIs, ChipInv, ChipTypes, LockDev
  <1>4. ChipHeld'
    BY <1>1, InputAssumption DEF CallIs, ChipInv, ChipTypes, ChipHeld, UnderLock, threadVars,
       At, LockDev
  <1>5. CallsHold'
    BY <1>1, InputAssumption DEF CallIs, ChipInv, ChipTypes, ChipHeld, CallsHold, RightPlace,
       DeviceHeld, DeviceOps, UnderLock, enabled, At, LockDev
  <1>6. ListsRegistered' /\ Emptied'
    BY <1>1, InputAssumption DEF CallIs, ChipInv, ListsRegistered, Emptied, CallsHold,
       RightPlace, At, LockDev
  <1>7. FlagFollows'
    BY <1>1, InputAssumption DEF CallIs, ChipInv, ChipTypes, ChipHeld, UnderLock, FlagFollows,
       Recovering, enabled, Dark, threadVars, At, LockDev
  <1>8. \A k \in Kinds : ListRuns(k)' /\ ListRests(k)'
    BY <1>1, RunsQuiet DEF At, LockDev
  <1> QED
    BY <1>2, <1>3, <1>4, <1>5, <1>6, <1>7, <1>8 DEF ChipInv

\* A call on freed memory returns and has changed nothing but the history.
LEMMA LateCallKept ==
    ASSUME ChipInv, NEW u \in Callers, LateCall(u)
    PROVE  ChipInv'
  <1>1. Released(u)
    BY ReturnIs DEF ChipInv, LateCall
  <1>2. ThreadTypes' /\ WorkersAlive'
    BY ThreadKept DEF ThreadMove, ChipInv, ChipTypes, LateCall
  <1>3. ChipTypes'
    BY <1>1, <1>2 DEF Released, CallIs, ChipInv, ChipTypes, LateCall
  <1>4. ChipHeld'
    BY <1>1, InputAssumption DEF Released, CallIs, ChipInv, ChipTypes, ChipHeld, UnderLock,
       threadVars, At, LateCall
  <1>5. CallsHold'
    BY <1>1, InputAssumption DEF Released, CallIs, ChipInv, ChipTypes, ChipHeld, CallsHold,
       RightPlace, DeviceHeld, DeviceOps, UnderLock, enabled, At, LateCall
  <1>6. ListsRegistered' /\ Emptied'
    BY <1>1, InputAssumption DEF Released, CallIs, ChipInv, ListsRegistered, Emptied,
       CallsHold, RightPlace, At, LateCall
  <1>7. FlagFollows'
    BY <1>1, InputAssumption DEF Released, CallIs, ChipInv, ChipTypes, ChipHeld, UnderLock,
       FlagFollows, Recovering, enabled, Dark, threadVars, At, LateCall
  <1>8. \A k \in Kinds : ListRuns(k)' /\ ListRests(k)'
    BY <1>1, RunsQuiet DEF Released, At, LateCall
  <1> QED
    BY <1>2, <1>3, <1>4, <1>5, <1>6, <1>7, <1>8 DEF ChipInv

\* Every operation but the upgrade goes on to set_enable_locked.
LEMMA LockChipKept ==
    ASSUME ChipInv, NEW u \in Callers, LockChip(u), call[u].op # "firmware"
    PROVE  ChipInv'
  <1>1. CallIs(u, "set", call[u].op, call[u].dev)
    BY StepIs DEF ChipInv, CallPlaces, UnderLock, LockChip
  <1>2. ThreadTypes' /\ WorkersAlive'
    BY ThreadKept DEF ThreadMove, ChipInv, ChipTypes, LockChip
  <1>3. ChipTypes'
    BY <1>1, <1>2 DEF CallIs, ChipInv, ChipTypes, LockChip
  <1>4. ChipHeld'
    BY <1>1, InputAssumption DEF CallIs, ChipInv, ChipTypes, ChipHeld, UnderLock, threadVars,
       At, LockChip
  <1>5. CallsHold'
    BY <1>1, InputAssumption DEF CallIs, ChipInv, ChipTypes, ChipHeld, CallsHold, RightPlace,
       DeviceHeld, DeviceOps, UnderLock, enabled, At, LockChip
  <1>6. ListsRegistered' /\ Emptied'
    BY <1>1, InputAssumption DEF CallIs, ChipInv, ListsRegistered, Emptied, CallsHold,
       RightPlace, At, LockChip
  <1>7. FlagFollows'
    BY <1>1, InputAssumption DEF CallIs, ChipInv, ChipTypes, ChipHeld, UnderLock, FlagFollows,
       Recovering, enabled, Dark, threadVars, At, LockChip
  <1>8. \A k \in Kinds : ListRuns(k)' /\ ListRests(k)'
    BY <1>1, RunsQuiet DEF At, LockChip
  <1> QED
    BY <1>2, <1>3, <1>4, <1>5, <1>6, <1>7, <1>8 DEF ChipInv

\* The upgrade goes on to the power.
LEMMA LockUpgradeKept ==
    ASSUME ChipInv, NEW u \in Callers, LockChip(u), call[u].op = "firmware"
    PROVE  ChipInv'
  <1>1. CallIs(u, "power", call[u].op, call[u].dev)
    BY StepIs DEF ChipInv, CallPlaces, UnderLock, LockChip
  <1>2. ThreadTypes' /\ WorkersAlive'
    BY ThreadKept DEF ThreadMove, ChipInv, ChipTypes, LockChip
  <1>3. ChipTypes'
    BY <1>1, <1>2 DEF CallIs, ChipInv, ChipTypes, LockChip
  <1>4. ChipHeld'
    BY <1>1, InputAssumption DEF CallIs, ChipInv, ChipTypes, ChipHeld, UnderLock, threadVars,
       At, LockChip
  <1>5. CallsHold'
    BY <1>1, InputAssumption DEF CallIs, ChipInv, ChipTypes, ChipHeld, CallsHold, RightPlace,
       DeviceHeld, DeviceOps, UnderLock, enabled, At, LockChip
  <1>6. ListsRegistered' /\ Emptied'
    BY <1>1, InputAssumption DEF CallIs, ChipInv, ListsRegistered, Emptied, CallsHold,
       RightPlace, At, LockChip
  <1>7. FlagFollows'
    BY <1>1, InputAssumption DEF CallIs, ChipInv, ChipTypes, ChipHeld, UnderLock, FlagFollows,
       Recovering, enabled, Dark, threadVars, At, LockChip
  <1>8. \A k \in Kinds : ListRuns(k)' /\ ListRests(k)'
    BY <1>1, RunsQuiet DEF At, LockChip
  <1> QED
    BY <1>2, <1>3, <1>4, <1>5, <1>6, <1>7, <1>8 DEF ChipInv

\* The list of the device is to be left.
LEMMA SetOffKept ==
    ASSUME ChipInv, NEW u \in Callers, SetOff(u)
    PROVE  ChipInv'
  <1>1. CallIs(u, "list", call[u].op, call[u].dev)
    BY StepIs DEF ChipInv, CallPlaces, UnderLock, SetOff
  <1>2. ThreadTypes' /\ WorkersAlive'
    BY ThreadKept DEF ThreadMove, ChipInv, ChipTypes, chipVars, SetOff
  <1>3. ChipTypes'
    BY <1>1, <1>2 DEF CallIs, ChipInv, ChipTypes, chipVars, SetOff
  <1>4. ChipHeld'
    BY <1>1, InputAssumption DEF CallIs, ChipInv, ChipTypes, ChipHeld, UnderLock, chipVars,
       threadVars, At, SetOff
  <1>5. CallsHold'
    BY <1>1, InputAssumption DEF CallIs, ChipInv, ChipTypes, ChipHeld, CallsHold, RightPlace,
       DeviceHeld, DeviceOps, UnderLock, enabled, chipVars, At, SetOff
  <1>6. ListsRegistered' /\ Emptied'
    BY <1>1, InputAssumption DEF CallIs, ChipInv, ListsRegistered, Emptied, CallsHold,
       RightPlace, chipVars, At, SetOff
  <1>7. FlagFollows'
    BY <1>1, InputAssumption DEF CallIs, ChipInv, ChipTypes, ChipHeld, UnderLock, FlagFollows,
       Recovering, enabled, Dark, chipVars, threadVars, At, SetOff
  <1>8. \A k \in Kinds : ListRuns(k)' /\ ListRests(k)'
    BY <1>1, RunsQuiet DEF chipVars, At, SetOff
  <1> QED
    BY <1>2, <1>3, <1>4, <1>5, <1>6, <1>7, <1>8 DEF ChipInv

\* The device is as it is wanted: set_enable_locked returns at once.
LEMMA SetNothingReturns ==
    ASSUME ChipInv, NEW u \in Callers, SetNothing(u), Return(u)
    PROVE  ChipInv'
  <1>1. Released(u)
    BY ReturnIs DEF ChipInv
  <1>2. ThreadTypes' /\ WorkersAlive'
    BY ThreadKept DEF ThreadMove, ChipInv, ChipTypes, SetNothing
  <1>3. ChipTypes'
    BY <1>1, <1>2 DEF Released, CallIs, ChipInv, ChipTypes, SetNothing
  <1>4. ChipHeld'
    BY <1>1, InputAssumption DEF Released, CallIs, ChipInv, ChipTypes, ChipHeld, UnderLock,
       threadVars, At, SetNothing
  <1>5. CallsHold'
    BY <1>1, InputAssumption DEF Released, CallIs, ChipInv, ChipTypes, ChipHeld, CallsHold,
       RightPlace, DeviceHeld, DeviceOps, UnderLock, enabled, At, SetNothing
  <1>6. ListsRegistered' /\ Emptied'
    BY <1>1, InputAssumption DEF Released, CallIs, ChipInv, ListsRegistered, Emptied,
       CallsHold, RightPlace, At, SetNothing
  <1>7. FlagFollows'
    BY <1>1, InputAssumption DEF Released, CallIs, ChipInv, ChipTypes, ChipHeld, UnderLock,
       FlagFollows, Recovering, enabled, Dark, threadVars, At, SetNothing
  <1>8. \A k \in Kinds : ListRuns(k)' /\ ListRests(k)'
    BY <1>1, RunsQuiet DEF Released, At, SetNothing
  <1> QED
    BY <1>2, <1>3, <1>4, <1>5, <1>6, <1>7, <1>8 DEF ChipInv

\* The calibration goes on.
LEMMA SetNothingCalibrates ==
    ASSUME ChipInv, NEW u \in Callers, SetNothing(u), call[u].op = "calibrate", Step(u, "calibrate"),
           UNCHANGED <<chipLock, devLock>>
    PROVE  ChipInv'
  <1>1. CallIs(u, "calibrate", call[u].op, call[u].dev)
    BY StepIs DEF ChipInv, CallPlaces, UnderLock
  <1>2. ThreadTypes' /\ WorkersAlive'
    BY ThreadKept DEF ThreadMove, ChipInv, ChipTypes, SetNothing
  <1>3. ChipTypes'
    BY <1>1, <1>2 DEF CallIs, ChipInv, ChipTypes, SetNothing
  <1>4. ChipHeld'
    BY <1>1, InputAssumption DEF CallIs, ChipInv, ChipTypes, ChipHeld, UnderLock, threadVars,
       At, SetNothing
  <1>5. CallsHold'
    BY <1>1, InputAssumption DEF CallIs, ChipInv, ChipTypes, ChipHeld, CallsHold, RightPlace,
       DeviceHeld, DeviceOps, UnderLock, enabled, At, SetNothing
  <1>6. ListsRegistered' /\ Emptied'
    BY <1>1, InputAssumption DEF CallIs, ChipInv, ListsRegistered, Emptied, CallsHold,
       RightPlace, At, SetNothing
  <1>7. FlagFollows'
    BY <1>1, InputAssumption DEF CallIs, ChipInv, ChipTypes, ChipHeld, UnderLock, FlagFollows,
       Recovering, enabled, Dark, threadVars, At, SetNothing
  <1>8. \A k \in Kinds : ListRuns(k)' /\ ListRests(k)'
    BY <1>1, RunsQuiet DEF At, SetNothing
  <1> QED
    BY <1>2, <1>3, <1>4, <1>5, <1>6, <1>7, <1>8 DEF ChipInv

\* A device that no list has is unlinked.
LEMMA SetNothingUnlinks ==
    ASSUME ChipInv, NEW u \in Callers, SetNothing(u), call[u].op = "remove", Step(u, "unlink"),
           UNCHANGED <<chipLock, devLock>>
    PROVE  ChipInv'
  <1>1. CallIs(u, "unlink", call[u].op, call[u].dev)
    BY StepIs DEF ChipInv, CallPlaces, UnderLock
  <1>2. ThreadTypes' /\ WorkersAlive'
    BY ThreadKept DEF ThreadMove, ChipInv, ChipTypes, SetNothing, Wanted
  <1>3. ChipTypes'
    BY <1>1, <1>2 DEF CallIs, ChipInv, ChipTypes, SetNothing, Wanted
  <1>4. ChipHeld'
    BY <1>1, InputAssumption DEF CallIs, ChipInv, ChipTypes, ChipHeld, UnderLock, threadVars,
       At, SetNothing, Wanted
  <1>5. CallsHold'
    BY <1>1, InputAssumption DEF CallIs, ChipInv, ChipTypes, ChipHeld, CallsHold, RightPlace,
       DeviceHeld, DeviceOps, UnderLock, enabled, At, SetNothing, Wanted
  <1>6. ListsRegistered' /\ Emptied'
    BY <1>1, InputAssumption DEF CallIs, ChipInv, ListsRegistered, Emptied, CallsHold,
       RightPlace, At, SetNothing, Wanted
  <1>7. FlagFollows'
    BY <1>1, InputAssumption DEF CallIs, ChipInv, ChipTypes, ChipHeld, UnderLock, FlagFollows,
       Recovering, enabled, Dark, threadVars, At, SetNothing, Wanted
  <1>8. \A k \in Kinds : ListRuns(k)' /\ ListRests(k)'
    BY <1>1, RunsQuiet DEF At, SetNothing, Wanted
  <1> QED
    BY <1>2, <1>3, <1>4, <1>5, <1>6, <1>7, <1>8 DEF ChipInv

\* A failed activation leaves an inactive chip inactive.
LEMMA SetFailsKept ==
    ASSUME ChipInv, NEW u \in Callers, SetFails(u)
    PROVE  ChipInv'
  <1>1. Released(u)
    BY ReturnIs DEF ChipInv, SetFails
  <1>2. /\ chip' \in [powered : BOOLEAN, actived : BOOLEAN]
        /\ Dark(chip') => Dark(chip)
        /\ chip'.actived = chip.actived
    BY ActiveFlags DEF SetFails, ChipInv, ChipTypes
  <1>3. ThreadTypes' /\ WorkersAlive'
    BY ThreadKept DEF ThreadMove, ChipInv, ChipTypes, SetFails
  <1>4. ChipTypes'
    BY <1>1, <1>2, <1>3 DEF Released, CallIs, ChipInv, ChipTypes, SetFails
  <1>5. ChipHeld'
    BY <1>1, <1>2, InputAssumption DEF Released, CallIs, ChipInv, ChipTypes, ChipHeld,
       UnderLock, threadVars, At, SetFails
  <1>6. CallsHold'
    BY <1>1, <1>2, InputAssumption DEF Released, CallIs, ChipInv, ChipTypes, ChipHeld,
       CallsHold, RightPlace, DeviceHeld, DeviceOps, UnderLock, enabled, At, SetFails
  <1>7. ListsRegistered' /\ Emptied'
    BY <1>1, <1>2, InputAssumption DEF Released, CallIs, ChipInv, ListsRegistered, Emptied,
       CallsHold, RightPlace, At, SetFails
  <1>8. FlagFollows'
    BY <1>1, <1>2, InputAssumption DEF Released, CallIs, ChipInv, ChipTypes, ChipHeld,
       UnderLock, FlagFollows, Recovering, enabled, Dark, threadVars, At, SetFails
  <1>9. \A k \in Kinds : ListRuns(k)' /\ ListRests(k)'
    BY <1>1, <1>2, RunsQuiet DEF Released, At, SetFails
  <1> QED
    BY <1>3, <1>4, <1>5, <1>6, <1>7, <1>8, <1>9 DEF ChipInv

\* The chip is active and the device not yet in its list.
LEMMA SetOnKept ==
    ASSUME ChipInv, NEW u \in Callers, SetOn(u), Step(u, "list")
    PROVE  ChipInv'
  <1>1. CallIs(u, "list", call[u].op, call[u].dev)
    BY StepIs DEF ChipInv, CallPlaces, UnderLock
  <1>2. /\ chip' \in [powered : BOOLEAN, actived : BOOLEAN]
        /\ Dark(chip') => Dark(chip)
    BY ActiveFlags DEF SetOn, ChipInv
  <1>3. ThreadTypes' /\ WorkersAlive'
    BY ThreadKept DEF ThreadMove, ChipInv, ChipTypes, SetOn
  <1>4. ChipTypes'
    BY <1>1, <1>2, <1>3 DEF CallIs, ChipInv, ChipTypes, SetOn
  <1>5. ChipHeld'
    BY <1>1, <1>2, InputAssumption DEF CallIs, ChipInv, ChipTypes, ChipHeld, UnderLock,
       threadVars, At, SetOn
  <1>6. CallsHold'
    BY <1>1, <1>2, InputAssumption DEF CallIs, ChipInv, ChipTypes, ChipHeld, CallsHold,
       RightPlace, DeviceHeld, DeviceOps, UnderLock, enabled, At, SetOn
  <1>7. ListsRegistered' /\ Emptied'
    BY <1>1, <1>2, InputAssumption DEF CallIs, ChipInv, ListsRegistered, Emptied, CallsHold,
       RightPlace, At, SetOn
  <1>8. FlagFollows'
    BY <1>1, <1>2, InputAssumption DEF CallIs, ChipInv, ChipTypes, ChipHeld, UnderLock,
       FlagFollows, Recovering, enabled, Dark, threadVars, At, SetOn
  <1>9. \A k \in Kinds : ListRuns(k)' /\ ListRests(k)'
    BY <1>1, <1>2, RunsQuiet DEF At, SetOn
  <1> QED
    BY <1>3, <1>4, <1>5, <1>6, <1>7, <1>8, <1>9 DEF ChipInv

\* dev->set_enable has failed: the lists are as they were and the threads are updated.
LEMMA SetOnFailsKept ==
    ASSUME ChipInv, NEW u \in Callers, SetOn(u), call' = [call EXCEPT ![u].pc = "isr", ![u].op = "enable"]
    PROVE  ChipInv'
  <1>1. CallIs(u, "isr", "enable", call[u].dev)
    BY RenameIs DEF ChipInv, CallPlaces, CallOps, UnderLock, DeviceOps
  <1>2. /\ chip' \in [powered : BOOLEAN, actived : BOOLEAN]
        /\ Dark(chip') => Dark(chip)
    BY ActiveFlags DEF SetOn, ChipInv
  <1>3. ThreadTypes' /\ WorkersAlive'
    BY ThreadKept DEF ThreadMove, ChipInv, ChipTypes, SetOn
  <1>4. ChipTypes'
    BY <1>1, <1>2, <1>3 DEF CallIs, ChipInv, ChipTypes, SetOn
  <1>5. ChipHeld'
    BY <1>1, <1>2, InputAssumption DEF CallIs, ChipInv, ChipTypes, ChipHeld, UnderLock,
       threadVars, At, SetOn
  <1>6. CallsHold'
    BY <1>1, <1>2, InputAssumption DEF CallIs, ChipInv, ChipTypes, ChipHeld, CallsHold,
       RightPlace, DeviceHeld, DeviceOps, UnderLock, enabled, At, SetOn
  <1>7. ListsRegistered' /\ Emptied'
    BY <1>1, <1>2, InputAssumption DEF CallIs, ChipInv, ListsRegistered, Emptied, CallsHold,
       RightPlace, At, SetOn
  <1>8. FlagFollows'
    BY <1>1, <1>2, InputAssumption DEF CallIs, ChipInv, ChipTypes, ChipHeld, UnderLock,
       FlagFollows, Recovering, enabled, Dark, threadVars, At, SetOn
  <1>9. \A k \in Kinds : ListRuns(k)' /\ ListRests(k)'
    BY <1>1, <1>2, RunsQuiet DEF At, SetOn
  <1> QED
    BY <1>3, <1>4, <1>5, <1>6, <1>7, <1>8, <1>9 DEF ChipInv

\* The list changes under chip->lock, and the update of its thread is due.
LEMMA MoveDeviceKept ==
    ASSUME ChipInv, NEW u \in Callers, MoveDevice(u)
    PROVE  ChipInv'
  <1> DEFINE d == call[u].dev
             to == IF Wanted(u) THEN lists[KindOf(d)] \cup {d} ELSE lists[KindOf(d)] \ {d}
  <1>1. call[u].op \in DeviceOps \cup {"remove"} /\ d \in Devices /\ (Wanted(u) => d \in registered)
    BY DEF ChipInv, ChipTypes, CallsHold, RightPlace, DeviceHeld, DeviceOps, Wanted, At,
       MoveDevice
  <1>2. KindOf(d) \in Kinds /\ (KindOf(d) = "isr" <=> d \in Irq) /\ Kinds = {"isr", "poll"}
    BY InputAssumption DEF KindOf
  <1>3. /\ lists' = [lists EXCEPT ![KindOf(d)] = to]
        /\ lists' \in [Kinds -> SUBSET Devices]
        /\ lists'[KindOf(d)] = to /\ \A k \in Kinds \ {KindOf(d)} : lists'[k] = lists[k]
    BY <1>1, <1>2 DEF ChipInv, ChipTypes, MoveDevice
  <1>4. CallIs(u, "isr", call[u].op, call[u].dev)
    BY StepIs DEF ChipInv, CallPlaces, UnderLock, DeviceOps, MoveDevice
  <1>5. ThreadTypes' /\ WorkersAlive'
    BY ThreadKept DEF ThreadMove, ChipInv, ChipTypes, MoveDevice
  <1>6. ChipTypes'
    BY <1>3, <1>4, <1>5 DEF CallIs, ChipInv, ChipTypes, MoveDevice
  <1>7. ChipHeld'
    BY <1>4, InputAssumption DEF CallIs, ChipInv, ChipTypes, ChipHeld, UnderLock, threadVars,
       At, MoveDevice
  <1>8. CallsHold'
  <2>1. call[u].pc = "list" /\ devLock' = devLock /\ registered' = registered
    BY DEF MoveDevice, At
  <2>2. ASSUME NEW v \in Callers \ {u} PROVE DeviceHeld(v)' /\ RightPlace(v)'
    <3>1. call[v].pc \notin UnderLock /\ call'[v] = call[v]
      BY <1>4, <2>1, HolderCalls DEF UnderLock, CallIs
    <3> QED
      BY <2>1, <3>1 DEF ChipInv, CallsHold, DeviceHeld, RightPlace, UnderLock
  <2>3. RightPlace(u)'
    BY <1>4, <1>1 DEF CallIs, RightPlace, DeviceOps
  <2>4. call[u].op = "remove" => d \notin enabled'
    BY <1>3, <1>1, <1>2 DEF ChipInv, ListsRegistered, Wanted, enabled
  <2>5. DeviceHeld(u)'
    BY <1>4, <2>1, <2>4 DEF CallIs, ChipInv, CallsHold, DeviceHeld
  <2> QED
    BY <2>2, <2>3, <2>5 DEF CallsHold
  <1>9. ListsRegistered' /\ Emptied'
  <2>1. ListsRegistered'
    BY <1>3, <1>1, <1>2 DEF ChipInv, ListsRegistered, MoveDevice
  <2> QED
    BY <1>4, <2>1 DEF CallIs, ChipInv, Emptied, MoveDevice
  <1>10. FlagFollows'
    BY <1>4, InputAssumption DEF CallIs, ChipInv, ChipTypes, ChipHeld, UnderLock, FlagFollows,
       Recovering, enabled, Dark, threadVars, At, MoveDevice
  <1>11. \A k \in Kinds : ListRuns(k)' /\ ListRests(k)'
    BY <1>4, RunsDue
  <1> QED
    BY <1>5, <1>6, <1>7, <1>8, <1>9, <1>10, <1>11 DEF ChipInv

\* A thread whose list is empty is suspended.
LEMMA UpdateSuspends ==
    ASSUME ChipInv, NEW u \in Callers, NEW k \in Kinds, UpdateThread(u, k),
           lists[k] = {}, Suspend({k})
    PROVE  ChipInv'
  <1>1. CallIs(u, IF k = "isr" THEN "poll" ELSE "active", call[u].op, call[u].dev)
    BY StepIs DEF ChipInv, CallPlaces, UnderLock, UpdateThread
  <1>2. ThreadTypes' /\ WorkersAlive'
    BY ThreadKept DEF ThreadMove, ChipInv, ChipTypes, chipVars, UpdateThread
  <1>3. ChipTypes'
    BY <1>1, <1>2 DEF CallIs, ChipInv, ChipTypes, chipVars, UpdateThread
  <1>4. ChipHeld'
    BY <1>1, InputAssumption DEF CallIs, ChipInv, ChipTypes, ChipHeld, UnderLock, chipVars,
       At, UpdateThread
  <1>5. CallsHold'
    BY <1>1, InputAssumption DEF CallIs, ChipInv, ChipTypes, ChipHeld, CallsHold, RightPlace,
       DeviceHeld, DeviceOps, UnderLock, enabled, chipVars, At, UpdateThread
  <1>6. ListsRegistered' /\ Emptied'
    BY <1>1, InputAssumption DEF CallIs, ChipInv, ListsRegistered, Emptied, CallsHold,
       RightPlace, chipVars, At, UpdateThread
  <1>7. FlagFollows'
    BY <1>1, InputAssumption DEF CallIs, ChipInv, ChipTypes, ChipHeld, UnderLock, FlagFollows,
       Recovering, enabled, Dark, chipVars, At, UpdateThread
  <1>8. \A j \in Kinds : ListRuns(j)' /\ ListRests(j)'
  <2>1. /\ \A j \in Kinds \ {k} : Due(j) => Due(j)'
        /\ Upgraded => Upgraded'
    BY <1>1, DueOther DEF UpdateThread
  <2>2. lists' = lists /\ At(u, k)
    BY DEF UpdateThread, chipVars
  <2>3. ASSUME NEW j \in Kinds \ {k} PROVE ListRuns(j)' /\ ListRests(j)'
    BY <2>1, <2>2 DEF ChipInv, ListRuns, ListRests, Suspend
  <2>4. ListRuns(k)' /\ ListRests(k)'
    BY <2>2 DEF ListRuns, ListRests, Suspend
  <2> QED
    BY <2>3, <2>4
  <1> QED
    BY <1>2, <1>3, <1>4, <1>5, <1>6, <1>7, <1>8 DEF ChipInv

\* A thread whose list has a device is resumed.
LEMMA UpdateResumes ==
    ASSUME ChipInv, NEW u \in Callers, NEW k \in Kinds, UpdateThread(u, k),
           lists[k] # {}, Resume(k)
    PROVE  ChipInv'
  <1>1. CallIs(u, IF k = "isr" THEN "poll" ELSE "active", call[u].op, call[u].dev)
    BY StepIs DEF ChipInv, CallPlaces, UnderLock, UpdateThread
  <1>2. ThreadTypes' /\ WorkersAlive'
    BY ThreadKept DEF ThreadMove, ChipInv, ChipTypes, chipVars, UpdateThread
  <1>3. ChipTypes'
    BY <1>1, <1>2 DEF CallIs, ChipInv, ChipTypes, chipVars, UpdateThread
  <1>4. ChipHeld'
    BY <1>1, InputAssumption DEF CallIs, ChipInv, ChipTypes, ChipHeld, UnderLock, chipVars,
       At, UpdateThread
  <1>5. CallsHold'
    BY <1>1, InputAssumption DEF CallIs, ChipInv, ChipTypes, ChipHeld, CallsHold, RightPlace,
       DeviceHeld, DeviceOps, UnderLock, enabled, chipVars, At, UpdateThread
  <1>6. ListsRegistered' /\ Emptied'
    BY <1>1, InputAssumption DEF CallIs, ChipInv, ListsRegistered, Emptied, CallsHold,
       RightPlace, chipVars, At, UpdateThread
  <1>7. FlagFollows'
    BY <1>1, InputAssumption DEF CallIs, ChipInv, ChipTypes, ChipHeld, UnderLock, FlagFollows,
       Recovering, enabled, Dark, chipVars, At, UpdateThread
  <1>8. \A j \in Kinds : ListRuns(j)' /\ ListRests(j)'
  <2>1. /\ \A j \in Kinds \ {k} : Due(j) => Due(j)'
        /\ Upgraded => Upgraded'
    BY <1>1, DueOther DEF UpdateThread
  <2>2. lists' = lists /\ At(u, k)
    BY DEF UpdateThread, chipVars
  <2>3. ASSUME NEW j \in Kinds \ {k} PROVE ListRuns(j)' /\ ListRests(j)'
    BY <2>1, <2>2 DEF ChipInv, ChipTypes, ThreadTypes, ListRuns, ListRests, Resume, Woken
  <2>4. ListRuns(k)' /\ ListRests(k)'
    BY <2>2 DEF ChipInv, ChipTypes, ThreadTypes, ListRuns, ListRests, Resume, Woken
  <2> QED
    BY <2>3, <2>4
  <1> QED
    BY <1>2, <1>3, <1>4, <1>5, <1>6, <1>7, <1>8 DEF ChipInv

\* The flag follows the lists, or is recorded as astray, and the call returns.
LEMMA ActiveReturns ==
    ASSUME ChipInv, NEW u \in Callers, UpdateActive(u), Return(u)
    PROVE  ChipInv'
  <1>1. Released(u)
    BY ReturnIs DEF ChipInv
  <1>2. /\ chip' \in [powered : BOOLEAN, actived : BOOLEAN]
        /\ Dark(chip') => Dark(chip)
        /\ astray' = (chip'.actived # (enabled # {}))
    BY ActiveFlags DEF UpdateActive, ChipInv
  <1>3. ThreadTypes' /\ WorkersAlive'
    BY ThreadKept DEF ThreadMove, ChipInv, ChipTypes, UpdateActive
  <1>4. ChipTypes'
    BY <1>1, <1>2, <1>3 DEF Released, CallIs, ChipInv, ChipTypes, UpdateActive
  <1>5. ChipHeld'
    BY <1>1, <1>2, InputAssumption DEF Released, CallIs, ChipInv, ChipTypes, ChipHeld,
       UnderLock, threadVars, At, UpdateActive
  <1>6. CallsHold'
    BY <1>1, <1>2, InputAssumption DEF Released, CallIs, ChipInv, ChipTypes, ChipHeld,
       CallsHold, RightPlace, DeviceHeld, DeviceOps, UnderLock, enabled, At, UpdateActive
  <1>7. ListsRegistered' /\ Emptied'
    BY <1>1, <1>2, InputAssumption DEF Released, CallIs, ChipInv, ListsRegistered, Emptied,
       CallsHold, RightPlace, At, UpdateActive
  <1>8. FlagFollows'
    BY <1>1, <1>2, HolderCalls, InputAssumption DEF Released, CallIs, ChipInv, FlagFollows,
       Recovering, enabled, UnderLock, threadVars, At, UpdateActive
  <1>9. \A k \in Kinds : ListRuns(k)' /\ ListRests(k)'
    BY <1>1, <1>2, RunsQuiet DEF Released, At, UpdateActive
  <1> QED
    BY <1>3, <1>4, <1>5, <1>6, <1>7, <1>8, <1>9 DEF ChipInv

\* The upgrade restores the power next.
LEMMA ActiveRestores ==
    ASSUME ChipInv, NEW u \in Callers, UpdateActive(u), call[u].op = "firmware", Step(u, "restore"),
           UNCHANGED <<chipLock, devLock>>
    PROVE  ChipInv'
  <1>1. CallIs(u, "restore", call[u].op, call[u].dev)
    BY StepIs DEF ChipInv, CallPlaces, UnderLock
  <1>2. /\ chip' \in [powered : BOOLEAN, actived : BOOLEAN]
        /\ Dark(chip') => Dark(chip)
        /\ astray' = (chip'.actived # (enabled # {}))
    BY ActiveFlags DEF UpdateActive, ChipInv
  <1>3. ThreadTypes' /\ WorkersAlive'
    BY ThreadKept DEF ThreadMove, ChipInv, ChipTypes, UpdateActive
  <1>4. ChipTypes'
    BY <1>1, <1>2, <1>3 DEF CallIs, ChipInv, ChipTypes, UpdateActive
  <1>5. ChipHeld'
    BY <1>1, <1>2, InputAssumption DEF CallIs, ChipInv, ChipTypes, ChipHeld, UnderLock,
       threadVars, At, UpdateActive
  <1>6. CallsHold'
    BY <1>1, <1>2, InputAssumption DEF CallIs, ChipInv, ChipTypes, ChipHeld, CallsHold,
       RightPlace, DeviceHeld, DeviceOps, UnderLock, enabled, At, UpdateActive
  <1>7. ListsRegistered' /\ Emptied'
    BY <1>1, <1>2, InputAssumption DEF CallIs, ChipInv, ListsRegistered, Emptied, CallsHold,
       RightPlace, At, UpdateActive
  <1>8. FlagFollows'
    BY <1>1, <1>2, HolderCalls, InputAssumption DEF CallIs, ChipInv, FlagFollows, Recovering,
       enabled, UnderLock, threadVars, At, UpdateActive
  <1>9. \A k \in Kinds : ListRuns(k)' /\ ListRests(k)'
    BY <1>1, <1>2, RunsQuiet DEF At, UpdateActive
  <1> QED
    BY <1>3, <1>4, <1>5, <1>6, <1>7, <1>8, <1>9 DEF ChipInv

\* The calibration goes on with an enabled device.
LEMMA ActiveCalibrates ==
    ASSUME ChipInv, NEW u \in Callers, UpdateActive(u), Step(u, "calibrate"), UNCHANGED <<chipLock, devLock>>
    PROVE  ChipInv'
  <1>1. CallIs(u, "calibrate", call[u].op, call[u].dev)
    BY StepIs DEF ChipInv, CallPlaces, UnderLock
  <1>2. /\ chip' \in [powered : BOOLEAN, actived : BOOLEAN]
        /\ Dark(chip') => Dark(chip)
        /\ astray' = (chip'.actived # (enabled # {}))
    BY ActiveFlags DEF UpdateActive, ChipInv
  <1>3. ThreadTypes' /\ WorkersAlive'
    BY ThreadKept DEF ThreadMove, ChipInv, ChipTypes, UpdateActive
  <1>4. ChipTypes'
    BY <1>1, <1>2, <1>3 DEF CallIs, ChipInv, ChipTypes, UpdateActive
  <1>5. ChipHeld'
    BY <1>1, <1>2, InputAssumption DEF CallIs, ChipInv, ChipTypes, ChipHeld, UnderLock,
       threadVars, At, UpdateActive
  <1>6. CallsHold'
    BY <1>1, <1>2, InputAssumption DEF CallIs, ChipInv, ChipTypes, ChipHeld, CallsHold,
       RightPlace, DeviceHeld, DeviceOps, UnderLock, enabled, At, UpdateActive
  <1>7. ListsRegistered' /\ Emptied'
    BY <1>1, <1>2, InputAssumption DEF CallIs, ChipInv, ListsRegistered, Emptied, CallsHold,
       RightPlace, At, UpdateActive
  <1>8. FlagFollows'
    BY <1>1, <1>2, HolderCalls, InputAssumption DEF CallIs, ChipInv, FlagFollows, Recovering,
       enabled, UnderLock, threadVars, At, UpdateActive
  <1>9. \A k \in Kinds : ListRuns(k)' /\ ListRests(k)'
    BY <1>1, <1>2, RunsQuiet DEF At, UpdateActive
  <1> QED
    BY <1>3, <1>4, <1>5, <1>6, <1>7, <1>8, <1>9 DEF ChipInv

\* The removal unlinks a device that has left its list.
LEMMA ActiveUnlinks ==
    ASSUME ChipInv, NEW u \in Callers, UpdateActive(u), call[u].op = "remove", Step(u, "unlink"),
           UNCHANGED <<chipLock, devLock>>
    PROVE  ChipInv'
  <1>1. CallIs(u, "unlink", call[u].op, call[u].dev)
    BY StepIs DEF ChipInv, CallPlaces, UnderLock
  <1>2. /\ chip' \in [powered : BOOLEAN, actived : BOOLEAN]
        /\ Dark(chip') => Dark(chip)
        /\ astray' = (chip'.actived # (enabled # {}))
    BY ActiveFlags DEF UpdateActive, ChipInv
  <1>3. ThreadTypes' /\ WorkersAlive'
    BY ThreadKept DEF ThreadMove, ChipInv, ChipTypes, UpdateActive
  <1>4. ChipTypes'
    BY <1>1, <1>2, <1>3 DEF CallIs, ChipInv, ChipTypes, UpdateActive
  <1>5. ChipHeld'
    BY <1>1, <1>2, InputAssumption DEF CallIs, ChipInv, ChipTypes, ChipHeld, UnderLock,
       threadVars, At, UpdateActive
  <1>6. CallsHold'
    BY <1>1, <1>2, InputAssumption DEF CallIs, ChipInv, ChipTypes, ChipHeld, CallsHold,
       RightPlace, DeviceHeld, DeviceOps, UnderLock, enabled, At, UpdateActive
  <1>7. ListsRegistered' /\ Emptied'
    BY <1>1, <1>2, InputAssumption DEF CallIs, ChipInv, ListsRegistered, Emptied, CallsHold,
       RightPlace, At, UpdateActive
  <1>8. FlagFollows'
    BY <1>1, <1>2, HolderCalls, InputAssumption DEF CallIs, ChipInv, FlagFollows, Recovering,
       enabled, UnderLock, threadVars, At, UpdateActive
  <1>9. \A k \in Kinds : ListRuns(k)' /\ ListRests(k)'
    BY <1>1, <1>2, RunsQuiet DEF At, UpdateActive
  <1> QED
    BY <1>3, <1>4, <1>5, <1>6, <1>7, <1>8, <1>9 DEF ChipInv

\* Both threads are suspended and the update of both is due.
LEMMA CalibrateKept ==
    ASSUME ChipInv, NEW u \in Callers, Calibrate(u)
    PROVE  ChipInv'
  <1>1. CallIs(u, "isr", "offset", call[u].dev)
    BY RenameIs DEF ChipInv, CallPlaces, CallOps, UnderLock, DeviceOps, Calibrate
  <1>2. ThreadTypes' /\ WorkersAlive'
    BY ThreadKept DEF ThreadMove, ChipInv, ChipTypes, chipVars, Calibrate
  <1>3. ChipTypes'
    BY <1>1, <1>2 DEF CallIs, ChipInv, ChipTypes, chipVars, Calibrate
  <1>4. ChipHeld'
    BY <1>1, InputAssumption DEF CallIs, ChipInv, ChipTypes, ChipHeld, UnderLock, chipVars,
       At, Calibrate
  <1>5. CallsHold'
    BY <1>1, InputAssumption DEF CallIs, ChipInv, ChipTypes, ChipHeld, CallsHold, RightPlace,
       DeviceHeld, DeviceOps, UnderLock, enabled, chipVars, At, Calibrate
  <1>6. ListsRegistered' /\ Emptied'
    BY <1>1, InputAssumption DEF CallIs, ChipInv, ListsRegistered, Emptied, CallsHold,
       RightPlace, chipVars, At, Calibrate
  <1>7. FlagFollows'
    BY <1>1, InputAssumption DEF CallIs, ChipInv, ChipTypes, ChipHeld, UnderLock, FlagFollows,
       Recovering, enabled, Dark, chipVars, At, Calibrate
  <1>8. \A k \in Kinds : ListRuns(k)' /\ ListRests(k)'
    BY <1>1, RunsDue
  <1> QED
    BY <1>2, <1>3, <1>4, <1>5, <1>6, <1>7, <1>8 DEF ChipInv

\* Power alone changes; the flag that follows the lists does not.
LEMMA PowerStoreKept ==
    ASSUME ChipInv, NEW u \in Callers, PowerStore(u)
    PROVE  ChipInv'
  <1>1. call' = call
    BY DEF ChipInv, PowerStore
  <1>2. chip' \in [powered : BOOLEAN, actived : BOOLEAN] /\ chip'.actived = chip.actived
    BY PowerFlags DEF PowerStore, ChipInv
  <1>3. ThreadTypes' /\ WorkersAlive'
    BY ThreadKept DEF ThreadMove, ChipInv, ChipTypes, PowerStore
  <1>4. ChipTypes'
    BY <1>1, <1>2, <1>3 DEF ChipInv, ChipTypes, PowerStore
  <1>5. ChipHeld'
    BY <1>1, <1>2, InputAssumption DEF ChipInv, ChipTypes, ChipHeld, UnderLock, threadVars,
       At, PowerStore
  <1>6. CallsHold'
    BY <1>1, <1>2, InputAssumption DEF ChipInv, ChipTypes, ChipHeld, CallsHold, RightPlace,
       DeviceHeld, DeviceOps, UnderLock, enabled, At, PowerStore
  <1>7. ListsRegistered' /\ Emptied'
    BY <1>1, <1>2, InputAssumption DEF ChipInv, ListsRegistered, Emptied, CallsHold,
       RightPlace, At, PowerStore
  <1>8. FlagFollows'
    BY <1>1, <1>2, InputAssumption DEF ChipInv, ChipTypes, ChipHeld, UnderLock, FlagFollows,
       Recovering, enabled, Dark, threadVars, At, PowerStore
  <1>9. \A k \in Kinds : ListRuns(k)' /\ ListRests(k)'
    BY <1>1, RunsSame DEF ChipInv, Due, Upgraded, threadVars, PowerStore
  <1> QED
    BY <1>3, <1>4, <1>5, <1>6, <1>7, <1>8, <1>9 DEF ChipInv

\* An upgrade suspends both threads and owes their update.
LEMMA UpgradeKept ==
    ASSUME ChipInv, NEW u \in Callers, u \in Users, Upgrade(u)
    PROVE  ChipInv'
  <1>1. CallIs(u, "chip", "firmware", Nobody)
    BY OpenIs DEF ChipInv, CallPlaces, CallOps, UnderLock, DeviceOps, Upgrade
  <1>2. ThreadTypes' /\ WorkersAlive'
    BY ThreadKept DEF ThreadMove, ChipInv, ChipTypes, chipVars, Upgrade
  <1>3. ChipTypes'
    BY <1>1, <1>2 DEF CallIs, ChipInv, ChipTypes, chipVars, Upgrade
  <1>4. ChipHeld'
    BY <1>1, InputAssumption DEF CallIs, ChipInv, ChipTypes, ChipHeld, UnderLock, chipVars,
       At, Upgrade, Suspend
  <1>5. CallsHold'
    BY <1>1, InputAssumption DEF CallIs, ChipInv, ChipTypes, ChipHeld, CallsHold, RightPlace,
       DeviceHeld, DeviceOps, UnderLock, enabled, chipVars, At, Upgrade
  <1>6. ListsRegistered' /\ Emptied'
    BY <1>1, InputAssumption DEF CallIs, ChipInv, ListsRegistered, Emptied, CallsHold,
       RightPlace, chipVars, At, Upgrade
  <1>7. FlagFollows'
    BY <1>1, InputAssumption DEF CallIs, ChipInv, ChipTypes, ChipHeld, UnderLock, FlagFollows,
       Recovering, enabled, Dark, chipVars, At, Upgrade, Suspend
  <1>8. \A k \in Kinds : ListRuns(k)' /\ ListRests(k)'
    BY <1>1 DEF CallIs, Upgraded, ListRuns, ListRests, Upgrade, Suspend
  <1> QED
    BY <1>2, <1>3, <1>4, <1>5, <1>6, <1>7, <1>8 DEF ChipInv

\* The update of both threads is due.
LEMMA UpgradePowerKept ==
    ASSUME ChipInv, NEW u \in Callers, UpgradePower(u)
    PROVE  ChipInv'
  <1>1. CallIs(u, "isr", call[u].op, call[u].dev)
    BY SaveIs DEF ChipInv, CallPlaces, UnderLock, ChipTypes, UpgradePower
  <1>2. chip' \in [powered : BOOLEAN, actived : BOOLEAN] /\ chip'.actived = chip.actived
    BY PowerFlags DEF UpgradePower, ChipInv
  <1>3. ThreadTypes' /\ WorkersAlive'
    BY ThreadKept DEF ThreadMove, ChipInv, ChipTypes, UpgradePower
  <1>4. ChipTypes'
    BY <1>1, <1>2, <1>3 DEF CallIs, ChipInv, ChipTypes, UpgradePower
  <1>5. ChipHeld'
    BY <1>1, <1>2, InputAssumption DEF CallIs, ChipInv, ChipTypes, ChipHeld, UnderLock,
       threadVars, At, UpgradePower
  <1>6. CallsHold'
    BY <1>1, <1>2, InputAssumption DEF CallIs, ChipInv, ChipTypes, ChipHeld, CallsHold,
       RightPlace, DeviceHeld, DeviceOps, UnderLock, enabled, At, UpgradePower
  <1>7. ListsRegistered' /\ Emptied'
    BY <1>1, <1>2, InputAssumption DEF CallIs, ChipInv, ListsRegistered, Emptied, CallsHold,
       RightPlace, At, UpgradePower
  <1>8. FlagFollows'
    BY <1>1, <1>2, InputAssumption DEF CallIs, ChipInv, ChipTypes, ChipHeld, UnderLock,
       FlagFollows, Recovering, enabled, Dark, threadVars, At, UpgradePower
  <1>9. \A k \in Kinds : ListRuns(k)' /\ ListRests(k)'
    BY <1>1, RunsDue
  <1> QED
    BY <1>3, <1>4, <1>5, <1>6, <1>7, <1>8, <1>9 DEF ChipInv

\* The saved power is restored.
LEMMA UpgradeRestoreKept ==
    ASSUME ChipInv, NEW u \in Callers, UpgradeRestore(u)
    PROVE  ChipInv'
  <1>1. Released(u)
    BY ReturnIs DEF ChipInv, UpgradeRestore
  <1>2. chip' \in [powered : BOOLEAN, actived : BOOLEAN] /\ chip'.actived = chip.actived
    BY PowerFlags DEF UpgradeRestore, ChipInv, ChipTypes, ChipCalls
  <1>3. ThreadTypes' /\ WorkersAlive'
    BY ThreadKept DEF ThreadMove, ChipInv, ChipTypes, UpgradeRestore
  <1>4. ChipTypes'
    BY <1>1, <1>2, <1>3 DEF Released, CallIs, ChipInv, ChipTypes, UpgradeRestore
  <1>5. ChipHeld'
    BY <1>1, <1>2, InputAssumption DEF Released, CallIs, ChipInv, ChipTypes, ChipHeld,
       UnderLock, threadVars, At, UpgradeRestore
  <1>6. CallsHold'
    BY <1>1, <1>2, InputAssumption DEF Released, CallIs, ChipInv, ChipTypes, ChipHeld,
       CallsHold, RightPlace, DeviceHeld, DeviceOps, UnderLock, enabled, At, UpgradeRestore
  <1>7. ListsRegistered' /\ Emptied'
    BY <1>1, <1>2, InputAssumption DEF Released, CallIs, ChipInv, ListsRegistered, Emptied,
       CallsHold, RightPlace, At, UpgradeRestore
  <1>8. FlagFollows'
    BY <1>1, <1>2, InputAssumption DEF Released, CallIs, ChipInv, ChipTypes, ChipHeld,
       UnderLock, FlagFollows, Recovering, enabled, Dark, threadVars, At, UpgradeRestore
  <1>9. \A k \in Kinds : ListRuns(k)' /\ ListRests(k)'
    BY <1>1, <1>2, RunsQuiet DEF Released, At, UpgradeRestore
  <1> QED
    BY <1>3, <1>4, <1>5, <1>6, <1>7, <1>8, <1>9 DEF ChipInv

\* chip->lock before dev->lock.
LEMMA UnregisterLockKept ==
    ASSUME ChipInv, NEW u \in Callers, UnregisterLock(u)
    PROVE  ChipInv'
  <1>1. \E d \in registered : CallIs(u, "unregister", call[u].op, d)
    BY TargetIs DEF ChipInv, CallPlaces, UnderLock, ChipTypes, UnregisterLock
  <1>2. ThreadTypes' /\ WorkersAlive'
    BY ThreadKept DEF ThreadMove, ChipInv, ChipTypes, UnregisterLock
  <1>3. ChipTypes'
    BY <1>1, <1>2 DEF CallIs, ChipInv, ChipTypes, UnregisterLock
  <1>4. ChipHeld'
    BY <1>1, InputAssumption DEF CallIs, ChipInv, ChipTypes, ChipHeld, UnderLock, threadVars,
       At, UnregisterLock
  <1>5. CallsHold'
    BY <1>1, InputAssumption DEF CallIs, ChipInv, ChipTypes, ChipHeld, CallsHold, RightPlace,
       DeviceHeld, DeviceOps, UnderLock, enabled, At, UnregisterLock
  <1>6. ListsRegistered' /\ Emptied'
    BY <1>1, InputAssumption DEF CallIs, ChipInv, ListsRegistered, Emptied, CallsHold,
       RightPlace, At, UnregisterLock
  <1>7. FlagFollows'
    BY <1>1, InputAssumption DEF CallIs, ChipInv, ChipTypes, ChipHeld, UnderLock, FlagFollows,
       Recovering, enabled, Dark, threadVars, At, UnregisterLock
  <1>8. \A k \in Kinds : ListRuns(k)' /\ ListRests(k)'
    BY <1>1, RunsQuiet DEF At, UnregisterLock
  <1> QED
    BY <1>2, <1>3, <1>4, <1>5, <1>6, <1>7, <1>8 DEF ChipInv

\* No call on the device is under way from here.
LEMMA UnregisterDevKept ==
    ASSUME ChipInv, NEW u \in Callers, UnregisterDev(u)
    PROVE  ChipInv'
  <1>1. CallIs(u, "set", call[u].op, call[u].dev)
    BY StepIs DEF ChipInv, CallPlaces, UnderLock, UnregisterDev
  <1>2. ThreadTypes' /\ WorkersAlive'
    BY ThreadKept DEF ThreadMove, ChipInv, ChipTypes, UnregisterDev
  <1>3. ChipTypes'
    BY <1>1, <1>2 DEF CallIs, ChipInv, ChipTypes, UnregisterDev
  <1>4. ChipHeld'
    BY <1>1, InputAssumption DEF CallIs, ChipInv, ChipTypes, ChipHeld, UnderLock, threadVars,
       At, UnregisterDev
  <1>5. CallsHold'
    BY <1>1, InputAssumption DEF CallIs, ChipInv, ChipTypes, ChipHeld, CallsHold, RightPlace,
       DeviceHeld, DeviceOps, UnderLock, enabled, At, UnregisterDev
  <1>6. ListsRegistered' /\ Emptied'
    BY <1>1, InputAssumption DEF CallIs, ChipInv, ListsRegistered, Emptied, CallsHold,
       RightPlace, At, UnregisterDev
  <1>7. FlagFollows'
    BY <1>1, InputAssumption DEF CallIs, ChipInv, ChipTypes, ChipHeld, UnderLock, FlagFollows,
       Recovering, enabled, Dark, threadVars, At, UnregisterDev
  <1>8. \A k \in Kinds : ListRuns(k)' /\ ListRests(k)'
    BY <1>1, RunsQuiet DEF At, UnregisterDev
  <1> QED
    BY <1>2, <1>3, <1>4, <1>5, <1>6, <1>7, <1>8 DEF ChipInv

\* A device goes that no list has.
LEMMA UnlinkKept ==
    ASSUME ChipInv, NEW u \in Callers, Unlink(u)
    PROVE  ChipInv'
  <1>1. \/ registered' = {} /\ CallIs(u, "stop", call[u].op, "poll")
        \/ registered' # {} /\ CallIs(u, "next", call[u].op, Nobody)
    BY TargetIs, InputAssumption DEF ChipInv, CallPlaces, UnderLock, ChipTypes, Unlink
  <1>2. ThreadTypes' /\ WorkersAlive'
    BY ThreadKept DEF ThreadMove, ChipInv, ChipTypes, Unlink
  <1>3. ChipTypes'
    BY <1>1, <1>2 DEF CallIs, ChipInv, ChipTypes, Unlink
  <1>4. ChipHeld'
    BY <1>1, InputAssumption DEF CallIs, ChipInv, ChipTypes, ChipHeld, UnderLock, threadVars,
       At, Unlink
  <1>5. CallsHold'
    BY <1>1, InputAssumption DEF CallIs, ChipInv, ChipTypes, ChipHeld, CallsHold, RightPlace,
       DeviceHeld, DeviceOps, UnderLock, enabled, At, Unlink
  <1>6. ListsRegistered' /\ Emptied'
  <2>1. call[u].dev \notin enabled /\ registered' = registered \ {call[u].dev} /\ lists' = lists
    BY DEF ChipInv, CallsHold, RightPlace, DeviceHeld, At, Unlink
  <2> QED
    BY <1>1, <2>1 DEF CallIs, ChipInv, ListsRegistered, Emptied, enabled, Unlink
  <1>7. FlagFollows'
    BY <1>1, InputAssumption DEF CallIs, ChipInv, ChipTypes, ChipHeld, UnderLock, FlagFollows,
       Recovering, enabled, Dark, threadVars, At, Unlink
  <1>8. \A k \in Kinds : ListRuns(k)' /\ ListRests(k)'
    BY <1>1, RunsQuiet DEF At, Unlink
  <1> QED
    BY <1>2, <1>3, <1>4, <1>5, <1>6, <1>7, <1>8 DEF ChipInv

\* No device is left, so that no list asks for the thread that is told to stop.
LEMMA StopThreadKept ==
    ASSUME ChipInv, NEW u \in Callers, StopThread(u)
    PROVE  ChipInv'
  <1>1. /\ registered = {} /\ (\A k \in Kinds : lists[k] = {})
        /\ call[u].dev \in Kinds
    BY InputAssumption DEF ChipInv, CallsHold, RightPlace, Emptied, ListsRegistered, At,
       StopThread
  <1>2. CallIs(u, "look", call[u].op, call[u].dev)
    BY StepIs DEF ChipInv, CallPlaces, UnderLock, StopThread
  <1>3. ThreadTypes' /\ WorkersAlive'
    BY <1>1, ThreadKept DEF ThreadMove, ChipInv, ChipTypes, StopThread
  <1>4. ChipTypes'
    BY <1>2, <1>3 DEF CallIs, ChipInv, ChipTypes, chipVars, StopThread
  <1>5. ChipHeld'
    BY <1>2, InputAssumption DEF CallIs, ChipInv, ChipTypes, ChipHeld, UnderLock, chipVars,
       At, StopThread, StopAsk
  <1>6. CallsHold'
    BY <1>2, InputAssumption DEF CallIs, ChipInv, ChipTypes, ChipHeld, CallsHold, RightPlace,
       DeviceHeld, DeviceOps, UnderLock, enabled, chipVars, At, StopThread
  <1>7. ListsRegistered' /\ Emptied'
    BY <1>2, InputAssumption DEF CallIs, ChipInv, ListsRegistered, Emptied, CallsHold,
       RightPlace, chipVars, At, StopThread
  <1>8. FlagFollows'
    BY <1>2, InputAssumption DEF CallIs, ChipInv, ChipTypes, ChipHeld, UnderLock, FlagFollows,
       Recovering, enabled, Dark, chipVars, At, StopThread, StopAsk
  <1>9. \A k \in Kinds : ListRuns(k)' /\ ListRests(k)'
    BY <1>1, <1>2, DueKept DEF ChipInv, ChipTypes, ThreadTypes, ListRuns, ListRests,
       StopThread, StopAsk, chipVars, At
  <1> QED
    BY <1>3, <1>4, <1>5, <1>6, <1>7, <1>8, <1>9 DEF ChipInv

\* The stop loop completes the wait of the interrupt thread.
LEMMA StopLoopKept ==
    ASSUME ChipInv, NEW u \in Callers, StopLoop(u)
    PROVE  ChipInv'
  <1>1. /\ registered = {} /\ (\A k \in Kinds : lists[k] = {})
        /\ call[u].dev \in Kinds
    BY InputAssumption DEF ChipInv, CallsHold, RightPlace, Emptied, ListsRegistered, At, StopLoop
  <1>2. CallIs(u, "wake", call[u].op, call[u].dev)
    BY StepIs DEF ChipInv, CallPlaces, UnderLock, StopLoop
  <1>3. ThreadTypes' /\ WorkersAlive'
    BY <1>1, ThreadKept DEF ThreadMove, ChipInv, ChipTypes, StopLoop
  <1>4. ChipTypes'
    BY <1>2, <1>3 DEF CallIs, ChipInv, ChipTypes, chipVars, StopLoop
  <1>5. ChipHeld'
    BY <1>2, InputAssumption DEF CallIs, ChipInv, ChipTypes, ChipHeld, UnderLock, chipVars,
       threadVars, At, StopLoop, StopSignal
  <1>6. CallsHold'
    BY <1>2, InputAssumption DEF CallIs, ChipInv, ChipTypes, ChipHeld, CallsHold, RightPlace,
       DeviceHeld, DeviceOps, UnderLock, enabled, chipVars, At, StopLoop
  <1>7. ListsRegistered' /\ Emptied'
    BY <1>2, InputAssumption DEF CallIs, ChipInv, ListsRegistered, Emptied, CallsHold,
       RightPlace, chipVars, At, StopLoop
  <1>8. FlagFollows'
    BY <1>2, InputAssumption DEF CallIs, ChipInv, ChipTypes, ChipHeld, UnderLock, FlagFollows,
       Recovering, enabled, Dark, chipVars, threadVars, At, StopLoop, StopSignal
  <1>9. \A k \in Kinds : ListRuns(k)' /\ ListRests(k)'
    BY <1>2, DueKept, RunsSame DEF ChipInv, threadVars, chipVars, At, StopLoop, StopSignal
  <1> QED
    BY <1>3, <1>4, <1>5, <1>6, <1>7, <1>8, <1>9 DEF ChipInv

\* The wake-up moves a sleeping thread, whose list is empty.
LEMMA StopWakesKept ==
    ASSUME ChipInv, NEW u \in Callers, StopWakes(u)
    PROVE  ChipInv'
  <1>1. /\ registered = {} /\ (\A k \in Kinds : lists[k] = {})
        /\ call[u].dev \in Kinds
    BY InputAssumption DEF ChipInv, CallsHold, RightPlace, Emptied, ListsRegistered, At, StopWakes
  <1>2. CallIs(u, "look", call[u].op, call[u].dev)
    BY StepIs DEF ChipInv, CallPlaces, UnderLock, StopWakes
  <1>3. ThreadTypes' /\ WorkersAlive'
    BY <1>1, ThreadKept DEF ThreadMove, ChipInv, ChipTypes, StopWakes
  <1>4. ChipTypes'
    BY <1>2, <1>3 DEF CallIs, ChipInv, ChipTypes, chipVars, StopWakes
  <1>5. ChipHeld'
    BY <1>2, InputAssumption DEF CallIs, ChipInv, ChipTypes, ChipHeld, UnderLock, chipVars,
       At, StopWakes, StopWake, Woken, Locked, ThreadTypes
  <1>6. CallsHold'
    BY <1>2, InputAssumption DEF CallIs, ChipInv, ChipTypes, ChipHeld, CallsHold, RightPlace,
       DeviceHeld, DeviceOps, UnderLock, enabled, chipVars, At, StopWakes
  <1>7. ListsRegistered' /\ Emptied'
    BY <1>2, InputAssumption DEF CallIs, ChipInv, ListsRegistered, Emptied, CallsHold,
       RightPlace, chipVars, At, StopWakes
  <1>8. FlagFollows'
    BY <1>2, InputAssumption DEF CallIs, ChipInv, ChipTypes, ChipHeld, UnderLock, FlagFollows,
       Recovering, enabled, Dark, chipVars, At, StopWakes, StopWake, Woken, Locked,
       ThreadTypes
  <1>9. \A k \in Kinds : ListRuns(k)' /\ ListRests(k)'
    BY <1>1, <1>2, DueKept DEF ChipInv, ListRuns, ListRests, StopWakes, StopWake, chipVars, At
  <1> QED
    BY <1>3, <1>4, <1>5, <1>6, <1>7, <1>8, <1>9 DEF ChipInv

\* The wake-up of a thread that has left ends the model.
LEMMA StopWakesNullKept ==
    ASSUME ChipInv, NEW u \in Callers, StopWakesNull(u)
    PROVE  ChipInv'
  <1>1. CallIs(u, "crashed", call[u].op, call[u].dev)
    BY StepIs DEF ChipInv, CallPlaces, UnderLock, StopWakesNull
  <1>2. ThreadTypes' /\ WorkersAlive'
    BY ThreadKept DEF ThreadMove, ChipInv, ChipTypes, StopWakesNull
  <1>3. ChipTypes'
    BY <1>1, <1>2 DEF CallIs, ChipInv, ChipTypes, StopWakesNull
  <1>4. ChipHeld'
    BY <1>1, InputAssumption DEF CallIs, ChipInv, ChipTypes, ChipHeld, UnderLock, threadVars,
       At, StopWakesNull
  <1>5. CallsHold'
    BY <1>1, InputAssumption DEF CallIs, ChipInv, ChipTypes, ChipHeld, CallsHold, RightPlace,
       DeviceHeld, DeviceOps, UnderLock, enabled, At, StopWakesNull
  <1>6. ListsRegistered' /\ Emptied'
    BY <1>1, InputAssumption DEF CallIs, ChipInv, ListsRegistered, Emptied, CallsHold,
       RightPlace, At, StopWakesNull
  <1>7. FlagFollows'
    BY <1>1, InputAssumption DEF CallIs, ChipInv, ChipTypes, ChipHeld, UnderLock, FlagFollows,
       Recovering, enabled, Dark, threadVars, At, StopWakesNull
  <1>8. \A k \in Kinds : ListRuns(k)' /\ ListRests(k)'
    BY <1>1, RunsQuiet DEF At, StopWakesNull
  <1> QED
    BY <1>2, <1>3, <1>4, <1>5, <1>6, <1>7, <1>8 DEF ChipInv

\* The poll thread is stopped before the interrupt thread.
LEMMA StopReturnsKept ==
    ASSUME ChipInv, NEW u \in Callers, StopReturns(u)
    PROVE  ChipInv'
  <1>1. CallIs(u, "stop", call[u].op, "isr") \/ CallIs(u, "off", call[u].op, call[u].dev)
    BY StepIs, TargetIs, InputAssumption DEF ChipInv, CallPlaces, UnderLock, Step, StopReturns
  <1>2. ThreadTypes' /\ WorkersAlive'
    BY ThreadKept DEF ThreadMove, ChipInv, ChipTypes, chipVars, StopReturns
  <1>3. ChipTypes'
    BY <1>1, <1>2 DEF CallIs, ChipInv, ChipTypes, chipVars, StopReturns
  <1>4. ChipHeld'
    BY <1>1, InputAssumption DEF CallIs, ChipInv, ChipTypes, ChipHeld, UnderLock, chipVars,
       threadVars, At, StopReturns
  <1>5. CallsHold'
    BY <1>1, InputAssumption DEF CallIs, ChipInv, ChipTypes, ChipHeld, CallsHold, RightPlace,
       DeviceHeld, DeviceOps, UnderLock, enabled, chipVars, At, StopReturns
  <1>6. ListsRegistered' /\ Emptied'
    BY <1>1, InputAssumption DEF CallIs, ChipInv, ListsRegistered, Emptied, CallsHold,
       RightPlace, chipVars, At, StopReturns
  <1>7. FlagFollows'
    BY <1>1, InputAssumption DEF CallIs, ChipInv, ChipTypes, ChipHeld, UnderLock, FlagFollows,
       Recovering, enabled, Dark, chipVars, threadVars, At, StopReturns
  <1>8. \A k \in Kinds : ListRuns(k)' /\ ListRests(k)'
    BY <1>1, RunsQuiet DEF chipVars, At, StopReturns
  <1> QED
    BY <1>2, <1>3, <1>4, <1>5, <1>6, <1>7, <1>8 DEF ChipInv

\* No device and no activity is left.
LEMMA RemoveEndKept ==
    ASSUME ChipInv, NEW u \in Callers, RemoveEnd(u)
    PROVE  ChipInv'
  <1>1. Released(u)
    BY ReturnIs DEF ChipInv, RemoveEnd
  <1>2. /\ chip' \in [powered : BOOLEAN, actived : BOOLEAN]
        /\ Dark(chip') => Dark(chip)
        /\ ~chip'.actived
    BY ActiveFlags DEF RemoveEnd, ChipInv
  <1>3. ThreadTypes' /\ WorkersAlive'
    BY ThreadKept DEF ThreadMove, ChipInv, ChipTypes, RemoveEnd
  <1>4. ChipTypes'
    BY <1>1, <1>2, <1>3 DEF Released, CallIs, ChipInv, ChipTypes, RemoveEnd
  <1>5. ChipHeld'
    BY <1>1, <1>2, InputAssumption DEF Released, CallIs, ChipInv, ChipTypes, ChipHeld,
       UnderLock, threadVars, At, RemoveEnd
  <1>6. CallsHold'
    BY <1>1, <1>2, InputAssumption DEF Released, CallIs, ChipInv, ChipTypes, ChipHeld,
       CallsHold, RightPlace, DeviceHeld, DeviceOps, UnderLock, enabled, At, RemoveEnd
  <1>7. ListsRegistered' /\ Emptied'
    BY <1>1, <1>2, InputAssumption DEF Released, CallIs, ChipInv, ListsRegistered, Emptied,
       CallsHold, RightPlace, At, RemoveEnd
  <1>8. FlagFollows'
    BY <1>1, <1>2, InputAssumption DEF Released, CallIs, ChipInv, ChipTypes, ChipHeld,
       UnderLock, FlagFollows, Recovering, enabled, Dark, threadVars, At, RemoveEnd
  <1>9. \A k \in Kinds : ListRuns(k)' /\ ListRests(k)'
    BY <1>1, <1>2, RunsQuiet DEF Released, At, RemoveEnd
  <1> QED
    BY <1>3, <1>4, <1>5, <1>6, <1>7, <1>8, <1>9 DEF ChipInv

-----------------------------------------------------------------------------
(* Every step of a thread keeps the invariant.                               *)

\* A recovery switches the chip off, under chip->lock or astray.
LEMMA RecoverOffKept ==
    ASSUME ChipInv, NEW k \in Kinds, RecoverOff(k)
    PROVE  ChipInv'
  <1>1. UNCHANGED <<call, devLock, lists, registered, removed>>
    BY DEF RecoverOff, Goto
  <1>2. chip' \in [powered : BOOLEAN, actived : BOOLEAN] /\ (Dark(chip') => Dark(chip)) /\ ~chip'.actived
    BY ActiveFlags DEF RecoverOff, ChipInv
  <1>3. ThreadTypes' /\ WorkersAlive'
    BY ThreadKept DEF ThreadMove, ChipInv, ChipTypes, RecoverOff, Goto
  <1>4. ChipTypes'
    BY <1>1, <1>2, <1>3 DEF ChipInv, ChipTypes, RecoverOff, Goto
  <1>5. ChipHeld'
    BY <1>1, <1>2, InputAssumption DEF ChipInv, ChipTypes, ThreadTypes, ChipHeld, UnderLock,
       RecoverOff, Goto
  <1>6. CallsHold' /\ ListsRegistered' /\ Emptied'
    BY <1>1 DEF ChipInv, CallsHold, RightPlace, DeviceHeld, enabled, ListsRegistered, Emptied
  <1>7. FlagFollows'
    BY <1>1, <1>2, InputAssumption DEF ChipInv, ChipTypes, ThreadTypes, FlagFollows,
       Recovering, enabled, Dark, RecoverOff, Goto
  <1>8. \A j \in Kinds : ListRuns(j)' /\ ListRests(j)'
    BY <1>1 DEF ChipInv, ChipTypes, ThreadTypes, ListRuns, ListRests, Due, Upgraded,
       RecoverOff, Goto
  <1> QED
    BY <1>3, <1>4, <1>5, <1>6, <1>7, <1>8 DEF ChipInv

\* A recovery switches the chip on again for the devices of the lists.
LEMMA RecoverOnKept ==
    ASSUME ChipInv, NEW k \in Kinds, RecoverOn(k)
    PROVE  ChipInv'
  <1>1. UNCHANGED <<call, devLock, lists, registered, removed>>
    BY DEF RecoverOn, Goto
  <1>2. /\ chip' \in [powered : BOOLEAN, actived : BOOLEAN]
        /\ Dark(chip') => Dark(chip)
        /\ enabled = {} => chip' = chip
    BY ActiveFlags DEF RecoverOn, ChipInv, ChipTypes
  <1>3. ThreadTypes' /\ WorkersAlive'
    BY ThreadKept DEF ThreadMove, ChipInv, ChipTypes, RecoverOn, Goto
  <1>4. ChipTypes'
    BY <1>1, <1>2, <1>3 DEF ChipInv, ChipTypes, RecoverOn, Goto
  <1>5. ChipHeld'
    BY <1>1, <1>2, InputAssumption DEF ChipInv, ChipTypes, ThreadTypes, ChipHeld, UnderLock,
       RecoverOn, Goto
  <1>6. CallsHold' /\ ListsRegistered' /\ Emptied'
    BY <1>1 DEF ChipInv, CallsHold, RightPlace, DeviceHeld, enabled, ListsRegistered, Emptied
  <1>7. FlagFollows'
    BY <1>1, <1>2, InputAssumption DEF ChipInv, ChipTypes, ThreadTypes, FlagFollows,
       Recovering, enabled, Dark, RecoverOn, Goto
  <1>8. \A j \in Kinds : ListRuns(j)' /\ ListRests(j)'
    BY <1>1 DEF ChipInv, ChipTypes, ThreadTypes, ListRuns, ListRests, Due, Upgraded,
       RecoverOn, Goto
  <1> QED
    BY <1>3, <1>4, <1>5, <1>6, <1>7, <1>8 DEF ChipInv

\* A thread that saw 20 errors suspends itself.
LEMMA ErrorHandlerKept ==
    ASSUME ChipInv, NEW k \in Kinds, ErrorHandler(k)
    PROVE  ChipInv'
  <1>1. UNCHANGED <<call, devLock, lists, registered, removed>>
    BY DEF chipVars, ErrorHandler
  <1>2. ThreadTypes' /\ WorkersAlive'
    BY ThreadKept DEF ThreadMove, ChipInv, ChipTypes, ErrorHandler
  <1>3. ChipTypes'
    BY <1>1, <1>2 DEF ChipInv, ChipTypes, chipVars, ErrorHandler
  <1>4. ChipHeld'
    BY <1>1, InputAssumption DEF ChipInv, ChipTypes, ThreadTypes, ChipHeld, UnderLock,
       chipVars, ErrorHandler, ErrorHandled, Goto
  <1>5. CallsHold' /\ ListsRegistered' /\ Emptied'
    BY <1>1 DEF ChipInv, CallsHold, RightPlace, DeviceHeld, enabled, ListsRegistered, Emptied
  <1>6. FlagFollows'
    BY <1>1, InputAssumption DEF ChipInv, ChipTypes, ThreadTypes, FlagFollows, Recovering,
       enabled, Dark, chipVars, ErrorHandler, ErrorHandled, Goto
  <1>7. \A j \in Kinds : ListRuns(j)' /\ ListRests(j)'
    BY <1>1 DEF ChipInv, ChipTypes, ThreadTypes, ListRuns, ListRests, Due, Upgraded,
       ErrorHandler, ErrorHandled, Goto
  <1> QED
    BY <1>2, <1>3, <1>4, <1>5, <1>6, <1>7 DEF ChipInv

\* Only a suspended thread goes to sleep.
LEMMA SleepKept ==
    ASSUME ChipInv, NEW k \in Kinds, Sleep(k), UNCHANGED <<chipVars, call>>
    PROVE  ChipInv'
  <1>1. UNCHANGED <<call, devLock, lists, registered, removed>>
    BY DEF chipVars
  <1>2. ThreadTypes' /\ WorkersAlive'
    BY ThreadKept DEF ThreadMove, ChipInv, ChipTypes, chipVars
  <1>3. ChipTypes'
    BY <1>1, <1>2 DEF ChipInv, ChipTypes, chipVars
  <1>4. ChipHeld'
    BY <1>1, InputAssumption DEF ChipInv, ChipTypes, ThreadTypes, ChipHeld, UnderLock,
       chipVars, Sleep, Goto
  <1>5. CallsHold' /\ ListsRegistered' /\ Emptied'
    BY <1>1 DEF ChipInv, CallsHold, RightPlace, DeviceHeld, enabled, ListsRegistered, Emptied
  <1>6. FlagFollows'
    BY <1>1, InputAssumption DEF ChipInv, ChipTypes, ThreadTypes, FlagFollows, Recovering,
       enabled, Dark, chipVars, Sleep, Goto
  <1>7. \A j \in Kinds : ListRuns(j)' /\ ListRests(j)'
    BY <1>1 DEF ChipInv, ChipTypes, ThreadTypes, ListRuns, ListRests, Due, Upgraded, chipVars,
       Sleep, Goto
  <1> QED
    BY <1>2, <1>3, <1>4, <1>5, <1>6, <1>7 DEF ChipInv

\* A thread passes the tests of its state.
LEMMA ProceedKept ==
    ASSUME ChipInv, NEW k \in Kinds, Proceed(k), UNCHANGED <<chipVars, call>>
    PROVE  ChipInv'
  <1>1. UNCHANGED <<call, devLock, lists, registered, removed>>
    BY DEF chipVars
  <1>2. ThreadTypes' /\ WorkersAlive'
    BY ThreadKept DEF ThreadMove, ChipInv, ChipTypes, chipVars
  <1>3. ChipTypes'
    BY <1>1, <1>2 DEF ChipInv, ChipTypes, chipVars
  <1>4. ChipHeld'
    BY <1>1, InputAssumption DEF ChipInv, ChipTypes, ThreadTypes, ChipHeld, UnderLock,
       chipVars, Proceed, Goto
  <1>5. CallsHold' /\ ListsRegistered' /\ Emptied'
    BY <1>1 DEF ChipInv, CallsHold, RightPlace, DeviceHeld, enabled, ListsRegistered, Emptied
  <1>6. FlagFollows'
    BY <1>1, InputAssumption DEF ChipInv, ChipTypes, ThreadTypes, FlagFollows, Recovering,
       enabled, Dark, chipVars, Proceed, Goto
  <1>7. \A j \in Kinds : ListRuns(j)' /\ ListRests(j)'
    BY <1>1 DEF ChipInv, ChipTypes, ThreadTypes, ListRuns, ListRests, Due, Upgraded, chipVars,
       Proceed, Goto
  <1> QED
    BY <1>2, <1>3, <1>4, <1>5, <1>6, <1>7 DEF ChipInv

\* Only a thread that was told to stop leaves.
LEMMA LeaveKept ==
    ASSUME ChipInv, NEW k \in Kinds, Leave(k), UNCHANGED <<chipVars, call>>
    PROVE  ChipInv'
  <1>1. UNCHANGED <<call, devLock, lists, registered, removed>>
    BY DEF chipVars
  <1>2. ThreadTypes' /\ WorkersAlive'
    BY ThreadKept DEF ThreadMove, ChipInv, ChipTypes, chipVars
  <1>3. ChipTypes'
    BY <1>1, <1>2 DEF ChipInv, ChipTypes, chipVars
  <1>4. ChipHeld'
    BY <1>1, InputAssumption DEF ChipInv, ChipTypes, ThreadTypes, ChipHeld, UnderLock,
       chipVars, Leave, Goto
  <1>5. CallsHold' /\ ListsRegistered' /\ Emptied'
    BY <1>1 DEF ChipInv, CallsHold, RightPlace, DeviceHeld, enabled, ListsRegistered, Emptied
  <1>6. FlagFollows'
    BY <1>1, InputAssumption DEF ChipInv, ChipTypes, ThreadTypes, FlagFollows, Recovering,
       enabled, Dark, chipVars, Leave, Goto
  <1>7. \A j \in Kinds : ListRuns(j)' /\ ListRests(j)'
    BY <1>1 DEF ChipInv, ChipTypes, ThreadTypes, ListRuns, ListRests, Due, Upgraded, chipVars,
       Leave, Goto
  <1> QED
    BY <1>2, <1>3, <1>4, <1>5, <1>6, <1>7 DEF ChipInv

\* A thread that overwrites a suspend is recorded as lost.
LEMMA EnterKept ==
    ASSUME ChipInv, NEW k \in Kinds, Enter(k), UNCHANGED <<chipVars, call>>
    PROVE  ChipInv'
  <1>1. UNCHANGED <<call, devLock, lists, registered, removed>>
    BY DEF chipVars
  <1>2. ThreadTypes' /\ WorkersAlive'
    BY ThreadKept DEF ThreadMove, ChipInv, ChipTypes, chipVars
  <1>3. ChipTypes'
    BY <1>1, <1>2 DEF ChipInv, ChipTypes, chipVars
  <1>4. ChipHeld'
    BY <1>1, InputAssumption DEF ChipInv, ChipTypes, ThreadTypes, ChipHeld, UnderLock,
       chipVars, Enter, Goto
  <1>5. CallsHold' /\ ListsRegistered' /\ Emptied'
    BY <1>1 DEF ChipInv, CallsHold, RightPlace, DeviceHeld, enabled, ListsRegistered, Emptied
  <1>6. FlagFollows'
    BY <1>1, InputAssumption DEF ChipInv, ChipTypes, ThreadTypes, FlagFollows, Recovering,
       enabled, Dark, chipVars, Enter, Goto
  <1>7. \A j \in Kinds : ListRuns(j)' /\ ListRests(j)'
    BY <1>1 DEF ChipInv, ChipTypes, ThreadTypes, WorkersAlive, ListRuns, ListRests, Due,
       Upgraded, chipVars, Enter, Goto
  <1> QED
    BY <1>2, <1>3, <1>4, <1>5, <1>6, <1>7 DEF ChipInv

\* The event is handled.
LEMMA EventDoneKept ==
    ASSUME ChipInv, NEW k \in Kinds, EventDone(k), UNCHANGED <<chipVars, call>>
    PROVE  ChipInv'
  <1>1. UNCHANGED <<call, devLock, lists, registered, removed>>
    BY DEF chipVars
  <1>2. ThreadTypes' /\ WorkersAlive'
    BY ThreadKept DEF ThreadMove, ChipInv, ChipTypes, chipVars
  <1>3. ChipTypes'
    BY <1>1, <1>2 DEF ChipInv, ChipTypes, chipVars
  <1>4. ChipHeld'
    BY <1>1, InputAssumption DEF ChipInv, ChipTypes, ThreadTypes, ChipHeld, UnderLock,
       chipVars, EventDone, Goto
  <1>5. CallsHold' /\ ListsRegistered' /\ Emptied'
    BY <1>1 DEF ChipInv, CallsHold, RightPlace, DeviceHeld, enabled, ListsRegistered, Emptied
  <1>6. FlagFollows'
    BY <1>1, InputAssumption DEF ChipInv, ChipTypes, ThreadTypes, FlagFollows, Recovering,
       enabled, Dark, chipVars, EventDone, Goto
  <1>7. \A j \in Kinds : ListRuns(j)' /\ ListRests(j)'
    BY <1>1 DEF ChipInv, ChipTypes, ThreadTypes, ListRuns, ListRests, Due, Upgraded, chipVars,
       EventDone, Goto
  <1> QED
    BY <1>2, <1>3, <1>4, <1>5, <1>6, <1>7 DEF ChipInv

\* The twentieth error.
LEMMA EventFailsKept ==
    ASSUME ChipInv, NEW k \in Kinds, EventFails(k), UNCHANGED <<chipVars, call>>
    PROVE  ChipInv'
  <1>1. UNCHANGED <<call, devLock, lists, registered, removed>>
    BY DEF chipVars
  <1>2. ThreadTypes' /\ WorkersAlive'
    BY ThreadKept DEF ThreadMove, ChipInv, ChipTypes, chipVars
  <1>3. ChipTypes'
    BY <1>1, <1>2 DEF ChipInv, ChipTypes, chipVars
  <1>4. ChipHeld'
    BY <1>1, InputAssumption DEF ChipInv, ChipTypes, ThreadTypes, ChipHeld, UnderLock,
       chipVars, EventFails, Goto
  <1>5. CallsHold' /\ ListsRegistered' /\ Emptied'
    BY <1>1 DEF ChipInv, CallsHold, RightPlace, DeviceHeld, enabled, ListsRegistered, Emptied
  <1>6. FlagFollows'
    BY <1>1, InputAssumption DEF ChipInv, ChipTypes, ThreadTypes, FlagFollows, Recovering,
       enabled, Dark, chipVars, EventFails, Goto
  <1>7. \A j \in Kinds : ListRuns(j)' /\ ListRests(j)'
    BY <1>1 DEF ChipInv, ChipTypes, ThreadTypes, ListRuns, ListRests, Due, Upgraded, chipVars,
       EventFails, Goto
  <1> QED
    BY <1>2, <1>3, <1>4, <1>5, <1>6, <1>7 DEF ChipInv

\* The wait for an event is over.
LEMMA WaitReturnKept ==
    ASSUME ChipInv, NEW k \in Kinds, WaitReturn(k), UNCHANGED <<chipVars, call>>
    PROVE  ChipInv'
  <1>1. UNCHANGED <<call, devLock, lists, registered, removed>>
    BY DEF chipVars
  <1>2. ThreadTypes' /\ WorkersAlive'
    BY ThreadKept DEF ThreadMove, ChipInv, ChipTypes, chipVars
  <1>3. ChipTypes'
    BY <1>1, <1>2 DEF ChipInv, ChipTypes, chipVars
  <1>4. ChipHeld'
    BY <1>1, InputAssumption DEF ChipInv, ChipTypes, ThreadTypes, ChipHeld, UnderLock,
       chipVars, WaitReturn, Goto
  <1>5. CallsHold' /\ ListsRegistered' /\ Emptied'
    BY <1>1 DEF ChipInv, CallsHold, RightPlace, DeviceHeld, enabled, ListsRegistered, Emptied
  <1>6. FlagFollows'
    BY <1>1, InputAssumption DEF ChipInv, ChipTypes, ThreadTypes, FlagFollows, Recovering,
       enabled, Dark, chipVars, WaitReturn, Goto
  <1>7. \A j \in Kinds : ListRuns(j)' /\ ListRests(j)'
    BY <1>1 DEF ChipInv, ChipTypes, ThreadTypes, ListRuns, ListRests, Due, Upgraded, chipVars,
       WaitReturn, Goto
  <1> QED
    BY <1>2, <1>3, <1>4, <1>5, <1>6, <1>7 DEF ChipInv

-----------------------------------------------------------------------------
LEMMA ChipInitInv == InputInit => ChipInv
  <1> SUFFICES ASSUME InputInit PROVE ChipInv
    OBVIOUS
  <1>1. /\ \A u \in Callers : call[u] = Idle
        /\ call \in [Callers -> ChipCalls]
    BY IdleTyped DEF InputInit
  <1>2. ChipTypes
    BY <1>1 DEF InputInit, ThreadsInit, ChipTypes, ThreadTypes, Places
  <1>3. ChipHeld /\ CallsHold
    BY <1>1, IdleTyped, InputAssumption DEF InputInit, ChipHeld, CallsHold, DeviceHeld,
       RightPlace, UnderLock
  <1>4. WorkersAlive
    BY DEF InputInit, ThreadsInit, WorkersAlive
  <1>5. ListsRegistered /\ Emptied
    BY <1>1, IdleTyped, InputAssumption DEF InputInit, ListsRegistered, Emptied
  <1>6. ~chip.actived /\ enabled = {}
    BY InputAssumption DEF InputInit, enabled
  <1>7. FlagFollows
    BY <1>6, InputAssumption DEF InputInit, FlagFollows, Recovering, Dark
  <1>8. \A k \in Kinds : ListRuns(k) /\ ListRests(k)
    BY DEF InputInit, ThreadsInit, ListRuns, ListRests
  <1> QED
    BY <1>2, <1>3, <1>4, <1>5, <1>7, <1>8 DEF ChipInv

\* What follows set_enable_locked depends on the operation.
LEMMA SetNothingKept ==
    ASSUME ChipInv, NEW u \in Callers, SetNothing(u)
    PROVE  ChipInv'
  <1>1. call[u].op \in DeviceOps \cup {"remove"} /\ SetEnableReturns(u)
    BY DEF ChipInv, CallsHold, RightPlace, At, SetNothing
  <1> QED
    BY <1>1, SetNothingReturns, SetNothingCalibrates, SetNothingUnlinks DEF SetEnableReturns,
       DeviceOps

\* And what follows update_thread_state.
LEMMA UpdateActiveKept ==
    ASSUME ChipInv, NEW u \in Callers, UpdateActive(u)
    PROVE  ChipInv'
  <1>1. call[u].op \in CallOps \ {"none"} /\ UpdateReturns(u)
    BY DEF ChipInv, ChipTypes, ChipCalls, CallsHold, RightPlace, At, UpdateActive
  <1> QED
    BY <1>1, ActiveReturns, ActiveCalibrates, ActiveUnlinks, ActiveRestores DEF UpdateReturns,
       SetEnableReturns, CallOps, DeviceOps

LEMMA CallStepKept ==
    ASSUME ChipInv, NEW u \in Callers, CallStep(u)
    PROVE  ChipInv'
  <1>1. CASE LockDev(u) \/ LateCall(u) \/ LockChip(u)
    BY <1>1, LockDevKept, LateCallKept, LockChipKept, LockUpgradeKept
  <1>2. CASE SetNothing(u) \/ SetFails(u) \/ SetOff(u) \/ MoveDevice(u)
    BY <1>2, SetNothingKept, SetFailsKept, SetOffKept, MoveDeviceKept
  <1>3. CASE SetOn(u)
    BY <1>3, SetOnKept, SetOnFailsKept DEF SetOn
  <1>4. ASSUME NEW k \in Kinds, UpdateThread(u, k) PROVE ChipInv'
    BY <1>4, UpdateSuspends, UpdateResumes DEF UpdateThread
  <1>5. CASE UpdateActive(u) \/ Calibrate(u) \/ UpgradePower(u) \/ UpgradeRestore(u)
    BY <1>5, UpdateActiveKept, CalibrateKept, UpgradePowerKept, UpgradeRestoreKept
  <1>6. CASE UnregisterLock(u) \/ UnregisterDev(u) \/ Unlink(u)
    BY <1>6, UnregisterLockKept, UnregisterDevKept, UnlinkKept
  <1>7. CASE StopThread(u) \/ StopLoop(u) \/ StopWakes(u) \/ StopWakesNull(u)
    BY <1>7, StopThreadKept, StopLoopKept, StopWakesKept, StopWakesNullKept
  <1>8. CASE StopReturns(u) \/ RemoveEnd(u)
    BY <1>8, StopReturnsKept, RemoveEndKept
  <1> QED
    BY <1>1, <1>2, <1>3, <1>4, <1>5, <1>6, <1>7, <1>8 DEF CallStep

LEMMA ThreadStepKept ==
    ASSUME ChipInv, NEW k \in Kinds, WorkerStep(k) \/ EventStep(k)
    PROVE  ChipInv'
  <1>1. CASE Worker(k)
    BY <1>1, SleepKept, ProceedKept, LeaveKept, EnterKept, EventDoneKept, EventFailsKept,
       WaitReturnKept DEF Worker
  <1>2. CASE RecoverOff(k) \/ RecoverOn(k) \/ ErrorHandler(k)
    BY <1>2, RecoverOffKept, RecoverOnKept, ErrorHandlerKept
  <1>3. CASE EventStep(k)
    BY <1>3, WaitReturnKept DEF EventStep, Event
  <1> QED
    BY <1>1, <1>2, <1>3 DEF WorkerStep

\* ChipInv holds in every reachable state, whatever the devices, however many tasks call
\* into the core and however often, recoveries and the removal included.
THEOREM ChipInvariant == InputSpec => []ChipInv
  <1>1. ASSUME ChipInv, [InputNext]_inputVars PROVE ChipInv'
    <2>1. ASSUME NEW u \in Callers, CallStart(u) PROVE ChipInv'
      BY <1>1, <2>1, DeviceCallKept, PowerStoreKept, UpgradeKept, RemoveStartKept DEF CallStart
    <2>2. CASE UNCHANGED inputVars
      <3>1. UNCHANGED <<threadVars, chip, chipLock, devLock, lists, registered, removed, astray, cut, call>>
        BY <2>2 DEF inputVars, chipVars
      <3>2. ChipTypes' /\ ChipHeld' /\ WorkersAlive'
        BY <1>1, <3>1 DEF ChipInv, ChipTypes, ThreadTypes, ChipHeld, WorkersAlive, threadVars
      <3>3. CallsHold' /\ ListsRegistered' /\ Emptied'
        BY <1>1, <3>1 DEF ChipInv, CallsHold, DeviceHeld, RightPlace, enabled,
           ListsRegistered, Emptied
      <3>4. FlagFollows'
        BY <1>1, <3>1 DEF ChipInv, FlagFollows, Recovering, enabled, Dark, threadVars
      <3>5. \A k \in Kinds : ListRuns(k)' /\ ListRests(k)'
        BY <1>1, <3>1 DEF ChipInv, ListRuns, ListRests, Due, Upgraded, threadVars
      <3> QED
        BY <3>2, <3>3, <3>4, <3>5 DEF ChipInv
    <2> QED
      BY <1>1, <2>1, <2>2, CallStepKept, ThreadStepKept DEF InputNext
  <1> QED
    BY <1>1, ChipInitInv, PTL DEF InputSpec

\* Whenever chip->lock is free and the driver is not being removed, the two threads, the
\* chip's activity and its power follow the lists of enabled devices, but for the
\* exceptions of cavan_input_core.c that ThreadsFollowLists names: then no update is due.
THEOREM ThreadsAndChipFollow == InputSpec => []ThreadsFollowLists
  <1>1. ChipInv => ThreadsFollowLists
    <2> SUFFICES ASSUME ChipInv, chipLock = Nobody, ~Removing PROVE
            /\ \A k \in Kinds :
                /\ lists[k] # {} => \/ state[k] = "running" /\ tpc[k] # "asleep"
                                    \/ k \in errored \/ Upgrading
                /\ lists[k] = {} => state[k] # "running" \/ k \in lost
            /\ chip.actived # (enabled # {}) => astray
            /\ Dark(chip) => cut
      BY DEF ThreadsFollowLists
    <2>1. \A u \in Callers : call[u].pc \notin UnderLock
      BY InputAssumption DEF ChipInv, ChipHeld
    <2>2. \A k \in Kinds : ~Due(k)
      BY <2>1 DEF Due, UnderLock
    <2>3. Upgraded => Upgrading
      BY DEF Upgraded, Upgrading
    <2>4. \A k \in Kinds : ~Recovering(k)
      BY InputAssumption DEF Recovering
    <2>5. ~removed
      BY DEF Removing
    <2>6. chip.actived # (enabled # {}) => astray
      BY <2>1, <2>4, <2>5 DEF ChipInv, FlagFollows, UnderLock
    <2> QED
      BY <2>2, <2>3, <2>6 DEF ChipInv, ListRuns, ListRests, FlagFollows
  <1> QED
    BY <1>1, ChipInvariant, PTL
=============================================================================
