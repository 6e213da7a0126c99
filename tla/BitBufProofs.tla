---------------------------- MODULE BitBufProofs ----------------------------
(* Theorems about the writer of BitBuf.                                    *)
EXTENDS BitBuf, TLAPS

-----------------------------------------------------------------------------
(* Words and positions.                                                    *)

\* The sizes are numbers, and not zero.
LEMMA SizeFacts == W \in Nat /\ B \in Nat /\ Words \in Nat /\ 1 < B /\ B <= W
                   /\ 0 < Words /\ Size \in Nat /\ Size = W * Words
<1>1. W \in Nat /\ B \in Nat /\ Words \in Nat /\ 1 < B /\ B <= W /\ 0 < Words
  BY SizeAssumption
<1>2. Size = W * Words
  BY DEF Size
<1> QED BY <1>1, <1>2

\* The words are multiples of W: one that begins before the end ends by it.
LEMMA WordsFit ==
    ASSUME NEW k \in Nat, W * k < Size
    PROVE  W * k + W <= Size
<1>0. W \in Nat /\ Words \in Nat /\ Size = W * Words /\ 0 < W
  BY SizeFacts
<1>1. k < Words
  <2>1. CASE k >= Words
    <3>1. W * k >= W * Words
      BY <1>0, <2>1
    <3> QED BY <3>1, <1>0
  <2> QED BY <2>1, <1>0
<1>2. W * (k + 1) <= W * Words
  BY <1>0, <1>1
<1>3. W * (k + 1) = W * k + W
  BY <1>0
<1> QED BY <1>0, <1>2, <1>3

\* The next word begins behind the position, and no later than the array ends.
LEMMA NextWordFacts ==
    ASSUME NEW at \in Nat, at < Size
    PROVE  /\ NextWord(at) \in Nat /\ at < NextWord(at) /\ NextWord(at) <= Size
           /\ NextWord(at) < Size => NextWord(at) + W <= Size
<1>0. W \in Nat /\ 0 < W /\ Size \in Nat
  BY SizeFacts
<1> DEFINE q == at \div W
<1>1. q \in Nat
  BY <1>0
<1>2. W * q <= at /\ at < W * q + W
  BY <1>0
<1> HIDE DEF q
<1>3. W * q \in Nat /\ W * (q + 1) = W * q + W /\ q + 1 \in Nat
  BY <1>0, <1>1
<1>4. W * q < Size
  BY <1>0, <1>2, <1>3
<1>5. W * q + W <= Size
  BY <1>1, <1>4, WordsFit
<1>6. W * (q + 1) < Size => W * (q + 1) + W <= Size
  BY <1>3, WordsFit
<1>7. NextWord(at) = W * q + W
  BY DEF NextWord, q
<1> QED BY <1>0, <1>2, <1>3, <1>5, <1>6, <1>7

-----------------------------------------------------------------------------
(* One write.                                                              *)

\* The writer and the memory while nothing is lost and nobody writes behind the end.
Good(s) ==
    /\ DOMAIN s = {"mem", "pos", "over", "want"}
    /\ DOMAIN s.mem = Places /\ DOMAIN s.want = Places
    /\ s.pos \in 0..Size
    /\ \A i \in Size..(Size + W - 1) : s.mem[i] = 0
    /\ ~s.over => \A i \in Places : i < s.pos => s.mem[i] = s.want[i]

\* What does not fit leaves the memory alone.
LEMMA GoodRefused ==
    ASSUME NEW s, Good(s), NEW p \in 0..Size
    PROVE  /\ Good([s EXCEPT !.over = TRUE])
           /\ Good([s EXCEPT !.pos = p, !.over = TRUE])
  BY DEF Good

\* A number that fits writes to whole words of the array only.
LEMMA GoodUBit ==
    ASSUME NEW s, Good(s), NEW v, NEW n \in 1..W
    PROVE  Good(WriteUBitLong(s, v, n))
<1>0. W \in Nat /\ 0 < W /\ Size \in Nat
  BY SizeFacts
<1>1. CASE s.pos + n > Size
  <2>1. Size \in 0..Size
    BY <1>0
  <2> QED BY <1>1, <2>1, GoodRefused DEF WriteUBitLong
<1>2. CASE ~(s.pos + n > Size)
  <2> DEFINE at == s.pos
             next == NextWord(at)
             last == IF at + n > next THEN next + W ELSE next
             m == Put(s.mem, at, v, n)
             w == Wanted(s, v, n)
  <2>1. at \in Nat /\ at + n <= Size /\ at < Size
    BY <1>0, <1>2 DEF Good
  <2>2. /\ next \in Nat /\ at < next /\ next <= Size
        /\ next < Size => next + W <= Size
    BY <2>1, NextWordFacts
  <2> HIDE DEF at, next
  <2>3. last \in Nat /\ last <= Size /\ at + n <= last
    BY <1>0, <2>1, <2>2
  <2>4. m = [i \in Places |->
               IF i < at \/ i >= last \/ i >= at + W THEN s.mem[i]
               ELSE IF i < at + n \/ s.mem[i] = 0 THEN v[i - at] ELSE s.mem[i]]
    BY DEF Put, next
  <2>5. w = [i \in Places |-> IF at <= i /\ i < at + n THEN v[i - at] ELSE s.want[i]]
    BY DEF Wanted, at
  <2> HIDE DEF m, w, last
  <2>6. \A i \in Size..(Size + W - 1) : i \in Places /\ m[i] = 0
    <3> SUFFICES ASSUME NEW i \in Size..(Size + W - 1) PROVE i \in Places /\ m[i] = 0
      OBVIOUS
    <3>1. i \in Places /\ i >= last
      BY <1>0, <2>3 DEF Places
    <3> QED BY <3>1, <2>4 DEF Good
  <2>7. ~s.over => \A i \in Places : i < at + n => m[i] = w[i]
    <3> SUFFICES ASSUME ~s.over, NEW i \in Places, i < at + n PROVE m[i] = w[i]
      OBVIOUS
    <3>1. i \in Places /\ i < at + n /\ i \in Nat
      BY <1>0, <2>1 DEF Places
    <3>2. CASE i < at
      <4>1. s.mem[i] = s.want[i]
        BY <3>2 DEF Good, at
      <4> QED BY <3>1, <3>2, <4>1, <2>1, <2>4, <2>5
    <3>3. CASE ~(i < at)
      <4>1. i < last /\ i < at + W /\ at <= i
        BY <3>1, <3>3, <2>1, <2>3, <1>0
      <4>2. m[i] = v[i - at] /\ w[i] = v[i - at]
        BY <4>1, <3>1, <3>3, <2>1, <2>3, <2>4, <2>5, <1>0
      <4> QED BY <4>2
    <3> QED BY <3>2, <3>3
  <2>8. DOMAIN m = Places /\ DOMAIN w = Places
    BY <2>4, <2>5
  <2>9. at + n \in 0..Size
    BY <1>0, <2>1
  <2>10. WriteUBitLong(s, v, n) = [mem |-> m, pos |-> at + n, over |-> s.over, want |-> w]
    BY <1>2 DEF WriteUBitLong, m, w, at
  <2> DEFINE r == WriteUBitLong(s, v, n)
  <2>11. /\ DOMAIN r = {"mem", "pos", "over", "want"}
         /\ r.mem = m /\ r.want = w /\ r.pos = at + n /\ r.over = s.over
    BY <2>10
  <2> HIDE DEF r
  <2>12. ~r.over => \A i \in Places : i < r.pos => r.mem[i] = r.want[i]
    <3> SUFFICES ASSUME ~r.over, NEW i \in Places, i < r.pos
                 PROVE  r.mem[i] = r.want[i]
      OBVIOUS
    <3>1. r.over = s.over /\ r.pos = at + n /\ r.mem = m /\ r.want = w
      BY <2>11
    <3>2. ~s.over
      BY <3>1, Zenon
    <3>3. i < at + n
      BY <3>1
    <3>4. m[i] = w[i]
      BY <3>2, <3>3, <2>7
    <3> QED BY <3>1, <3>4
  <2>13. Good(r)
    BY <2>6, <2>8, <2>9, <2>11, <2>12 DEF Good
  <2> QED BY <2>13 DEF r
<1> QED BY <1>1, <1>2

\* A single bit.
LEMMA GoodBit ==
    ASSUME NEW s, Good(s), NEW b
    PROVE  Good(WriteOneBit(s, b))
<1>0. W \in Nat /\ 0 < W /\ Size \in Nat
  BY SizeFacts
<1>1. CASE s.over \/ s.pos + 1 > Size
  <2>1. WriteOneBit(s, b) = [s EXCEPT !.over = TRUE]
    BY <1>1 DEF WriteOneBit
  <2>2. 0 \in 0..Size
    BY <1>0
  <2> QED BY <2>1, <2>2, GoodRefused
<1>2. CASE ~(s.over \/ s.pos + 1 > Size)
  <2> DEFINE at == s.pos
             m == [s.mem EXCEPT ![at] = b]
             w == [s.want EXCEPT ![at] = b]
             r == WriteOneBit(s, b)
  <2>1. at \in Nat /\ at + 1 <= Size /\ at \in Places
    BY <1>0, <1>2 DEF Good, Places
  <2>2. /\ DOMAIN r = {"mem", "pos", "over", "want"}
        /\ r.mem = m /\ r.want = w /\ r.pos = at + 1 /\ r.over = s.over
    BY <1>2 DEF WriteOneBit, Good
  <2>3. DOMAIN m = Places /\ DOMAIN w = Places
    BY DEF Good
  <2>4. \A i \in Places : /\ m[i] = IF i = at THEN b ELSE s.mem[i]
                          /\ w[i] = IF i = at THEN b ELSE s.want[i]
    BY DEF Good
  <2>k. \A i \in Places : i < at => s.mem[i] = s.want[i]
    BY <1>2 DEF Good
  <2>z. \A i \in Size..(Size + W - 1) : s.mem[i] = 0
    BY DEF Good
  <2> HIDE DEF at, m, w, r
  <2>5. \A i \in Size..(Size + W - 1) : m[i] = 0
    <3> SUFFICES ASSUME NEW i \in Size..(Size + W - 1) PROVE m[i] = 0
      OBVIOUS
    <3>1. i \in Places /\ i # at
      BY <1>0, <2>1 DEF Places
    <3> QED BY <3>1, <2>4, <2>z
  <2>6. \A i \in Places : i < at + 1 => m[i] = w[i]
    <3> SUFFICES ASSUME NEW i \in Places, i < at + 1 PROVE m[i] = w[i]
      OBVIOUS
    <3>1. i \in Places /\ (i = at \/ i < at)
      BY <1>0, <2>1 DEF Places
    <3> QED BY <3>1, <2>4, <2>k
  <2>7. r.pos \in 0..Size
    BY <1>0, <2>1, <2>2
  <2>8. ~r.over => \A i \in Places : i < r.pos => r.mem[i] = r.want[i]
    <3> SUFFICES ASSUME NEW i \in Places, i < r.pos
                 PROVE  r.mem[i] = r.want[i]
      OBVIOUS
    <3>1. r.pos = at + 1 /\ r.mem = m /\ r.want = w
      BY <2>2
    <3>2. i < at + 1
      BY <3>1
    <3> QED BY <3>1, <3>2, <2>6
  <2>9. Good(r)
    BY <2>2, <2>3, <2>5, <2>7, <2>8 DEF Good
  <2> QED BY <2>9 DEF r
<1> QED BY <1>1, <1>2

\* A signed number: its lower bits and its sign.
LEMMA GoodSBit ==
    ASSUME NEW s, Good(s), NEW v, NEW n \in 2..W
    PROVE  Good(WriteSBitLong(s, v, n))
<1>1. n - 1 \in 1..W
  BY SizeFacts
<1>2. Good(WriteUBitLong(s, [v EXCEPT ![W - 1] = 0], n - 1))
  BY <1>1, GoodUBit
<1> QED BY <1>2, GoodBit DEF WriteSBitLong

\* A list of bytes.
LEMMA GoodBytes ==
    ASSUME NEW s, Good(s), NEW l \in Seq(Byte)
    PROVE  Good(WriteBytes(s, l))
<1>0. W \in Nat /\ 0 < W /\ Size \in Nat /\ B \in Nat
  BY SizeFacts
<1> DEFINE n == B * Len(l)
           at == s.pos
           Bits == [i \in 0..(n - 1) |-> l[(i \div B) + 1][i % B]]
           Copy(m) == [i \in Places |-> IF at <= i /\ i < at + n
                                        THEN Bits[i - at] ELSE m[i]]
<1>1. n \in Nat
  BY <1>0
<1>2. CASE at + n > Size
  <2>1. WriteBytes(s, l) = [s EXCEPT !.over = TRUE]
    BY <1>2 DEF WriteBytes
  <2>2. 0 \in 0..Size
    BY <1>0
  <2> QED BY <2>1, <2>2, GoodRefused
<1>3. CASE ~(at + n > Size)
  <2> DEFINE m == Copy(s.mem)
             w == Copy(s.want)
             r == WriteBytes(s, l)
  <2>1. r = [s EXCEPT !.mem = m, !.pos = at + n, !.want = w]
    BY <1>3 DEF WriteBytes
  <2> HIDE DEF r, Bits, n
  <2>2. /\ DOMAIN r = {"mem", "pos", "over", "want"}
        /\ r.mem = m /\ r.want = w /\ r.pos = at + n /\ r.over = s.over
    <3> HIDE DEF m, w
    <3> QED BY <2>1 DEF Good
  <2>3. at \in Nat /\ at + n <= Size /\ at + n \in 0..Size
    BY <1>0, <1>1, <1>3 DEF Good
  <2>4. DOMAIN m = Places /\ DOMAIN w = Places
    OBVIOUS
  <2>5. \A i \in Places :
           /\ m[i] = IF at <= i /\ i < at + n THEN Bits[i - at] ELSE s.mem[i]
           /\ w[i] = IF at <= i /\ i < at + n THEN Bits[i - at] ELSE s.want[i]
    OBVIOUS
  <2>k. ~s.over => \A i \in Places : i < at => s.mem[i] = s.want[i]
    BY DEF Good
  <2>z. \A i \in Size..(Size + W - 1) : s.mem[i] = 0
    BY DEF Good
  <2> HIDE DEF at, m, w
  <2>6. \A i \in Size..(Size + W - 1) : m[i] = 0
    <3> SUFFICES ASSUME NEW i \in Size..(Size + W - 1) PROVE m[i] = 0
      OBVIOUS
    <3>1. i \in Places /\ ~(i < at + n)
      BY <1>0, <1>1, <2>3 DEF Places
    <3> QED BY <3>1, <2>5, <2>z
  <2>7. ~s.over => \A i \in Places : i < at + n => m[i] = w[i]
    <3> SUFFICES ASSUME ~s.over, NEW i \in Places, i < at + n PROVE m[i] = w[i]
      OBVIOUS
    <3>1. i \in Places /\ (at <= i \/ i < at) /\ i < at + n
      BY <1>0, <1>1, <2>3 DEF Places
    <3> QED BY <3>1, <2>5, <2>k
  <2>8. ~r.over => \A i \in Places : i < r.pos => r.mem[i] = r.want[i]
    <3> SUFFICES ASSUME ~r.over, NEW i \in Places, i < r.pos
                 PROVE  r.mem[i] = r.want[i]
      OBVIOUS
    <3>1. r.over = s.over /\ r.pos = at + n /\ r.mem = m /\ r.want = w
      BY <2>2
    <3>2. ~s.over
      BY <3>1, Zenon
    <3>3. i < at + n
      BY <3>1
    <3>4. m[i] = w[i]
      BY <3>2, <3>3, <2>7
    <3> QED BY <3>1, <3>4
  <2>9. Good(r)
    BY <2>2, <2>3, <2>4, <2>6, <2>8 DEF Good
  <2> QED BY <2>9 DEF r
<1> QED BY <1>2, <1>3

-----------------------------------------------------------------------------
(* The two invariants of the writer.                                       *)

WriterInv == wr = [pos |-> wr.pos, over |-> wr.over] /\ Good(Writer)

\* The writer starts at an array with nothing behind it.
LEMMA WriterInit == Init => WriterInv
<1> SUFFICES ASSUME Init PROVE WriterInv
  OBVIOUS
<1>1. W \in Nat /\ Size \in Nat
  BY SizeFacts
<1>2. /\ mem \in [Places -> Bit] /\ want = mem
      /\ \A i \in Size..(Size + W - 1) : mem[i] = 0
  BY ValueAssumption DEF Init
<1>3. wr = [pos |-> 0, over |-> FALSE]
  BY DEF Init
<1> QED BY <1>1, <1>2, <1>3 DEF WriterInv, Good, Writer

\* No step of either side spoils what has been written or what lies behind.
LEMMA WriterNext == WriterInv /\ [Next]_vars => WriterInv'
<1> SUFFICES ASSUME WriterInv, [Next]_vars PROVE WriterInv'
  OBVIOUS
<1>0. /\ W \in Nat /\ 0 < W /\ Size \in Nat /\ B \in Nat
      /\ B \in 2..W /\ Widths \subseteq 2..W
  BY SizeFacts, SizeAssumption
<1>g. Good(Writer)
  BY DEF WriterInv
<1>w. ASSUME NEW s, Good(s), Write(s) PROVE WriterInv'
  <2>1. wr' = [pos |-> s.pos, over |-> s.over] /\ mem' = s.mem /\ want' = s.want
    BY <1>w DEF Write
  <2>2. Writer' = [mem |-> s.mem, pos |-> s.pos, over |-> s.over, want |-> s.want]
    BY <2>1 DEF Writer
  <2>3. Good(Writer')
    BY <1>w, <2>2 DEF Good
  <2>4. Good(Writer)'
    BY <2>3 DEF Good
  <2> QED BY <2>1, <2>4 DEF WriterInv
<1>k. ASSUME UNCHANGED <<mem, want, wr>> PROVE WriterInv'
  BY <1>k DEF WriterInv, Good, Writer
<1>p. ASSUME UNCHANGED <<mem, want>>, NEW p \in 0..Size, NEW f,
             wr' = [pos |-> p, over |-> f], p <= wr.pos, p = 0 \/ f = wr.over
      PROVE  WriterInv'
  <2>1. /\ DOMAIN mem = Places /\ DOMAIN want = Places /\ wr.pos \in 0..Size
        /\ \A i \in Size..(Size + W - 1) : mem[i] = 0
        /\ ~wr.over => \A i \in Places : i < wr.pos => mem[i] = want[i]
    BY <1>g DEF Good, Writer
  <2>2. ~f => \A i \in Places : i < p => mem[i] = want[i]
    <3> SUFFICES ASSUME ~f, NEW i \in Places, i < p PROVE mem[i] = want[i]
      OBVIOUS
    <3>1. i \in Nat /\ i < wr.pos
      BY <1>p, <1>0, <2>1 DEF Places
    <3>2. p # 0
      BY <3>1
    <3>3. ~wr.over
      BY <3>2, <1>p, Zenon
    <3> QED BY <2>1, <3>1, <3>3
  <2> QED BY <1>p, <2>1, <2>2 DEF WriterInv, Good, Writer
<1>1. CASE WriteNumber
  <2>1. PICK v \in Values, n \in Widths :
           Write(WriteUBitLong(Writer, v, n)) \/ Write(WriteSBitLong(Writer, v, n))
    BY <1>1 DEF WriteNumber
  <2>2. n \in 2..W /\ n \in 1..W
    BY <1>0
  <2>3. Good(WriteUBitLong(Writer, v, n)) /\ Good(WriteSBitLong(Writer, v, n))
    BY <1>g, <2>2, GoodUBit, GoodSBit
  <2> QED BY <2>1, <2>3, <1>w
<1>2. CASE WriteList
  <2>1. PICK l \in Lists : Write(WriteBytes(Writer, l))
    BY <1>2 DEF WriteList
  <2>2. l \in Seq(Byte)
    BY ValueAssumption
  <2>3. Good(WriteBytes(Writer, l))
    BY <1>g, <2>2, GoodBytes
  <2> QED BY <2>1, <2>3, <1>w
<1>3. CASE WriteChar
  <2>1. Write(WriteSBitLong(Writer, Extended(Head(todo), B), B))
    BY <1>3 DEF WriteChar
  <2>2. Good(WriteSBitLong(Writer, Extended(Head(todo), B), B))
    BY <1>0, <1>g, GoodSBit
  <2> QED BY <2>1, <2>2, <1>w
<1>4. CASE ResetWriteBuffer
  <2>1. 0 \in 0..Size /\ 0 <= wr.pos
    BY <1>0, <1>g DEF Good, Writer
  <2> QED BY <1>4, <2>1, <1>p DEF ResetWriteBuffer
<1>5. CASE SeekBack
  <2>1. wr' = [pos |-> wr.pos - B, over |-> wr.over] /\ wr.pos >= B
    BY <1>5 DEF SeekBack, WriterInv
  <2>2. wr.pos - B \in 0..Size /\ wr.pos - B <= wr.pos
    BY <2>1, <1>0, <1>g DEF Good, Writer
  <2> QED BY <1>5, <2>1, <2>2, <1>p DEF SeekBack
<1>6. CASE Receive
  <2>1. PICK l \in Lists : mem' = WriteBytes([Writer EXCEPT !.over = FALSE], l).mem
    BY <1>6 DEF Receive
  <2>2. l \in Seq(Byte)
    BY ValueAssumption
  <2> DEFINE s == [Writer EXCEPT !.over = FALSE]
  <2>3. wr.pos = 0 /\ UNCHANGED <<wr, want>>
    BY <1>6 DEF Receive
  <2>n. \A i \in Places : ~(i < 0)
    BY <1>0 DEF Places
  <2>4. Good(s)
    BY <2>3, <2>n, <1>g, <1>0 DEF Good, Writer
  <2> HIDE DEF s
  <2>5. Good(WriteBytes(s, l))
    BY <2>2, <2>4, GoodBytes
  <2>6. /\ DOMAIN mem' = Places
        /\ \A i \in Size..(Size + W - 1) : mem'[i] = 0
    BY <2>1, <2>5 DEF Good, s
  <2>7. DOMAIN want = Places
    BY <1>g DEF Good, Writer
  <2>8. wr' = [pos |-> wr'.pos, over |-> wr'.over] /\ wr'.pos = 0
    BY <2>3 DEF WriterInv
  <2> QED BY <1>0, <2>3, <2>6, <2>7, <2>8, <2>n DEF WriterInv, Good, Writer
<1>7. CASE \/ WriteString \/ ResetReadBuffer \/ ReadNumber \/ ReadString \/ ReadChar
           \/ UNCHANGED vars
  <2>1. UNCHANGED <<mem, want, wr>>
    BY <1>7 DEF WriteString, ResetReadBuffer, ReadNumber, ReadString, ReadChar, Take,
                vars, writeVars
  <2> QED BY <2>1, <1>k
<1> QED BY <1>1, <1>2, <1>3, <1>4, <1>5, <1>6, <1>7 DEF Next

\* WriterInv holds in every reachable state.
LEMMA WriterInvariant == Spec => []WriterInv
  BY WriterInit, WriterNext, PTL DEF Spec

(***************************************************************************)
(* Nothing is written behind the array (NothingBehind), whatever its size, *)
(* the widths of the numbers and the order of the operations (bf_write).   *)
(***************************************************************************)
THEOREM StaysInside == Spec => []NothingBehind
<1>1. WriterInv => NothingBehind
  BY DEF WriterInv, Good, Writer, NothingBehind
<1> QED BY <1>1, WriterInvariant, PTL

(***************************************************************************)
(* As long as nothing was refused, m_Buf holds what was asked for up to the*)
(* writer's position (WrittenKept), although values are not masked and     *)
(* words are written whole (bf_write).                                     *)
(***************************************************************************)
THEOREM KeepsWritten == Spec => []WrittenKept
<1>1. WriterInv => WrittenKept
  <2> SUFFICES ASSUME WriterInv, ~wr.over, NEW i \in 0..(wr.pos - 1)
               PROVE  mem[i] = want[i]
    BY DEF WrittenKept
  <2>1. /\ wr.pos \in 0..Size
        /\ ~wr.over => \A k \in Places : k < wr.pos => mem[k] = want[k]
    BY DEF WriterInv, Good, Writer
  <2>2. i \in Places /\ i < wr.pos
    BY <2>1, SizeFacts DEF Places
  <2> QED BY <2>1, <2>2
<1> QED BY <1>1, WriterInvariant, PTL
=============================================================================
