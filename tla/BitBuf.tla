------------------------------- MODULE BitBuf -------------------------------
(***************************************************************************)
(* The bit buffers of src/src/bitbuf as the server uses them: m_WriteBuf,  *)
(* a bf_write, and m_ReadBuf, a bf_read on CBitRead, over the one array    *)
(* m_Buf.  A write is a read, change and write back of one or two whole    *)
(* words.  A read takes bits out of a window, the word that was fetched    *)
(* last, and fetches the next word as soon as the window is empty.         *)
(*                                                                         *)
(* The memory is a function from the numbers of bits to bits.  A value is  *)
(* a word of bits too, so that a shift is a shift of indices.  The word    *)
(* behind the array is part of the memory, to see that nobody writes to it.*)
(***************************************************************************)
EXTENDS Integers, Sequences

CONSTANTS
    W,          \* bits of a word, 32
    B,          \* bits of a byte, 8
    Words,      \* words of m_Buf, 2560
    Widths,     \* bits of the numbers written and read: 8, 16 and 32
    Values,     \* the numbers written
    Texts,      \* the strings written, sequences of bytes without NUL
    Lists,      \* what WriteBytes is given, sequences of bytes
    Contents,   \* what m_Buf may hold at first
    MaxLen,     \* the size of the array given to ReadString
    MaxOps      \* bound: writes, reads and seeks in all

Size == W * Words               \* m_nDataBits of both
Bit == {0, 1}
Places == 0..(Size + W - 1)     \* the bits of m_Buf and of the word behind it
Word == [0..(W - 1) -> Bit]
Byte == [0..(B - 1) -> Bit]
ZeroWord == [i \in 0..(W - 1) |-> 0]
NUL == [i \in 0..(B - 1) |-> 0]

ASSUME SizeAssumption ==
    /\ W \in Nat /\ B \in Nat /\ Words \in Nat /\ B > 1 /\ W >= B /\ Words > 0
    /\ MaxLen \in Nat \ {0} /\ MaxOps \in Nat
    /\ Widths \subseteq 2..W
ASSUME ValueAssumption ==
    /\ Values \subseteq Word
    /\ Texts \subseteq Seq(Byte \ {NUL}) /\ Lists \subseteq Seq(Byte)
    /\ Contents \subseteq [Places -> Bit]
    /\ \A m \in Contents : \A i \in Size..(Size + W - 1) : m[i] = 0

VARIABLES
    mem,        \* m_Buf and the word behind it
    wr,         \* m_WriteBuf: pos is m_iCurBit, over is m_bOverflow
    todo,       \* what WriteString has yet to write, its NUL included
    rd,         \* m_ReadBuf: word, avail, in (m_pDataIn as an index), over
    str,        \* the array ReadString stores to
    reading,    \* ReadString is in its loop
    got,        \* the number read last
    want,       \* history: the bits the writer was asked for, by position
    rpos,       \* history: the bits read since the last Seek(0)
    lost,       \* history: since then a read has found the overflow flag set
    clean,      \* history: nobody has written to the window's word in memory
    begin,      \* history: where ReadString began, -1 if it was not clean
    ops

vars == <<mem, wr, todo, rd, str, reading, got, want, rpos, lost, clean, begin, ops>>
writeVars == <<mem, wr, want>>
readVars == <<rd, got, rpos, lost>>
textVars == <<str, reading, begin>>

LowBits(v, n) == [i \in 0..(W - 1) |-> IF i < n THEN v[i] ELSE 0]
ShiftRight(v, n) == [i \in 0..(W - 1) |-> IF i + n < W THEN v[i + n] ELSE 0]
\* A char or a byte as the int the function is called with.
Extended(v, n) == [i \in 0..(W - 1) |-> IF i < n THEN v[i] ELSE v[n - 1]]
AsByte(v) == [i \in 0..(B - 1) |-> v[i]]
WordAt(m, k) == [i \in 0..(W - 1) |-> m[W * k + i]]
ByteAt(m, p) == [i \in 0..(B - 1) |-> m[p + i]]

-----------------------------------------------------------------------------
(* bf_write.                                                               *)

\* The first bit of the word after the one that bit at is in.
NextWord(at) == W * (at \div W) + W

\* WriteUBitLong's stores.  The value is not masked: what it has above its n bits
\* is or-ed into those that follow in the same word.
Put_NotShifted(m, at, v, n) ==
    LET next == NextWord(at) IN
    [i \in Places |->
        IF i < at \/ i >= at + n THEN m[i]
        ELSE IF i < next THEN v[i - at] ELSE v[i - next]]
Put(m, at, v, n) ==
    LET last == IF at + n > NextWord(at) THEN NextWord(at) + W ELSE NextWord(at) IN
    [i \in Places |->
        IF i < at \/ i >= last \/ i >= at + W THEN m[i]
        ELSE IF i < at + n \/ m[i] = 0 THEN v[i - at] ELSE m[i]]

\* s is the writer and the memory, with what the writer was asked for.
Wanted(s, v, n) ==
    [i \in Places |-> IF s.pos <= i /\ i < s.pos + n THEN v[i - s.pos] ELSE s.want[i]]
WriteUBitLong_NotClamped(s, v, n) ==
    IF s.pos + n > Size THEN [s EXCEPT !.pos = @ + n, !.over = TRUE]
    ELSE [mem |-> Put(s.mem, s.pos, v, n), pos |-> s.pos + n, over |-> s.over,
          want |-> Wanted(s, v, n)]
WriteUBitLong_OffByOne(s, v, n) ==
    IF s.pos + n > Size + 1 THEN [s EXCEPT !.pos = Size, !.over = TRUE]
    ELSE [mem |-> Put(s.mem, s.pos, v, n), pos |-> s.pos + n, over |-> s.over,
          want |-> Wanted(s, v, n)]
WriteUBitLong(s, v, n) ==
    IF s.pos + n > Size THEN [s EXCEPT !.pos = Size, !.over = TRUE]
    ELSE [mem |-> Put(s.mem, s.pos, v, n), pos |-> s.pos + n, over |-> s.over,
          want |-> Wanted(s, v, n)]
\* CheckForOverflow refuses when the buffer has ever overflowed.
WriteOneBit(s, b) ==
    IF s.over \/ s.pos + 1 > Size THEN [s EXCEPT !.over = TRUE]
    ELSE [s EXCEPT !.mem[s.pos] = b, !.pos = @ + 1, !.want[s.pos] = b]
\* 0x80000000 is added to a negative number, which clears its sign.
WriteSBitLong(s, v, n) ==
    WriteOneBit(WriteUBitLong(s, [v EXCEPT ![W - 1] = 0], n - 1), v[W - 1])
\* WriteBits with the position at a byte: nothing of what does not fit.
WriteBytes(s, l) ==
    LET n == B * Len(l)
        Bits == [i \in 0..(n - 1) |-> l[(i \div B) + 1][i % B]]
        Copy(m) == [i \in Places |-> IF s.pos <= i /\ i < s.pos + n
                                     THEN Bits[i - s.pos] ELSE m[i]] IN
    IF s.pos + n > Size THEN [s EXCEPT !.over = TRUE]
    ELSE [s EXCEPT !.mem = Copy(@), !.pos = @ + n, !.want = Copy(@)]

-----------------------------------------------------------------------------
(* CBitRead.                                                               *)

GrabNextDWord(r, immediately) ==
    IF r.in < Words
    THEN [r EXCEPT !.word = WordAt(mem, r.in), !.in = @ + 1]
    ELSE IF r.in = Words
    THEN [word |-> ZeroWord, avail |-> 1, in |-> r.in + 1,
          over |-> r.over \/ immediately]
    ELSE [r EXCEPT !.word = ZeroWord, !.over = TRUE]
FetchNext(r) == GrabNextDWord([r EXCEPT !.avail = W], FALSE)

\* ReadUBitLong within the window, which fetches the next word when it is empty.
InWindow(r, n) ==
    IF r.avail = n THEN FetchNext(r)
    ELSE [r EXCEPT !.avail = @ - n, !.word = ShiftRight(@, n)]
\* ReadUBitLong across words.
Merged_WholeWord(r, n) ==
    LET s == GrabNextDWord(r, TRUE) IN
    IF s.over THEN s
    ELSE [s EXCEPT !.avail = W - n + 1, !.word = ShiftRight(@, n - r.avail)]
Merged(r, n) ==
    LET s == GrabNextDWord(r, TRUE) IN
    IF s.over THEN s
    ELSE [s EXCEPT !.avail = W - (n - r.avail), !.word = ShiftRight(@, n - r.avail)]
\* It gives 0 when the flag is set, whichever read has set it.
MergedValue_NotShifted(r, n) ==
    LET s == GrabNextDWord(r, TRUE) IN
    IF s.over THEN ZeroWord
    ELSE [i \in 0..(W - 1) |-> IF i < r.avail \/ i >= n THEN r.word[i] ELSE s.word[i]]
MergedValue(r, n) ==
    LET s == GrabNextDWord(r, TRUE) IN
    IF s.over THEN ZeroWord
    ELSE [i \in 0..(W - 1) |-> IF i < r.avail \/ i >= n THEN r.word[i]
                               ELSE s.word[i - r.avail]]
AfterRead(r, n) == IF r.avail >= n THEN InWindow(r, n) ELSE Merged(r, n)
ReadUBitLong(r, n) == IF r.avail >= n THEN LowBits(r.word, n) ELSE MergedValue(r, n)
ReadSBitLong(r, n) == Extended(ReadUBitLong(r, n), n)

\* Seek(0) of a reader that keeps its flag.
SeekToStart(flag) ==
    GrabNextDWord([word |-> ZeroWord, avail |-> W, in |-> 0, over |-> flag], FALSE)
GetNumBitsRead ==
    LET n == (rd.in - 1) * W + W - rd.avail IN IF n < Size THEN n ELSE Size

-----------------------------------------------------------------------------
Init ==
    /\ mem \in Contents /\ want = mem
    /\ wr = [pos |-> 0, over |-> FALSE] /\ todo = <<>>
    /\ rd = SeekToStart(FALSE)
    /\ str = <<>> /\ reading = FALSE /\ got = ZeroWord
    /\ rpos = 0 /\ lost = FALSE /\ clean = TRUE /\ begin = -1
    /\ ops = 0

\* An operation begins when the one before is over.
Operation ==
    /\ todo = <<>> /\ ~reading /\ ops < MaxOps
    /\ ops' = ops + 1

Writer == [mem |-> mem, pos |-> wr.pos, over |-> wr.over, want |-> want]
StillClean(m) ==
    clean /\ (rd.in <= Words => WordAt(m, rd.in - 1) = WordAt(mem, rd.in - 1))
Write(s) ==
    /\ mem' = s.mem /\ want' = s.want
    /\ wr' = [pos |-> s.pos, over |-> s.over]
    /\ clean' = StillClean(s.mem)
    /\ UNCHANGED <<readVars, textVars>>

WriteNumber ==
    /\ Operation
    /\ \E v \in Values, n \in Widths :
          Write(WriteUBitLong(Writer, v, n)) \/ Write(WriteSBitLong(Writer, v, n))
    /\ UNCHANGED todo
WriteList ==
    /\ Operation /\ wr.pos % B = 0
    /\ \E l \in Lists : Write(WriteBytes(Writer, l))
    /\ UNCHANGED todo

\* WriteString, a character at a time, and its end.
WriteString ==
    /\ Operation
    /\ \E t \in Texts : todo' = Append(t, NUL)
    /\ UNCHANGED <<writeVars, readVars, textVars, clean>>
WriteChar ==
    /\ todo # <<>>
    /\ Write(WriteSBitLong(Writer, Extended(Head(todo), B), B))
    /\ todo' = Tail(todo)
    /\ UNCHANGED ops

ResetWriteBuffer ==
    /\ Operation
    /\ wr' = [pos |-> 0, over |-> FALSE]
    /\ UNCHANGED <<mem, want, todo, readVars, textVars, clean>>
\* SeekToBit(GetNumBitsWritten() - 8), to write over a NUL.
SeekBack ==
    /\ Operation /\ wr.pos >= B
    /\ wr' = [wr EXCEPT !.pos = @ - B]
    /\ UNCHANGED <<mem, want, todo, readVars, textVars, clean>>

\* A datagram is copied to the start of m_Buf, of which the reader hears nothing.
\* One that falls on a message of the mirror coroutine is Listener's.
Receive ==
    /\ Operation /\ wr.pos = 0
    /\ \E l \in Lists :
          LET m == WriteBytes([Writer EXCEPT !.over = FALSE], l).mem IN
          mem' = m /\ clean' = StillClean(m)
    /\ UNCHANGED <<wr, want, todo, readVars, textVars>>

ResetReadBuffer ==
    /\ Operation
    /\ rd' = SeekToStart(rd.over)
    /\ rpos' = 0 /\ lost' = FALSE /\ clean' = TRUE
    /\ UNCHANGED <<writeVars, todo, got, textVars>>

Take(n, value) ==
    /\ got' = value
    /\ rd' = AfterRead(rd, n)
    /\ lost' = (lost \/ (n > rd.avail /\ GrabNextDWord(rd, TRUE).over))
    /\ rpos' = IF lost' THEN rpos ELSE rpos + n
    /\ clean' = (clean \/ rd'.in # rd.in)
    /\ UNCHANGED <<writeVars, todo>>

ReadNumber ==
    /\ Operation
    /\ \E n \in Widths : \/ Take(n, ReadUBitLong(rd, n))
                         \/ Take(n, ReadSBitLong(rd, n))
    /\ UNCHANGED textVars

\* ReadString, a character at a time.
ReadString ==
    /\ Operation
    /\ reading' = TRUE /\ str' = <<>>
    /\ begin' = IF clean /\ ~lost THEN rpos ELSE -1
    /\ UNCHANGED <<writeVars, todo, readVars, clean>>
ReadChar_StopsFull ==
    /\ reading
    /\ Take(B, ReadSBitLong(rd, B))
    /\ LET c == AsByte(got') IN
       /\ reading' = (c # NUL /\ Len(str) < MaxLen - 1)
       /\ str' = IF c # NUL /\ Len(str) < MaxLen - 1 THEN Append(str, c) ELSE str
    /\ UNCHANGED <<begin, ops>>
ReadChar_NeedsNul ==
    /\ reading
    /\ Take(B, ReadSBitLong(rd, B))
    /\ LET c == AsByte(got') IN
       /\ reading' = (c # NUL \/ rd'.over)
       /\ str' = IF c # NUL /\ Len(str) < MaxLen - 1 THEN Append(str, c) ELSE str
    /\ UNCHANGED <<begin, ops>>
ReadChar ==
    /\ reading
    /\ Take(B, ReadSBitLong(rd, B))
    /\ LET c == AsByte(got') IN
       /\ reading' = (c # NUL)
       /\ str' = IF c # NUL /\ Len(str) < MaxLen - 1 THEN Append(str, c) ELSE str
    /\ UNCHANGED <<begin, ops>>

Next ==
    \/ WriteNumber \/ WriteList \/ WriteString \/ WriteChar
    \/ ResetWriteBuffer \/ SeekBack \/ Receive
    \/ ResetReadBuffer \/ ReadNumber \/ ReadString \/ ReadChar

Spec == Init /\ [][Next]_vars
\* A call that has begun goes on.
FairSpec == Spec /\ WF_vars(WriteChar) /\ WF_vars(ReadChar)

-----------------------------------------------------------------------------
(* Properties.                                                             *)

TypeOK ==
    /\ mem \in [Places -> Bit] /\ want \in [Places -> Bit]
    /\ wr \in [pos : 0..Size, over : BOOLEAN]
    /\ todo \in Seq(Byte)
    /\ rd \in [word : Word, avail : 1..W, in : 1..(Words + 1), over : BOOLEAN]
    /\ str \in Seq(Byte) /\ Len(str) < MaxLen
    /\ reading \in BOOLEAN /\ lost \in BOOLEAN /\ clean \in BOOLEAN
    /\ got \in Word
    /\ rpos \in 0..Size /\ begin \in -1..Size
    /\ ops \in 0..MaxOps

(***************************************************************************)
(* As long as nothing has been refused, what is before the writer's        *)
(* position is what it was asked to write, in order, although every write  *)
(* spoils the bits behind it, and strings are taken back by their NUL.     *)
(* bf_write::WriteUBitLong, WriteSBitLong, WriteBits, SeekToBit.           *)
(***************************************************************************)
WrittenKept == ~wr.over => \A i \in 0..(wr.pos - 1) : mem[i] = want[i]

(***************************************************************************)
(* Nothing is ever written behind the array, where the writer itself lies. *)
(* bf_write: the checks for overflow.                                      *)
(***************************************************************************)
NothingBehind == \A i \in Size..(Size + W - 1) : mem[i] = 0

(***************************************************************************)
(* The reader's position, which the length of a saved player list is       *)
(* computed from, is that of the bits read, up to the very end of the      *)
(* array; and the overflow flag is first set by a read across the end.     *)
(* CBitRead::GetNumBitsRead, GrabNextDWord.                                *)
(***************************************************************************)
PositionRight ==
    [][/\ ~lost' => rpos' = GetNumBitsRead'
       /\ ~rd.over /\ rd'.over =>
             lost' /\ \E n \in Widths \cup {B} : rpos + n > Size]_vars

(***************************************************************************)
(* A read gives the bits at the reader's position, across words too, unless*)
(* the window's word has been written to since it was fetched, or the read *)
(* needs another word and the overflow flag is set, maybe since long ago:  *)
(* Seek(0) does not reset it.  CBitRead::ReadUBitLong.                     *)
(***************************************************************************)
ReadsRight ==
    [][\A n \in Widths \cup {B} :
          (rpos' = rpos + n /\ clean /\ ~lost') =>
              \A i \in 0..(n - 1) : got'[i] = mem[rpos + i]]_vars

(***************************************************************************)
(* ReadString "always reads to the end of the string (so you can read the  *)
(* next piece of data waiting)": it stops right behind the first NUL, and  *)
(* has stored what is before it, cut to the array.  bitbuf.h, ReadString.  *)
(***************************************************************************)
StringRead ==
    [][(reading /\ ~reading' /\ ~lost' /\ begin # -1) =>
          LET n == (rpos - begin) \div B IN
          /\ ByteAt(mem, rpos) = NUL
          /\ \A k \in 0..(n - 1) : ByteAt(mem, begin + B * k) # NUL
          /\ str' = [k \in 1..(IF n < MaxLen THEN n ELSE MaxLen - 1) |->
                        ByteAt(mem, begin + B * (k - 1))]]_vars

(***************************************************************************)
(* ReadString ends, also in an array without a NUL, and after an overflow: *)
(* behind the end there is nothing but zeros.  CBitRead::ReadString.       *)
(***************************************************************************)
StringEnds == reading ~> ~reading
=============================================================================
