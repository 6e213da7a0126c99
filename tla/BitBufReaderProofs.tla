------------------------- MODULE BitBufReaderProofs -------------------------
(* Theorems about the reader of BitBuf, and its type correctness.          *)
EXTENDS BitBufProofs, SequenceTheorems

-----------------------------------------------------------------------------
(* The window.  Of a reader r, At is the position its next bit comes from, *)
(* as GetNumBitsRead counts; InStep says that its window shows memory m.   *)

Window == [word : Word, avail : 1..W, in : 1..(Words + 1), over : BOOLEAN]
At(r) == IF r.in <= Words THEN W * (r.in - 1) + (W - r.avail) ELSE Size
InStep(r, m) ==
    r.in <= Words => \A i \in 0..(r.avail - 1) : r.word[i] = m[At(r) + i]
\* Behind the end the window is the one bit GrabNextDWord leaves there.
Fits(r) == r \in Window /\ (r.in = Words + 1 => r.avail = 1)

\* Word k begins k words of W bits into the array, and ends with it at the latest.
LEMMA WordBase ==
    ASSUME NEW k \in Nat, k <= Words
    PROVE  /\ W * k \in Nat /\ W * k <= Size /\ k * W = W * k
           /\ k < Words => W * k + W <= Size /\ W * (k + 1) = W * k + W
           /\ k = Words => W * k = Size
<1>0. W \in Nat /\ Words \in Nat /\ Size = W * Words /\ 0 < W
  BY SizeFacts
<1>1. W * k \in Nat /\ k * W = W * k
  BY <1>0
<1>2. CASE k = Words
  BY <1>0, <1>1, <1>2
<1>3. CASE k < Words
  <2>1. Words - k \in Nat /\ Words - k >= 1 /\ Words = k + (Words - k)
    BY <1>0, <1>3
  <2>2. W * (k + 1) = W * k + W
    BY <1>0
  <2>3. W * (k + 1) <= W * Words
    BY <1>0, <1>3
  <2> QED BY <1>0, <1>1, <1>3, <2>2, <2>3
<1> QED BY <1>2, <1>3, <1>0

\* The position is inside the array, and the window ends with its word.
LEMMA AtFacts ==
    ASSUME NEW r, Fits(r)
    PROVE  /\ r.in \in 1..(Words + 1) /\ r.avail \in 1..W /\ W \in Nat
           /\ Words \in Nat /\ Size \in Nat
           /\ At(r) \in 0..Size
           /\ r.in <= Words =>
                 /\ At(r) = W * (r.in - 1) + W - r.avail
                 /\ At(r) + r.avail = W * r.in /\ W * r.in \in 0..Size
           /\ r.in < Words => W * r.in + W <= Size
           /\ r.in = Words => At(r) + r.avail = Size
           /\ r.in = Words + 1 => At(r) = Size /\ r.avail = 1
           /\ r.word \in Word /\ r.over \in BOOLEAN
           /\ DOMAIN r = {"word", "avail", "in", "over"}
<1>0. W \in Nat /\ Words \in Nat /\ Size \in Nat /\ 0 < W
  BY SizeFacts
<1>1. /\ r.in \in 1..(Words + 1) /\ r.avail \in 1..W
      /\ r.word \in Word /\ r.over \in BOOLEAN
      /\ DOMAIN r = {"word", "avail", "in", "over"}
      /\ r.in = Words + 1 => r.avail = 1
  BY DEF Fits, Window
<1>2. CASE r.in <= Words
  <2>1. r.in - 1 \in Nat /\ r.in - 1 < Words /\ (r.in - 1) + 1 = r.in /\ r.in \in Nat
    BY <1>0, <1>1, <1>2
  <2>2. /\ W * (r.in - 1) \in Nat /\ W * ((r.in - 1) + 1) = W * (r.in - 1) + W
        /\ W * (r.in - 1) + W <= Size
    BY <1>0, <2>1, WordBase
  <2>3. W * r.in = W * (r.in - 1) + W
    BY <2>1, <2>2
  <2>4. At(r) = W * (r.in - 1) + (W - r.avail)
    BY <1>2 DEF At
  <2>5. /\ r.in < Words => W * r.in + W <= Size
        /\ r.in = Words => W * r.in = Size
    BY <1>2, <2>1, WordBase
  <2> HIDE DEF At
  <2>6. r.in # Words + 1
    BY <1>0, <1>1, <1>2
  <2> QED BY <1>0, <1>1, <1>2, <2>2, <2>3, <2>4, <2>5, <2>6
<1>3. CASE ~(r.in <= Words)
  <2>1. r.in = Words + 1
    BY <1>0, <1>1, <1>3
  <2>2. At(r) = Size
    BY <1>3 DEF At
  <2> QED BY <1>0, <1>1, <1>3, <2>1, <2>2
<1> QED BY <1>2, <1>3

\* Words of the memory are words; its bits are bits.
LEMMA WordAtType ==
    ASSUME NEW m \in [Places -> Bit], NEW k \in Nat, k < Words
    PROVE  /\ WordAt(m, k) \in Word
           /\ \A i \in 0..(W - 1) : WordAt(m, k)[i] = m[W * k + i]
<1>1. W * k \in Nat /\ W * k + W <= Size /\ W \in Nat /\ Size \in Nat
  BY SizeFacts, WordBase
<1> DEFINE b == W * k
<1>2. \A i \in 0..(W - 1) : b + i \in Places
  <2> HIDE DEF b
  <2>1. b \in Nat /\ b + W <= Size
    BY <1>1 DEF b
  <2> QED BY <1>1, <2>1 DEF Places
<1>3. WordAt(m, k) = [i \in 0..(W - 1) |-> m[b + i]]
  BY DEF WordAt
<1> HIDE DEF b
<1>4. WordAt(m, k) \in Word
  BY <1>2, <1>3 DEF Word
<1> QED BY <1>3, <1>4 DEF b

\* The functions on words give words.
LEMMA WordOps ==
    ASSUME NEW v \in Word, NEW n \in 0..W
    PROVE  /\ ZeroWord \in Word /\ LowBits(v, n) \in Word
           /\ ShiftRight(v, n) \in Word
           /\ \A i \in 0..(W - 1) : /\ i < n => LowBits(v, n)[i] = v[i]
                                    /\ i + n < W => ShiftRight(v, n)[i] = v[i + n]
           /\ n > 0 => /\ Extended(v, n) \in Word
                       /\ \A i \in 0..(n - 1) : Extended(v, n)[i] = v[i]
<1>0. W \in Nat /\ 0 < W /\ 0 \in Bit
  BY SizeFacts DEF Bit
<1>1. \A i \in 0..(W - 1) : v[i] \in Bit
  BY DEF Word
<1>2. ZeroWord \in Word
  BY <1>0 DEF ZeroWord, Word
<1>3. LowBits(v, n) \in Word /\ \A i \in 0..(W - 1) : i < n => LowBits(v, n)[i] = v[i]
  BY <1>0, <1>1 DEF LowBits, Word
<1>4. /\ ShiftRight(v, n) \in Word
      /\ \A i \in 0..(W - 1) : i + n < W => ShiftRight(v, n)[i] = v[i + n]
  <2>1. \A i \in 0..(W - 1) : i + n < W => i + n \in 0..(W - 1)
    BY <1>0
  <2> QED BY <1>0, <1>1, <2>1 DEF ShiftRight, Word
<1>5. n > 0 => /\ Extended(v, n) \in Word
               /\ \A i \in 0..(n - 1) : Extended(v, n)[i] = v[i]
  <2> SUFFICES ASSUME n > 0 PROVE /\ Extended(v, n) \in Word
                                  /\ \A i \in 0..(n - 1) : Extended(v, n)[i] = v[i]
    OBVIOUS
  <2> DEFINE x == v[n - 1]
  <2>1. x \in Bit /\ \A i \in 0..(n - 1) : i \in 0..(W - 1) /\ i < n
    BY <1>0, <1>1
  <2>2. Extended(v, n) = [i \in 0..(W - 1) |-> IF i < n THEN v[i] ELSE x]
    BY DEF Extended
  <2> HIDE DEF x
  <2>3. Extended(v, n) \in Word
    BY <1>1, <2>1, <2>2 DEF Word
  <2> QED BY <2>1, <2>2, <2>3
<1> QED BY <1>2, <1>3, <1>4, <1>5

-----------------------------------------------------------------------------
(* One read.  After it the window is one of five.                          *)

\* A read that needs another word and finds the flag set, or sets it.
Loses(r, n) == n > r.avail /\ GrabNextDWord(r, TRUE).over

\* What fetching the next word does, by where the reader is.
LEMMA GrabCases ==
    ASSUME NEW r, Fits(r), NEW f \in BOOLEAN
    PROVE  /\ r.in < Words =>
                 GrabNextDWord(r, f) = [word |-> WordAt(mem, r.in), avail |-> r.avail,
                                        in |-> r.in + 1, over |-> r.over]
           /\ r.in = Words =>
                 GrabNextDWord(r, f) = [word |-> ZeroWord, avail |-> 1,
                                        in |-> Words + 1, over |-> r.over \/ f]
           /\ r.in = Words + 1 =>
                 GrabNextDWord(r, f) = [word |-> ZeroWord, avail |-> r.avail,
                                        in |-> r.in, over |-> TRUE]
<1>0. r.in \in 1..(Words + 1) /\ Words \in Nat
  BY AtFacts
<1>1. r \in [word : Word, avail : 1..W, in : 1..(Words + 1), over : BOOLEAN]
  BY DEF Fits, Window
<1>2. CASE r.in < Words
  <2>1. GrabNextDWord(r, f) = [r EXCEPT !.word = WordAt(mem, r.in), !.in = @ + 1]
    BY <1>2 DEF GrabNextDWord
  <2>2. r.in # Words /\ r.in # Words + 1
    BY <1>0, <1>2
  <2>3. GrabNextDWord(r, f) = [word |-> WordAt(mem, r.in), avail |-> r.avail,
                               in |-> r.in + 1, over |-> r.over]
    BY <1>1, <2>1
  <2> QED BY <2>2, <2>3
<1>3. CASE r.in = Words
  <2>1. ~(r.in < Words) /\ r.in # Words + 1
    BY <1>0, <1>3
  <2>2. GrabNextDWord(r, f) = [word |-> ZeroWord, avail |-> 1, in |-> r.in + 1,
                               over |-> r.over \/ f]
    BY <1>3, <2>1 DEF GrabNextDWord
  <2> QED BY <1>3, <2>1, <2>2
<1>4. CASE r.in = Words + 1
  <2>1. ~(r.in < Words) /\ r.in # Words
    BY <1>0, <1>4
  <2>2. GrabNextDWord(r, f) = [r EXCEPT !.word = ZeroWord, !.over = TRUE]
    BY <2>1 DEF GrabNextDWord
  <2>3. GrabNextDWord(r, f) = [word |-> ZeroWord, avail |-> r.avail, in |-> r.in,
                               over |-> TRUE]
    BY <1>1, <2>2
  <2> QED BY <2>1, <2>3
<1> QED BY <1>0, <1>2, <1>3, <1>4

\* Within the window: bits are left in it, or the next word is fetched at once.
LEMMA WithinCases ==
    ASSUME NEW r, Fits(r), NEW n \in 2..W, n <= r.avail
    PROVE  /\ r.in <= Words
           /\ n < r.avail =>
                 AfterRead(r, n) = [word |-> ShiftRight(r.word, n),
                                    avail |-> r.avail - n, in |-> r.in,
                                    over |-> r.over]
           /\ n = r.avail /\ r.in < Words =>
                 AfterRead(r, n) = [word |-> WordAt(mem, r.in), avail |-> W,
                                    in |-> r.in + 1, over |-> r.over]
           /\ n = r.avail /\ r.in = Words =>
                 AfterRead(r, n) = [word |-> ZeroWord, avail |-> 1,
                                    in |-> Words + 1, over |-> r.over]
<1>0. /\ r.in \in 1..(Words + 1) /\ Words \in Nat /\ r.avail \in 1..W
      /\ W \in Nat /\ (r.in = Words + 1 => r.avail = 1) /\ r.over \in BOOLEAN
  BY AtFacts
<1>1. r \in [word : Word, avail : 1..W, in : 1..(Words + 1), over : BOOLEAN]
  BY DEF Fits, Window
<1>2. r.in <= Words
  BY <1>0
<1>3. AfterRead(r, n) = InWindow(r, n)
  BY <1>0 DEF AfterRead
<1>4. ASSUME n < r.avail
      PROVE  AfterRead(r, n) = [word |-> ShiftRight(r.word, n),
                                avail |-> r.avail - n, in |-> r.in, over |-> r.over]
  <2>1. r.avail # n
    BY <1>0, <1>4
  <2>2. AfterRead(r, n) = [r EXCEPT !.avail = @ - n, !.word = ShiftRight(@, n)]
    BY <1>3, <2>1 DEF InWindow
  <2> QED BY <1>1, <2>2
<1>5. ASSUME n = r.avail
      PROVE  AfterRead(r, n) = GrabNextDWord([r EXCEPT !.avail = W], FALSE)
  BY <1>3, <1>5 DEF InWindow, FetchNext
<1> DEFINE q == [r EXCEPT !.avail = W]
<1>6. /\ q \in Window /\ q.in = r.in /\ q.avail = W /\ q.over = r.over
      /\ q.word = r.word
  BY <1>0, <1>1 DEF Window
<1> HIDE DEF q
<1>7. Fits(q)
  BY <1>0, <1>2, <1>6 DEF Fits
<1>8. /\ r.in < Words =>
            GrabNextDWord(q, FALSE) = [word |-> WordAt(mem, r.in), avail |-> W,
                                       in |-> r.in + 1, over |-> r.over]
      /\ r.in = Words =>
            GrabNextDWord(q, FALSE) = [word |-> ZeroWord, avail |-> 1,
                                       in |-> Words + 1, over |-> r.over \/ FALSE]
  BY <1>6, <1>7, GrabCases
<1>9. (r.over \/ FALSE) = r.over
  BY <1>0
<1> QED BY <1>2, <1>4, <1>5, <1>8, <1>9 DEF q

\* Across words: the flag is found or set, or the read goes on in the next word.
LEMMA AcrossCases ==
    ASSUME NEW r, Fits(r), NEW n \in 2..W, n > r.avail
    PROVE  /\ Loses(r, n) =>
                 /\ AfterRead(r, n) = GrabNextDWord(r, TRUE)
                 /\ AfterRead(r, n).over
                 /\ ReadUBitLong(r, n) = ZeroWord
                 /\ ~r.over => r.in >= Words
           /\ ~Loses(r, n) =>
                 /\ r.in < Words /\ ~r.over
                 /\ AfterRead(r, n) =
                       [word |-> ShiftRight(WordAt(mem, r.in), n - r.avail),
                        avail |-> W - (n - r.avail), in |-> r.in + 1,
                        over |-> r.over]
                 /\ \A i \in 0..(n - 1) :
                       ReadUBitLong(r, n)[i] =
                          IF i < r.avail THEN r.word[i]
                          ELSE WordAt(mem, r.in)[i - r.avail]
<1>0. /\ r.in \in 1..(Words + 1) /\ Words \in Nat /\ r.avail \in 1..W
      /\ W \in Nat /\ r.over \in BOOLEAN
  BY AtFacts
<1> DEFINE s == GrabNextDWord(r, TRUE)
<1>1. ~(r.avail >= n)
  BY <1>0
<1>2. AfterRead(r, n) = Merged(r, n) /\ ReadUBitLong(r, n) = MergedValue(r, n)
  BY <1>1 DEF AfterRead, ReadUBitLong
<1>3. /\ r.in < Words => s = [word |-> WordAt(mem, r.in), avail |-> r.avail,
                              in |-> r.in + 1, over |-> r.over]
      /\ r.in = Words => s = [word |-> ZeroWord, avail |-> 1, in |-> Words + 1,
                              over |-> r.over \/ TRUE]
      /\ r.in = Words + 1 => s = [word |-> ZeroWord, avail |-> r.avail,
                                  in |-> r.in, over |-> TRUE]
  BY GrabCases
<1>4. Loses(r, n) <=> s.over
  BY <1>1, <1>0 DEF Loses
<1>5. Merged(r, n) = IF s.over THEN s
                     ELSE [s EXCEPT !.avail = W - (n - r.avail),
                                    !.word = ShiftRight(@, n - r.avail)]
  BY DEF Merged
<1>6. MergedValue(r, n) =
        IF s.over THEN ZeroWord
        ELSE [i \in 0..(W - 1) |-> IF i < r.avail \/ i >= n THEN r.word[i]
                                   ELSE s.word[i - r.avail]]
  BY DEF MergedValue
<1> HIDE DEF s
<1>7. CASE r.in >= Words
  <2>1. s.over
    <3>1. CASE r.in = Words
      <4>1. s.over = (r.over \/ TRUE)
        BY <1>3, <3>1
      <4> QED BY <4>1, Zenon
    <3>2. CASE r.in = Words + 1
      BY <1>3, <3>2
    <3> QED BY <1>0, <1>7, <3>1, <3>2
  <2> QED BY <1>2, <1>4, <1>5, <1>6, <1>7, <2>1 DEF s
<1>8. CASE r.in < Words /\ r.over
  <2>1. s.over
    BY <1>3, <1>8
  <2> QED BY <1>2, <1>4, <1>5, <1>6, <1>8, <2>1 DEF s
<1>9. CASE r.in < Words /\ ~r.over
  <2>1. s = [word |-> WordAt(mem, r.in), avail |-> r.avail, in |-> r.in + 1,
             over |-> r.over] /\ ~s.over
    BY <1>3, <1>9
  <2>2. AfterRead(r, n) =
           [word |-> ShiftRight(WordAt(mem, r.in), n - r.avail),
            avail |-> W - (n - r.avail), in |-> r.in + 1, over |-> r.over]
    BY <1>2, <1>5, <2>1
  <2>3. ReadUBitLong(r, n) =
          [i \in 0..(W - 1) |-> IF i < r.avail \/ i >= n THEN r.word[i]
                                ELSE WordAt(mem, r.in)[i - r.avail]]
    BY <1>2, <1>6, <2>1
  <2>4. ASSUME NEW i \in 0..(n - 1)
        PROVE  ReadUBitLong(r, n)[i] = IF i < r.avail THEN r.word[i]
                                       ELSE WordAt(mem, r.in)[i - r.avail]
    <3>1. i \in 0..(W - 1) /\ ~(i >= n)
      BY <1>0
    <3> QED BY <2>3, <3>1
  <2> QED BY <1>4, <1>9, <2>1, <2>2, <2>4
<1>10. r.in >= Words \/ r.in < Words
  BY <1>0
<1> QED BY <1>7, <1>8, <1>9, <1>10, Zenon

\* A window built by hand fits.
LEMMA FitsWhen ==
    ASSUME NEW w \in Word, NEW a \in 1..W, NEW k \in 1..(Words + 1),
           NEW f \in BOOLEAN, k = Words + 1 => a = 1
    PROVE  Fits([word |-> w, avail |-> a, in |-> k, over |-> f])
  BY DEF Fits, Window

\* A window that shows memory m from position p on is in step.
LEMMA InStepWhen ==
    ASSUME NEW r, NEW m, r.in <= Words,
           \A i \in 0..(r.avail - 1) : r.word[i] = m[At(r) + i]
    PROVE  InStep(r, m)
  BY DEF InStep

\* A read within the window.
LEMMA WithinStep ==
    ASSUME mem \in [Places -> Bit], NEW r, Fits(r), NEW n \in 2..W, n <= r.avail
    PROVE  /\ Fits(AfterRead(r, n)) /\ AfterRead(r, n).over = r.over
           /\ At(AfterRead(r, n)) = At(r) + n
           /\ InStep(r, mem) \/ AfterRead(r, n).in # r.in
                 => InStep(AfterRead(r, n), mem)
           /\ ReadUBitLong(r, n) \in Word
           /\ InStep(r, mem) =>
                 \A i \in 0..(n - 1) : ReadUBitLong(r, n)[i] = mem[At(r) + i]
<1> DEFINE q == AfterRead(r, n)
<1>0. /\ W \in Nat /\ Words \in Nat /\ Size \in Nat /\ At(r) \in 0..Size
      /\ r.in \in 1..Words /\ r.avail \in 1..W /\ r.word \in Word
      /\ r.over \in BOOLEAN
  BY AtFacts, WithinCases
<1>a. At(r) + r.avail = W * r.in
  BY <1>0, AtFacts
<1>1. ReadUBitLong(r, n) = LowBits(r.word, n)
  BY <1>0 DEF ReadUBitLong
<1>2. n \in 0..W
  BY <1>0
<1>b. /\ LowBits(r.word, n) \in Word
      /\ \A i \in 0..(W - 1) : i < n => LowBits(r.word, n)[i] = r.word[i]
  BY <1>0, <1>2, WordOps
<1>3. /\ ReadUBitLong(r, n) \in Word
      /\ \A i \in 0..(W - 1) : i < n => ReadUBitLong(r, n)[i] = r.word[i]
  BY <1>1, <1>b, Zenon
<1>4. ASSUME InStep(r, mem), NEW i \in 0..(n - 1)
      PROVE  ReadUBitLong(r, n)[i] = mem[At(r) + i]
  <2>1. i \in 0..(W - 1) /\ i < n /\ i \in 0..(r.avail - 1)
    BY <1>0
  <2>2. r.word[i] = mem[At(r) + i]
    BY <1>0, <1>4, <2>1 DEF InStep
  <2> QED BY <1>3, <2>1, <2>2
<1>5. CASE n < r.avail
  <2>1. q = [word |-> ShiftRight(r.word, n), avail |-> r.avail - n,
             in |-> r.in, over |-> r.over]
    BY <1>5, WithinCases
  <2>2. ShiftRight(r.word, n) \in Word
        /\ \A i \in 0..(W - 1) : i + n < W => ShiftRight(r.word, n)[i] = r.word[i + n]
    BY <1>0, <1>2, WordOps
  <2>3. r.avail - n \in 1..W /\ r.in \in 1..(Words + 1) /\ r.in # Words + 1
    BY <1>0, <1>5
  <2>4. Fits(q)
    BY <1>0, <2>1, <2>2, <2>3, FitsWhen
  <2>5. /\ q.word = ShiftRight(r.word, n) /\ q.avail = r.avail - n
        /\ q.in = r.in /\ q.over = r.over
    BY <2>1
  <2> HIDE DEF q
  <2>6. At(q) + q.avail = W * q.in /\ At(q) \in 0..Size /\ W * r.in \in 0..Size
    BY <1>0, <2>4, <2>5, AtFacts
  <2>7. At(q) = At(r) + n
    <3> DEFINE e == W * r.in
    <3>1. e \in Int /\ At(r) + r.avail = e /\ At(q) + (r.avail - n) = e
      BY <1>a, <2>5, <2>6
    <3> HIDE DEF e
    <3> QED BY <1>0, <2>6, <3>1
  <2>8. ASSUME InStep(r, mem) PROVE InStep(q, mem)
    <3>1. ASSUME NEW i \in 0..(q.avail - 1) PROVE q.word[i] = mem[At(q) + i]
      <4>1. /\ i \in 0..(W - 1) /\ i + n < W /\ i + n \in 0..(r.avail - 1)
            /\ At(q) + i = At(r) + (i + n)
        BY <1>0, <2>5, <2>6, <2>7
      <4>2. r.word[i + n] = mem[At(r) + (i + n)]
        BY <1>0, <2>8, <4>1 DEF InStep
      <4> QED BY <2>2, <2>5, <4>1, <4>2
    <3> QED BY <1>0, <2>5, <3>1, InStepWhen
  <2> QED BY <1>3, <1>4, <2>4, <2>5, <2>7, <2>8 DEF q
<1>6. CASE n = r.avail /\ r.in < Words
  <2>1. q = [word |-> WordAt(mem, r.in), avail |-> W, in |-> r.in + 1,
             over |-> r.over]
    BY <1>6, WithinCases
  <2>2. /\ WordAt(mem, r.in) \in Word
        /\ \A i \in 0..(W - 1) : WordAt(mem, r.in)[i] = mem[W * r.in + i]
    BY <1>0, <1>6, WordAtType
  <2>3. W \in 1..W /\ r.in + 1 \in 1..(Words + 1) /\ r.in + 1 # Words + 1
    BY <1>0, <1>6
  <2>4. Fits(q)
    BY <1>0, <2>1, <2>2, <2>3, FitsWhen
  <2>5. /\ q.word = WordAt(mem, r.in) /\ q.avail = W
        /\ q.in = r.in + 1 /\ q.over = r.over
    BY <2>1
  <2> HIDE DEF q
  <2>6. /\ At(q) = W * (q.in - 1) + W - q.avail /\ q.in <= Words
        /\ q.in - 1 = r.in /\ W * r.in \in 0..Size
    BY <1>0, <1>6, <2>3, <2>4, <2>5, AtFacts
  <2>7. At(q) = At(r) + n /\ At(q) = W * r.in
    <3> DEFINE e == W * r.in
    <3>1. e \in Int /\ At(r) + n = e /\ At(q) = e + W - W
      BY <1>6, <1>a, <2>5, <2>6
    <3> HIDE DEF e
    <3>2. At(q) = e
      BY <1>0, <3>1
    <3> QED BY <3>1, <3>2 DEF e
  <2>8. InStep(q, mem)
    BY <2>2, <2>5, <2>6, <2>7, InStepWhen
  <2> QED BY <1>3, <1>4, <2>4, <2>5, <2>7, <2>8 DEF q
<1>7. CASE n = r.avail /\ r.in = Words
  <2>1. q = [word |-> ZeroWord, avail |-> 1, in |-> Words + 1, over |-> r.over]
    BY <1>7, WithinCases
  <2>2. ZeroWord \in Word
    BY <1>0, <1>2, WordOps
  <2>3. 1 \in 1..W /\ Words + 1 \in 1..(Words + 1)
    BY <1>0
  <2>4. Fits(q)
    BY <1>0, <2>1, <2>2, <2>3, FitsWhen
  <2>5. q.in = Words + 1 /\ q.over = r.over
    BY <2>1
  <2> HIDE DEF q
  <2>6. At(q) = Size /\ At(r) + n = Size
    BY <1>0, <1>7, <2>4, <2>5, AtFacts
  <2>7. InStep(q, mem)
    BY <1>0, <2>5 DEF InStep
  <2> QED BY <1>3, <1>4, <2>4, <2>5, <2>6, <2>7 DEF q
<1>8. n < r.avail \/ n = r.avail
  BY <1>0
<1>9. r.in < Words \/ r.in = Words
  BY <1>0
<1> QED BY <1>5, <1>6, <1>7, <1>8, <1>9

\* A read across words that loses nothing.
LEMMA AcrossStep ==
    ASSUME mem \in [Places -> Bit], NEW r, Fits(r), NEW n \in 2..W, n > r.avail,
           ~Loses(r, n)
    PROVE  /\ Fits(AfterRead(r, n)) /\ AfterRead(r, n).over = r.over
           /\ At(AfterRead(r, n)) = At(r) + n
           /\ InStep(AfterRead(r, n), mem)
           /\ ReadUBitLong(r, n) \in Word
           /\ InStep(r, mem) =>
                 \A i \in 0..(n - 1) : ReadUBitLong(r, n)[i] = mem[At(r) + i]
<1> DEFINE q == AfterRead(r, n)
           d == n - r.avail
           e == W * r.in
<1>0. /\ W \in Nat /\ Words \in Nat /\ Size \in Nat /\ At(r) \in 0..Size
      /\ r.in \in 1..(Words + 1) /\ r.avail \in 1..W /\ r.word \in Word
      /\ r.over \in BOOLEAN
  BY AtFacts
<1>1. /\ r.in < Words
      /\ q = [word |-> ShiftRight(WordAt(mem, r.in), d), avail |-> W - d,
              in |-> r.in + 1, over |-> r.over]
      /\ \A i \in 0..(n - 1) :
            ReadUBitLong(r, n)[i] = IF i < r.avail THEN r.word[i]
                                    ELSE WordAt(mem, r.in)[i - r.avail]
  BY AcrossCases
<1>2. /\ WordAt(mem, r.in) \in Word
      /\ \A i \in 0..(W - 1) : WordAt(mem, r.in)[i] = mem[e + i]
  BY <1>0, <1>1, WordAtType
<1>3. d \in 1..(W - 1) /\ d \in 0..W /\ W - d \in 1..W /\ r.in + 1 \in 1..(Words + 1)
      /\ r.in + 1 # Words + 1
  BY <1>0, <1>1
<1>4. e \in Int /\ At(r) + r.avail = e
  BY <1>0, <1>1, AtFacts
<1>m. ReadUBitLong(r, n) \in Word
  <2> DEFINE s == GrabNextDWord(r, TRUE)
  <2>1. ~(r.avail >= n) /\ ~s.over
    <3>1. n > r.avail => ~s.over
      BY Zenon DEF Loses
    <3>2. ~(r.avail >= n)
      BY <1>0
    <3> QED BY <3>1, <3>2
  <2>2. s.word = WordAt(mem, r.in)
    <3>1. TRUE \in BOOLEAN
      OBVIOUS
    <3>2. s = [word |-> WordAt(mem, r.in), avail |-> r.avail,
               in |-> r.in + 1, over |-> r.over]
      BY <1>1, <3>1, GrabCases
    <3> HIDE DEF s
    <3> QED BY <3>2
  <2>3. ReadUBitLong(r, n) =
           [i \in 0..(W - 1) |-> IF i < r.avail \/ i >= n THEN r.word[i]
                                 ELSE s.word[i - r.avail]]
    BY <2>1 DEF ReadUBitLong, MergedValue
  <2> HIDE DEF s
  <2>4. \A i \in 0..(W - 1) :
           r.word[i] \in Bit /\ (i >= r.avail => s.word[i - r.avail] \in Bit)
    <3>1. \A i \in 0..(W - 1) : i >= r.avail => i - r.avail \in 0..(W - 1)
      BY <1>0
    <3> QED BY <1>0, <1>2, <2>2, <3>1 DEF Word
  <2>5. \A i \in 0..(W - 1) : ~(i < r.avail \/ i >= n) => i >= r.avail
    BY <1>0
  <2> QED BY <2>3, <2>4, <2>5 DEF Word
<1>5. /\ ShiftRight(WordAt(mem, r.in), d) \in Word
      /\ \A i \in 0..(W - 1) :
            i + d < W => ShiftRight(WordAt(mem, r.in), d)[i] = WordAt(mem, r.in)[i + d]
  BY <1>2, <1>3, WordOps
<1>6. Fits(q)
  BY <1>0, <1>1, <1>3, <1>5, FitsWhen
<1>7. /\ q.word = ShiftRight(WordAt(mem, r.in), d) /\ q.avail = W - d
      /\ q.in = r.in + 1 /\ q.over = r.over /\ q.in <= Words /\ q.in - 1 = r.in
  BY <1>0, <1>1
<1> HIDE DEF q
<1>8. At(q) = W * (q.in - 1) + W - q.avail
  BY <1>6, <1>7, AtFacts
<1>9. At(q) = e + W - (W - d)
  BY <1>7, <1>8
<1> HIDE DEF e
<1>10. At(q) = At(r) + n /\ At(q) = e + d
  BY <1>0, <1>3, <1>4, <1>9
<1>11. InStep(q, mem)
  <2>1. ASSUME NEW i \in 0..(q.avail - 1) PROVE q.word[i] = mem[At(q) + i]
    <3>1. i \in 0..(W - 1) /\ i + d < W /\ i + d \in 0..(W - 1)
      BY <1>0, <1>3, <1>7
    <3>2. e + (i + d) = At(q) + i
      BY <1>3, <1>4, <1>10, <3>1
    <3> HIDE DEF d
    <3>3. q.word[i] = mem[e + (i + d)]
      BY <1>2, <1>5, <1>7, <3>1
    <3> QED BY <3>2, <3>3
  <2> QED BY <1>7, <2>1, InStepWhen
<1>12. ASSUME InStep(r, mem), NEW i \in 0..(n - 1)
       PROVE  ReadUBitLong(r, n)[i] = mem[At(r) + i]
  <2>1. CASE i < r.avail
    <3>1. i \in 0..(r.avail - 1) /\ r.in <= Words
      BY <1>0, <1>1, <2>1
    <3> QED BY <1>1, <1>12, <2>1, <3>1 DEF InStep
  <2>2. CASE ~(i < r.avail)
    <3>1. i - r.avail \in 0..(W - 1) /\ e + (i - r.avail) = At(r) + i
      BY <1>0, <1>4, <2>2
    <3> QED BY <1>1, <1>2, <2>2, <3>1
  <2> QED BY <2>1, <2>2
<1> QED BY <1>m, <1>6, <1>7, <1>10, <1>11, <1>12 DEF q

\* A read that loses its number sets the flag, past the end if it was not set.
LEMMA LosingStep ==
    ASSUME mem \in [Places -> Bit], NEW r, Fits(r), NEW n \in 2..W, Loses(r, n)
    PROVE  /\ Fits(AfterRead(r, n)) /\ AfterRead(r, n).over
           /\ ~r.over => At(r) + n > Size
           /\ ReadUBitLong(r, n) \in Word
<1>0. /\ W \in Nat /\ Words \in Nat /\ Size \in Nat /\ At(r) \in 0..Size
      /\ r.in \in 1..(Words + 1) /\ r.avail \in 1..W /\ r.word \in Word
      /\ r.over \in BOOLEAN /\ (r.in = Words + 1 => r.avail = 1)
  BY AtFacts
<1>1. n > r.avail
  BY DEF Loses
<1>2. /\ AfterRead(r, n) = GrabNextDWord(r, TRUE) /\ AfterRead(r, n).over
      /\ ReadUBitLong(r, n) = ZeroWord /\ (~r.over => r.in >= Words)
  BY <1>1, AcrossCases
<1>3. ZeroWord \in Word /\ 0 \in 0..W
  BY <1>0, WordOps
<1>4. ASSUME ~r.over PROVE At(r) + n > Size
  <2>1. r.in >= Words
    BY <1>2, <1>4, Zenon
  <2>2. CASE r.in = Words
    BY <1>0, <1>1, <2>2, AtFacts
  <2>3. CASE r.in = Words + 1
    BY <1>0, <1>1, <2>3, AtFacts
  <2> QED BY <1>0, <2>1, <2>2, <2>3
<1>5. Fits(AfterRead(r, n))
  <2>1. CASE r.in < Words
    <3>1. WordAt(mem, r.in) \in Word
      BY <1>0, <2>1, WordAtType
    <3>2. r.in + 1 \in 1..(Words + 1) /\ r.in + 1 # Words + 1
      BY <1>0, <2>1
    <3>3. GrabNextDWord(r, TRUE) = [word |-> WordAt(mem, r.in), avail |-> r.avail,
                                    in |-> r.in + 1, over |-> r.over]
      BY <2>1, GrabCases
    <3> QED BY <1>0, <1>2, <3>1, <3>2, <3>3, FitsWhen
  <2>2. CASE r.in = Words
    <3>1. 1 \in 1..W /\ Words + 1 \in 1..(Words + 1) /\ (r.over \/ TRUE) \in BOOLEAN
      BY <1>0
    <3>2. GrabNextDWord(r, TRUE) = [word |-> ZeroWord, avail |-> 1,
                                    in |-> Words + 1, over |-> r.over \/ TRUE]
      BY <2>2, GrabCases
    <3> QED BY <1>2, <1>3, <3>1, <3>2, FitsWhen
  <2>3. CASE r.in = Words + 1
    <3>1. GrabNextDWord(r, TRUE) = [word |-> ZeroWord, avail |-> r.avail,
                                    in |-> r.in, over |-> TRUE]
      BY <2>3, GrabCases
    <3> QED BY <1>0, <1>2, <1>3, <2>3, <3>1, FitsWhen
  <2> QED BY <1>0, <2>1, <2>2, <2>3
<1> QED BY <1>2, <1>3, <1>4, <1>5

-----------------------------------------------------------------------------
(* The writer's types.                                                     *)

WriterType == [mem : [Places -> Bit], pos : 0..Size, over : BOOLEAN,
               want : [Places -> Bit]]

\* A number's bits, and what stays of the memory, are bits.
LEMMA TypedUBit ==
    ASSUME NEW s \in WriterType, NEW v \in Word, NEW n \in 1..W
    PROVE  WriteUBitLong(s, v, n) \in WriterType
<1>0. W \in Nat /\ 0 < W /\ Size \in Nat
  BY SizeFacts
<1>1. /\ s.mem \in [Places -> Bit] /\ s.want \in [Places -> Bit]
      /\ s.pos \in 0..Size /\ s.over \in BOOLEAN
      /\ \A i \in 0..(W - 1) : v[i] \in Bit
  BY DEF WriterType, Word
<1>2. CASE s.pos + n > Size
  <2>1. WriteUBitLong(s, v, n) = [s EXCEPT !.pos = Size, !.over = TRUE]
    BY <1>2 DEF WriteUBitLong
  <2>2. Size \in 0..Size
    BY <1>0
  <2> QED BY <1>1, <2>1, <2>2 DEF WriterType
<1>3. CASE ~(s.pos + n > Size)
  <2> DEFINE at == s.pos
             last == IF at + n > NextWord(at) THEN NextWord(at) + W ELSE NextWord(at)
             m == Put(s.mem, at, v, n)
             w == Wanted(s, v, n)
  <2>1. m = [i \in Places |->
               IF i < at \/ i >= last \/ i >= at + W THEN s.mem[i]
               ELSE IF i < at + n \/ s.mem[i] = 0 THEN v[i - at] ELSE s.mem[i]]
    BY DEF Put
  <2>2. w = [i \in Places |-> IF at <= i /\ i < at + n THEN v[i - at] ELSE s.want[i]]
    BY DEF Wanted
  <2> HIDE DEF last, m, w
  <2>3. \A i \in Places : ~(i < at) /\ ~(i >= at + W) => i - at \in 0..(W - 1)
    BY <1>0, <1>1 DEF Places
  <2>4. \A i \in Places : at <= i /\ i < at + n => i - at \in 0..(W - 1)
    BY <1>0, <1>1 DEF Places
  <2>5. m \in [Places -> Bit]
    <3> HIDE DEF at
    <3> QED BY <1>1, <2>1, <2>3
  <2>6. w \in [Places -> Bit]
    <3> HIDE DEF at
    <3> QED BY <1>1, <2>2, <2>4
  <2>7. WriteUBitLong(s, v, n) = [mem |-> m, pos |-> at + n, over |-> s.over, want |-> w]
    BY <1>3 DEF WriteUBitLong, m, w
  <2>8. at + n \in 0..Size
    BY <1>0, <1>1, <1>3
  <2> QED BY <1>1, <2>5, <2>6, <2>7, <2>8 DEF WriterType
<1> QED BY <1>2, <1>3

\* One bit.
LEMMA TypedBit ==
    ASSUME NEW s \in WriterType, NEW b \in Bit
    PROVE  WriteOneBit(s, b) \in WriterType
<1>0. W \in Nat /\ 0 < W /\ Size \in Nat
  BY SizeFacts
<1>1. /\ s.mem \in [Places -> Bit] /\ s.want \in [Places -> Bit]
      /\ s.pos \in 0..Size /\ s.over \in BOOLEAN
  BY DEF WriterType
<1>2. CASE s.over \/ s.pos + 1 > Size
  <2>1. WriteOneBit(s, b) = [s EXCEPT !.over = TRUE]
    BY <1>2 DEF WriteOneBit
  <2> QED BY <2>1 DEF WriterType
<1>3. CASE ~(s.over \/ s.pos + 1 > Size)
  <2> DEFINE m == [s.mem EXCEPT ![s.pos] = b]
             w == [s.want EXCEPT ![s.pos] = b]
  <2>1. WriteOneBit(s, b) = [s EXCEPT !.mem = m, !.pos = s.pos + 1, !.want = w]
    BY <1>3 DEF WriteOneBit, WriterType
  <2>2. m \in [Places -> Bit] /\ w \in [Places -> Bit]
    BY <1>1
  <2> HIDE DEF m, w
  <2>3. s.pos + 1 \in 0..Size
    BY <1>0, <1>1, <1>3
  <2> QED BY <2>1, <2>2, <2>3 DEF WriterType
<1> QED BY <1>2, <1>3

\* A signed number.
LEMMA TypedSBit ==
    ASSUME NEW s \in WriterType, NEW v \in Word, NEW n \in 2..W
    PROVE  WriteSBitLong(s, v, n) \in WriterType
<1>0. W \in Nat /\ 1 < W /\ 0 \in Bit /\ W - 1 \in 0..(W - 1) /\ n - 1 \in 1..W
  BY SizeFacts DEF Bit
<1>1. [v EXCEPT ![W - 1] = 0] \in Word /\ v[W - 1] \in Bit
  BY <1>0 DEF Word
<1>2. WriteUBitLong(s, [v EXCEPT ![W - 1] = 0], n - 1) \in WriterType
  BY <1>0, <1>1, TypedUBit
<1> QED BY <1>1, <1>2, TypedBit DEF WriteSBitLong

\* Bit i of a list of bytes is in one of its bytes.
LEMMA BytePlace ==
    ASSUME NEW k \in Nat, NEW i \in 0..(B * k - 1)
    PROVE  (i \div B) + 1 \in 1..k /\ i % B \in 0..(B - 1)
<1>0. B \in Nat /\ 0 < B /\ B * k \in Nat
  BY SizeFacts
<1>i. i \in Nat /\ i < B * k
  BY <1>0
<1> DEFINE q == i \div B
<1>1. q \in Nat /\ B * q <= i /\ i % B \in 0..(B - 1)
  BY <1>0, <1>i
<1> HIDE DEF q
<1>2. q < k
  <2>1. CASE q >= k
    <3>1. B * q >= B * k
      BY <1>0, <1>1, <2>1
    <3>2. B * q \in Nat
      BY <1>0, <1>1
    <3> QED BY <1>0, <1>1, <1>i, <3>1, <3>2
  <2> QED BY <1>1, <2>1
<1> QED BY <1>1, <1>2 DEF q

\* A list of bytes.
LEMMA TypedBytes ==
    ASSUME NEW s \in WriterType, NEW l \in Seq(Byte)
    PROVE  WriteBytes(s, l) \in WriterType
<1>0. Size \in Nat /\ B \in Nat /\ Len(l) \in Nat /\ B * Len(l) \in Nat
  BY SizeFacts
<1>1. /\ s.mem \in [Places -> Bit] /\ s.want \in [Places -> Bit]
      /\ s.pos \in 0..Size /\ s.over \in BOOLEAN
  BY DEF WriterType
<1> DEFINE n == B * Len(l)
           at == s.pos
           Bits == [i \in 0..(n - 1) |-> l[(i \div B) + 1][i % B]]
           Copy(m) == [i \in Places |-> IF at <= i /\ i < at + n
                                        THEN Bits[i - at] ELSE m[i]]
<1>2. CASE at + n > Size
  <2>1. WriteBytes(s, l) = [s EXCEPT !.over = TRUE]
    BY <1>2 DEF WriteBytes
  <2> QED BY <2>1 DEF WriterType
<1>3. CASE ~(at + n > Size)
  <2>1. WriteBytes(s, l) = [s EXCEPT !.mem = Copy(s.mem), !.pos = at + n,
                                     !.want = Copy(s.want)]
    BY <1>3 DEF WriteBytes, WriterType
  <2>2. ASSUME NEW i \in 0..(n - 1) PROVE Bits[i] \in Bit
    <3>1. (i \div B) + 1 \in 1..Len(l) /\ i % B \in 0..(B - 1)
      BY <1>0, BytePlace
    <3>2. l[(i \div B) + 1] \in Byte
      BY <3>1, ElementOfSeq
    <3>3. l[(i \div B) + 1][i % B] \in Bit
      BY <3>1, <3>2 DEF Byte
    <3> QED BY <3>3
  <2>3. n \in Nat /\ at \in Nat
    BY <1>0, <1>1
  <2> HIDE DEF Bits, n, at
  <2>4. \A i \in Places : at <= i /\ i < at + n => i - at \in 0..(n - 1)
    BY <1>0, <2>3, SizeFacts DEF Places
  <2>5. Copy(s.mem) \in [Places -> Bit] /\ Copy(s.want) \in [Places -> Bit]
    BY <1>1, <2>2, <2>4
  <2>6. at + n \in 0..Size
    BY <1>0, <1>3, <2>3
  <2> HIDE DEF Copy
  <2> QED BY <2>1, <2>5, <2>6 DEF WriterType
<1> QED BY <1>2, <1>3

\* A character is the word it is extended to.
LEMMA ExtendedByte == \A c \in Byte : Extended(c, B) \in Word
<1> SUFFICES ASSUME NEW c \in Byte PROVE Extended(c, B) \in Word
  OBVIOUS
<1>0. W \in Nat /\ B \in Nat /\ 1 < B
  BY SizeFacts
<1>1. \A i \in 0..(B - 1) : c[i] \in Bit
  BY DEF Byte
<1>2. B - 1 \in 0..(B - 1) /\ \A i \in 0..(W - 1) : i < B => i \in 0..(B - 1)
  BY <1>0
<1> DEFINE x == c[B - 1]
<1>3. x \in Bit
  BY <1>1, <1>2
<1>4. Extended(c, B) = [i \in 0..(W - 1) |-> IF i < B THEN c[i] ELSE x]
  BY DEF Extended
<1> HIDE DEF x
<1> QED BY <1>1, <1>2, <1>3, <1>4 DEF Word

-----------------------------------------------------------------------------
(* The reader's invariant.                                                 *)

\* The flag is set when a number was lost; until then the position is that of the
\* window, and the window shows the memory unless its word was written to.
ReaderInv ==
    /\ TypeOK
    /\ Fits(rd)
    /\ lost => rd.over
    /\ ~lost => rpos = At(rd)
    /\ ~lost /\ clean => InStep(rd, mem)

\* What a read or a seek may rely on, and the positions a writer may be at.
LEMMA NextWidths == B \in 2..W /\ Widths \cup {B} \subseteq 2..W
  BY SizeFacts, SizeAssumption

\* Seek(0) shows the first word.
LEMMA AtStart ==
    ASSUME mem \in [Places -> Bit], NEW f \in BOOLEAN
    PROVE  /\ Fits(SeekToStart(f)) /\ SeekToStart(f).over = f
           /\ At(SeekToStart(f)) = 0 /\ InStep(SeekToStart(f), mem)
<1> DEFINE q == SeekToStart(f)
<1>0. W \in Nat /\ 0 < W /\ Words \in Nat /\ 0 < Words
  BY SizeFacts
<1>1. q = [word |-> WordAt(mem, 0), avail |-> W, in |-> 1, over |-> f]
  <2> DEFINE p == [word |-> ZeroWord, avail |-> W, in |-> 0, over |-> f]
  <2>1. /\ p \in [word : {ZeroWord}, avail : Nat, in : Nat, over : BOOLEAN]
        /\ p.avail = W /\ p.in = 0 /\ p.over = f
    BY <1>0
  <2>2. q = GrabNextDWord(p, FALSE)
    BY DEF SeekToStart
  <2> HIDE DEF p, q
  <2>3. p.in < Words
    BY <1>0, <2>1
  <2>4. q = [p EXCEPT !.word = WordAt(mem, p.in), !.in = @ + 1]
    BY <2>2, <2>3 DEF GrabNextDWord
  <2>5. q = [word |-> WordAt(mem, p.in), avail |-> p.avail, in |-> p.in + 1,
             over |-> p.over]
    BY <2>1, <2>4
  <2> QED BY <2>1, <2>5
<1>2. /\ WordAt(mem, 0) \in Word
      /\ \A i \in 0..(W - 1) : WordAt(mem, 0)[i] = mem[W * 0 + i]
  BY <1>0, WordAtType
<1>3. W \in 1..W /\ 1 \in 1..(Words + 1) /\ 1 # Words + 1
  BY <1>0
<1>4. Fits(q)
  BY <1>1, <1>2, <1>3, FitsWhen
<1>5. q.word = WordAt(mem, 0) /\ q.avail = W /\ q.in = 1 /\ q.over = f
  BY <1>1
<1> HIDE DEF q
<1>6. At(q) = W * (q.in - 1) + W - q.avail /\ q.in <= Words
  BY <1>0, <1>4, <1>5, AtFacts
<1>7. q.in - 1 = 0 /\ W * 0 = 0
  BY <1>0, <1>5
<1>8. At(q) = 0
  BY <1>0, <1>5, <1>6, <1>7
<1>9. ASSUME NEW i \in 0..(q.avail - 1) PROVE q.word[i] = mem[At(q) + i]
  BY <1>0, <1>2, <1>5, <1>7, <1>8
<1>10. InStep(q, mem)
  BY <1>6, <1>9, InStepWhen
<1> QED BY <1>4, <1>5, <1>8, <1>10 DEF q

\* A write elsewhere leaves the window in step.
LEMMA StaysInStep ==
    ASSUME NEW r, Fits(r), NEW m, NEW m2, InStep(r, m),
           r.in <= Words => WordAt(m2, r.in - 1) = WordAt(m, r.in - 1)
    PROVE  InStep(r, m2)
<1> SUFFICES ASSUME r.in <= Words, NEW i \in 0..(r.avail - 1)
             PROVE  r.word[i] = m2[At(r) + i]
  BY DEF InStep
<1>0. /\ W \in Nat /\ r.avail \in 1..W /\ At(r) \in Nat
      /\ At(r) = W * (r.in - 1) + W - r.avail
  BY AtFacts
<1> DEFINE b == W * (r.in - 1)
           j == W - r.avail + i
<1>1. b \in Int
  BY <1>0, AtFacts
<1>2. WordAt(m, r.in - 1) = [k \in 0..(W - 1) |-> m[b + k]]
  BY DEF WordAt
<1>3. WordAt(m2, r.in - 1) = [k \in 0..(W - 1) |-> m2[b + k]]
  BY DEF WordAt
<1>4. At(r) = b + W - r.avail
  BY <1>0
<1> HIDE DEF b
<1>5. j \in 0..(W - 1) /\ b + j = At(r) + i
  BY <1>0, <1>1, <1>4
<1> HIDE DEF j
<1>6. m2[b + j] = m[b + j]
  BY <1>2, <1>3, <1>5
<1>7. r.word[i] = m[At(r) + i]
  BY DEF InStep
<1> QED BY <1>5, <1>6, <1>7

\* The first state.
LEMMA ReaderInit == Init => ReaderInv
<1> SUFFICES ASSUME Init PROVE ReaderInv
  OBVIOUS
<1>0. /\ W \in Nat /\ 0 < W /\ Size \in Nat /\ MaxLen \in Nat \ {0} /\ MaxOps \in Nat
  BY SizeFacts, SizeAssumption
<1>1. /\ mem \in [Places -> Bit] /\ want = mem
      /\ wr = [pos |-> 0, over |-> FALSE] /\ todo = <<>>
      /\ rd = SeekToStart(FALSE) /\ str = <<>> /\ reading = FALSE /\ got = ZeroWord
      /\ rpos = 0 /\ lost = FALSE /\ clean = TRUE /\ begin = -1 /\ ops = 0
  BY ValueAssumption DEF Init
<1>2. /\ Fits(rd) /\ rd.over = FALSE /\ At(rd) = 0 /\ InStep(rd, mem)
  <2>1. FALSE \in BOOLEAN
    OBVIOUS
  <2> QED BY <1>1, <2>1, AtStart
<1>3. ZeroWord \in Word
  BY <1>0 DEF ZeroWord, Word, Bit
<1>4. TypeOK
  <2>1. 0 \in 0..Size /\ -1 \in -1..Size /\ 0 \in 0..MaxOps /\ Len(str) < MaxLen
    BY <1>0, <1>1, EmptySeq
  <2>2. <<>> \in Seq(Byte)
    BY EmptySeq
  <2>3. rd \in [word : Word, avail : 1..W, in : 1..(Words + 1), over : BOOLEAN]
    BY <1>2 DEF Fits, Window
  <2> QED BY <1>1, <1>3, <2>1, <2>2, <2>3 DEF TypeOK
<1> QED BY <1>1, <1>2, <1>4 DEF ReaderInv

\* What any of the reads does to the reader, and what it gives.
LEMMA TakeStep ==
    ASSUME ReaderInv, NEW n \in 2..W, NEW v, Take(n, v),
           v \in {ReadUBitLong(rd, n), ReadSBitLong(rd, n)}
    PROVE  /\ Fits(rd') /\ rd'.over \in BOOLEAN /\ got' \in Word
           /\ lost' \in BOOLEAN /\ clean' \in BOOLEAN /\ rpos' \in 0..Size
           /\ lost' => rd'.over
           /\ ~lost' => ~lost /\ rpos' = rpos + n /\ rpos' = At(rd')
           /\ ~lost' /\ clean' => InStep(rd', mem)
           /\ clean => clean'
           /\ ~lost' /\ clean => \A i \in 0..(n - 1) : got'[i] = mem[rpos + i]
           /\ ~rd.over /\ rd'.over => lost' /\ rpos + n > Size
<1> DEFINE u == ReadUBitLong(rd, n)
<1>0. /\ mem \in [Places -> Bit] /\ Fits(rd) /\ rd.over \in BOOLEAN
      /\ lost \in BOOLEAN /\ clean \in BOOLEAN /\ rpos \in 0..Size
      /\ (lost => rd.over) /\ (~lost => rpos = At(rd))
      /\ (~lost /\ clean => InStep(rd, mem))
  BY AtFacts DEF ReaderInv, TypeOK
<1>1. /\ got' = v /\ rd' = AfterRead(rd, n)
      /\ lost' = (lost \/ Loses(rd, n))
      /\ rpos' = IF lost' THEN rpos ELSE rpos + n
      /\ clean' = (clean \/ rd'.in # rd.in)
  BY Zenon DEF Take, Loses
<1>2. /\ W \in Nat /\ rd.avail \in 1..W /\ Size \in Nat /\ n \in 0..W /\ n > 0
  BY <1>0, AtFacts
<1>3. /\ Fits(rd') /\ u \in Word
      /\ (lost' => rd'.over)
      /\ (~lost' => ~lost /\ At(rd') = At(rd) + n)
      /\ (~lost' /\ clean' => InStep(rd', mem))
      /\ (~lost' /\ clean => \A i \in 0..(n - 1) : u[i] = mem[At(rd) + i])
      /\ (~rd.over /\ rd'.over => lost' /\ At(rd) + n > Size)
  <2>1. CASE n <= rd.avail
    <3>1. ~Loses(rd, n)
      <4>1. ~(n > rd.avail)
        BY <1>2, <2>1
      <4> QED BY <4>1, Zenon DEF Loses
    <3>2. /\ Fits(AfterRead(rd, n)) /\ AfterRead(rd, n).over = rd.over
          /\ At(AfterRead(rd, n)) = At(rd) + n
          /\ (InStep(rd, mem) \/ AfterRead(rd, n).in # rd.in
                 => InStep(AfterRead(rd, n), mem))
          /\ u \in Word
          /\ (InStep(rd, mem) => \A i \in 0..(n - 1) : u[i] = mem[At(rd) + i])
      BY <1>0, <2>1, WithinStep
    <3> HIDE DEF u
    <3> QED BY <1>0, <1>1, <3>1, <3>2, Zenon
  <2>2. CASE n > rd.avail /\ ~Loses(rd, n)
    <3>2. /\ Fits(AfterRead(rd, n)) /\ AfterRead(rd, n).over = rd.over
          /\ At(AfterRead(rd, n)) = At(rd) + n /\ InStep(AfterRead(rd, n), mem)
          /\ u \in Word
          /\ (InStep(rd, mem) => \A i \in 0..(n - 1) : u[i] = mem[At(rd) + i])
      BY <1>0, <2>2, AcrossStep
    <3> HIDE DEF u
    <3> QED BY <1>0, <1>1, <2>2, <3>2, Zenon
  <2>3. CASE Loses(rd, n)
    <3>2. /\ Fits(AfterRead(rd, n)) /\ AfterRead(rd, n).over
          /\ (~rd.over => At(rd) + n > Size) /\ u \in Word
      BY <1>0, <2>3, LosingStep
    <3> HIDE DEF u
    <3> QED BY <1>0, <1>1, <2>3, <3>2, Zenon
  <2>4. n <= rd.avail \/ n > rd.avail
    BY <1>2
  <2> QED BY <2>1, <2>2, <2>3, <2>4, Zenon
<1>4. got' \in Word /\ \A i \in 0..(n - 1) : got'[i] = u[i]
  <2>1. u \in Word
    BY <1>3
  <2>2. Extended(u, n) \in Word /\ \A i \in 0..(n - 1) : Extended(u, n)[i] = u[i]
    BY <1>2, <2>1, WordOps
  <2>3. v = u \/ v = Extended(u, n)
    BY DEF ReadSBitLong
  <2> HIDE DEF u
  <2> QED BY <1>1, <2>1, <2>2, <2>3, Zenon
<1> HIDE DEF u
<1>5. ~lost' => rpos' = rpos + n /\ rpos = At(rd)
  BY <1>0, <1>1, <1>3, Zenon
<1>6. ~lost' => rpos' = At(rd')
  <2> SUFFICES ASSUME ~lost' PROVE rpos' = At(rd')
    OBVIOUS
  <2> QED BY <1>3, <1>5
<1>7. rpos' \in 0..Size
  <2>1. At(rd') \in 0..Size
    BY <1>3, AtFacts
  <2> QED BY <1>0, <1>1, <1>6, <2>1, Zenon
<1>8. ~lost' /\ clean => \A i \in 0..(n - 1) : got'[i] = mem[rpos + i]
  BY <1>3, <1>4, <1>5, Zenon
<1>9. ~rd.over /\ rd'.over => lost' /\ rpos + n > Size
  <2> SUFFICES ASSUME ~rd.over, rd'.over PROVE lost' /\ rpos + n > Size
    OBVIOUS
  <2>1. rpos = At(rd)
    BY <1>0, Zenon
  <2> QED BY <1>3, <2>1, Zenon
<1>10. rd'.over \in BOOLEAN /\ lost' \in BOOLEAN /\ clean' \in BOOLEAN
       /\ (clean => clean')
  <2>1. rd'.over \in BOOLEAN
    BY <1>3, AtFacts
  <2>2. lost' \in BOOLEAN /\ clean' \in BOOLEAN
    BY <1>1
  <2> QED BY <1>1, <2>1, <2>2, Zenon
<1> QED BY <1>3, <1>4, <1>5, <1>6, <1>7, <1>8, <1>9, <1>10, Zenon

\* What any of the writes does to the types and to the window.
LEMMA WriteStep ==
    ASSUME ReaderInv, NEW m \in [Places -> Bit], mem' = m,
           clean' = StillClean(m), UNCHANGED readVars
    PROVE  /\ clean' \in BOOLEAN
           /\ ~lost' /\ clean' => InStep(rd', mem')
<1>0. /\ Fits(rd) /\ clean \in BOOLEAN /\ (~lost /\ clean => InStep(rd, mem))
      /\ rd' = rd /\ lost' = lost
  BY DEF ReaderInv, TypeOK, readVars
<1>1. clean' = (clean /\ (rd.in <= Words
                  => WordAt(m, rd.in - 1) = WordAt(mem, rd.in - 1)))
  BY DEF StillClean
<1>2. clean' \in BOOLEAN
  BY <1>1
<1>3. ASSUME ~lost', clean' PROVE InStep(rd', mem')
  <2>1. /\ InStep(rd, mem)
        /\ (rd.in <= Words => WordAt(m, rd.in - 1) = WordAt(mem, rd.in - 1))
    BY <1>0, <1>1, <1>3, Zenon
  <2>2. InStep(rd, m)
    BY <1>0, <2>1, StaysInStep
  <2> QED BY <1>0, <2>2
<1> QED BY <1>2, <1>3

\* The invariant, by the three who change the state: the writer, the reader, and
\* the functions that use them.
WriterTyped == /\ mem \in [Places -> Bit] /\ want \in [Places -> Bit]
               /\ wr \in [pos : 0..Size, over : BOOLEAN]
CallsTyped == /\ todo \in Seq(Byte) /\ str \in Seq(Byte) /\ Len(str) < MaxLen
              /\ reading \in BOOLEAN /\ begin \in -1..Size /\ ops \in 0..MaxOps
Tracks == /\ Fits(rd) /\ lost \in BOOLEAN /\ clean \in BOOLEAN /\ got \in Word
          /\ rpos \in 0..Size
          /\ lost => rd.over
          /\ ~lost => rpos = At(rd)
          /\ ~lost /\ clean => InStep(rd, mem)

LEMMA ReaderParts == ReaderInv <=> WriterTyped /\ CallsTyped /\ Tracks
<1>1. Fits(rd) => rd \in [word : Word, avail : 1..W, in : 1..(Words + 1), over : BOOLEAN]
  BY DEF Fits, Window
<1>2. TypeOK <=> /\ WriterTyped /\ CallsTyped
                 /\ rd \in [word : Word, avail : 1..W, in : 1..(Words + 1),
                            over : BOOLEAN]
                 /\ lost \in BOOLEAN /\ clean \in BOOLEAN /\ got \in Word
                 /\ rpos \in 0..Size
  BY DEF TypeOK, WriterTyped, CallsTyped
<1> QED BY <1>1, <1>2, Zenon DEF ReaderInv, Tracks

\* Every step keeps the types, and the reader in step.
LEMMA ReaderNext == ReaderInv /\ [Next]_vars => ReaderInv'
<1> SUFFICES ASSUME ReaderInv, [Next]_vars PROVE ReaderInv'
  OBVIOUS
<1>i. WriterTyped /\ CallsTyped /\ Tracks
  BY ReaderParts, Zenon
<1>0. /\ W \in Nat /\ Size \in Nat /\ B \in 2..W /\ MaxLen \in Nat /\ MaxOps \in Nat
      /\ \A n \in Widths \cup {B} : n \in 2..W /\ n \in 1..W
  BY SizeFacts, SizeAssumption
<1>q. WriterTyped' /\ CallsTyped' /\ Tracks' => ReaderInv'
  BY ReaderParts, PTL
<1>o. ASSUME Operation PROVE ops' \in 0..MaxOps
  BY <1>0, <1>i, <1>o DEF Operation, CallsTyped
<1>c. ASSUME ops' \in 0..MaxOps, todo' \in Seq(Byte), UNCHANGED textVars
      PROVE  CallsTyped'
  BY <1>i, <1>c DEF CallsTyped, textVars
<1>u. ASSUME UNCHANGED <<mem, readVars, clean>> PROVE Tracks'
  BY <1>i, <1>u DEF Tracks, readVars, Fits, At, InStep
<1>v. ASSUME UNCHANGED <<mem, want, wr>> PROVE WriterTyped'
  BY <1>i, <1>v DEF WriterTyped
<1>m. ASSUME NEW m \in [Places -> Bit], mem' = m, clean' = StillClean(m),
             UNCHANGED readVars
      PROVE  Tracks'
  <2>1. clean' \in BOOLEAN /\ (~lost' /\ clean' => InStep(rd', mem'))
    BY <1>m, WriteStep
  <2>2. rd' = rd /\ got' = got /\ rpos' = rpos /\ lost' = lost
    BY <1>m DEF readVars
  <2>3. Fits(rd') /\ (~lost' => rpos' = At(rd'))
    BY <1>i, <2>2 DEF Tracks
  <2> QED BY <1>i, <2>1, <2>2, <2>3 DEF Tracks, Fits, At, InStep
<1>w. ASSUME NEW s \in WriterType, Write(s) PROVE WriterTyped' /\ Tracks'
  <2>1. /\ s.mem \in [Places -> Bit] /\ s.want \in [Places -> Bit]
        /\ s.pos \in 0..Size /\ s.over \in BOOLEAN
    BY DEF WriterType
  <2>2. /\ mem' = s.mem /\ want' = s.want /\ wr' = [pos |-> s.pos, over |-> s.over]
        /\ clean' = StillClean(s.mem) /\ UNCHANGED readVars
    BY <1>w DEF Write
  <2>3. WriterTyped'
    BY <2>1, <2>2 DEF WriterTyped
  <2> QED BY <1>m, <2>1, <2>2, <2>3
<1>s. Writer \in WriterType
  BY <1>i DEF Writer, WriterType, WriterTyped
<1>n. todo \in Seq(Byte)
  BY <1>i DEF CallsTyped
<1>1. CASE WriteNumber
  <2>1. PICK v \in Values, n \in Widths :
           Write(WriteUBitLong(Writer, v, n)) \/ Write(WriteSBitLong(Writer, v, n))
    BY <1>1 DEF WriteNumber
  <2>2. v \in Word /\ n \in 2..W /\ n \in 1..W
    BY <1>0, ValueAssumption
  <2>3. /\ WriteUBitLong(Writer, v, n) \in WriterType
        /\ WriteSBitLong(Writer, v, n) \in WriterType
    BY <1>s, <2>2, TypedUBit, TypedSBit
  <2>4. WriterTyped' /\ Tracks'
    BY <1>w, <2>1, <2>3
  <2>5. UNCHANGED textVars
    BY <2>1 DEF Write
  <2> QED BY <1>1, <1>c, <1>n, <1>o, <1>q, <2>4, <2>5 DEF WriteNumber
<1>2. CASE WriteList
  <2>1. PICK l \in Lists : Write(WriteBytes(Writer, l))
    BY <1>2 DEF WriteList
  <2>2. l \in Seq(Byte)
    BY ValueAssumption
  <2>3. WriterTyped' /\ Tracks'
    BY <1>s, <1>w, <2>1, <2>2, TypedBytes
  <2>4. UNCHANGED textVars
    BY <2>1 DEF Write
  <2> QED BY <1>2, <1>c, <1>n, <1>o, <1>q, <2>3, <2>4 DEF WriteList
<1>3. CASE WriteString
  <2>1. PICK t \in Texts : todo' = Append(t, NUL)
    BY <1>3 DEF WriteString
  <2>2. t \in Seq(Byte \ {NUL}) /\ NUL \in Byte
    BY <1>0, ValueAssumption DEF NUL, Byte, Bit
  <2>3. t \in Seq(Byte)
    BY <2>2, SeqMonotonic
  <2>4. todo' \in Seq(Byte)
    BY <2>1, <2>2, <2>3
  <2>5. UNCHANGED <<writeVars, readVars, textVars, clean>>
    BY <1>3 DEF WriteString
  <2>6. WriterTyped' /\ Tracks'
    BY <1>u, <1>v, <2>5 DEF writeVars
  <2> QED BY <1>3, <1>c, <1>o, <1>q, <2>4, <2>5, <2>6 DEF WriteString
<1>4. CASE WriteChar
  <2>1. /\ todo # <<>> /\ Write(WriteSBitLong(Writer, Extended(Head(todo), B), B))
        /\ todo' = Tail(todo) /\ ops' = ops
    BY <1>4 DEF WriteChar
  <2>2. Head(todo) \in Byte /\ Tail(todo) \in Seq(Byte)
    BY <1>n, <2>1, HeadTailProperties
  <2>3. Extended(Head(todo), B) \in Word
    BY <2>2, ExtendedByte
  <2>4. WriteSBitLong(Writer, Extended(Head(todo), B), B) \in WriterType
    BY <1>0, <1>s, <2>3, TypedSBit
  <2>5. WriterTyped' /\ Tracks'
    BY <1>w, <2>1, <2>4
  <2>6. UNCHANGED textVars /\ ops' \in 0..MaxOps
    BY <1>i, <2>1 DEF Write, CallsTyped
  <2> QED BY <1>c, <1>q, <2>1, <2>2, <2>5, <2>6
<1>5. CASE ResetWriteBuffer
  <2>1. /\ Operation /\ wr' = [pos |-> 0, over |-> FALSE]
        /\ UNCHANGED <<mem, want, todo, readVars, textVars, clean>>
    BY <1>5 DEF ResetWriteBuffer
  <2>2. WriterTyped'
    BY <1>0, <1>i, <2>1 DEF WriterTyped
  <2> QED BY <1>c, <1>n, <1>o, <1>q, <1>u, <2>1, <2>2
<1>6. CASE SeekBack
  <2>1. /\ Operation /\ wr' = [wr EXCEPT !.pos = @ - B] /\ wr.pos >= B
        /\ UNCHANGED <<mem, want, todo, readVars, textVars, clean>>
    BY <1>6 DEF SeekBack
  <2>2. wr \in [pos : 0..Size, over : BOOLEAN]
    BY <1>i DEF WriterTyped
  <2>3. wr.pos - B \in 0..Size
    BY <1>0, <2>1, <2>2
  <2>4. WriterTyped'
    BY <1>i, <2>1, <2>2, <2>3 DEF WriterTyped
  <2> QED BY <1>c, <1>n, <1>o, <1>q, <1>u, <2>1, <2>4
<1>7. CASE Receive
  <2> DEFINE s == [Writer EXCEPT !.over = FALSE]
  <2>1. PICK l \in Lists : /\ mem' = WriteBytes(s, l).mem
                           /\ clean' = StillClean(WriteBytes(s, l).mem)
    BY <1>7 DEF Receive
  <2>2. Operation /\ UNCHANGED <<wr, want, todo, readVars, textVars>>
    BY <1>7 DEF Receive
  <2>3. s \in WriterType
    BY <1>s DEF WriterType
  <2>4. l \in Seq(Byte)
    BY ValueAssumption
  <2> HIDE DEF s
  <2>5. WriteBytes(s, l).mem \in [Places -> Bit]
    BY <2>3, <2>4, TypedBytes DEF WriterType
  <2>6. Tracks'
    BY <1>m, <2>1, <2>2, <2>5
  <2>7. WriterTyped'
    BY <1>i, <2>1, <2>2, <2>5 DEF WriterTyped
  <2> QED BY <1>c, <1>n, <1>o, <1>q, <2>2, <2>6, <2>7
<1>8. CASE ResetReadBuffer
  <2>1. /\ Operation /\ rd' = SeekToStart(rd.over)
        /\ rpos' = 0 /\ lost' = FALSE /\ clean' = TRUE
        /\ UNCHANGED <<writeVars, todo, got, textVars>>
    BY <1>8 DEF ResetReadBuffer
  <2>2. rd.over \in BOOLEAN /\ mem \in [Places -> Bit]
    BY <1>i, AtFacts DEF Tracks, WriterTyped
  <2>3. Fits(rd') /\ At(rd') = 0 /\ InStep(rd', mem)
    BY <2>1, <2>2, AtStart
  <2>4. mem' = mem /\ got' \in Word /\ 0 \in 0..Size
    BY <1>0, <1>i, <2>1 DEF Tracks, writeVars
  <2>5. Tracks'
    BY <2>1, <2>3, <2>4 DEF Tracks, Fits, At, InStep
  <2>6. WriterTyped'
    BY <1>v, <2>1 DEF writeVars
  <2> QED BY <1>c, <1>n, <1>o, <1>q, <2>1, <2>5, <2>6
<1>t. ASSUME NEW n \in Widths \cup {B}, NEW v, Take(n, v),
             v \in {ReadUBitLong(rd, n), ReadSBitLong(rd, n)}
      PROVE  WriterTyped' /\ Tracks' /\ todo' = todo /\ got' \in Word
  <2>1. n \in 2..W
    BY <1>0
  <2>2. /\ Fits(rd') /\ got' \in Word
        /\ lost' \in BOOLEAN /\ clean' \in BOOLEAN /\ rpos' \in 0..Size
        /\ (lost' => rd'.over) /\ (~lost' => rpos' = At(rd'))
        /\ (~lost' /\ clean' => InStep(rd', mem))
    BY <1>t, <2>1, TakeStep
  <2>3. UNCHANGED <<writeVars, todo>>
    BY <1>t DEF Take
  <2>4. mem' = mem
    BY <2>3 DEF writeVars
  <2>5. Tracks'
    BY <2>2, <2>4 DEF Tracks, Fits, At, InStep
  <2>6. WriterTyped'
    BY <1>v, <2>3 DEF writeVars
  <2> QED BY <2>2, <2>3, <2>5, <2>6
<1>9. CASE ReadNumber
  <2>1. PICK n \in Widths : Take(n, ReadUBitLong(rd, n)) \/ Take(n, ReadSBitLong(rd, n))
    BY <1>9 DEF ReadNumber
  <2>2. WriterTyped' /\ Tracks' /\ todo' = todo
    BY <1>t, <2>1
  <2> QED BY <1>9, <1>c, <1>n, <1>o, <1>q, <2>2 DEF ReadNumber
<1>10. CASE ReadString
  <2>1. /\ Operation /\ reading' = TRUE /\ str' = <<>>
        /\ begin' = IF clean /\ ~lost THEN rpos ELSE -1
        /\ UNCHANGED <<writeVars, todo, readVars, clean>>
    BY <1>10 DEF ReadString
  <2>2. WriterTyped' /\ Tracks'
    BY <1>u, <1>v, <2>1 DEF writeVars
  <2>3. begin' \in -1..Size
    <3>1. rpos \in 0..Size
      BY <1>i DEF Tracks
    <3>2. rpos \in -1..Size /\ -1 \in -1..Size
      BY <1>0, <3>1
    <3> QED BY <2>1, <3>2
  <2>4. str' \in Seq(Byte) /\ Len(str') < MaxLen
    <3>1. 0 < MaxLen
      BY SizeAssumption
    <3> QED BY <2>1, <3>1, EmptySeq
  <2>5. CallsTyped'
    BY <1>n, <1>o, <2>1, <2>3, <2>4 DEF CallsTyped
  <2> QED BY <1>q, <2>2, <2>5
<1>11. CASE ReadChar
  <2> DEFINE c == AsByte(got')
  <2>1. /\ Take(B, ReadSBitLong(rd, B)) /\ reading' = (c # NUL)
        /\ str' = IF c # NUL /\ Len(str) < MaxLen - 1 THEN Append(str, c) ELSE str
        /\ UNCHANGED <<begin, ops>>
    BY <1>11 DEF ReadChar
  <2>2. WriterTyped' /\ Tracks' /\ todo' = todo /\ got' \in Word
    BY <1>t, <2>1
  <2>3. c \in Byte
    <3>1. \A i \in 0..(B - 1) : i \in 0..(W - 1)
      BY <1>0
    <3> QED BY <2>2, <3>1 DEF AsByte, Byte, Word
  <2>4. str \in Seq(Byte) /\ Len(str) < MaxLen
    BY <1>i DEF CallsTyped
  <2> HIDE DEF c
  <2>5. str' \in Seq(Byte) /\ Len(str') < MaxLen
    <3>1. CASE c # NUL /\ Len(str) < MaxLen - 1
      <4>1. str' = Append(str, c) /\ Len(str) \in Nat
        BY <2>1, <2>4, <3>1
      <4>2. Append(str, c) \in Seq(Byte) /\ Len(Append(str, c)) = Len(str) + 1
        BY <2>3, <2>4
      <4> QED BY <1>0, <3>1, <4>1, <4>2
    <3>2. CASE ~(c # NUL /\ Len(str) < MaxLen - 1)
      BY <2>1, <2>4, <3>2
    <3> QED BY <3>1, <3>2
  <2>6. CallsTyped'
    BY <1>i, <2>1, <2>2, <2>5 DEF CallsTyped
  <2> QED BY <1>q, <2>2, <2>6
<1>12. CASE UNCHANGED vars
  <2>1. UNCHANGED <<mem, want, wr>> /\ UNCHANGED <<mem, readVars, clean>>
        /\ UNCHANGED textVars /\ ops' = ops /\ todo' = todo
    BY <1>12 DEF vars, readVars, textVars
  <2>2. ops' \in 0..MaxOps
    BY <1>i, <2>1 DEF CallsTyped
  <2> QED BY <1>c, <1>n, <1>q, <1>u, <1>v, <2>1, <2>2
<1> QED BY <1>1, <1>2, <1>3, <1>4, <1>5, <1>6, <1>7, <1>8, <1>9, <1>10, <1>11, <1>12
        DEF Next

\* ReaderInv holds in every reachable state.
LEMMA ReaderInvariant == Spec => []ReaderInv
  BY ReaderInit, ReaderNext, PTL DEF Spec

(***************************************************************************)
(* The types, and the bounds of every position: of the writer, the reader, *)
(* its window and the array ReadString stores to (bf_write, CBitRead).     *)
(***************************************************************************)
THEOREM TypeCorrect == Spec => []TypeOK
<1>1. ReaderInv => TypeOK
  BY DEF ReaderInv
<1> QED BY <1>1, ReaderInvariant, PTL

-----------------------------------------------------------------------------
(* Reads, among the other steps.                                           *)

\* The reader is moved by a read or by Seek(0), which keeps its flag.
LEMMA ReadOrNot ==
    ASSUME ReaderInv, [Next]_vars
    PROVE  \/ rd' = rd /\ rpos' = rpos
           \/ rd'.over = rd.over /\ rpos' = 0
           \/ \E n \in Widths \cup {B} :
                 \E v \in {ReadUBitLong(rd, n), ReadSBitLong(rd, n)} : Take(n, v)
<1>1. CASE WriteNumber \/ WriteList \/ WriteChar
  <2>1. UNCHANGED readVars
    BY <1>1 DEF WriteNumber, WriteList, WriteChar, Write
  <2> QED BY <2>1 DEF readVars
<1>2. CASE \/ WriteString \/ ResetWriteBuffer \/ SeekBack \/ Receive \/ ReadString
           \/ UNCHANGED vars
  <2>1. rd' = rd /\ rpos' = rpos
    BY <1>2 DEF WriteString, ResetWriteBuffer, SeekBack, Receive, ReadString, vars,
                readVars
  <2> QED BY <2>1
<1>3. CASE ResetReadBuffer
  <2>1. rd' = SeekToStart(rd.over) /\ rpos' = 0
    BY <1>3 DEF ResetReadBuffer
  <2>2. mem \in [Places -> Bit] /\ rd.over \in BOOLEAN
    BY AtFacts DEF ReaderInv, TypeOK
  <2>3. rd'.over = rd.over
    BY <2>1, <2>2, AtStart
  <2> QED BY <2>1, <2>3
<1>4. CASE ReadNumber
  BY <1>4 DEF ReadNumber
<1>5. CASE ReadChar
  BY <1>5 DEF ReadChar
<1> QED BY <1>1, <1>2, <1>3, <1>4, <1>5 DEF Next

\* What the length of a saved list is computed from is the reader's position.
Counted == ~lost => rpos = GetNumBitsRead
LEMMA PositionCounted == ReaderInv => Counted
<1> SUFFICES ASSUME ReaderInv, ~lost PROVE rpos = GetNumBitsRead
  BY DEF Counted
<1>0. /\ Fits(rd) /\ rpos = At(rd) /\ W \in Nat /\ Words \in Nat /\ Size \in Nat
      /\ 0 < W /\ W * Words = Size
  BY SizeFacts DEF ReaderInv
<1>1. rd.in \in 1..(Words + 1) /\ rd.avail \in 1..W /\ At(rd) \in 0..Size
  BY <1>0, AtFacts
<1> DEFINE b == (rd.in - 1) * W
           n == b + W - rd.avail
<1>2. rd.in - 1 \in Nat /\ rd.in - 1 <= Words
  BY <1>0, <1>1
<1>3. b = W * (rd.in - 1) /\ b \in Nat
  BY <1>2, WordBase
<1>4. GetNumBitsRead = IF n < Size THEN n ELSE Size
  BY DEF GetNumBitsRead
<1>5. CASE rd.in <= Words
  <2>1. At(rd) = b + W - rd.avail
    BY <1>0, <1>3, <1>5, AtFacts
  <2> HIDE DEF b
  <2>2. n = At(rd) /\ n \in 0..Size
    BY <1>1, <2>1
  <2> HIDE DEF n
  <2> QED BY <1>0, <1>1, <1>4, <2>2
<1>6. CASE rd.in = Words + 1
  <2>1. At(rd) = Size /\ rd.avail = 1
    BY <1>0, <1>6, AtFacts
  <2>2. rd.in - 1 = Words
    BY <1>0, <1>6
  <2>3. b = Size
    BY <1>0, <1>3, <2>2
  <2> HIDE DEF b
  <2>4. ~(n < Size)
    BY <1>0, <2>1, <2>3
  <2> HIDE DEF n
  <2> QED BY <1>0, <1>4, <2>1, <2>4
<1> QED BY <1>0, <1>1, <1>5, <1>6

(***************************************************************************)
(* PositionRight for every size of the array and every width: what is      *)
(* counted is what was read, and the flag is first set past the end        *)
(* (CBitRead::GetNumBitsRead, GrabNextDWord).                              *)
(***************************************************************************)
THEOREM PositionIsRight == Spec => PositionRight
<1> DEFINE Past == ~rd.over /\ rd'.over =>
                      lost' /\ \E n \in Widths \cup {B} : rpos + n > Size
<1>1. ReaderInv /\ [Next]_vars => Past
  <2> SUFFICES ASSUME ReaderInv, [Next]_vars, ~rd.over, rd'.over
               PROVE  lost' /\ \E n \in Widths \cup {B} : rpos + n > Size
    OBVIOUS
  <2>1. rd' # rd /\ rd'.over # rd.over
    <3>1. rd.over \in BOOLEAN
      BY AtFacts DEF ReaderInv
    <3> QED BY <3>1
  <2>2. PICK n \in Widths \cup {B} :
           \E v \in {ReadUBitLong(rd, n), ReadSBitLong(rd, n)} : Take(n, v)
    BY <2>1, ReadOrNot
  <2>3. PICK v \in {ReadUBitLong(rd, n), ReadSBitLong(rd, n)} : Take(n, v)
    BY <2>2
  <2>4. n \in 2..W
    BY NextWidths
  <2>5. lost' /\ rpos + n > Size
    BY <2>3, <2>4, TakeStep
  <2> QED BY <2>5
<1>2. ReaderInv' => (~lost' => rpos' = GetNumBitsRead')
  <2>1. ReaderInv' => Counted'
    BY PositionCounted, PTL
  <2> QED BY <2>1 DEF Counted, GetNumBitsRead
<1>3. ReaderInv /\ [Next]_vars =>
         [(~lost' => rpos' = GetNumBitsRead') /\ Past]_vars
  <2>1. ReaderInv /\ [Next]_vars => ReaderInv'
    BY ReaderNext
  <2> HIDE DEF Past
  <2> QED BY <1>1, <1>2, <2>1
<1> QED BY <1>3, ReaderInvariant, PTL DEF Spec, PositionRight

(***************************************************************************)
(* ReadsRight for every width and every content: a number read is what the *)
(* array holds at the reader's position, within a word and across two      *)
(* (CBitRead::ReadUBitLong, ReadSBitLong).                                 *)
(***************************************************************************)
THEOREM ReadsAreRight == Spec => ReadsRight
<1> DEFINE Right == \A n \in Widths \cup {B} :
                       (rpos' = rpos + n /\ clean /\ ~lost') =>
                          \A i \in 0..(n - 1) : got'[i] = mem[rpos + i]
<1>1. ReaderInv /\ [Next]_vars => Right
  <2> SUFFICES ASSUME ReaderInv, [Next]_vars, NEW n \in Widths \cup {B},
                      rpos' = rpos + n, clean, ~lost'
               PROVE  \A i \in 0..(n - 1) : got'[i] = mem[rpos + i]
    OBVIOUS
  <2>1. n \in 2..W /\ rpos \in 0..Size /\ W \in Nat /\ Size \in Nat
    BY NextWidths, SizeFacts DEF ReaderInv, TypeOK
  <2>2. rpos' # rpos /\ rpos' # 0
    BY <2>1
  <2>3. PICK k \in Widths \cup {B} :
           \E v \in {ReadUBitLong(rd, k), ReadSBitLong(rd, k)} : Take(k, v)
    BY <2>2, ReadOrNot
  <2>4. PICK v \in {ReadUBitLong(rd, k), ReadSBitLong(rd, k)} : Take(k, v)
    BY <2>3
  <2>5. k \in 2..W
    BY NextWidths
  <2>6. rpos' = rpos + k /\ \A i \in 0..(k - 1) : got'[i] = mem[rpos + i]
    BY <2>4, <2>5, TakeStep
  <2>7. k = n
    BY <2>1, <2>5, <2>6
  <2> QED BY <2>6, <2>7
<1>2. ReaderInv /\ [Next]_vars => [Right]_vars
  <2> HIDE DEF Right
  <2> QED BY <1>1
<1> QED BY <1>2, ReaderInvariant, PTL DEF Spec, ReadsRight

-----------------------------------------------------------------------------
(* ReadString.                                                             *)

\* As long as nothing was lost, the k characters read since begin are not NUL, and
\* the first of them are in the array; nobody writes in the meantime.
StoredLen(k) == IF k < MaxLen THEN k ELSE MaxLen - 1
Reached(k) ==
    /\ rpos = begin + B * k
    /\ \A j \in 0..(k - 1) : ByteAt(mem, begin + B * j) # NUL
    /\ Len(str) = StoredLen(k)
    /\ \A j \in 1..Len(str) : str[j] = ByteAt(mem, begin + B * (j - 1))
StringInv ==
    /\ reading => todo = <<>>
    /\ reading /\ begin # -1 /\ ~lost => clean /\ \E k \in Nat : Reached(k)

\* While ReadString reads, nothing else happens.
LEMMA OnlyReadChar ==
    ASSUME StringInv, [Next]_vars, reading
    PROVE  ReadChar \/ UNCHANGED vars
<1>1. todo = <<>>
  BY DEF StringInv
<1>2. ~Operation
  BY DEF Operation
<1>3. ~WriteChar
  BY <1>1 DEF WriteChar
<1> QED BY <1>2, <1>3 DEF Next, WriteNumber, WriteList, WriteString, ResetWriteBuffer,
                          SeekBack, Receive, ResetReadBuffer, ReadNumber, ReadString

\* A character that is not lost is the one at the reader's position.
LEMMA CharRead ==
    ASSUME ReaderInv, StringInv, ReadChar, ~lost', begin # -1
    PROVE  /\ ~lost /\ clean /\ clean' /\ \E k \in Nat : Reached(k)
           /\ rpos' = rpos + B /\ mem' = mem /\ begin' = begin /\ todo' = todo
           /\ AsByte(got') = ByteAt(mem, rpos)
<1>0. /\ reading /\ Take(B, ReadSBitLong(rd, B)) /\ begin' = begin
  BY DEF ReadChar
<1>1. B \in 2..W
  BY NextWidths
<1>2. /\ ~lost /\ rpos' = rpos + B /\ (clean => clean')
      /\ (clean => \A i \in 0..(B - 1) : got'[i] = mem[rpos + i])
  BY <1>0, <1>1, TakeStep
<1>3. clean /\ \E k \in Nat : Reached(k)
  BY <1>0, <1>2, Zenon DEF StringInv
<1>4. mem' = mem /\ todo' = todo
  BY <1>0 DEF Take, writeVars
<1>5. AsByte(got') = ByteAt(mem, rpos)
  BY <1>2, <1>3 DEF AsByte, ByteAt
<1> QED BY <1>0, <1>2, <1>3, <1>4, <1>5

\* One more character: it is not NUL, and stored if there is room.
LEMMA OneMore ==
    ASSUME ReaderInv, NEW k \in Nat, Reached(k), AsByte(got') = ByteAt(mem, rpos),
           AsByte(got') # NUL, begin \in Int,
           rpos' = rpos + B, mem' = mem, begin' = begin, ReadChar
    PROVE  Reached(k + 1)'
<1> DEFINE c == AsByte(got')
           P(j) == ByteAt(mem, begin + B * j)
<1>0. /\ B \in Nat /\ MaxLen \in Nat \ {0} /\ str \in Seq(Byte) /\ Len(str) \in Nat
  BY SizeFacts, SizeAssumption DEF ReaderInv, TypeOK
<1>1. /\ rpos = begin + B * k
      /\ \A j \in 0..(k - 1) : P(j) # NUL
      /\ Len(str) = StoredLen(k)
      /\ \A j \in 1..Len(str) : str[j] = P(j - 1)
  BY DEF Reached
<1>2. P(k) = c /\ c # NUL
  BY <1>1
<1>3. rpos' = begin + B * (k + 1)
  <2>1. B * (k + 1) = B * k + B /\ B * k \in Nat
    BY <1>0
  <2> DEFINE e == B * k
             f == B * (k + 1)
  <2> HIDE DEF e, f
  <2>2. f = e + B /\ e \in Nat /\ rpos = begin + e
    BY <2>1, <1>1 DEF e, f
  <2>3. rpos' = begin + f
    BY <1>0, <2>2
  <2> QED BY <2>3 DEF f
<1>4. str' = IF c # NUL /\ Len(str) < MaxLen - 1 THEN Append(str, c) ELSE str
  BY DEF ReadChar
<1> HIDE DEF P, c
<1>5. \A j \in 0..((k + 1) - 1) : P(j) # NUL
  <2>1. \A j \in 0..((k + 1) - 1) : j \in 0..(k - 1) \/ j = k
    OBVIOUS
  <2> QED BY <1>1, <1>2, <2>1
<1>6. Len(str') = StoredLen(k + 1) /\ \A j \in 1..Len(str') : str'[j] = P(j - 1)
  <2>1. CASE k < MaxLen - 1
    <3>1. Len(str) = k /\ StoredLen(k + 1) = k + 1
      BY <1>0, <1>1, <2>1 DEF StoredLen
    <3>2. str' = Append(str, c)
      BY <1>2, <1>4, <2>1, <3>1
    <3>3. Len(str') = k + 1 /\ \A j \in 1..(k + 1) : str'[j] = IF j <= k THEN str[j] ELSE c
      BY <1>0, <3>1, <3>2
    <3>4. ASSUME NEW j \in 1..(k + 1) PROVE str'[j] = P(j - 1)
      <4>1. CASE j <= k
        <5>1. j \in 1..Len(str)
          BY <3>1, <4>1
        <5> QED BY <1>1, <3>3, <4>1, <5>1
      <4>2. CASE ~(j <= k)
        <5>1. j - 1 = k
          BY <4>2
        <5> QED BY <1>2, <3>3, <4>2, <5>1
      <4> QED BY <4>1, <4>2
    <3> QED BY <3>1, <3>3, <3>4
  <2>2. CASE ~(k < MaxLen - 1)
    <3>1. Len(str) = MaxLen - 1 /\ StoredLen(k + 1) = MaxLen - 1
      BY <1>0, <1>1, <2>2 DEF StoredLen
    <3>2. ~(Len(str) < MaxLen - 1)
      BY <1>0, <3>1
    <3>3. str' = str
      BY <1>4, <3>2
    <3> QED BY <1>1, <3>1, <3>3
  <2> QED BY <2>1, <2>2
<1>7. (\A j \in 0..((k + 1) - 1) : ByteAt(mem', begin' + B * j) # NUL)
      /\ (\A j \in 1..Len(str') : str'[j] = ByteAt(mem', begin' + B * (j - 1)))
  BY <1>5, <1>6 DEF P
<1>8. rpos' = begin' + B * (k + 1)
  BY <1>3
<1> QED BY <1>6, <1>7, <1>8 DEF Reached, StoredLen, ByteAt

\* StringInv is kept.
LEMMA StringNext == ReaderInv /\ StringInv /\ [Next]_vars => StringInv'
<1> SUFFICES ASSUME ReaderInv, StringInv, [Next]_vars PROVE StringInv'
  OBVIOUS
<1>1. CASE reading /\ ReadChar
  <2>1. todo' = todo /\ todo = <<>>
    BY <1>1 DEF ReadChar, Take, StringInv
  <2>2. ASSUME reading', begin' # -1, ~lost'
        PROVE  clean' /\ (\E k \in Nat : Reached(k))'
    <3>1. begin' = begin /\ AsByte(got') # NUL
      BY <1>1, <2>2 DEF ReadChar
    <3>2. /\ ~lost /\ clean /\ clean' /\ \E k \in Nat : Reached(k)
          /\ rpos' = rpos + B /\ mem' = mem
          /\ AsByte(got') = ByteAt(mem, rpos)
      BY <1>1, <2>2, <3>1, CharRead
    <3>3. PICK k \in Nat : Reached(k)
      BY <3>2
    <3>4. begin \in Int
      BY SizeFacts DEF ReaderInv, TypeOK
    <3>5. Reached(k + 1)'
      BY <1>1, <3>1, <3>2, <3>3, <3>4, OneMore
    <3>6. k + 1 \in Nat
      OBVIOUS
    <3> QED BY <3>2, <3>5, <3>6
  <2> QED BY <2>1, <2>2 DEF StringInv
<1>2. CASE UNCHANGED vars
  BY <1>2 DEF vars, StringInv, Reached, ByteAt
<1>3. CASE ~reading /\ ReadString
  <2>1. /\ todo = <<>> /\ str' = <<>>
        /\ begin' = IF clean /\ ~lost THEN rpos ELSE -1
        /\ todo' = todo /\ rpos' = rpos /\ lost' = lost /\ clean' = clean
    BY <1>3 DEF ReadString, Operation, readVars
  <2>2. ASSUME begin' # -1 PROVE clean' /\ (\E k \in Nat : Reached(k))'
    <3>1. clean /\ begin' = rpos
      BY <2>1, <2>2
    <3>2. rpos \in Int /\ B \in Int /\ MaxLen \in Nat \ {0}
      BY SizeFacts, SizeAssumption DEF ReaderInv, TypeOK
    <3>3. rpos' = begin' + B * 0 /\ StoredLen(0) = 0 /\ Len(str') = 0
      BY <2>1, <3>1, <3>2, EmptySeq DEF StoredLen
    <3>4. Reached(0)'
      BY <3>3 DEF Reached, StoredLen
    <3> QED BY <2>1, <3>1, <3>4
  <2> QED BY <2>1, <2>2 DEF StringInv
<1>4. CASE ~reading /\ ~ReadString /\ ~UNCHANGED vars
  <2>1. ~ReadChar
    BY <1>4 DEF ReadChar
  <2>2. reading' = reading
    BY <1>4, <2>1 DEF Next, WriteNumber, WriteList, WriteString, WriteChar,
       ResetWriteBuffer, SeekBack, Receive, ResetReadBuffer, ReadNumber, Write, textVars
  <2> QED BY <1>4, <2>2 DEF StringInv
<1>5. reading => ReadChar \/ UNCHANGED vars
  BY OnlyReadChar
<1> QED BY <1>1, <1>2, <1>3, <1>4, <1>5

\* k characters of B bits are k characters.
LEMMA CharCount == ASSUME NEW k \in Nat PROVE (B * k) \div B = k
<1>0. B \in Nat /\ 0 < B /\ B * k \in Nat
  BY SizeFacts
<1> DEFINE x == B * k
           q == x \div B
<1>1. q \in Nat /\ B * q <= x /\ x < B * q + B
  <2> HIDE DEF x
  <2> QED BY <1>0 DEF x
<1> HIDE DEF q
<1>2. B * (q + 1) = B * q + B /\ B * q \in Nat
  BY <1>0, <1>1
<1>3. CASE q < k
  <2>1. B * (q + 1) <= B * k
    BY <1>0, <1>1, <1>3
  <2> QED BY <1>0, <1>1, <1>2, <2>1
<1>4. CASE q > k
  <2>1. B * (k + 1) <= B * q /\ B * (k + 1) = B * k + B
    BY <1>0, <1>1, <1>4
  <2> QED BY <1>0, <1>1, <1>2, <2>1
<1> QED BY <1>0, <1>1, <1>3, <1>4 DEF q

(***************************************************************************)
(* StringRead for every array and every text: ReadString stops right behind*)
(* the first NUL with what is before it, cut to the array it is given      *)
(* (CBitRead::ReadString).                                                 *)
(***************************************************************************)
THEOREM StringsAreRead == Spec => StringRead
<1> DEFINE Read ==
      (reading /\ ~reading' /\ ~lost' /\ begin # -1) =>
          LET n == (rpos - begin) \div B IN
          /\ ByteAt(mem, rpos) = NUL
          /\ \A k \in 0..(n - 1) : ByteAt(mem, begin + B * k) # NUL
          /\ str' = [k \in 1..(IF n < MaxLen THEN n ELSE MaxLen - 1) |->
                        ByteAt(mem, begin + B * (k - 1))]
<1>1. ReaderInv /\ StringInv /\ [Next]_vars => Read
  <2> SUFFICES ASSUME ReaderInv, StringInv, [Next]_vars,
                      reading, ~reading', ~lost', begin # -1
               PROVE  LET n == (rpos - begin) \div B IN
                      /\ ByteAt(mem, rpos) = NUL
                      /\ \A k \in 0..(n - 1) : ByteAt(mem, begin + B * k) # NUL
                      /\ str' = [k \in 1..(IF n < MaxLen THEN n ELSE MaxLen - 1) |->
                                    ByteAt(mem, begin + B * (k - 1))]
    OBVIOUS
  <2>1. ReadChar
    <3>1. ReadChar \/ UNCHANGED vars
      BY OnlyReadChar
    <3>2. ~UNCHANGED vars
      BY DEF vars
    <3> QED BY <3>1, <3>2
  <2>2. AsByte(got') = NUL /\ str' = str
    BY <2>1 DEF ReadChar
  <2>3. (\E k \in Nat : Reached(k)) /\ AsByte(got') = ByteAt(mem, rpos)
    BY <2>1, CharRead
  <2>4. PICK k \in Nat : Reached(k)
    BY <2>3
  <2>5. /\ rpos = begin + B * k
        /\ \A j \in 0..(k - 1) : ByteAt(mem, begin + B * j) # NUL
        /\ Len(str) = StoredLen(k)
        /\ \A j \in 1..Len(str) : str[j] = ByteAt(mem, begin + B * (j - 1))
    BY <2>4 DEF Reached
  <2>6. (rpos - begin) \div B = k
    <3>1. begin \in Int /\ B * k \in Int
      BY SizeFacts DEF ReaderInv, TypeOK
    <3>2. rpos - begin = B * k
      <4> DEFINE e == B * k
      <4> HIDE DEF e
      <4>1. rpos = begin + e /\ e \in Int
        BY <2>5, <3>1 DEF e
      <4>2. rpos - begin = e
        BY <3>1, <4>1
      <4> QED BY <4>2 DEF e
    <3> QED BY <3>2, CharCount
  <2>7. str = [j \in 1..StoredLen(k) |-> ByteAt(mem, begin + B * (j - 1))]
    <3>1. str \in [1..Len(str) -> Byte]
      BY LenProperties DEF ReaderInv, TypeOK
    <3>2. str = [j \in 1..Len(str) |-> str[j]]
      BY <3>1
    <3> QED BY <2>5, <3>2
  <2> QED BY <2>2, <2>3, <2>5, <2>6, <2>7 DEF StoredLen
<1>2. ReaderInv /\ StringInv /\ [Next]_vars => [Read]_vars
  <2> HIDE DEF Read
  <2> QED BY <1>1
<1>3. Init => StringInv
  BY DEF Init, StringInv
<1> QED BY <1>2, <1>3, ReaderInit, ReaderNext, StringNext, PTL DEF Spec, StringRead
=============================================================================
